------------------------------- MODULE Timers --------------------------------
(***************************************************************************)
(* The timers of timer.cpp: a doubly linked list of pending timers, the    *)
(* interrupt handler that walks it at every tick of the PIT and unlinks    *)
(* what has expired, and timer::set(), which appends to it.                *)
(*                                                                         *)
(* The list is the pointers of the code, not a sequence, because set() is  *)
(* called on a timer that is linked already: every taskswitch() sets mt,   *)
(* and the voluntary ones (layer.cpp:112, kernel.cpp:335, mtask.cpp:48)    *)
(* do so before mt has expired.  set() clears the links of its timer and   *)
(* then finds the end of the list by walking it.                           *)
(*                                                                         *)
(* The handler and set() run with IF=0, so their loops are sequences of    *)
(* steps that nothing interrupts; pc says which loop is under way.  Where  *)
(* pc="run" the processor executes anything else.                          *)
(***************************************************************************)
EXTENDS Integers

CONSTANTS Mt,         \* mtaskd::mt, the timer of the task switch
          Others,     \* the timers of timerd::sleep
          NoTimer,    \* the null pointer
          Modulus,    \* count and timeout are taken modulo this (2^32)
          SwitchCyc,  \* switchcyc, mtask.cpp:4
          MaxDelay    \* bound: longest delay given to timerd::sleep

ASSUME PointersAssumption == Mt \notin Others /\ NoTimer \notin Others \cup {Mt}
ASSUME NumbersAssumption == /\ SwitchCyc \in Nat \ {0}
                            /\ MaxDelay \in Nat \ {0}
                            /\ Modulus \in Nat
                            /\ Modulus > SwitchCyc + MaxDelay

Timer == Others \cup {Mt}
Pointer == Timer \cup {NoTimer}

VARIABLES count,      \* ticks, modulo Modulus
          front,      \* first timer of the list
          next, prev, \* the links
          timeout,    \* value of count at which a timer expires
          fired,      \* fired[t]: bit 0 of t's flags
          waiting,    \* the timers of the sleep() calls under way
          pc,         \* "run", "walk" (timerhandle) or "seek" (set)
          cur,        \* the loop's pointer: t in "walk", tm in "seek"
          self,       \* the timer being set
          mtc,        \* timerhandle's mtc: mt is among the expired; the loops'
                      \* locals are null and false where pc="run"
          slice,      \* history: ticks since mt was last set
          switched    \* history: a task gave up the processor in its slice

links == <<front, next, prev>>
vars == <<count, front, next, prev, timeout, fired, waiting, pc, cur, self,
          mtc, slice, switched>>

\* t->set(cnt): the part before the loop that looks for the end of the list.
\* Without a list t becomes the list and the call is over.
StartSet(t, cnt) ==
  /\ timeout' = [timeout EXCEPT ![t] = (count + cnt) % Modulus]
  /\ next' = [next EXCEPT ![t] = NoTimer]
  /\ prev' = [prev EXCEPT ![t] = NoTimer]
  /\ slice' = IF t = Mt THEN 0 ELSE slice
  /\ IF front = NoTimer
     THEN /\ front' = t
          /\ pc' = "run"
          /\ cur' = NoTimer
          /\ UNCHANGED self
     ELSE /\ pc' = "seek"
          /\ cur' = front
          /\ self' = t
          /\ UNCHANGED front

\* timerd::init clears front; mtaskd::init sets mt with the list empty.
Init == /\ count = 0
        /\ front = Mt
        /\ next = [t \in Timer |-> NoTimer]
        /\ prev = [t \in Timer |-> NoTimer]
        /\ timeout = [t \in Timer |-> IF t = Mt THEN SwitchCyc ELSE 0]
        /\ fired = [t \in Timer |-> FALSE]
        /\ waiting = {}
        /\ pc = "run"
        /\ cur = NoTimer
        /\ self = NoTimer
        /\ mtc = FALSE
        /\ slice = 0
        /\ switched = FALSE

-------------------------------------------------------------------------------
(* timer::set, the loop *)

SeekNext == /\ pc = "seek"
            /\ next[cur] # NoTimer
            /\ cur' = next[cur]
            /\ UNCHANGED <<count, links, timeout, fired, waiting, pc, self, mtc, slice, switched>>

\* Mutant of SeekEnd: the last next=0 is left out.
SeekEndKeepsNext == /\ pc = "seek"
                    /\ next[cur] = NoTimer
                    /\ next' = [next EXCEPT ![cur] = self]
                    /\ prev' = [prev EXCEPT ![self] = cur]
                    /\ pc' = "run"
                    /\ cur' = NoTimer
                    /\ self' = NoTimer
                    /\ UNCHANGED <<count, front, timeout, fired, waiting, mtc, slice, switched>>

\* tm->next=this; prev=tm; next=0.  When tm is this very timer, the last
\* assignment is the one that counts.
SeekEnd == /\ pc = "seek"
           /\ next[cur] = NoTimer
           /\ next' = [next EXCEPT ![cur] = self, ![self] = NoTimer]
           /\ prev' = [prev EXCEPT ![self] = cur]
           /\ pc' = "run"
           /\ cur' = NoTimer
           /\ self' = NoTimer
           /\ UNCHANGED <<count, front, timeout, fired, waiting, mtc, slice, switched>>

-------------------------------------------------------------------------------
(* timerd::timerhandle *)

Tick == /\ pc = "run"
        /\ count' = (count + 1) % Modulus
        /\ slice' = slice + 1
        /\ pc' = "walk"
        /\ cur' = front
        /\ UNCHANGED <<links, timeout, fired, waiting, self, mtc, switched>>

Pending == /\ pc = "walk"
           /\ cur # NoTimer
           /\ count < timeout[cur]
           /\ cur' = next[cur]
           /\ UNCHANGED <<count, links, timeout, fired, waiting, pc, self, mtc, slice, switched>>

\* Mutant of Expired: the timers behind an expired first one are forgotten.
ExpiredDropsRest ==
  /\ pc = "walk"
  /\ cur # NoTimer
  /\ count >= timeout[cur]
  /\ IF prev[cur] # NoTimer
     THEN next' = [next EXCEPT ![prev[cur]] = next[cur]] /\ UNCHANGED front
     ELSE front' = NoTimer /\ UNCHANGED next
  /\ prev' = IF next[cur] # NoTimer THEN [prev EXCEPT ![next[cur]] = prev[cur]]
                                    ELSE prev
  /\ cur' = next'[cur]
  /\ fired' = [fired EXCEPT ![cur] = TRUE]
  /\ mtc' = (mtc \/ cur = Mt)
  /\ UNCHANGED <<count, timeout, waiting, pc, self, slice, switched>>

\* The expired timer is unlinked; the walk goes on from its next.
Expired ==
  /\ pc = "walk"
  /\ cur # NoTimer
  /\ count >= timeout[cur]
  /\ LET before == prev[cur]
         after == next[cur]
     IN  /\ IF before # NoTimer
            THEN next' = [next EXCEPT ![before] = after] /\ UNCHANGED front
            ELSE front' = after /\ UNCHANGED next
         /\ prev' = IF after # NoTimer THEN [prev EXCEPT ![after] = before]
                                       ELSE prev
         /\ cur' = next'[cur]
  /\ fired' = [fired EXCEPT ![cur] = TRUE]
  /\ mtc' = (mtc \/ cur = Mt)
  /\ UNCHANGED <<count, timeout, waiting, pc, self, slice, switched>>

\* Mutant of WalkEnd: taskswitch() does not set mt again.
WalkEndUnarmed == /\ pc = "walk"
                  /\ cur = NoTimer
                  /\ pc' = "run"
                  /\ mtc' = FALSE
                  /\ UNCHANGED <<count, links, timeout, fired, waiting, cur, self, slice, switched>>

\* The end of the walk: taskswitch(), whose first act is mt->set(switchcyc).
WalkEnd == /\ pc = "walk"
           /\ cur = NoTimer
           /\ IF mtc
              THEN StartSet(Mt, SwitchCyc)
              ELSE /\ pc' = "run"
                   /\ UNCHANGED <<links, timeout, cur, self, slice>>
           /\ mtc' = FALSE
           /\ UNCHANGED <<count, fired, waiting, switched>>

-------------------------------------------------------------------------------
(* The callers of set() *)

\* taskswitch() called by the running task.
VoluntarySwitch == /\ pc = "run"
                   /\ StartSet(Mt, SwitchCyc)
                   /\ switched' = TRUE
                   /\ UNCHANGED <<count, fired, waiting, mtc>>

\* timerd::sleep: a new timer, cleared by operator new, is set ...
SleepBegin(t, d) == /\ pc = "run"
                    /\ t \notin waiting
                    /\ waiting' = waiting \cup {t}
                    /\ fired' = [fired EXCEPT ![t] = FALSE]
                    /\ StartSet(t, d)
                    /\ UNCHANGED <<count, mtc, switched>>

\* Mutant of SleepEnd: the flag is not waited for.
SleepEndEarly(t) == /\ pc = "run"
                    /\ t \in waiting
                    /\ waiting' = waiting \ {t}
                    /\ UNCHANGED <<count, links, timeout, fired, pc, cur, self, mtc, slice, switched>>

\* ... and deleted when its flag is seen.
SleepEnd(t) == /\ pc = "run"
               /\ t \in waiting
               /\ fired[t]
               /\ waiting' = waiting \ {t}
               /\ UNCHANGED <<count, links, timeout, fired, pc, cur, self, mtc, slice, switched>>

Handler == Pending \/ Expired \/ WalkEnd
Seek == SeekNext \/ SeekEnd

Next == \/ Tick \/ Handler \/ Seek \/ VoluntarySwitch
        \/ \E t \in Others : SleepEnd(t) \/ \E d \in 1..MaxDelay : SleepBegin(t, d)

\* The PIT ticks for ever and loops with interrupts off are executed; ticks
\* keep coming however often tasks switch, and a task that waits for its flag
\* sees it.
FairSpec == /\ Init /\ [][Next]_vars
            /\ SF_vars(Tick)
            /\ WF_vars(Handler \/ Seek)
            /\ \A t \in Others : SF_vars(SleepEnd(t))

-------------------------------------------------------------------------------
(* Properties *)

TypeOK == /\ count \in 0..(Modulus - 1)
          /\ front \in Pointer
          /\ next \in [Timer -> Pointer]
          /\ prev \in [Timer -> Pointer]
          /\ timeout \in [Timer -> 0..(Modulus - 1)]
          /\ fired \in [Timer -> BOOLEAN]
          /\ waiting \in SUBSET Others
          /\ pc \in {"run", "walk", "seek"}
          /\ cur \in Pointer
          /\ self \in Pointer
          /\ mtc \in BOOLEAN
          /\ slice \in 0..SwitchCyc
          /\ switched \in BOOLEAN

\* S holds front and is closed under next.
ClosedList(S) == /\ front # NoTimer => front \in S
                 /\ \A t \in S : next[t] # NoTimer => next[t] \in S

Listed == {t \in Timer : \A S \in SUBSET Timer : ClosedList(S) => t \in S}

\* The slice of the running task ends: between two interrupts mt is in the list
\* and less than switchcyc ticks old, however often it was set while it was
\* linked, and also where count wraps.  On this rests that a task which never
\* gives up the processor loses it (Mtask, Preempt).
SliceEnds == TypeOK /\ (pc = "run" => Mt \in Listed /\ slice < SwitchCyc)

\* A timer that timerd::sleep has deleted is not in the list: the handler
\* never follows a pointer into freed memory.
NoFreedTimer == Listed \cap Others \subseteq waiting

\* The loops that run with interrupts off come to an end: the walks over the
\* list meet no cycle, although set() clears the links of timers that are in it.
LoopsEnd == pc # "run" ~> pc = "run"

\* A sleep() ends unless a task has given up the processor within its slice:
\* that sets mt while it is linked and cuts off the timers behind it.
SleepersWoken == \A t \in Others : t \in waiting ~> t \notin waiting \/ switched
===============================================================================
