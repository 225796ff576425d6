-------------------------------- MODULE Mtask --------------------------------
(***************************************************************************)
(* The scheduler of mtask.cpp together with the code that drives it: the   *)
(* kernel's event loop (kernel.cpp:328-543), the terminal tasks            *)
(* (terminal.cpp), the key interrupt (ps2.cpp:3-7) and the expiry of the   *)
(* task-switch timer (timer.cpp:24-27).                                    *)
(*                                                                         *)
(* One processor runs the task `current`.  `tasks` is the run queue, a     *)
(* fifo of task pointers whose front is the running task.  task::run()     *)
(* appends its task whether or not it is queued already, and every write   *)
(* to a task's own fifo calls run() (fifo.cpp:19), so a task has one entry *)
(* for each word it was sent; task::sleep() gives up one of them.          *)
(*                                                                         *)
(* An interrupt is taken only where IF=1.  Code between two interrupts is  *)
(* one action; pc[t] says where task t is between its actions:             *)
(*   Ta         "loop"  top of the event loop, after its cli   (IF=0)      *)
(*              "idle"  sti; hlt                               (IF=1)      *)
(*              "draw"  trefreshsub after sti, kernel.cpp:528  (IF=1)      *)
(*              "rotate" the loop of sleep() on another task   (IF=0)      *)
(*   terminals  "none"  no such task yet                                   *)
(*              "start" run() was called, first instruction    (IF=1)      *)
(*              "make"  drawing its window, not yet its owner  (IF=0)      *)
(*              "busy"  running a command                      (IF=0)      *)
(*              "open"  in an application or a disk read       (IF=1)      *)
(*              "getc"  top of the loop of getc                (IF=0)      *)
(*                                                                         *)
(* kernelbuf holds messages here, and a task's fifo keys: that their words *)
(* stay together is the subject of KernelBuf.  The queues are sequences,   *)
(* as Fifo shows a ring to be while it is not full.                        *)
(***************************************************************************)
EXTENDS Integers, Sequences

CONSTANTS Ta,         \* the main task, which runs the event loop
          Terminals,  \* the tasks that key 7 can start
          NoTask,     \* the null pointer
          MaxKeys,    \* bound: key interrupts in a behaviour
          MaxWork     \* bound: refreshes and IF=1 sections of a command

ASSUME TasksAssumption == /\ Ta \notin Terminals
                          /\ NoTask \notin Terminals
                          /\ NoTask # Ta
ASSUME BoundsAssumption == MaxKeys \in Nat /\ MaxWork \in Nat

Task == Terminals \cup {Ta}

VARIABLES tasks,      \* the run queue
          current,    \* the task whose context is loaded
          awake,      \* awake[t]: bit 0 of t's flags
          f,          \* f[t]: the keys in t's fifo
          pc,         \* pc[t]: where t is, see above
          work,       \* work[t]: refreshes and IF=1 sections t still goes through
          kernelbuf,  \* the messages for the event loop
          fo,         \* the event loop's fo: a refresh was drawn
          window,     \* window[t]: t owns a window that can have the focus
          victim,     \* `this` of the sleep() under way in "rotate"
          left,       \* iterations that loop still makes
          typed       \* key interrupts so far

schedVars == <<tasks, current>>
keyVars == <<kernelbuf, typed>>
rotVars == <<window, victim, left>>
vars == <<tasks, current, awake, f, pc, work, kernelbuf, fo, window, victim, left, typed>>

Key == {"press", "release"}
Message == [kind : Key \cup {"refresh"}] \cup [kind : {"close"}, tsk : {NoTask}]

Queued(t) == \E i \in 1..Len(tasks) : tasks[i] = t

\* mtaskd::init: the boot code becomes task ta and is queued; onlyhlt is
\* created and never run.  The event loop starts with empty buffers.
Init == /\ tasks = <<Ta>>
        /\ current = Ta
        /\ awake = [t \in Task |-> t = Ta]
        /\ f = [t \in Task |-> <<>>]
        /\ pc = [t \in Task |-> IF t = Ta THEN "loop" ELSE "none"]
        /\ work = [t \in Task |-> 0]
        /\ kernelbuf = <<>>
        /\ fo = FALSE
        /\ window = [t \in Terminals |-> FALSE]
        /\ victim = NoTask
        /\ left = 0
        /\ typed = 0

\* Mutant of TaskSwitch: the task goes to the second place, not to the end.
TaskSwitchSecond(cc) ==
  LET rest == IF cc \/ Len(tasks) = 1 THEN IF cc THEN Tail(tasks) ELSE tasks
              ELSE <<tasks[2], tasks[1]>> \o SubSeq(tasks, 3, Len(tasks))
  IN  /\ tasks' = rest
      /\ current' = Head(rest)

\* mtaskd::taskswitch(cc): the front entry leaves the queue, or goes to its
\* end unless cc; the next one gets the processor.
TaskSwitch(cc) ==
  LET rest == IF cc THEN Tail(tasks) ELSE Append(Tail(tasks), Head(tasks))
  IN  /\ tasks' = rest
      /\ current' = Head(rest)

-------------------------------------------------------------------------------
(* Interrupts *)

InterruptsOn == pc[current] \in {"idle", "draw", "start", "open"}

\* hlt ends with the interrupt: the event loop is then at its top again.
Resumed == [pc EXCEPT ![Ta] = IF current = Ta /\ pc[Ta] = "idle"
                              THEN "loop" ELSE pc[Ta]]

\* ps2::keyhandle: the key goes to kernelbuf, which belongs to no task.
KeyInterrupt(k) == /\ InterruptsOn
                   /\ typed < MaxKeys
                   /\ typed' = typed + 1
                   /\ kernelbuf' = Append(kernelbuf, [kind |-> k])
                   /\ pc' = Resumed
                   /\ UNCHANGED <<schedVars, awake, f, work, fo, rotVars>>

\* timerd::timerhandle finds mt expired and calls taskswitch(); what the
\* interrupted task was doing it continues when it is switched to again.
Preempt == /\ InterruptsOn
           /\ TaskSwitch(FALSE)
           /\ pc' = Resumed
           /\ UNCHANGED <<awake, f, work, keyVars, fo, rotVars>>

-------------------------------------------------------------------------------
(* The event loop, kernel.cpp:328-543, run by Ta *)

AtLoop == current = Ta /\ pc[Ta] = "loop"

\* kernelbuf is empty: sti; hlt, or after a refresh one turn for the others.
KernelIdle == /\ AtLoop
              /\ kernelbuf = <<>>
              /\ ~fo
              /\ pc' = [pc EXCEPT ![Ta] = "idle"]
              /\ UNCHANGED <<schedVars, awake, f, work, keyVars, fo, rotVars>>

KernelYield == /\ AtLoop
               /\ kernelbuf = <<>>
               /\ fo
               /\ fo' = FALSE
               /\ TaskSwitch(FALSE)
               /\ UNCHANGED <<awake, f, pc, work, keyVars, rotVars>>

\* The next message is of one of the kinds K.
Due(K) == /\ AtLoop
            /\ kernelbuf # <<>>
            /\ Head(kernelbuf).kind \in K

\* It is taken.
Take(K) == /\ Due(K)
           /\ kernelbuf' = Tail(kernelbuf)
           /\ UNCHANGED typed

\* Mutant of KernelKeyToTask: the writes run t once more.
KernelKeyRunsThrice(t) == /\ Take(Key)
                          /\ window[t]
                          /\ f' = [f EXCEPT ![t] = Append(@, Head(kernelbuf).kind)]
                          /\ awake' = [awake EXCEPT ![t] = TRUE]
                          /\ tasks' = tasks \o <<t, t, t>>
                          /\ UNCHANGED <<current, pc, work, fo, rotVars>>

\* q==2 with the focus (nowb->owner) on terminal t: two writes to t's fifo,
\* the tag 2 and the key, each followed by t->run().
KernelKeyToTask(t) == /\ Take(Key)
                      /\ window[t]
                      /\ f' = [f EXCEPT ![t] = Append(@, Head(kernelbuf).kind)]
                      /\ awake' = [awake EXCEPT ![t] = TRUE]
                      /\ tasks' = Append(Append(tasks, t), t)
                      /\ UNCHANGED <<current, pc, work, fo, rotVars>>

\* q==2, the End key: the window's layer is deleted, whose destructor clears
\* nowb, and message 8 goes out with nowb->owner->tm, read through null pointers:
\* a terminal without a task, as in TermExit.
KernelEndKey(t) == /\ Due({"press"})
                   /\ window[t]
                   /\ window' = [window EXCEPT ![t] = FALSE]
                   /\ kernelbuf' = Append(Tail(kernelbuf), [kind |-> "close", tsk |-> NoTask])
                   /\ UNCHANGED <<schedVars, awake, f, pc, work, fo, victim, left, typed>>

\* q==2 with the focus on no task's window: the key is used here or dropped.
KernelKeyDropped == /\ Take(Key)
                    /\ UNCHANGED <<schedVars, awake, f, pc, work, fo, rotVars>>

\* q==2, key 7 without focus: new task(terminald::main), t->run().
KernelSpawn(t) == /\ Take({"press"})
                  /\ pc[t] = "none"
                  /\ pc' = [pc EXCEPT ![t] = "start"]
                  /\ awake' = [awake EXCEPT ![t] = TRUE]
                  /\ tasks' = Append(tasks, t)
                  /\ UNCHANGED <<current, f, work, fo, rotVars>>

\* q==7: fo=1, then the drawing with interrupts on.
KernelRefresh == /\ Take({"refresh"})
                 /\ fo' = TRUE
                 /\ pc' = [pc EXCEPT ![Ta] = "draw"]
                 /\ UNCHANGED <<schedVars, awake, f, work, rotVars>>

KernelDrawn == /\ current = Ta
               /\ pc[Ta] = "draw"
               /\ pc' = [pc EXCEPT ![Ta] = "loop"]
               /\ UNCHANGED <<schedVars, awake, f, work, keyVars, fo, rotVars>>

\* Mutant of KernelClose: the loop of sleep() makes one iteration too few.
KernelCloseShort == /\ Take({"close"})
                    /\ victim' = Head(kernelbuf).tsk
                    /\ left' = Len(tasks) - 1
                    /\ pc' = [pc EXCEPT ![Ta] = "rotate"]
                    /\ UNCHANGED <<schedVars, awake, f, work, fo, window>>

\* q==8: tm->tsk->sleep() on a task that is not running.
KernelClose == /\ Take({"close"})
               /\ victim' = Head(kernelbuf).tsk
               /\ left' = Len(tasks)
               /\ pc' = [pc EXCEPT ![Ta] = "rotate"]
               /\ UNCHANGED <<schedVars, awake, f, work, fo, window>>

\* One iteration of the loop in task::sleep().
RotateEntry ==
  /\ current = Ta
  /\ pc[Ta] = "rotate"
  /\ left > 0
  /\ left' = left - 1
  /\ tasks' = IF Head(tasks) = victim THEN Tail(tasks)
              ELSE Append(Tail(tasks), Head(tasks))
  /\ UNCHANGED <<current, awake, f, pc, work, keyVars, fo, window, victim>>

\* The loop is over; what the deletes of kernel.cpp:533-536 find is null too.
KernelClosed == /\ current = Ta
                /\ pc[Ta] = "rotate"
                /\ left = 0
                /\ pc' = [pc EXCEPT ![Ta] = "loop"]
                /\ UNCHANGED <<schedVars, awake, f, work, keyVars, fo, rotVars>>

KernelStep == \/ KernelIdle \/ KernelYield
              \/ \E t \in Terminals : KernelKeyToTask(t)
              \/ KernelKeyDropped
              \/ \E t \in Terminals : KernelEndKey(t)
              \/ \E t \in Terminals : KernelSpawn(t)
              \/ KernelRefresh \/ KernelDrawn
              \/ KernelClose \/ RotateEntry \/ KernelClosed

-------------------------------------------------------------------------------
(* A terminal task, terminal.cpp *)

Running(t, p) == current = t /\ pc[t] = p

\* terminald::main and terminal::m: cli, then the window is drawn.
TermStart(t) == /\ Running(t, "start")
                /\ pc' = [pc EXCEPT ![t] = "make"]
                /\ work' = [work EXCEPT ![t] = MaxWork]
                /\ UNCHANGED <<schedVars, awake, f, keyVars, fo, rotVars>>

\* w->owner=t: from here on a key can be meant for t.
TermMade(t) == /\ Running(t, "make")
               /\ pc' = [pc EXCEPT ![t] = "busy"]
               /\ window' = [window EXCEPT ![t] = TRUE]
               /\ UNCHANGED <<schedVars, awake, f, work, keyVars, fo, victim, left>>

\* layerd::refreshsub outside ta: the request goes to kernelbuf and the task
\* gives up the rest of its turn.
TermRefresh(t) == /\ current = t
                  /\ pc[t] \in {"make", "busy"}
                  /\ work[t] > 0
                  /\ work' = [work EXCEPT ![t] = @ - 1]
                  /\ kernelbuf' = Append(kernelbuf, [kind |-> "refresh"])
                  /\ TaskSwitch(FALSE)
                  /\ UNCHANGED <<awake, f, pc, typed, fo, rotVars>>

\* The command "exit": delete w->cs takes the focus away for good, and message
\* 8 goes out with the local timer* tm in place of the terminal.  The timer is
\* cleared memory, so the tsk read from it is null; the task itself goes on.
\* (A second "exit", typed ahead, would free freed memory: not followed.)
TermExit(t) == /\ Running(t, "busy")
               /\ window[t]
               /\ window' = [window EXCEPT ![t] = FALSE]
               /\ kernelbuf' = Append(kernelbuf, [kind |-> "close", tsk |-> NoTask])
               /\ UNCHANGED <<schedVars, awake, f, pc, work, typed, fo, victim, left>>

\* An application is started, or a driver executes sti.
TermOpen(t) == /\ Running(t, "busy")
               /\ work[t] > 0
               /\ work' = [work EXCEPT ![t] = @ - 1]
               /\ pc' = [pc EXCEPT ![t] = "open"]
               /\ UNCHANGED <<schedVars, awake, f, keyVars, fo, rotVars>>

\* It ends, or makes a call: interrupts are off again.
TermClosed(t) == /\ Running(t, "open")
                 /\ pc' = [pc EXCEPT ![t] = "busy"]
                 /\ UNCHANGED <<schedVars, awake, f, work, keyVars, fo, rotVars>>

\* The command, or the loop around it, is over: of terminal.cpp:77-284 only its
\* refreshes and IF=1 sections are left.
TermDone(t) == /\ Running(t, "busy")
               /\ work[t] = 0
               /\ pc' = [pc EXCEPT ![t] = "getc"]
               /\ UNCHANGED <<schedVars, awake, f, work, keyVars, fo, rotVars>>

\* Mutants of TermSleep: it sleeps with keys to read, or keeps its entry.
TermSleepUnread(t) == /\ Running(t, "getc")
                      /\ awake' = [awake EXCEPT ![t] = FALSE]
                      /\ TaskSwitch(TRUE)
                      /\ UNCHANGED <<f, pc, work, keyVars, fo, rotVars>>

TermSleepQueued(t) == /\ Running(t, "getc")
                      /\ f[t] = <<>>
                      /\ awake' = [awake EXCEPT ![t] = FALSE]
                      /\ TaskSwitch(FALSE)
                      /\ UNCHANGED <<f, pc, work, keyVars, fo, rotVars>>

\* getc: nothing to read, so t->sleep() with current==this.
TermSleep(t) == /\ Running(t, "getc")
                /\ f[t] = <<>>
                /\ awake' = [awake EXCEPT ![t] = FALSE]
                /\ TaskSwitch(TRUE)
                /\ UNCHANGED <<f, pc, work, keyVars, fo, rotVars>>

\* getc: a key that was released (k&0x80) is passed over, a pressed one is
\* returned and worked on.
TermRead(t) == /\ Running(t, "getc")
               /\ f[t] # <<>>
               /\ f' = [f EXCEPT ![t] = Tail(@)]
               /\ IF Head(f[t]) = "press"
                  THEN /\ pc' = [pc EXCEPT ![t] = "busy"]
                       /\ work' = [work EXCEPT ![t] = MaxWork]
                  ELSE UNCHANGED <<pc, work>>
               /\ UNCHANGED <<schedVars, awake, keyVars, fo, rotVars>>

TermStep(t) == \/ TermStart(t) \/ TermMade(t) \/ TermRefresh(t)
               \/ TermExit(t) \/ TermOpen(t) \/ TermDone(t)
               \/ TermSleep(t) \/ TermRead(t)

Next == \/ KernelStep
        \/ \E t \in Terminals : TermStep(t)
        \/ \E t \in Terminals : TermClosed(t)
        \/ \E k \in Key : KeyInterrupt(k)
        \/ Preempt

Spec == Init /\ [][Next]_vars

\* The processor executes instructions: a slice is one to two ticks of 10 ms,
\* so a task that is given the processor again and again gets on with its work
\* (strong fairness).  The timer interrupt, which the interrupt controller keeps
\* pending, comes where IF=1 (Timers shows that mt is always armed).  How long
\* an application runs is its own affair.
FairSpec == /\ Spec
            /\ SF_vars(KernelStep)
            /\ \A t \in Terminals : SF_vars(TermStep(t))
            /\ WF_vars(Preempt)

\* The applications, too, end if they are given turns.
AppsEnd == \A t \in Terminals : SF_vars(TermClosed(t))

-------------------------------------------------------------------------------
(* Properties *)

TypeOK ==
  /\ tasks \in Seq(Task)
  /\ current \in Task
  /\ awake \in [Task -> BOOLEAN]
  /\ f \in [Task -> Seq(Key)]
  /\ pc \in [Task -> {"loop", "idle", "draw", "rotate", "none", "start",
                      "make", "busy", "open", "getc"}]
  /\ work \in [Task -> 0..MaxWork]
  /\ kernelbuf \in Seq(Message)
  /\ fo \in BOOLEAN
  /\ window \in [Terminals -> BOOLEAN]
  /\ victim = NoTask
  /\ left \in Nat
  /\ typed \in 0..MaxKeys

\* The task whose context is loaded is the one at the front of the run queue:
\* taskswitch() saves the context of the front entry and sleep() tests current,
\* and both must mean the same task.
CurrentIsFront == pc[Ta] # "rotate" => tasks # <<>> /\ Head(tasks) = current

\* The event loop is in the run queue, once: taskswitch(true) can never empty
\* the queue (fifo::front would return a stale slot), and however many wake-ups
\* are queued, keyboard and mouse get their turn in every round.
MainQueuedOnce == \E i \in 1..Len(tasks) :
                    \A j \in 1..Len(tasks) : tasks[j] = Ta <=> i = j

\* The run queue agrees with current and always has the event loop to return to
\* (mtask.cpp:27-31, 46-59).
QueueShape == CurrentIsFront /\ MainQueuedOnce

\* No wake-up is lost: a terminal with keys to read, or one that has started
\* and has not gone to sleep in getc, has an entry in the run queue.
NoLostWakeup ==
  \A t \in Terminals :
    f[t] # <<>> \/ pc[t] \in {"start", "make", "busy", "open"} => Queued(t)

\* Bit 0 of flags promises an entry in the run queue, so nobody who trusts
\* it (task::run has it set before the write) sees a task that cannot run.
AwakeQueued == \A t \in Terminals : awake[t] => Queued(t)

\* A key costs two entries of the run queue and a new terminal one, whatever
\* the order of sleeps and wake-ups: with its 128 slots the queue is safe for
\* 60 keys typed ahead, and nothing in the code stops the 64th.
EntriesPerKey == Len(tasks) <= 1 + 2 * typed

\* Everybody who is in the run queue gets the processor, even if another
\* task's application never ends and whatever is typed.
NoStarvation == \A t \in Task : Queued(t) ~> current = t

\* When nobody types any more and applications end, the surplus entries of the
\* run queue drain and every terminal sleeps: the machine goes back to its hlt.
QuietAgain == AppsEnd => <>[](tasks = <<Ta>>)
==============================================================================
