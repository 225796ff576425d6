--------------------------------- MODULE Ring ---------------------------------
(***************************************************************************)
(* A transfer or command ring of xhci.cpp: class CR, whose push() the      *)
(* driver calls (xhci.cpp:6-19, xhci.h:342-358), and the controller that   *)
(* fetches from it.  There is no shared count: a TRB is the controller's   *)
(* as long as its cycle bit is the controller's cycle state.  The last     *)
(* entry is a link TRB, with which the controller goes back to entry 0 and *)
(* toggles its cycle state.                                                *)
(*                                                                         *)
(* The controller is external: it fetches at any time while it runs, stops *)
(* at a TRB that is not its own, and runs again after a doorbell.  push()  *)
(* does not ask how far the controller is: Room is an assumption about     *)
(* its callers, which have a few TRBs under way on a ring of 29.  One task *)
(* at a time pushes to a ring.                                             *)
(***************************************************************************)
EXTENDS Integers

CONSTANTS Trb,      \* what a TRB asks for
          Zero,     \* the TRB of cleared memory
          Last,     \* index of the link TRB (29)
          Burst     \* the most TRBs of one transfer: controltrans() has 3

ASSUME TrbAssumption == Zero \in Trb
ASSUME SizeAssumption == /\ Burst \in Nat \ {0}
                         /\ Last \in Nat /\ Last > Burst

VARIABLES ring,     \* ring[i]: the cycle bit and the request of entry i
          wp, c,    \* the fields of class CR
          pc,       \* "idle", "push", "link" or "bell": where the driver is
          left,     \* TRBs of its transfer that it has not pushed yet
          deq,      \* the entry the controller looks at next
          ccs,      \* its cycle state
          running,  \* it was rung and has not stopped since
          got       \* the request it fetched last

driver == <<wp, c, pc, left>>
controller == <<deq, ccs, running, got>>
vars == <<ring, driver, controller>>

Bit == {0, 1}
Entry == 0..Last

\* How many TRBs the driver has pushed and the controller has not fetched.  The
\* driver is on the controller's lap, or one lap ahead.
Pending == IF c = ccs THEN wp - deq ELSE Last - deq + wp

Room(n) == Pending + n < Last

\* Mutant of Init: the ring starts on the wrong lap.
InitOtherLap == /\ ring = [i \in Entry |-> [c |-> 0, trb |-> Zero]]
                /\ wp = 0 /\ c = 0 /\ pc = "idle" /\ left = 0
                /\ deq = 0 /\ ccs = 1 /\ running = FALSE /\ got = Zero

\* CR::CR clears the ring and sets c; crcr or trdp gives the controller the
\* ring's address with cycle state 1.
Init == /\ ring = [i \in Entry |-> [c |-> 0, trb |-> Zero]]
        /\ wp = 0 /\ c = 1 /\ pc = "idle" /\ left = 0
        /\ deq = 0 /\ ccs = 1 /\ running = FALSE /\ got = Zero

-------------------------------------------------------------------------------
(* The driver: one transfer or command is n calls of push() and a doorbell  *)

Start(n) == /\ pc = "idle"
            /\ Room(n)
            /\ pc' = "push"
            /\ left' = n
            /\ UNCHANGED <<ring, wp, c, controller>>

AfterPush(rest) == IF rest = 0 THEN "bell" ELSE "push"

Push(t) == /\ pc = "push"
           /\ ring' = [ring EXCEPT ![wp] = [c |-> c, trb |-> t]]
           /\ wp' = wp + 1
           /\ left' = left - 1
           /\ pc' = IF wp' = Last THEN "link" ELSE AfterPush(left')
           /\ UNCHANGED <<c, controller>>

\* Mutants of PushLink: the link TRB gets the cycle bit of the next lap; the
\* ring's cycle bit is not toggled.
PushLinkAfter == /\ pc = "link"
                 /\ ring' = [ring EXCEPT ![Last] = [c |-> 1 - c, trb |-> Zero]]
                 /\ c' = 1 - c
                 /\ wp' = 0
                 /\ pc' = AfterPush(left)
                 /\ UNCHANGED <<left, controller>>

PushLinkSameLap == /\ pc = "link"
                   /\ ring' = [ring EXCEPT ![Last] = [c |-> c, trb |-> Zero]]
                   /\ wp' = 0
                   /\ pc' = AfterPush(left)
                   /\ UNCHANGED <<c, left, controller>>

\* wp is Last: the link TRB, still of this lap, and the next lap begins.
PushLink == /\ pc = "link"
            /\ ring' = [ring EXCEPT ![Last] = [c |-> c, trb |-> Zero]]
            /\ c' = 1 - c
            /\ wp' = 0
            /\ pc' = AfterPush(left)
            /\ UNCHANGED <<left, controller>>

Doorbell == /\ pc = "bell"
            /\ pc' = "idle"
            /\ running' = TRUE
            /\ UNCHANGED <<ring, wp, c, left, deq, ccs, got>>

-------------------------------------------------------------------------------
(* The controller *)

Mine(i) == ring[i].c = ccs

Fetch == /\ running
         /\ deq # Last /\ Mine(deq)
         /\ got' = ring[deq].trb
         /\ deq' = deq + 1
         /\ UNCHANGED <<ring, driver, ccs, running>>

FollowLink == /\ running
              /\ deq = Last /\ Mine(Last)
              /\ deq' = 0
              /\ ccs' = 1 - ccs
              /\ UNCHANGED <<ring, driver, running, got>>

Stop == /\ running
        /\ ~Mine(deq)
        /\ running' = FALSE
        /\ UNCHANGED <<ring, driver, deq, ccs, got>>

Transfer == (\E t \in Trb : Push(t)) \/ PushLink \/ Doorbell
Controller == Fetch \/ FollowLink \/ Stop

Next == (\E n \in 1..Burst : Start(n)) \/ Transfer \/ Controller

Spec == Init /\ [][Next]_vars

\* push() and the doorbell are straight-line code; the controller works.
FairSpec == Spec /\ WF_vars(Transfer) /\ WF_vars(Controller)

-------------------------------------------------------------------------------
(* Properties *)

TypeOK == /\ ring \in [Entry -> [c : Bit, trb : Trb]]
          /\ wp \in Entry /\ (wp = Last => pc = "link")
          /\ c \in Bit
          /\ pc \in {"idle", "push", "link", "bell"}
          /\ left \in 0..Burst
          /\ deq \in Entry
          /\ ccs \in Bit
          /\ running \in BOOLEAN
          /\ got \in Trb

\* The entry of the i-th pending TRB.
Index(i) == IF deq + i - 1 < Last THEN deq + i - 1 ELSE deq + i - 1 - Last

\* The cycle bits alone tell the controller what push() has given it
\* (xhci.cpp:7, 15-16): the entries it has not reached on this lap are its own
\* exactly if they are pending, those behind it carry the next lap's bit
\* exactly if they are, and the link is open exactly if the driver is a lap
\* ahead.
Ownership == /\ Pending \in 0..(Last - 1)
             /\ \A i \in 0..(Last - 1) :
                  LET pending == \E k \in 1..Pending : Index(k) = i
                  IN  IF i >= deq THEN Mine(i) <=> pending ELSE Mine(i) <=> ~pending
             /\ Mine(Last) <=> c # ccs

Queue == INSTANCE FifoQueue WITH
           Word <- Trb, Size <- Last - 1,
           n <- Pending, q <- [i \in 1..Pending |-> ring[Index(i)].trb], rd <- got

\* Across any number of laps the ring is a first-in first-out queue from the
\* driver to the controller: no request is fetched twice, skipped or fetched
\* before it was pushed.
ImplementsQueue == Queue!Spec

\* A request that was pushed is fetched: the controller comes to rest at no
\* entry, and not at the link, while TRBs are pending.
AllFetched == []<>(Pending = 0) \/ []<><<deq' # deq>>_deq
===============================================================================
