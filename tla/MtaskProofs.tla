----------------------------- MODULE MtaskProofs -----------------------------
(***************************************************************************)
(* Proofs about Mtask, for every set of terminals, every number of keys    *)
(* and any amount of work per command, and about Context, for every set of *)
(* tasks and any number of applications.                                   *)
(***************************************************************************)
EXTENDS Mtask, Context, FiniteSetTheorems, SequenceTheorems, TLAPS

\* Ta occurs in the queue s once; t occurs in s.
Once(s) == \E i \in 1..Len(s) : \A j \in 1..Len(s) : s[j] = Ta <=> i = j
In(t, s) == \E i \in 1..Len(s) : s[i] = t

\* The front entry goes to the end of the queue.
Rotated(s) == Append(Tail(s), Head(s))

-------------------------------------------------------------------------------
(* What the operations on the run queue do to the entries of a task *)

\* Ta is at place k and nowhere else.
LEMMA OnceAt ==
  ASSUME NEW s, NEW k \in 1..Len(s), \A j \in 1..Len(s) : s[j] = Ta <=> k = j
  PROVE  Once(s)
  BY Zenon DEF Once

\* Rotation moves every entry one place forward and the first to the end.
LEMMA RotatedSeq ==
  ASSUME NEW s \in Seq(Task), s # <<>>
  PROVE  /\ Rotated(s) \in Seq(Task)
         /\ Rotated(s) # <<>>
         /\ Len(Rotated(s)) = Len(s)
         /\ Len(s) \in Nat \ {0}
         /\ \A i \in 1..(Len(s) - 1) : Rotated(s)[i] = s[i + 1]
         /\ Rotated(s)[Len(s)] = s[1]
         /\ Head(Rotated(s)) \in Task
         /\ Head(s) = s[1]
<1> DEFINE q == Tail(s)
<1>1. /\ q \in Seq(Task) /\ Len(q) = Len(s) - 1 /\ Len(s) \in Nat \ {0}
      /\ \A i \in 1..(Len(s) - 1) : q[i] = s[i + 1]
      /\ Head(s) = s[1] /\ Head(s) \in Task
  OBVIOUS
<1> HIDE DEF q
<1>2. /\ Append(q, Head(s)) \in Seq(Task)
      /\ Len(Append(q, Head(s))) = Len(s)
      /\ \A i \in 1..(Len(s) - 1) : Append(q, Head(s))[i] = s[i + 1]
      /\ Append(q, Head(s))[Len(s)] = s[1]
  BY <1>1
<1>3. Rotated(s) = Append(q, Head(s))
  BY DEF Rotated, q
<1> HIDE DEF q
<1>4. /\ Rotated(s) # <<>>
      /\ Head(Rotated(s)) \in Task
  <2> DEFINE r == Rotated(s)
  <2>1. r \in Seq(Task) /\ Len(r) \in Nat \ {0}
    BY <1>1, <1>2, <1>3
  <2> HIDE DEF r
  <2>2. r # <<>> /\ Head(r) \in Task
    BY <2>1
  <2> QED BY <2>2 DEF r
<1> QED BY <1>1, <1>2, <1>3, <1>4

LEMMA RotatedOnce ==
  ASSUME NEW s \in Seq(Task), s # <<>>, Once(s)
  PROVE  Once(Rotated(s))
<1> DEFINE r == Rotated(s)
           n == Len(s)
<1>1. /\ Len(r) = n /\ n \in Nat \ {0} /\ r[n] = s[1]
      /\ \A i \in 1..(n - 1) : r[i] = s[i + 1]
  BY RotatedSeq
<1> HIDE DEF r, n
<1>2. PICK i \in 1..n : \A j \in 1..n : s[j] = Ta <=> i = j
  BY DEF Once, n
<1>3. CASE i = 1
  <2>1. \A j \in 1..n : r[j] = Ta <=> n = j
    BY <1>1, <1>2, <1>3
  <2>2. n \in 1..n
    BY <1>1
  <2> QED BY <1>1, <2>1, <2>2, OnceAt DEF r
<1>4. CASE i # 1
  <2>1. \A j \in 1..n : r[j] = Ta <=> i - 1 = j
    BY <1>1, <1>2, <1>4
  <2>2. i - 1 \in 1..n
    BY <1>1, <1>4
  <2> QED BY <1>1, <2>1, <2>2, OnceAt DEF r
<1> QED BY <1>3, <1>4

LEMMA RotatedIn ==
  ASSUME NEW s \in Seq(Task), s # <<>>, NEW t, In(t, s)
  PROVE  In(t, Rotated(s))
<1> DEFINE r == Rotated(s)
           n == Len(s)
<1>1. /\ Len(r) = n /\ n \in Nat \ {0} /\ r[n] = s[1]
      /\ \A i \in 1..(n - 1) : r[i] = s[i + 1]
  BY RotatedSeq
<1> HIDE DEF r, n
<1>2. PICK i \in 1..n : s[i] = t
  BY DEF In, n
<1>3. CASE i = 1
  BY <1>1, <1>2, <1>3 DEF In, r
<1>4. CASE i # 1
  <2>1. i - 1 \in 1..(n - 1) /\ r[i - 1] = s[i]
    BY <1>1, <1>4
  <2> QED BY <1>1, <1>2, <2>1 DEF In, r
<1> QED BY <1>3, <1>4

\* A terminal's new entry leaves the others where they are.
LEMMA AppendFacts ==
  ASSUME NEW s \in Seq(Task), NEW t \in Terminals
  PROVE  /\ Append(s, t) \in Seq(Task)
         /\ Len(Append(s, t)) = Len(s) + 1
         /\ Once(s) => Once(Append(s, t))
         /\ \A u : In(u, s) => In(u, Append(s, t))
         /\ In(t, Append(s, t))
         /\ s # <<>> => Append(s, t) # <<>> /\ Head(Append(s, t)) = Head(s)
<1> DEFINE r == Append(s, t)
           n == Len(s)
<1>1. /\ r \in Seq(Task) /\ Len(r) = n + 1 /\ n \in Nat /\ r[n + 1] = t
      /\ \A i \in 1..n : r[i] = s[i]
      /\ s # <<>> => r # <<>> /\ Head(r) = Head(s)
  BY DEF Task
<1> HIDE DEF r, n
<1>2. ASSUME Once(s) PROVE Once(r)
  <2>1. PICK i \in 1..n : \A j \in 1..n : s[j] = Ta <=> i = j
    BY <1>2 DEF Once, n
  <2>2. i \in 1..(n + 1) /\ \A j \in 1..(n + 1) : r[j] = Ta <=> i = j
    BY <1>1, <2>1, TasksAssumption
  <2>3. i \in 1..Len(r) /\ \A j \in 1..Len(r) : r[j] = Ta <=> i = j
    BY <1>1, <2>2
  <2> QED BY <2>3, OnceAt
<1>3. ASSUME NEW u, In(u, s) PROVE In(u, r)
  <2>1. PICK i \in 1..n : s[i] = u
    BY <1>3 DEF In, n
  <2> QED BY <1>1, <2>1 DEF In
<1>4. In(t, r)
  BY <1>1 DEF In
<1> QED BY <1>1, <1>2, <1>3, <1>4 DEF r, n

\* A terminal that gives up the front entry takes nobody else's.
LEMMA TailFacts ==
  ASSUME NEW s \in Seq(Task), s # <<>>, Head(s) # Ta, Once(s)
  PROVE  /\ Tail(s) \in Seq(Task)
         /\ Tail(s) # <<>>
         /\ Head(Tail(s)) \in Task
         /\ Once(Tail(s))
         /\ \A u : In(u, s) /\ u # Head(s) => In(u, Tail(s))
<1> DEFINE r == Tail(s)
           n == Len(s)
<1>1. /\ r \in Seq(Task) /\ n \in Nat \ {0} /\ Len(r) = n - 1
      /\ \A i \in 1..(n - 1) : r[i] = s[i + 1]
      /\ Head(s) = s[1]
  OBVIOUS
<1> HIDE DEF r, n
<1>2. PICK i \in 1..n : \A j \in 1..n : s[j] = Ta <=> i = j
  BY DEF Once, n
<1>3. i # 1
  BY <1>1, <1>2
<1>4. i - 1 \in 1..(n - 1) /\ \A j \in 1..(n - 1) : r[j] = Ta <=> i - 1 = j
  BY <1>1, <1>2, <1>3
<1>5. Once(r)
  <2>1. i - 1 \in 1..Len(r) /\ \A j \in 1..Len(r) : r[j] = Ta <=> i - 1 = j
    BY <1>1, <1>4
  <2> QED BY <2>1, OnceAt
<1>6. r # <<>> /\ Head(r) \in Task
  BY <1>1, <1>4
<1>7. ASSUME NEW u, In(u, s), u # Head(s) PROVE In(u, r)
  <2>1. PICK k \in 1..n : s[k] = u
    BY <1>7 DEF In, n
  <2>2. k - 1 \in 1..(n - 1) /\ r[k - 1] = u
    BY <1>1, <1>7, <2>1
  <2> QED BY <1>1, <2>2 DEF In
<1> QED BY <1>1, <1>5, <1>6, <1>7 DEF r

-------------------------------------------------------------------------------
(* The inductive invariant *)

\* Ta and the terminals each keep to the places of their own code.
PcInv == /\ pc[Ta] \in {"loop", "idle", "draw", "rotate"}
         /\ \A t \in Terminals : pc[t] \in {"none", "start", "make", "busy",
                                            "open", "getc"}

\* While sleep() rotates the queue it is Ta that runs, and Ta's entry is at the
\* front before the first iteration and `left` places from it afterwards: when
\* the loop is over it is at the front again.
RotateInv == pc[Ta] = "rotate" =>
               /\ current = Ta
               /\ tasks # <<>>
               /\ left \in 0..Len(tasks)
               /\ tasks[IF left = Len(tasks) THEN 1 ELSE left + 1] = Ta

QueueInv == Once(tasks) /\ CurrentIsFront /\ RotateInv

WakeInv == NoLostWakeup /\ AwakeQueued

IInv == TypeOK /\ PcInv /\ QueueInv /\ WakeInv

USE TasksAssumption, BoundsAssumption

LEMMA InitInv == Init => IInv
<1> SUFFICES ASSUME Init PROVE IInv
  OBVIOUS
<1>1. TypeOK
  <2>1. tasks \in Seq(Task) /\ current \in Task
    BY DEF Init, Task
  <2>2. awake \in [Task -> BOOLEAN] /\ window \in [Terminals -> BOOLEAN]
    BY DEF Init
  <2>3. f \in [Task -> Seq(Key)] /\ kernelbuf \in Seq(Message)
    BY DEF Init
  <2>4. pc \in [Task -> {"loop", "idle", "draw", "rotate", "none", "start",
                          "make", "busy", "open", "getc"}]
    BY DEF Init
  <2>5. work \in [Task -> 0..MaxWork]
    BY DEF Init
  <2>6. fo = FALSE /\ victim = NoTask /\ left = 0 /\ typed \in 0..MaxKeys
    BY DEF Init
  <2> QED BY <2>1, <2>2, <2>3, <2>4, <2>5, <2>6 DEF TypeOK
<1>2. PcInv
  BY DEF Init, PcInv, Task
<1>3. QueueInv
  BY DEF Init, QueueInv, Once, CurrentIsFront, RotateInv, Task
<1>4. WakeInv
  BY DEF Init, WakeInv, NoLostWakeup, AwakeQueued, Task
<1> QED BY <1>1, <1>2, <1>3, <1>4 DEF IInv

-------------------------------------------------------------------------------
(* Types *)

\* taskswitch() leaves a queue of tasks and loads the context of one.
LEMMA SwitchTypes ==
  ASSUME tasks \in Seq(Task), tasks # <<>>, TaskSwitch(FALSE)
  PROVE  tasks' = Rotated(tasks) /\ tasks' \in Seq(Task) /\ current' \in Task
  BY RotatedSeq DEF TaskSwitch, Rotated

\* Taking a message leaves a queue of messages.
LEMMA TakeTypes ==
  ASSUME TypeOK, NEW K, Take(K)
  PROVE  /\ kernelbuf' \in Seq(Message)
         /\ Head(kernelbuf) \in Message
         /\ Head(kernelbuf).kind \in K
         /\ typed' = typed
         /\ current = Ta /\ pc[Ta] = "loop"
  BY DEF TypeOK, Take, Due, AtLoop

\* Every step keeps the types.
LEMMA StepTypes == ASSUME IInv, [Next]_vars PROVE TypeOK'
<1>0. tasks # <<>>
  BY DEF IInv, QueueInv, CurrentIsFront, RotateInv
<1>1. TypeOK
  BY DEF IInv
<1>m. /\ \A k \in Key : [kind |-> k] \in Message
      /\ [kind |-> "refresh"] \in Message
      /\ [kind |-> "close", tsk |-> NoTask] \in Message
  BY DEF Message
<1> USE <1>1 DEF schedVars, keyVars, rotVars
<1>2. ASSUME NEW k \in Key, KeyInterrupt(k) PROVE TypeOK'
  <2>1. kernelbuf' \in Seq(Message)
    BY <1>2, <1>m DEF KeyInterrupt, TypeOK
  <2>2. typed' \in 0..MaxKeys
    BY <1>2 DEF KeyInterrupt, TypeOK
  <2> QED BY <1>2, <2>1, <2>2 DEF KeyInterrupt, Resumed, TypeOK
<1>3. CASE Preempt
  <2>1. tasks' \in Seq(Task) /\ current' \in Task
    BY <1>0, <1>3, SwitchTypes DEF Preempt, TypeOK
  <2> QED BY <1>3, <2>1 DEF Preempt, Resumed, TypeOK
<1>4. CASE KernelIdle
  BY <1>4 DEF KernelIdle, TypeOK
<1>5. CASE KernelYield
  <2>1. tasks' \in Seq(Task) /\ current' \in Task
    BY <1>0, <1>5, SwitchTypes DEF KernelYield, TypeOK
  <2> QED BY <1>5, <2>1 DEF KernelYield, TypeOK
<1>6. ASSUME NEW t \in Terminals, KernelKeyToTask(t) PROVE TypeOK'
  <2>1. kernelbuf' \in Seq(Message) /\ Head(kernelbuf).kind \in Key /\ typed' = typed
    BY <1>6, TakeTypes DEF KernelKeyToTask
  <2>2. tasks' \in Seq(Task)
    BY <1>6, AppendFacts DEF KernelKeyToTask, TypeOK
  <2>3. f' \in [Task -> Seq(Key)]
    BY <1>6, <2>1 DEF KernelKeyToTask, TypeOK, Task
  <2> QED BY <1>6, <2>1, <2>2, <2>3 DEF KernelKeyToTask, TypeOK
<1>7. CASE KernelKeyDropped
  <2>1. kernelbuf' \in Seq(Message) /\ typed' = typed
    BY <1>7, TakeTypes DEF KernelKeyDropped
  <2> QED BY <1>7, <2>1 DEF KernelKeyDropped, TypeOK
<1>8. ASSUME NEW t \in Terminals, KernelSpawn(t) PROVE TypeOK'
  <2>1. kernelbuf' \in Seq(Message) /\ typed' = typed
    BY <1>8, TakeTypes DEF KernelSpawn
  <2>2. tasks' \in Seq(Task)
    BY <1>8, AppendFacts DEF KernelSpawn, TypeOK
  <2> QED BY <1>8, <2>1, <2>2 DEF KernelSpawn, TypeOK
<1>9. CASE KernelRefresh
  <2>1. kernelbuf' \in Seq(Message) /\ typed' = typed
    BY <1>9, TakeTypes DEF KernelRefresh
  <2> QED BY <1>9, <2>1 DEF KernelRefresh, TypeOK
<1>10. CASE KernelDrawn
  BY <1>10 DEF KernelDrawn, TypeOK
<1>11. CASE KernelClose
  <2>1. /\ kernelbuf' \in Seq(Message) /\ typed' = typed
        /\ Head(kernelbuf) \in Message /\ Head(kernelbuf).kind = "close"
    BY <1>11, TakeTypes DEF KernelClose
  <2>2. Head(kernelbuf).tsk = NoTask
    BY <2>1 DEF Message, Key
  <2>3. Len(tasks) \in Nat
    BY DEF TypeOK
  <2> QED BY <1>11, <2>1, <2>2, <2>3 DEF KernelClose, TypeOK
<1>12. CASE RotateEntry
  <2>1. tasks' \in Seq(Task)
    BY <1>0, <1>12, RotatedSeq DEF RotateEntry, Rotated, TypeOK
  <2> QED BY <1>12, <2>1 DEF RotateEntry, TypeOK
<1>13. CASE KernelClosed
  BY <1>13 DEF KernelClosed, TypeOK
<1>14. ASSUME NEW t \in Terminals, TermStart(t) PROVE TypeOK'
  BY <1>14 DEF TermStart, Running, TypeOK
<1>15. ASSUME NEW t \in Terminals, TermMade(t) PROVE TypeOK'
  BY <1>15 DEF TermMade, Running, TypeOK
<1>16. ASSUME NEW t \in Terminals, TermRefresh(t) PROVE TypeOK'
  <2>1. tasks' \in Seq(Task) /\ current' \in Task
    BY <1>0, <1>16, SwitchTypes DEF TermRefresh, TypeOK
  <2>2. kernelbuf' \in Seq(Message)
    BY <1>16, <1>m DEF TermRefresh, TypeOK
  <2>3. work' \in [Task -> 0..MaxWork]
    BY <1>16 DEF TermRefresh, TypeOK, Task
  <2> QED BY <1>16, <2>1, <2>2, <2>3 DEF TermRefresh, TypeOK
<1>17. ASSUME NEW t \in Terminals, TermExit(t) PROVE TypeOK'
  BY <1>17, <1>m DEF TermExit, TypeOK
<1>18. ASSUME NEW t \in Terminals, TermOpen(t) PROVE TypeOK'
  <2>1. work' \in [Task -> 0..MaxWork]
    BY <1>18 DEF TermOpen, TypeOK, Task
  <2> QED BY <1>18, <2>1 DEF TermOpen, TypeOK
<1>19. ASSUME NEW t \in Terminals, TermDone(t) PROVE TypeOK'
  BY <1>19 DEF TermDone, TypeOK
<1>20. ASSUME NEW t \in Terminals, TermSleep(t) PROVE TypeOK'
  <2>1. Head(tasks) = t /\ Once(tasks)
    BY <1>20 DEF IInv, QueueInv, RotateInv, CurrentIsFront, TermSleep, Running
  <2>2. tasks' \in Seq(Task) /\ current' \in Task
    BY <1>0, <1>20, <2>1, TailFacts DEF TermSleep, TaskSwitch, TypeOK
  <2> QED BY <1>20, <2>2 DEF TermSleep, TypeOK
<1>21. ASSUME NEW t \in Terminals, TermRead(t) PROVE TypeOK'
  <2>1. f' \in [Task -> Seq(Key)]
    BY <1>21 DEF TermRead, TypeOK, Task
  <2>2. \/ pc' = pc /\ work' = work
        \/ pc' = [pc EXCEPT ![t] = "busy"] /\ work' = [work EXCEPT ![t] = MaxWork]
    BY <1>21 DEF TermRead
  <2>3. pc' \in [Task -> {"loop", "idle", "draw", "rotate", "none", "start",
                          "make", "busy", "open", "getc"}]
    BY <2>2 DEF TypeOK
  <2>4. work' \in [Task -> 0..MaxWork]
    <3>1. MaxWork \in 0..MaxWork /\ work \in [Task -> 0..MaxWork]
      BY DEF TypeOK
    <3> QED BY <2>2, <3>1
  <2> QED BY <1>21, <2>1, <2>3, <2>4 DEF TermRead, TypeOK
<1>22. ASSUME NEW t \in Terminals, TermClosed(t) PROVE TypeOK'
  BY <1>22 DEF TermClosed, TypeOK
<1>23. ASSUME NEW t \in Terminals, KernelEndKey(t) PROVE TypeOK'
  <2>1. kernelbuf # <<>> /\ kernelbuf \in Seq(Message)
    BY <1>23 DEF KernelEndKey, Due, TypeOK
  <2>2. Tail(kernelbuf) \in Seq(Message)
    BY <2>1
  <2>3. kernelbuf' \in Seq(Message)
    BY <1>23, <1>m, <2>2 DEF KernelEndKey
  <2> QED BY <1>23, <2>3 DEF KernelEndKey, TypeOK
<1>24. CASE UNCHANGED vars
  BY <1>24 DEF vars, TypeOK
<1> QED
  BY <1>2, <1>3, <1>4, <1>5, <1>6, <1>7, <1>8, <1>9, <1>10, <1>11, <1>12, <1>13,
     <1>14, <1>15, <1>16, <1>17, <1>18, <1>19, <1>20, <1>21, <1>22, <1>23, <1>24
     DEF Next, KernelStep, TermStep

-------------------------------------------------------------------------------
(* Program counters *)

\* Every step keeps each task at a place of its own code.
LEMMA StepPc == ASSUME IInv, [Next]_vars PROVE PcInv'
<1>0. /\ pc \in [Task -> {"loop", "idle", "draw", "rotate", "none", "start",
                         "make", "busy", "open", "getc"}]
      /\ Ta \in Task /\ \A t \in Terminals : t \in Task /\ t # Ta
      /\ PcInv
  BY DEF IInv, TypeOK, Task
<1>1. ASSUME pc' = pc PROVE PcInv'
  BY <1>0, <1>1 DEF PcInv
<1>2. ASSUME NEW p \in {"loop", "idle", "draw", "rotate"}, pc' = [pc EXCEPT ![Ta] = p]
      PROVE  PcInv'
  BY <1>0, <1>2 DEF PcInv
<1>3. ASSUME NEW t \in Terminals,
             NEW p \in {"none", "start", "make", "busy", "open", "getc"},
             pc' = [pc EXCEPT ![t] = p]
      PROVE  PcInv'
  BY <1>0, <1>3 DEF PcInv
<1>4. ASSUME pc' = Resumed PROVE PcInv'
  BY <1>0, <1>4 DEF PcInv, Resumed
<1>5. CASE KernelStep
  BY <1>1, <1>2, <1>3, <1>5
     DEF KernelStep, KernelIdle, KernelYield, KernelKeyToTask, KernelEndKey,
         KernelKeyDropped, KernelSpawn, KernelRefresh, KernelDrawn, KernelClose, RotateEntry, KernelClosed
<1>6. ASSUME NEW t \in Terminals, TermStep(t) \/ TermClosed(t) PROVE PcInv'
  BY <1>1, <1>3, <1>6
     DEF TermStep, TermStart, TermMade, TermRefresh, TermExit, TermOpen, TermDone,
         TermSleep, TermRead, TermClosed
<1>7. ASSUME NEW k \in Key, KeyInterrupt(k) PROVE PcInv'
  BY <1>4, <1>7 DEF KeyInterrupt
<1>8. CASE Preempt
  BY <1>4, <1>8 DEF Preempt
<1>9. CASE UNCHANGED vars
  BY <1>1, <1>9 DEF vars
<1> QED BY <1>5, <1>6, <1>7, <1>8, <1>9 DEF Next

-------------------------------------------------------------------------------
(* The run queue *)

\* A step that leaves the queue alone and neither enters nor leaves the loop of
\* sleep() keeps the queue's invariant.
LEMMA QueueSame ==
  ASSUME QueueInv, UNCHANGED <<tasks, current, left>>,
         pc'[Ta] = "rotate" <=> pc[Ta] = "rotate"
  PROVE  QueueInv'
  BY DEF QueueInv, Once, CurrentIsFront, RotateInv

\* taskswitch() outside that loop keeps it.
LEMMA QueueSwitch ==
  ASSUME TypeOK, QueueInv, TaskSwitch(FALSE), pc[Ta] # "rotate", pc'[Ta] # "rotate"
  PROVE  QueueInv'
<1>1. tasks \in Seq(Task) /\ tasks # <<>> /\ Once(tasks)
  BY DEF TypeOK, QueueInv, CurrentIsFront
<1>2. tasks' = Rotated(tasks) /\ current' = Head(Rotated(tasks))
  BY DEF TaskSwitch, Rotated
<1>3. Once(tasks') /\ tasks' # <<>>
  BY <1>1, <1>2, RotatedOnce, RotatedSeq
<1> QED BY <1>2, <1>3 DEF QueueInv, CurrentIsFront, RotateInv, Once

\* So does run() on a terminal.
LEMMA QueueAppend ==
  ASSUME TypeOK, QueueInv, NEW t \in Terminals, NEW q \in Seq(Task),
         q # <<>>, Once(q), Head(q) = current,
         tasks' = Append(q, t), current' = current, pc'[Ta] # "rotate"
  PROVE  QueueInv'
<1>1. Once(tasks') /\ tasks' # <<>> /\ Head(tasks') = current'
  BY AppendFacts
<1> QED BY <1>1 DEF QueueInv, CurrentIsFront, RotateInv, Once

\* Every step keeps the event loop in the queue once, and the running task at
\* the front of it.
LEMMA StepQueue == ASSUME IInv, [Next]_vars PROVE QueueInv'
<1>0. /\ TypeOK /\ PcInv /\ QueueInv
      /\ tasks \in Seq(Task) /\ tasks # <<>> /\ Once(tasks)
      /\ pc \in [Task -> {"loop", "idle", "draw", "rotate", "none", "start",
                         "make", "busy", "open", "getc"}]
      /\ Ta \in Task
  BY DEF IInv, TypeOK, QueueInv, CurrentIsFront, RotateInv, Task
<1>t. \A t \in Terminals : t \in Task /\ t # Ta
  BY DEF Task
<1>r. pc[Ta] # "rotate" => Head(tasks) = current
  BY <1>0 DEF QueueInv, CurrentIsFront
<1>a. ASSUME NEW t \in Terminals, current = t PROVE pc[Ta] # "rotate"
  BY <1>0, <1>a, <1>t DEF QueueInv, RotateInv
<1> USE DEF schedVars, keyVars, rotVars
<1>1. ASSUME NEW k \in Key, KeyInterrupt(k) PROVE QueueInv'
  BY <1>0, <1>1, QueueSame DEF KeyInterrupt, Resumed
<1>2. CASE Preempt
  <2>1. pc[Ta] # "rotate"
    BY <1>0, <1>2 DEF Preempt, InterruptsOn, QueueInv, RotateInv
  <2>2. pc'[Ta] # "rotate"
    BY <1>0, <1>2, <2>1 DEF Preempt, Resumed
  <2> QED BY <1>0, <1>2, <2>1, <2>2, QueueSwitch DEF Preempt
<1>3. CASE KernelIdle
  BY <1>0, <1>3, QueueSame DEF KernelIdle, AtLoop
<1>4. CASE KernelYield
  BY <1>0, <1>4, QueueSwitch DEF KernelYield, AtLoop
<1>5. ASSUME NEW t \in Terminals, KernelKeyToTask(t) PROVE QueueInv'
  <2>1. pc[Ta] = "loop" /\ pc' = pc
    BY <1>5 DEF KernelKeyToTask, Take, Due, AtLoop
  <2>2. /\ Append(tasks, t) \in Seq(Task) /\ Append(tasks, t) # <<>>
        /\ Once(Append(tasks, t)) /\ Head(Append(tasks, t)) = current
    BY <1>0, <1>r, <2>1, AppendFacts
  <2>3. tasks' = Append(Append(tasks, t), t) /\ current' = current
    BY <1>5 DEF KernelKeyToTask
  <2> QED BY <1>0, <2>1, <2>2, <2>3, QueueAppend
<1>6. CASE KernelKeyDropped \/ \E t \in Terminals : KernelEndKey(t)
  BY <1>0, <1>6, QueueSame DEF KernelKeyDropped, KernelEndKey
<1>7. ASSUME NEW t \in Terminals, KernelSpawn(t) PROVE QueueInv'
  <2>1. pc[Ta] = "loop" /\ pc'[Ta] = "loop"
    BY <1>0, <1>7, <1>t DEF KernelSpawn, Take, Due, AtLoop
  <2> QED BY <1>0, <1>7, <1>r, <2>1, QueueAppend DEF KernelSpawn
<1>8. CASE KernelRefresh
  BY <1>0, <1>8, QueueSame DEF KernelRefresh, Take, Due, AtLoop
<1>9. CASE KernelDrawn
  BY <1>0, <1>9, QueueSame DEF KernelDrawn
<1>10. CASE KernelClose
  <2>1. /\ pc[Ta] = "loop" /\ current = Ta /\ left' = Len(tasks)
        /\ UNCHANGED <<tasks, current>>
    BY <1>10 DEF KernelClose, Take, Due, AtLoop
  <2>2. tasks[1] = Ta /\ Len(tasks) \in 0..Len(tasks)
    BY <1>0, <1>r, <2>1
  <2> QED BY <1>0, <2>1, <2>2 DEF QueueInv, Once, CurrentIsFront, RotateInv
<1>11. CASE RotateEntry
  <2>1. /\ pc[Ta] = "rotate" /\ pc' = pc /\ current' = current
        /\ left > 0 /\ left' = left - 1
    BY <1>11 DEF RotateEntry
  <2>2. /\ current = Ta /\ left \in 0..Len(tasks)
        /\ tasks[IF left = Len(tasks) THEN 1 ELSE left + 1] = Ta
    BY <1>0, <2>1 DEF QueueInv, RotateInv
  <2>3. Head(tasks) # victim
    BY <1>0 DEF TypeOK, Task
  <2>4. tasks' = Rotated(tasks)
    BY <1>11, <2>3 DEF RotateEntry, Rotated
  <2>5. /\ Len(tasks') = Len(tasks) /\ tasks' # <<>>
        /\ Len(tasks) \in Nat \ {0}
        /\ \A i \in 1..(Len(tasks) - 1) : tasks'[i] = tasks[i + 1]
        /\ tasks'[Len(tasks)] = tasks[1]
    BY <1>0, <2>4, RotatedSeq
  <2>6. Once(tasks')
    BY <1>0, <2>4, RotatedOnce
  <2>7. left' \in 0..Len(tasks') /\ tasks'[left' + 1] = Ta /\ left' # Len(tasks')
    BY <2>1, <2>2, <2>5
  <2> QED BY <2>1, <2>2, <2>5, <2>6, <2>7 DEF QueueInv, Once, CurrentIsFront, RotateInv
<1>12. CASE KernelClosed
  <2>1. /\ pc[Ta] = "rotate" /\ pc'[Ta] = "loop" /\ left = 0 /\ current = Ta
        /\ UNCHANGED <<tasks, current>>
    BY <1>0, <1>12 DEF KernelClosed
  <2>2. Head(tasks) = Ta
    BY <1>0, <2>1 DEF QueueInv, RotateInv
  <2> QED BY <1>0, <2>1, <2>2 DEF QueueInv, Once, CurrentIsFront, RotateInv
<1>13. ASSUME NEW t \in Terminals,
              TermStart(t) \/ TermMade(t) \/ TermExit(t) \/ TermOpen(t) \/ TermDone(t)
                \/ TermRead(t) \/ TermClosed(t)
       PROVE  QueueInv'
  <2>1. UNCHANGED <<tasks, current, left>>
    BY <1>13 DEF TermStart, TermMade, TermExit, TermOpen, TermDone, TermRead, TermClosed
  <2>2. pc'[Ta] = pc[Ta]
    BY <1>0, <1>t, <1>13
       DEF TermStart, TermMade, TermExit, TermOpen, TermDone, TermRead, TermClosed
  <2> QED BY <1>0, <2>1, <2>2, QueueSame
<1>14. ASSUME NEW t \in Terminals, TermRefresh(t) PROVE QueueInv'
  BY <1>0, <1>14, <1>a, QueueSwitch DEF TermRefresh
<1>15. ASSUME NEW t \in Terminals, TermSleep(t) PROVE QueueInv'
  <2>1. pc[Ta] # "rotate" /\ Head(tasks) = t /\ t # Ta /\ pc' = pc
    BY <1>15, <1>a, <1>r, <1>t DEF TermSleep, Running
  <2>2. tasks' = Tail(tasks) /\ current' = Head(Tail(tasks))
    BY <1>15 DEF TermSleep, TaskSwitch
  <2>3. Once(tasks') /\ tasks' # <<>>
    BY <1>0, <2>1, <2>2, TailFacts
  <2> QED BY <2>1, <2>2, <2>3 DEF QueueInv, Once, CurrentIsFront, RotateInv
<1>16. CASE UNCHANGED vars
  BY <1>0, <1>16, QueueSame DEF vars
<1> QED
  BY <1>1, <1>2, <1>3, <1>4, <1>5, <1>6, <1>7, <1>8, <1>9, <1>10, <1>11, <1>12,
     <1>13, <1>14, <1>15, <1>16 DEF Next, KernelStep, TermStep

-------------------------------------------------------------------------------
(* Wake-ups *)

\* After the step t is in the queue, or it sleeps with nothing to do, or it had
\* no entry before and nothing about it has changed.
Settled(t) == \/ In(t, tasks')
              \/ f'[t] = <<>> /\ pc'[t] = "getc" /\ awake'[t] = FALSE
              \/ ~In(t, tasks) /\ f'[t] = f[t] /\ awake'[t] = awake[t] /\ pc'[t] = pc[t]

\* A step that leaves every terminal so keeps the wake-up invariant.
LEMMA WakeKept ==
  ASSUME WakeInv, \A t \in Terminals : Settled(t)
  PROVE  WakeInv'
<1>1. ASSUME NEW t \in Terminals,
             f'[t] # <<>> \/ pc'[t] \in {"start", "make", "busy", "open"} \/ awake'[t]
      PROVE  In(t, tasks')
  BY <1>1 DEF WakeInv, NoLostWakeup, AwakeQueued, Queued, In, Settled
<1> QED BY <1>1 DEF WakeInv, NoLostWakeup, AwakeQueued, Queued, In

\* Every step keeps the wake-up invariant.
LEMMA StepWake == ASSUME IInv, [Next]_vars PROVE WakeInv'
<1>0. /\ TypeOK /\ PcInv /\ QueueInv /\ WakeInv
      /\ tasks \in Seq(Task) /\ tasks # <<>> /\ Once(tasks)
      /\ pc \in [Task -> {"loop", "idle", "draw", "rotate", "none", "start",
                         "make", "busy", "open", "getc"}]
      /\ f \in [Task -> Seq(Key)] /\ awake \in [Task -> BOOLEAN]
      /\ Ta \in Task
  BY DEF IInv, TypeOK, QueueInv, CurrentIsFront, RotateInv, Task
<1>t. \A t \in Terminals : t \in Task /\ t # Ta
  BY DEF Task
<1>a. ASSUME NEW t \in Terminals, current = t PROVE Head(tasks) = t
  BY <1>0, <1>a, <1>t DEF QueueInv, RotateInv, CurrentIsFront
<1>s. ASSUME UNCHANGED <<tasks, f, awake>>, \A t \in Terminals : pc'[t] = pc[t]
      PROVE  WakeInv'
  BY <1>0, <1>s DEF WakeInv, NoLostWakeup, AwakeQueued, Queued
<1>w. ASSUME UNCHANGED <<f, awake>>, \A t \in Terminals : pc'[t] = pc[t],
             TaskSwitch(FALSE)
      PROVE  WakeInv'
  <2>1. \A t : In(t, tasks) => In(t, tasks')
    BY <1>0, <1>w, RotatedIn DEF TaskSwitch, Rotated
  <2>9. \A u \in Terminals : Settled(u)
    BY <1>0, <1>w, <2>1 DEF Settled
  <2> QED BY <1>0, <2>9, WakeKept
<1> USE DEF schedVars, keyVars, rotVars
<1>1. ASSUME NEW k \in Key, KeyInterrupt(k) PROVE WakeInv'
  BY <1>0, <1>1, <1>s, <1>t DEF KeyInterrupt, Resumed
<1>2. CASE Preempt
  BY <1>0, <1>2, <1>w, <1>t DEF Preempt, Resumed
<1>3. CASE KernelIdle \/ KernelKeyDropped \/ KernelRefresh \/ KernelDrawn
             \/ KernelClose \/ KernelClosed \/ \E t \in Terminals : KernelEndKey(t)
  BY <1>0, <1>3, <1>s, <1>t DEF KernelIdle, KernelEndKey, KernelKeyDropped, KernelRefresh,
     KernelDrawn, KernelClose, KernelClosed
<1>4. CASE KernelYield
  BY <1>4, <1>w DEF KernelYield
<1>5. ASSUME NEW t \in Terminals, KernelKeyToTask(t) PROVE WakeInv'
  <2> DEFINE q == Append(tasks, t)
  <2>1. /\ q \in Seq(Task) /\ (\A u : In(u, tasks) => In(u, q))
    BY <1>0, AppendFacts
  <2> HIDE DEF q
  <2>2. (\A u : In(u, q) => In(u, Append(q, t))) /\ In(t, Append(q, t))
    BY <2>1, AppendFacts
  <2>3. tasks' = Append(q, t) /\ pc' = pc
    BY <1>5 DEF KernelKeyToTask, q
  <2>4. \A u \in Terminals : u # t => f'[u] = f[u] /\ awake'[u] = awake[u]
    BY <1>0, <1>5, <1>t DEF KernelKeyToTask
  <2>5. (\A u : In(u, tasks) => In(u, tasks')) /\ In(t, tasks')
    BY <2>1, <2>2, <2>3
  <2>9. \A u \in Terminals : Settled(u)
    BY <1>0, <2>3, <2>4, <2>5 DEF Settled
  <2> QED BY <1>0, <2>9, WakeKept
<1>6. ASSUME NEW t \in Terminals, KernelSpawn(t) PROVE WakeInv'
  <2>1. (\A u : In(u, tasks) => In(u, tasks')) /\ In(t, tasks')
    BY <1>0, <1>6, AppendFacts DEF KernelSpawn
  <2>2. \A u \in Terminals : u # t =>
          f'[u] = f[u] /\ awake'[u] = awake[u] /\ pc'[u] = pc[u]
    BY <1>0, <1>6, <1>t DEF KernelSpawn
  <2>9. \A u \in Terminals : Settled(u)
    BY <1>0, <2>1, <2>2 DEF Settled
  <2> QED BY <1>0, <2>9, WakeKept
<1>7. CASE RotateEntry
  <2>1. Head(tasks) # victim
    BY <1>0 DEF TypeOK, Task
  <2>2. tasks' = Rotated(tasks) /\ UNCHANGED <<f, awake, pc>>
    BY <1>7, <2>1 DEF RotateEntry, Rotated
  <2>3. \A t : In(t, tasks) => In(t, tasks')
    BY <1>0, <2>2, RotatedIn
  <2>9. \A u \in Terminals : Settled(u)
    BY <1>0, <2>2, <2>3 DEF Settled
  <2> QED BY <1>0, <2>9, WakeKept
<1>8. ASSUME NEW t \in Terminals,
             TermStart(t) \/ TermMade(t) \/ TermExit(t) \/ TermOpen(t) \/ TermDone(t)
               \/ TermClosed(t)
      PROVE  WakeInv'
  <2>1. /\ UNCHANGED <<tasks, f, awake>>
        /\ pc[t] \in {"start", "make", "busy", "open"}
        /\ \A u \in Terminals : u # t => pc'[u] = pc[u]
    BY <1>0, <1>8, <1>t DEF TermStart, TermMade, TermExit, TermOpen, TermDone,
       TermClosed, Running
  <2>2. In(t, tasks)
    BY <1>0, <2>1 DEF WakeInv, NoLostWakeup, Queued, In
  <2>9. \A u \in Terminals : Settled(u)
    BY <1>0, <2>1, <2>2 DEF Settled
  <2> QED BY <1>0, <2>9, WakeKept
<1>9. ASSUME NEW t \in Terminals, TermRefresh(t) PROVE WakeInv'
  BY <1>9, <1>w DEF TermRefresh
<1>10. ASSUME NEW t \in Terminals, TermSleep(t) PROVE WakeInv'
  <2>1. /\ tasks' = Tail(tasks) /\ Head(tasks) = t /\ t # Ta
        /\ UNCHANGED <<f, pc>> /\ f[t] = <<>> /\ pc[t] = "getc"
    BY <1>10, <1>a, <1>t DEF TermSleep, TaskSwitch, Running
  <2>2. \A u : In(u, tasks) /\ u # t => In(u, tasks')
    BY <1>0, <2>1, TailFacts
  <2>3. /\ awake'[t] = FALSE
        /\ \A u \in Terminals : u # t => awake'[u] = awake[u]
    BY <1>0, <1>10, <1>t DEF TermSleep
  <2>9. \A u \in Terminals : Settled(u)
    BY <1>0, <2>1, <2>2, <2>3 DEF Settled
  <2> QED BY <1>0, <2>9, WakeKept
<1>11. ASSUME NEW t \in Terminals, TermRead(t) PROVE WakeInv'
  <2>1. UNCHANGED <<tasks, awake>> /\ f[t] # <<>>
    BY <1>11 DEF TermRead
  <2>2. In(t, tasks')
    BY <1>0, <2>1 DEF WakeInv, NoLostWakeup, Queued, In
  <2>3. \A u \in Terminals : u # t => f'[u] = f[u] /\ pc'[u] = pc[u]
    BY <1>0, <1>11, <1>t DEF TermRead
  <2>9. \A u \in Terminals : Settled(u)
    BY <1>0, <2>1, <2>2, <2>3 DEF Settled
  <2> QED BY <1>0, <2>9, WakeKept
<1>12. CASE UNCHANGED vars
  BY <1>12, <1>s DEF vars
<1> QED
  BY <1>1, <1>2, <1>3, <1>4, <1>5, <1>6, <1>7, <1>8, <1>9, <1>10, <1>11, <1>12
     DEF Next, KernelStep, TermStep

-------------------------------------------------------------------------------
(* The results *)

\* The invariant is inductive.
LEMMA StepInv == ASSUME IInv, [Next]_vars PROVE IInv'
  BY StepTypes, StepPc, StepQueue, StepWake DEF IInv

LEMMA Invariance == Spec => []IInv
  BY InitInv, StepInv, PTL DEF Spec

\* The state of the scheduler keeps to its types (mtask.cpp, terminal.cpp,
\* kernel.cpp:328-543).
THEOREM TypeCorrect == Spec => []TypeOK
<1>1. IInv => TypeOK
  BY DEF IInv
<1> QED BY Invariance, <1>1, PTL

\* The task whose context is loaded is the front entry of the run queue, and
\* the event loop has exactly one entry in it, whatever is typed and whenever
\* the timer interrupts.
THEOREM QueueCorrect == Spec => []QueueShape
<1>1. IInv => QueueShape
  BY DEF IInv, QueueInv, Once, MainQueuedOnce, QueueShape
<1> QED BY Invariance, <1>1, PTL

\* No wake-up is lost: a terminal with something to do has an entry in the run
\* queue, and so has one whose flag is set.
THEOREM WakeCorrect == Spec => [](NoLostWakeup /\ AwakeQueued)
<1>1. IInv => NoLostWakeup /\ AwakeQueued
  BY DEF IInv, WakeInv
<1> QED BY Invariance, <1>1, PTL

-------------------------------------------------------------------------------
(* The length of the run queue *)

\* The places of the keys in a queue of messages, and their number.
KeyPlaces(s) == {i \in 1..Len(s) : s[i].kind \in Key}
Keys(s) == Cardinality(KeyPlaces(s))

\* Two entries are kept back for every key the event loop has yet to take.
CountInv == Len(tasks) + 2 * Keys(kernelbuf) <= 1 + 2 * typed

LEMMA KeysType ==
  ASSUME NEW s \in Seq(Message)
  PROVE  IsFiniteSet(KeyPlaces(s)) /\ Keys(s) \in Nat
<1>1. Len(s) \in Nat
  OBVIOUS
<1>2. IsFiniteSet(1..Len(s))
  BY <1>1, FS_Interval
<1>3. KeyPlaces(s) \in SUBSET (1..Len(s))
  BY DEF KeyPlaces
<1> QED
  BY <1>2, <1>3, FS_Subset, FS_CardinalityType DEF Keys

LEMMA KeysAppend ==
  ASSUME NEW s \in Seq(Message), NEW m \in Message
  PROVE  Keys(Append(s, m)) = IF m.kind \in Key THEN Keys(s) + 1 ELSE Keys(s)
<1> DEFINE r == Append(s, m)
           n == Len(s)
<1>1. /\ Len(r) = n + 1 /\ n \in Nat /\ r[n + 1] = m
      /\ \A i \in 1..n : r[i] = s[i]
  OBVIOUS
<1> HIDE DEF r, n
<1>2. KeyPlaces(r) = IF m.kind \in Key THEN KeyPlaces(s) \cup {n + 1} ELSE KeyPlaces(s)
  BY <1>1 DEF KeyPlaces, n
<1>3. n + 1 \notin KeyPlaces(s)
  BY <1>1 DEF KeyPlaces, n
<1>4. CASE m.kind \in Key
  <2>1. Cardinality(KeyPlaces(s) \cup {n + 1}) = Cardinality(KeyPlaces(s)) + 1
    BY <1>3, KeysType, FS_AddElement
  <2> QED
    BY <1>2, <1>4, <2>1 DEF Keys, r
<1> QED
  BY <1>2, <1>4 DEF Keys, r

LEMMA KeysTail ==
  ASSUME NEW s \in Seq(Message), s # <<>>
  PROVE  Keys(Tail(s)) = IF Head(s).kind \in Key THEN Keys(s) - 1 ELSE Keys(s)
<1> DEFINE r == Tail(s)
           n == Len(s)
           K == KeyPlaces(s)
           g == [i \in K \ {1} |-> i - 1]
<1>1. /\ r \in Seq(Message) /\ n \in Nat \ {0} /\ Len(r) = n - 1
      /\ \A i \in 1..(n - 1) : r[i] = s[i + 1]
      /\ Head(s) = s[1]
  OBVIOUS
<1> HIDE DEF r, n
<1>2. \A i \in K : i \in 1..n /\ s[i].kind \in Key
  BY DEF KeyPlaces, n
<1>3. \A j : j \in KeyPlaces(r) <=> j \in 1..(n - 1) /\ s[j + 1].kind \in Key
  BY <1>1 DEF KeyPlaces
<1>4. 1 \in K <=> Head(s).kind \in Key
  BY <1>1 DEF KeyPlaces, n
<1>5. ASSUME NEW i \in K \ {1} PROVE g[i] \in KeyPlaces(r) /\ g[i] = i - 1
  <2>1. i - 1 \in 1..(n - 1) /\ s[i - 1 + 1].kind \in Key
    BY <1>1, <1>2
  <2> QED
    BY <1>3, <2>1
<1>6. ASSUME NEW j \in KeyPlaces(r) PROVE j + 1 \in K \ {1} /\ g[j + 1] = j
  <2>1. j + 1 \in 1..n /\ j + 1 # 1 /\ s[j + 1].kind \in Key /\ j + 1 - 1 = j
    BY <1>1, <1>3
  <2>2. j + 1 \in K
    BY <2>1 DEF KeyPlaces, n
  <2>3. j + 1 \in K \ {1}
    BY <2>1, <2>2
  <2> HIDE DEF g, K
  <2>4. PICK i \in K \ {1} : i = j + 1
    BY <2>3
  <2>5. g[i] = i - 1
    BY <1>5
  <2>6. i - 1 = j
    <3>1. j \in Int
      BY <1>1, <1>3
    <3> QED
      BY <2>4, <3>1
  <2> QED
    BY <2>4, <2>5, <2>6
<1>7. g \in Bijection(K \ {1}, KeyPlaces(r))
  <2>1. g \in [K \ {1} -> KeyPlaces(r)]
    BY <1>5
  <2>2. ASSUME NEW i \in K \ {1}, NEW j \in K \ {1}, g[i] = g[j] PROVE i = j
    BY <1>2, <1>5, <2>2
  <2>3. \A j \in KeyPlaces(r) : \E i \in K \ {1} : g[i] = j
    BY <1>6
  <2> HIDE DEF g, K
  <2> QED
    BY <2>1, <2>2, <2>3 DEF Bijection, Injection, IsInjective, Surjection
<1>8. IsFiniteSet(K) /\ Cardinality(K) \in Nat
  BY KeysType DEF Keys
<1>9. /\ IsFiniteSet(K \ {1})
      /\ Cardinality(K \ {1}) = IF 1 \in K THEN Cardinality(K) - 1 ELSE Cardinality(K)
  BY <1>8, FS_RemoveElement
<1>10. Cardinality(KeyPlaces(r)) = Cardinality(K \ {1})
  <2> HIDE DEF g, K
  <2> QED
    BY <1>7, <1>9, FS_Bijection DEF ExistsBijection
<1> QED
  BY <1>4, <1>9, <1>10 DEF Keys, r

\* Every step pays for the entries it adds with keys that it takes.
LEMMA StepCount == ASSUME IInv, CountInv, [Next]_vars PROVE CountInv'
<1>0. /\ TypeOK /\ QueueInv /\ tasks \in Seq(Task) /\ tasks # <<>> /\ Len(tasks) \in Nat
      /\ kernelbuf \in Seq(Message) /\ Keys(kernelbuf) \in Nat /\ typed \in Nat
  BY KeysType DEF IInv, TypeOK, QueueInv, CurrentIsFront, RotateInv
<1>s. ASSUME TaskSwitch(FALSE) PROVE Len(tasks') = Len(tasks)
  BY <1>0, <1>s, RotatedSeq DEF TaskSwitch, Rotated
<1>t. ASSUME NEW K, Take(K), K \cap Key = {} \/ K \subseteq Key
      PROVE  /\ typed' = typed
             /\ Keys(kernelbuf') = IF K \subseteq Key THEN Keys(kernelbuf) - 1 ELSE Keys(kernelbuf)
  <2>1. kernelbuf # <<>> /\ kernelbuf' = Tail(kernelbuf) /\ Head(kernelbuf).kind \in K /\ typed' = typed
    BY <1>t DEF Take, Due
  <2> QED
    BY <1>0, <1>t, <2>1, KeysTail
<1>k. {"press"} \subseteq Key /\ Key \subseteq Key /\ {"refresh"} \cap Key = {} /\ {"close"} \cap Key = {}
      /\ ~({"refresh"} \subseteq Key) /\ ~({"close"} \subseteq Key)
  BY DEF Key
<1>m. /\ [kind |-> "refresh"] \in Message /\ [kind |-> "refresh"].kind \notin Key
      /\ [kind |-> "close", tsk |-> NoTask] \in Message
      /\ [kind |-> "close", tsk |-> NoTask].kind \notin Key
  BY DEF Message, Key
<1> USE DEF schedVars, keyVars, rotVars
<1>1. ASSUME NEW k \in Key, KeyInterrupt(k) PROVE CountInv'
  <2>1. [kind |-> k] \in Message /\ [kind |-> k].kind \in Key
    BY DEF Message
  <2>2. Keys(kernelbuf') = Keys(kernelbuf) + 1 /\ typed' = typed + 1 /\ tasks' = tasks
    BY <1>0, <1>1, <2>1, KeysAppend DEF KeyInterrupt
  <2> QED
    BY <1>0, <2>2 DEF CountInv
<1>2. CASE Preempt \/ KernelYield
  <2>1. Len(tasks') = Len(tasks) /\ UNCHANGED <<kernelbuf, typed>>
    BY <1>2, <1>s DEF Preempt, KernelYield
  <2> QED
    BY <2>1 DEF CountInv
<1>3. CASE KernelIdle \/ KernelDrawn \/ KernelClosed
  BY <1>3 DEF KernelIdle, KernelDrawn, KernelClosed, CountInv
<1>4. ASSUME NEW t \in Terminals, KernelKeyToTask(t) PROVE CountInv'
  <2>1. Keys(kernelbuf') = Keys(kernelbuf) - 1 /\ typed' = typed
    BY <1>4, <1>t, <1>k DEF KernelKeyToTask
  <2>2. Append(tasks, t) \in Seq(Task) /\ Len(Append(tasks, t)) = Len(tasks) + 1
    BY <1>0, AppendFacts
  <2>3. Len(Append(Append(tasks, t), t)) = Len(tasks) + 2
    BY <1>0, <2>2, AppendFacts
  <2>4. tasks' = Append(Append(tasks, t), t)
    BY <1>4 DEF KernelKeyToTask
  <2> QED
    BY <1>0, <2>1, <2>3, <2>4 DEF CountInv
<1>5. ASSUME NEW t \in Terminals, KernelSpawn(t) PROVE CountInv'
  <2>1. Keys(kernelbuf') = Keys(kernelbuf) - 1 /\ typed' = typed
    BY <1>5, <1>t, <1>k DEF KernelSpawn
  <2>2. Len(tasks') = Len(tasks) + 1
    BY <1>0, <1>5, AppendFacts DEF KernelSpawn
  <2> QED
    BY <1>0, <2>1, <2>2 DEF CountInv
<1>6. CASE KernelKeyDropped
  <2>1. Keys(kernelbuf') = Keys(kernelbuf) - 1 /\ typed' = typed /\ tasks' = tasks
    BY <1>6, <1>t, <1>k DEF KernelKeyDropped
  <2> QED
    BY <1>0, <2>1 DEF CountInv
<1>7. ASSUME NEW t \in Terminals, KernelEndKey(t) PROVE CountInv'
  <2>1. /\ kernelbuf # <<>> /\ Head(kernelbuf).kind \in Key
        /\ kernelbuf' = Append(Tail(kernelbuf), [kind |-> "close", tsk |-> NoTask])
        /\ UNCHANGED <<tasks, typed>>
    BY <1>7, <1>k DEF KernelEndKey, Due
  <2>2. Tail(kernelbuf) \in Seq(Message) /\ Keys(Tail(kernelbuf)) = Keys(kernelbuf) - 1
    BY <1>0, <2>1, KeysTail
  <2>3. Keys(kernelbuf') = Keys(kernelbuf) - 1
    BY <1>m, <2>1, <2>2, KeysAppend
  <2> QED
    BY <1>0, <2>1, <2>3 DEF CountInv
<1>8. CASE KernelRefresh \/ KernelClose
  <2>1. Keys(kernelbuf') = Keys(kernelbuf) /\ typed' = typed /\ tasks' = tasks
    BY <1>8, <1>t, <1>k DEF KernelRefresh, KernelClose
  <2> QED
    BY <2>1 DEF CountInv
<1>9. CASE RotateEntry
  <2>1. Head(tasks) # victim
    BY <1>0 DEF TypeOK, Task
  <2>2. Len(tasks') = Len(tasks) /\ UNCHANGED <<kernelbuf, typed>>
    BY <1>0, <1>9, <2>1, RotatedSeq DEF RotateEntry, Rotated
  <2> QED
    BY <2>2 DEF CountInv
<1>10. ASSUME NEW t \in Terminals,
              TermStart(t) \/ TermMade(t) \/ TermOpen(t) \/ TermClosed(t) \/ TermDone(t) \/ TermRead(t)
       PROVE  CountInv'
  BY <1>10 DEF TermStart, TermMade, TermOpen, TermClosed, TermDone, TermRead, CountInv
<1>11. ASSUME NEW t \in Terminals, TermRefresh(t) PROVE CountInv'
  <2>1. Keys(kernelbuf') = Keys(kernelbuf) /\ typed' = typed /\ Len(tasks') = Len(tasks)
    BY <1>0, <1>11, <1>m, <1>s, KeysAppend DEF TermRefresh
  <2> QED
    BY <2>1 DEF CountInv
<1>12. ASSUME NEW t \in Terminals, TermExit(t) PROVE CountInv'
  <2>1. Keys(kernelbuf') = Keys(kernelbuf) /\ typed' = typed /\ tasks' = tasks
    BY <1>0, <1>12, <1>m, KeysAppend DEF TermExit
  <2> QED
    BY <2>1 DEF CountInv
<1>13. ASSUME NEW t \in Terminals, TermSleep(t) PROVE CountInv'
  <2>1. tasks' = Tail(tasks) /\ UNCHANGED <<kernelbuf, typed>>
    BY <1>13 DEF TermSleep, TaskSwitch
  <2>2. Len(tasks') = Len(tasks) - 1
    BY <1>0, <2>1
  <2> QED
    BY <1>0, <2>1, <2>2 DEF CountInv
<1>14. CASE UNCHANGED vars
  BY <1>14 DEF vars, CountInv
<1> QED
  BY <1>1, <1>2, <1>3, <1>4, <1>5, <1>6, <1>7, <1>8, <1>9, <1>10, <1>11, <1>12, <1>13, <1>14
     DEF Next, KernelStep, TermStep

\* However the wake-ups and sleeps are ordered, a key costs the run queue two
\* entries and a new terminal one: with n keys typed it is never longer than
\* 1+2n, so that its 128 slots suffice for 60 keys (fifo.cpp:16-25, mtask.cpp:33-41).
THEOREM QueueBounded == Spec => []EntriesPerKey
<1>1. Init => CountInv
  <2> SUFFICES ASSUME Init PROVE CountInv
    OBVIOUS
  <2>1. KeyPlaces(<<>>) = {}
    BY DEF KeyPlaces
  <2>2. Keys(kernelbuf) = 0 /\ Len(tasks) = 1 /\ typed = 0
    BY <2>1, FS_EmptySet DEF Init, Keys
  <2> QED
    BY <2>2 DEF CountInv
<1>2. IInv /\ CountInv => EntriesPerKey
  <2> SUFFICES ASSUME IInv, CountInv PROVE EntriesPerKey
    OBVIOUS
  <2>1. Len(tasks) \in Nat /\ typed \in Nat /\ Keys(kernelbuf) \in Nat
    BY KeysType DEF IInv, TypeOK
  <2> QED
    BY <2>1 DEF CountInv, EntriesPerKey
<1>3. IInv /\ CountInv /\ [Next]_vars => CountInv'
  BY StepCount
<1> QED
  BY <1>1, <1>2, <1>3, Invariance, PTL DEF Spec
-------------------------------------------------------------------------------
(* Context: what the instructions do to registers and stacks *)

\* A machine, and one with n words on the stack p
IsMachine(m) == /\ m = [r |-> m.r, s |-> m.s]
                /\ m.r = [x \in Reg |-> m.r[x]]
                /\ m.s = [q \in Stacks |-> m.s[q]]
On(m, p, n) == IsMachine(m) /\ m.r["rsp"] = Depth(p, n)

\* The registers of k are those of m but for X.
Others(m, k, X) == \A x \in Reg \ X : k.r[x] = m.r[x]
\* The stacks of k are those of m, p up to n.
Upto(m, k, p, n) == \A q \in Stacks, i \in Nat :
                      (q = p => i \in 1..n) => k.s[q][i] = m.s[q][i]

\* The words ws are on the stack p of k behind n.
Top(k, p, n, ws) == \A i \in 1..Len(ws) : k.s[p][n + i] = ws[i]

\* The registers xs of m are there.
TopRegs(k, p, n, m, xs) == \A i \in 1..Len(xs) : k.s[p][n + i] = m.r[xs[i]]

LEMMA DepthParts ==
  ASSUME NEW p, NEW n
  PROVE  Depth(p, n).stack = p /\ Depth(p, n).n = n
  BY DEF Depth

LEMMA SetAllFacts ==
  ASSUME NEW m, IsMachine(m), NEW fn, DOMAIN fn \subseteq Reg
  PROVE  /\ IsMachine(SetAll(m, fn))
         /\ \A x \in DOMAIN fn : SetAll(m, fn).r[x] = fn[x]
         /\ SetAll(m, fn).s = m.s
         /\ Others(m, SetAll(m, fn), DOMAIN fn)
  BY DEF IsMachine, SetAll, Others

LEMMA SetRspFacts ==
  ASSUME NEW m, IsMachine(m), NEW p \in Stacks, NEW n \in Nat
  PROVE  LET k == SetRsp(m, Depth(p, n))
         IN  On(k, p, n) /\ Others(m, k, {"rsp"}) /\ Upto(m, k, p, n)
<1> DEFINE k == SetRsp(m, Depth(p, n))
<1>1. /\ k = [r |-> k.r, s |-> k.s]
      /\ k.r = [m.r EXCEPT !["rsp"] = Depth(p, n)]
      /\ k.s = [m.s EXCEPT ![p] = [i \in 1..n |-> m.s[p][i]]]
  BY DepthParts DEF SetRsp
<1>2. "rsp" \in Reg
  BY DEF Reg
<1> HIDE DEF k
<1>3. k.r = [x \in Reg |-> k.r[x]] /\ k.r["rsp"] = Depth(p, n) /\ Others(m, k, {"rsp"})
  BY <1>1, <1>2 DEF IsMachine, Others
<1>4. k.s = [q \in Stacks |-> k.s[q]]
  BY <1>1 DEF IsMachine
<1>5. Upto(m, k, p, n)
  <2>1. k.s[p] = [i \in 1..n |-> m.s[p][i]]
    BY <1>1 DEF IsMachine
  <2>2. \A q \in Stacks : q # p => k.s[q] = m.s[q]
    BY <1>1 DEF IsMachine
  <2> QED BY <2>1, <2>2 DEF Upto
<1> QED BY <1>1, <1>3, <1>4, <1>5 DEF IsMachine, On, k

LEMMA LenFun ==
  ASSUME NEW n \in Nat, NEW fn, fn = [i \in 1..n |-> fn[i]]
  PROVE  Len(fn) = n
<1> DEFINE S == {fn[i] : i \in 1..n}
<1>1. fn \in [1..n -> S]
  OBVIOUS
<1>2. fn \in Seq(S)
  BY <1>1, SeqDef
<1> HIDE DEF S
<1> QED BY <1>1, <1>2

LEMMA PushFacts ==
  ASSUME NEW m, NEW p \in Stacks, NEW n \in Nat, On(m, p, n), NEW ws, Len(ws) \in Nat
  PROVE  LET k == PushAll(m, ws)
         IN  /\ On(k, p, n + Len(ws)) /\ Others(m, k, {"rsp"}) /\ Upto(m, k, p, n)
             /\ Top(k, p, n, ws)
<1> DEFINE l == n + Len(ws)
           k == PushAll(m, ws)
<1>1. /\ k = [r |-> k.r, s |-> k.s]
      /\ k.r = [m.r EXCEPT !["rsp"] = Depth(p, l)]
      /\ k.s = [m.s EXCEPT ![p] = [i \in 1..l |-> IF i <= n THEN m.s[p][i] ELSE ws[i - n]]]
  <2>1. m.r["rsp"].stack = p /\ m.r["rsp"].n = n
    BY DepthParts DEF On
  <2> QED BY <2>1 DEF PushAll
<1>2. l \in Nat /\ "rsp" \in Reg /\ l = n + Len(ws)
  BY DEF Reg
<1> HIDE DEF k, l
<1>3. k.r = [x \in Reg |-> k.r[x]] /\ k.r["rsp"] = Depth(p, l) /\ Others(m, k, {"rsp"})
  BY <1>1, <1>2 DEF IsMachine, On, Others
<1>4. k.s = [q \in Stacks |-> k.s[q]]
  BY <1>1, <1>2 DEF IsMachine, On
<1>5. k.s[p] = [i \in 1..l |-> IF i <= n THEN m.s[p][i] ELSE ws[i - n]]
  BY <1>1 DEF IsMachine, On
<1>6. Upto(m, k, p, n)
  <2>1. \A q \in Stacks : q # p => k.s[q] = m.s[q]
    BY <1>1 DEF IsMachine, On
  <2> QED BY <1>2, <1>5, <2>1 DEF Upto
<1>7. Top(k, p, n, ws)
  <2> SUFFICES ASSUME NEW i \in 1..Len(ws) PROVE k.s[p][n + i] = ws[i]
    BY DEF Top
  <2>1. n + i \in 1..l /\ ~(n + i <= n) /\ (n + i) - n = i
    BY <1>2
  <2> QED BY <1>5, <2>1
<1> QED BY <1>1, <1>3, <1>4, <1>6, <1>7 DEF IsMachine, On, k, l

LEMMA PushRegsFacts ==
  ASSUME NEW m, NEW p \in Stacks, NEW n \in Nat, On(m, p, n), NEW xs, Len(xs) \in Nat
  PROVE  LET k == PushRegs(m, xs)
         IN  /\ On(k, p, n + Len(xs)) /\ Others(m, k, {"rsp"}) /\ Upto(m, k, p, n)
             /\ TopRegs(k, p, n, m, xs)
<1> DEFINE ws == [i \in 1..Len(xs) |-> m.r[xs[i]]]
<1>1. Len(ws) = Len(xs)
  <2>1. ws = [i \in 1..Len(xs) |-> ws[i]]
    OBVIOUS
  <2> HIDE DEF ws
  <2> QED BY <2>1, LenFun
<1>2. \A i \in 1..Len(xs) : ws[i] = m.r[xs[i]]
  OBVIOUS
<1>3. PushRegs(m, xs) = PushAll(m, ws)
  BY DEF PushRegs
<1> HIDE DEF ws
<1>4. LET k == PushAll(m, ws)
      IN  /\ On(k, p, n + Len(ws)) /\ Others(m, k, {"rsp"}) /\ Upto(m, k, p, n)
          /\ Top(k, p, n, ws)
  <2>1. Len(ws) \in Nat
    BY <1>1
  <2> QED BY <2>1, PushFacts
<1> QED BY <1>1, <1>2, <1>3, <1>4 DEF Top, TopRegs

LEMMA SkipFacts ==
  ASSUME NEW m, NEW p \in Stacks, NEW n \in Nat, On(m, p, n), NEW j \in Nat
  PROVE  LET k == Skip(m, j)
         IN  On(k, p, n + j) /\ Others(m, k, {"rsp"}) /\ Upto(m, k, p, n)
<1> DEFINE ws == [i \in 1..j |-> Unset]
<1>1. Len(ws) = j
  <2>1. ws = [i \in 1..j |-> ws[i]]
    OBVIOUS
  <2> HIDE DEF ws
  <2> QED BY <2>1, LenFun
<1>3. Skip(m, j) = PushAll(m, ws)
  BY DEF Skip
<1> HIDE DEF ws
<1> QED BY <1>1, <1>3, PushFacts

LEMMA DropFacts ==
  ASSUME NEW m, NEW p \in Stacks, NEW n \in Nat, On(m, p, n), NEW j \in 0..n
  PROVE  LET k == Drop(m, j)
         IN  On(k, p, n - j) /\ Others(m, k, {"rsp"}) /\ Upto(m, k, p, n - j)
<1>1. Drop(m, j) = SetRsp(m, Depth(p, n - j))
  BY DepthParts DEF Drop, On
<1>2. n - j \in Nat /\ IsMachine(m)
  BY DEF On
<1> QED BY <1>1, <1>2, SetRspFacts

\* Registers that are all different
Distinct(xs) == /\ Len(xs) \in Nat
                /\ \A i \in 1..Len(xs) : xs[i] \in Reg \ {"rsp"}
                /\ \A i, j \in 1..Len(xs) : xs[i] = xs[j] => i = j

RegsOf(xs) == {xs[i] : i \in 1..Len(xs)}
\* The registers xs have what was there.
Popped(m, k, p, n, xs) == \A i \in 1..Len(xs) : k.r[xs[i]] = m.s[p][n - (i - 1)]

LEMMA PopFacts ==
  ASSUME NEW m, NEW p \in Stacks, NEW n \in Nat, On(m, p, n),
         NEW xs, Distinct(xs), Len(xs) <= n
  PROVE  LET k == PopRegs(m, xs)
         IN  /\ On(k, p, n - Len(xs))
             /\ Others(m, k, RegsOf(xs) \cup {"rsp"})
             /\ Popped(m, k, p, n, xs)
             /\ Upto(m, k, p, n - Len(xs))
<1> DEFINE S == {xs[i] : i \in 1..Len(xs)}
           place(x) == CHOOSE i \in 1..Len(xs) : xs[i] = x
           fn == [x \in S |-> WordAt(m, place(x) - 1)]
           a == SetAll(m, fn)
           k == PopRegs(m, xs)
<1>1. \A i \in 1..Len(xs) : place(xs[i]) = i /\ xs[i] \in S
  BY DEF Distinct
<1>2. /\ S \in SUBSET Reg /\ "rsp" \notin S /\ "rsp" \in Reg
      /\ Len(xs) \in 0..n /\ IsMachine(m)
  BY DEF Distinct, Reg, On
<1>3. \A i \in 1..Len(xs) : fn[xs[i]] = m.s[p][n - (i - 1)]
  <2>1. m.r["rsp"].stack = p /\ m.r["rsp"].n = n
    BY DepthParts DEF On
  <2>2. \A i \in 1..Len(xs) : fn[xs[i]] = WordAt(m, i - 1)
    BY <1>1
  <2> QED BY <2>1, <2>2 DEF WordAt
<1>4. k = Drop(a, Len(xs))
  BY DEF PopRegs
<1>5. DOMAIN fn = S
  OBVIOUS
<1> HIDE DEF fn, k
<1>6. /\ IsMachine(a) /\ (\A x \in S : a.r[x] = fn[x]) /\ a.s = m.s /\ Others(m, a, S)
  <2> HIDE DEF S
  <2> QED BY <1>2, <1>5, SetAllFacts
<1> HIDE DEF a
<1>7. On(a, p, n)
  BY <1>2, <1>6 DEF Others, On
<1>8. On(k, p, n - Len(xs)) /\ Others(a, k, {"rsp"}) /\ Upto(a, k, p, n - Len(xs))
  BY <1>2, <1>4, <1>7, DropFacts
<1>9. Others(m, k, S \cup {"rsp"})
  BY <1>6, <1>8 DEF Others
<1>10. Upto(m, k, p, n - Len(xs))
  BY <1>6, <1>8 DEF Upto
<1>11. \A i \in 1..Len(xs) : k.r[xs[i]] = m.s[p][n - (i - 1)]
  <2> TAKE i \in 1..Len(xs)
  <2>1. xs[i] \in S /\ xs[i] \in Reg \ {"rsp"}
    BY <1>1 DEF Distinct
  <2>2. k.r[xs[i]] = a.r[xs[i]]
    BY <1>8, <2>1 DEF Others
  <2> QED BY <1>3, <1>6, <2>1, <2>2
<1> HIDE DEF S
<1> QED BY <1>8, <1>9, <1>10, <1>11 DEF k, S, RegsOf, Popped

LEMMA IretFacts ==
  ASSUME NEW m, NEW p \in Stacks, NEW n \in Nat, On(m, p, n), 5 <= n,
         NEW u \in Stacks, NEW l \in Nat, m.s[p][n - 3] = Depth(u, l)
  PROVE  LET k == Iret(m)
         IN  /\ On(k, u, l)
             /\ k.r["rip"] = m.s[p][n] /\ k.r["cs"] = m.s[p][n - 1]
             /\ k.r["flags"] = m.s[p][n - 2] /\ k.r["ss"] = m.s[p][n - 4]
             /\ Others(m, k, {"rsp", "rip", "cs", "flags", "ss", "fs", "gs"})
             /\ m.s[p][n - 1] # "user" => k.r["fs"] = m.r["fs"] /\ k.r["gs"] = m.r["gs"]
             /\ \A q \in Stacks, i \in Nat :
                  /\ q = p => i \in 1..(n - 5)
                  /\ q = u => i \in 1..l
                  => k.s[q][i] = m.s[q][i]
<1> DEFINE w == m.s[p]
           user == WordAt(m, 1) = "user"
           r == [x \in Reg |-> CASE x = "rip" -> WordAt(m, 0)
                            [] x = "cs" -> WordAt(m, 1)
                            [] x = "flags" -> WordAt(m, 2)
                            [] x = "ss" -> WordAt(m, 4)
                            [] x \in {"fs", "gs"} /\ user -> Zero
                            [] OTHER -> m.r[x]]
           d == Drop(m, 5)
           a == [r |-> r, s |-> d.s]
           k == SetRsp(a, Depth(u, l))
<1>1. /\ WordAt(m, 0) = w[n] /\ WordAt(m, 1) = w[n - 1] /\ WordAt(m, 2) = w[n - 2]
      /\ WordAt(m, 3) = w[n - 3] /\ WordAt(m, 4) = w[n - 4]
  BY DepthParts DEF WordAt, On
<1>2. Iret(m) = k
  BY <1>1 DEF Iret
<1>3. On(d, p, n - 5) /\ Upto(m, d, p, n - 5)
  <2>1. 5 \in 0..n
    OBVIOUS
  <2> QED BY <2>1, DropFacts
<1> HIDE DEF d
<1>5. r = [x \in Reg |-> r[x]]
  OBVIOUS
<1>6. /\ r["rip"] = WordAt(m, 0) /\ r["cs"] = WordAt(m, 1)
      /\ r["flags"] = WordAt(m, 2) /\ r["ss"] = WordAt(m, 4)
      /\ \A x \in Reg \ {"rip", "cs", "flags", "ss", "fs", "gs"} : r[x] = m.r[x]
  BY DEF Reg, Control
<1>7. w[n - 1] # "user" => r["fs"] = m.r["fs"] /\ r["gs"] = m.r["gs"]
  BY <1>1 DEF Reg, Control
<1> HIDE DEF r
<1>8. IsMachine(a) /\ a.r = r /\ a.s = d.s
  BY <1>3, <1>5 DEF IsMachine, On
<1> HIDE DEF a
<1>9. On(k, u, l) /\ Others(a, k, {"rsp"}) /\ Upto(a, k, u, l)
  BY <1>8, SetRspFacts
<1> HIDE DEF k
<1>10. /\ k.r["rip"] = w[n] /\ k.r["cs"] = w[n - 1]
       /\ k.r["flags"] = w[n - 2] /\ k.r["ss"] = w[n - 4]
  BY <1>1, <1>6, <1>8, <1>9 DEF Others, Reg, Control
<1>11. Others(m, k, {"rsp", "rip", "cs", "flags", "ss", "fs", "gs"})
  BY <1>6, <1>8, <1>9 DEF Others
<1>12. w[n - 1] # "user" => k.r["fs"] = m.r["fs"] /\ k.r["gs"] = m.r["gs"]
  BY <1>7, <1>8, <1>9 DEF Others, Reg, Control
<1>13. ASSUME NEW q \in Stacks, NEW i \in Nat,
              q = p => i \in 1..(n - 5),
              q = u => i \in 1..l
       PROVE  k.s[q][i] = m.s[q][i]
  <2>1. k.s[q][i] = a.s[q][i]
    BY <1>9, <1>13 DEF Upto
  <2>2. d.s[q][i] = m.s[q][i]
    BY <1>3, <1>13 DEF Upto
  <2> QED BY <2>1, <2>2, <1>8
<1> QED BY <1>2, <1>9, <1>10, <1>11, <1>12, <1>13

-------------------------------------------------------------------------------
(* The invariant *)

Levels == {"new", "kernel", "app", "api"}

\* Where rsp is on level l, and where the frame of an interrupt goes
Home(t, l) == Stack(t, IF l = "app" THEN "app" ELSE IF l = "api" THEN "irq" ELSE "kernel")
TrapStack(t, l) == Stack(t, IF l \in {"app", "api"} THEN "irq" ELSE "kernel")
Used(l) == IF l = "api" THEN 30 ELSE 0

\* The registers r are those of t on level l.
Fine(t, r, l) ==
  /\ r = [x \in Reg |-> r[x]]
  /\ r["rsp"] = Depth(Home(t, l), Used(l))
  /\ r["cs"] = IF l = "app" THEN "user" ELSE "kernel"
  /\ r["cr3"] = IF l \in {"app", "api"} THEN Val(t, "app", "cr3") ELSE "kernel"
  /\ r["rip"] = IF l = "api" THEN Entry("apibody")
                ELSE Val(t, IF l = "new" THEN "kernel" ELSE l, "rip")
  /\ l = "new" => r = NewTask(t)
  /\ l = "kernel" => \A x \in Gpr : r[x] = Val(t, l, x)
  /\ l = "app" => /\ \A x \in Gpr \ {"rax"} : r[x] = Val(t, l, x)
                  /\ r["rax"] \in {Val(t, "app", "rax"), Val(t, "api", "rax")}
                  /\ r["ss"] = "user" /\ r["flags"] = TRUE
  /\ l = "api" => r["rbp"] = Depth(Stack(t, "irq"), 6)

\* What jumpasapp left on the stack w of the task.
KernelFrame(t, w) ==
  /\ w[1] = Val(t, "kernel", "rip") /\ w[2] = Val(t, "kernel", "rbp")
  /\ \A i \in 1..8 : w[2 + i] = Val(t, "kernel", High8Back[i])
  /\ \A i \in 1..6 : w[12 + i] = Val(t, "kernel", Low6Back[i])

\* What the call and asmapihandle put on the stack w for interrupts.
AppFrame(t, w) ==
  /\ w[1] = "user" /\ w[2] = Empty(t, "app") /\ w[3] = TRUE /\ w[4] = "user"
  /\ w[5] = Val(t, "app", "rip") /\ w[6] = Val(t, "app", "rbp")
  /\ \A i \in 1..8 : w[6 + i] = Val(t, "app", High8Back[i])
  /\ \A i \in 1..5 : w[16 + i] = Val(t, "app", Low6Back[i])

\* Of t on level l: the stacks s and the place b it left for its application.
Frames(t, s, b, l) ==
  /\ l \in {"app", "api"} => /\ b = Depth(Stack(t, "kernel"), 18)
                             /\ KernelFrame(t, s[Stack(t, "kernel")])
  /\ l = "api" => AppFrame(t, s[Stack(t, "irq")])

\* The handler of the timer runs with the registers c; below, on the stacks s, is
\* what belongs to the registers r.
Trapped(t, c, s, r, l) ==
  LET w == s[TrapStack(t, l)]
      n == Used(l)
  IN  /\ c["rsp"] = Depth(TrapStack(t, l), n + 5)
      /\ w[n + 1] = r["ss"] /\ w[n + 2] = r["rsp"] /\ w[n + 3] = r["flags"]
      /\ w[n + 4] = r["cs"] /\ w[n + 5] = r["rip"]
      /\ \A x \in Reg \ {"rsp", "rip", "cs", "flags", "ss", "fs", "gs"} : c[x] = r[x]
      /\ r["cs"] # "user" => c["fs"] = r["fs"] /\ c["gs"] = r["gs"]

\* t was left with the registers c.
Waits(t, c, s, l) ==
  /\ c = [x \in Reg |-> c[x]] /\ c["cs"] = "kernel"
  /\ \/ c["rip"] # Entry("handler") /\ Fine(t, c, l)
     \/ c["rip"] = Entry("handler") /\ \E r : Fine(t, r, l) /\ Trapped(t, c, s, r, l)

ContextInv ==
  /\ running \in Tasks
  /\ at \in [Tasks -> Levels]
  /\ ct = [t \in Tasks |-> ct[t]] /\ brsp = [t \in Tasks |-> brsp[t]]
  /\ IsMachine(machine) /\ Fine(running, machine.r, at[running])
  /\ \A t \in Tasks : Frames(t, machine.s, brsp[t], at[t])
  /\ \A t \in Tasks \ {running} : Waits(t, ct[t], machine.s, at[t])

-------------------------------------------------------------------------------
(* Who has not the processor *)

\* The words of t's stacks that matter on level l, and e more where it was left.
Agree(t, l, s, z, e) ==
  /\ l \in {"app", "api"} => \A i \in 1..18 : z[Stack(t, "kernel")][i] = s[Stack(t, "kernel")][i]
  /\ \A i \in 1..(Used(l) + e) : z[TrapStack(t, l)][i] = s[TrapStack(t, l)][i]

LEMMA FramesKept ==
  ASSUME NEW t, NEW l \in Levels, NEW s, NEW z, NEW b, Frames(t, s, b, l), Agree(t, l, s, z, 0)
  PROVE  Frames(t, z, b, l)
<1>1. CASE l = "app"
  BY <1>1 DEF Frames, Agree, KernelFrame
<1>2. CASE l = "api"
  <2>1. KernelFrame(t, z[Stack(t, "kernel")])
    BY <1>2 DEF Frames, Agree, KernelFrame
  <2>2. \A i \in 1..30 : z[Stack(t, "irq")][i] = s[Stack(t, "irq")][i]
    BY <1>2 DEF Agree, Used, TrapStack
  <2>3. AppFrame(t, s[Stack(t, "irq")])
    BY <1>2 DEF Frames
  <2>4. AppFrame(t, z[Stack(t, "irq")])
    BY <2>2, <2>3 DEF AppFrame
  <2> QED BY <1>2, <2>1, <2>4 DEF Frames
<1> QED BY <1>1, <1>2 DEF Frames

LEMMA WaitsKept ==
  ASSUME NEW t, NEW l \in Levels, NEW s, NEW z, NEW c, Waits(t, c, s, l), Agree(t, l, s, z, 5)
  PROVE  Waits(t, c, z, l)
<1>1. ASSUME NEW r, Trapped(t, c, s, r, l)
      PROVE  Trapped(t, c, z, r, l)
  <2>1. Used(l) \in {0, 30}
    BY DEF Used
  <2>2. \A j \in 1..5 : z[TrapStack(t, l)][Used(l) + j] = s[TrapStack(t, l)][Used(l) + j]
    BY <2>1 DEF Agree
  <2> QED BY <1>1, <2>2 DEF Trapped
<1> QED BY <1>1 DEF Waits

LEMMA AgreeLess ==
  ASSUME NEW t, NEW l \in Levels, NEW s, NEW z, Agree(t, l, s, z, 5)
  PROVE  Agree(t, l, s, z, 0)
  BY DEF Agree, Used, Levels

LEMMA StackTypes ==
  ASSUME NEW t \in Tasks, NEW l \in Levels
  PROVE  /\ Home(t, l) \in Stacks /\ TrapStack(t, l) \in Stacks /\ Used(l) \in Nat
         /\ \A x \in {"kernel", "app", "irq"} : Stack(t, x) \in Stacks
         /\ l # "app" => TrapStack(t, l) = Home(t, l)
  BY DEF Home, TrapStack, Used, Stacks, Stack, Levels

\* Registers of an application are its registers whatever fs and gs are.
LEMMA FineSame ==
  ASSUME NEW t, NEW l \in Levels, NEW r, NEW k, Fine(t, r, l), k = [x \in Reg |-> k[x]],
         \A x \in Reg \ {"fs", "gs"} : k[x] = r[x],
         l # "app" => k["fs"] = r["fs"] /\ k["gs"] = r["gs"]
  PROVE  Fine(t, k, l)
<1>1. CASE l # "app"
  <2>1. r = [x \in Reg |-> r[x]]
    BY DEF Fine
  <2>2. \A x \in Reg : k[x] = r[x]
    BY <1>1
  <2>3. k = r
    BY <2>1, <2>2
  <2> QED BY <2>3
<1>2. CASE l = "app"
  <2>1. \A x \in Gpr \cup {"rsp", "cs", "cr3", "rip", "ss", "flags"} : k[x] = r[x]
    BY DEF Reg, Gpr, Control
  <2> QED BY <1>2, <2>1 DEF Fine, Gpr
<1> QED BY <1>1, <1>2

-------------------------------------------------------------------------------
(* Task switches *)

\* An interrupt puts the registers where iret finds them.
LEMMA TrapFacts ==
  ASSUME NEW m, NEW t \in Tasks, NEW l \in Levels, NEW h, IsMachine(m),
         m.r["cs"] = "user" <=> l = "app",
         l # "app" => m.r["rsp"] = Depth(TrapStack(t, l), Used(l))
  PROVE  LET k == Trap(m, t, h)
         IN  /\ On(k, TrapStack(t, l), Used(l) + 5) /\ Upto(m, k, TrapStack(t, l), Used(l))
             /\ k.r["rip"] = Entry(h) /\ k.r["cs"] = "kernel" /\ k.r["flags"] = FALSE
             /\ Trapped(t, k.r, k.s, m.r, l)
<1> DEFINE p == TrapStack(t, l)
           n == Used(l)
           a == IF m.r["cs"] = "user" THEN SetRsp(Set(m, "ss", "void"), Empty(t, "irq")) ELSE m
           ws == <<m.r["ss"], m.r["rsp"], m.r["flags"], m.r["cs"], m.r["rip"]>>
           b == PushAll(a, ws)
           c == Set(b, "rip", Entry(h))
           d == Set(c, "cs", "kernel")
           k == Set(d, "flags", FALSE)
<1>0. p \in Stacks /\ n \in Nat /\ {"ss", "rip", "cs", "flags", "rsp"} \subseteq Reg
  BY StackTypes DEF Reg, Control
<1>1. /\ On(a, p, n) /\ Upto(m, a, p, n) /\ Others(m, a, {"rsp", "ss"})
      /\ m.r["cs"] # "user" => a.r["ss"] = m.r["ss"]
  <2>1. CASE l = "app"
    <3>1. m.r["cs"] = "user" /\ p = Stack(t, "irq") /\ n = 0
      BY <2>1 DEF TrapStack, Used
    <3>2. /\ IsMachine(Set(m, "ss", "void")) /\ Set(m, "ss", "void").s = m.s
          /\ Others(m, Set(m, "ss", "void"), {"ss"})
      BY <1>0 DEF Set, Others, IsMachine
    <3>3. a = SetRsp(Set(m, "ss", "void"), Depth(p, n))
      BY <3>1 DEF Empty
    <3> HIDE DEF a
    <3>4. On(a, p, n) /\ Others(Set(m, "ss", "void"), a, {"rsp"}) /\ Upto(Set(m, "ss", "void"), a, p, n)
      BY <1>0, <3>2, <3>3, SetRspFacts
    <3> QED BY <3>1, <3>2, <3>4 DEF Others, Upto
  <2>2. CASE l # "app"
    <3>1. m.r["cs"] # "user" /\ On(m, p, n)
      BY <2>2 DEF On
    <3> QED BY <3>1 DEF Others, Upto
  <2> QED BY <2>1, <2>2
<1>2. Len(ws) = 5 /\ Trap(m, t, h) = k
  BY DEF Trap
<1> HIDE DEF a
<1>3. On(b, p, n + 5) /\ Others(a, b, {"rsp"}) /\ Upto(a, b, p, n) /\ Top(b, p, n, ws)
  <2> HIDE DEF ws
  <2>1. Len(ws) \in Nat
    BY <1>2
  <2>2. LET z == PushAll(a, ws)
        IN  /\ On(z, p, n + Len(ws)) /\ Others(a, z, {"rsp"}) /\ Upto(a, z, p, n)
            /\ Top(z, p, n, ws)
    BY <1>0, <1>1, <2>1, PushFacts
  <2> QED BY <1>2, <2>2
<1> HIDE DEF b
<1>4. IsMachine(c) /\ c.r["rip"] = Entry(h) /\ c.s = b.s /\ Others(b, c, {"rip"})
  BY <1>0, <1>3 DEF On, Set, Others, IsMachine
<1> HIDE DEF c
<1>5. IsMachine(d) /\ d.r["cs"] = "kernel" /\ d.s = c.s /\ Others(c, d, {"cs"})
  <2>1. "cs" \in Reg
    BY <1>0
  <2> QED BY <2>1, <1>4 DEF Set, Others, IsMachine
<1> HIDE DEF d
<1>6. IsMachine(k) /\ k.r["flags"] = FALSE /\ k.s = d.s /\ Others(d, k, {"flags"})
  <2>1. "flags" \in Reg
    BY <1>0
  <2> QED BY <2>1, <1>5 DEF Set, Others, IsMachine
<1> HIDE DEF k
<1>7. On(k, p, n + 5)
  BY <1>0, <1>3, <1>4, <1>5, <1>6 DEF On, Others
<1>8. Upto(m, k, p, n)
  BY <1>1, <1>3, <1>4, <1>5, <1>6 DEF Upto
<1>9. k.r["rip"] = Entry(h) /\ k.r["cs"] = "kernel"
  BY <1>0, <1>4, <1>5, <1>6 DEF Others
<1>10. \A x \in Reg \ {"rsp", "rip", "cs", "flags", "ss"} : k.r[x] = m.r[x]
  BY <1>1, <1>3, <1>4, <1>5, <1>6 DEF Others
<1>11. \A j \in 1..5 : k.s[p][n + j] = ws[j]
  BY <1>2, <1>3, <1>4, <1>5, <1>6 DEF Top
<1>12. Trapped(t, k.r, k.s, m.r, l)
  <2>1. /\ ws[1] = m.r["ss"] /\ ws[2] = m.r["rsp"] /\ ws[3] = m.r["flags"]
        /\ ws[4] = m.r["cs"] /\ ws[5] = m.r["rip"]
    OBVIOUS
  <2>2. {"fs", "gs"} \subseteq Reg
    BY DEF Reg, Control
  <2> HIDE DEF ws
  <2> QED BY <1>7, <1>10, <1>11, <2>1, <2>2 DEF Trapped, On
<1> QED BY <1>2, <1>6, <1>7, <1>8, <1>9, <1>12

\* What belongs to other tasks stays.
Stays(t, m, k) == \A o \in Tasks \ {t}, x \in {"kernel", "app", "irq"}, i \in Nat :
                    k.s[Stack(o, x)][i] = m.s[Stack(o, x)][i]

\* switchcont stores the registers of m, and RestoreContext loads those of c.
LEMMA SwitchFacts ==
  ASSUME NEW m, NEW p \in Stacks, NEW n \in Nat, On(m, p, n),
         NEW c, NEW u \in Stacks, NEW l \in Nat, c = [x \in Reg |-> c[x]],
         c["rsp"] = Depth(u, l), c["cs"] = "kernel", u # p
  PROVE  LET a == PushAll(m, <<m.r["rip"]>>)
             b == RestoreContext(a, c)
         IN  /\ Saved(a) = m.r /\ b.r = c /\ On(b, u, l)
             /\ \A q \in Stacks, i \in Nat :
                  (q = p => i \in 1..n) /\ (q = u => i \in 1..l) => b.s[q][i] = m.s[q][i]
<1> DEFINE v == <<m.r["rip"]>>
           a == PushAll(m, v)
           ws == <<c["ss"], c["rsp"], c["flags"], c["cs"], c["rip"]>>
           d == PushAll(a, ws)
           fn == [x \in Reg \ {"ss", "rsp", "flags", "cs", "rip"} |-> c[x]]
           e == SetAll(d, fn)
           b == Iret(e)
<1>0. {"ss", "rip", "cs", "flags", "rsp", "fs", "gs"} \subseteq Reg
  BY DEF Reg, Control
<1>1. Len(v) = 1 /\ v[1] = m.r["rip"] /\ Len(ws) = 5
  OBVIOUS
<1>2. RestoreContext(a, c) = b
  BY DEF RestoreContext
<1>3. /\ ws[2] = c["rsp"] /\ ws[1] = c["ss"] /\ ws[3] = c["flags"] /\ ws[4] = c["cs"]
      /\ ws[5] = c["rip"]
  OBVIOUS
<1> HIDE DEF v, ws
<1>4. On(a, p, n + 1) /\ Others(m, a, {"rsp"}) /\ Upto(m, a, p, n) /\ a.s[p][n + 1] = m.r["rip"]
  <2>1. Len(v) \in Nat
    BY <1>1
  <2>2. LET z == PushAll(m, v)
        IN  On(z, p, n + Len(v)) /\ Others(m, z, {"rsp"}) /\ Upto(m, z, p, n) /\ Top(z, p, n, v)
    BY <2>1, PushFacts
  <2> QED BY <1>1, <2>2 DEF Top
<1> HIDE DEF a
<1>5. Saved(a) = m.r
  <2>1. WordAt(a, 0) = m.r["rip"]
    BY <1>4, DepthParts DEF On, WordAt
  <2>2. Drop(a, 1).r["rsp"] = Depth(p, n)
    <3>1. 1 \in 0..(n + 1) /\ n + 1 \in Nat /\ (n + 1) - 1 = n
      OBVIOUS
    <3>2. On(Drop(a, 1), p, (n + 1) - 1)
      BY <1>4, <3>1, DropFacts
    <3> QED BY <3>1, <3>2 DEF On
  <2>3. \A x \in Reg : Saved(a)[x] = m.r[x]
    BY <1>4, <2>1, <2>2 DEF Saved, Others, On
  <2>4. m.r = [x \in Reg |-> m.r[x]] /\ Saved(a) = [x \in Reg |-> Saved(a)[x]]
    BY DEF On, IsMachine, Saved
  <2> QED BY <2>3, <2>4
<1>6. On(d, p, n + 6) /\ Upto(a, d, p, n + 1) /\ \A j \in 1..5 : d.s[p][n + 1 + j] = ws[j]
  <2>1. Len(ws) \in Nat /\ n + 1 \in Nat
    BY <1>1
  <2>2. LET z == PushAll(a, ws)
        IN  /\ On(z, p, n + 1 + Len(ws)) /\ Others(a, z, {"rsp"}) /\ Upto(a, z, p, n + 1)
            /\ Top(z, p, n + 1, ws)
    BY <1>4, <2>1, PushFacts
  <2>3. n + 1 + 5 = n + 6
    OBVIOUS
  <2> QED BY <1>1, <2>2, <2>3 DEF Top
<1> HIDE DEF d
<1>7. /\ IsMachine(e) /\ e.s = d.s /\ Others(d, e, Reg \ {"ss", "rsp", "flags", "cs", "rip"})
      /\ \A x \in Reg \ {"ss", "rsp", "flags", "cs", "rip"} : e.r[x] = c[x]
  <2>1. /\ DOMAIN fn = Reg \ {"ss", "rsp", "flags", "cs", "rip"}
        /\ \A x \in Reg \ {"ss", "rsp", "flags", "cs", "rip"} : fn[x] = c[x]
    OBVIOUS
  <2> HIDE DEF fn
  <2> QED BY <1>6, <2>1, SetAllFacts DEF On
<1>8. On(e, p, n + 6)
  BY <1>0, <1>6, <1>7 DEF On, Others
<1> HIDE DEF e
<1>9. /\ e.s[p][n + 6] = c["rip"] /\ e.s[p][n + 5] = "kernel" /\ e.s[p][n + 4] = c["flags"]
      /\ e.s[p][n + 3] = Depth(u, l) /\ e.s[p][n + 2] = c["ss"]
  <2>1. /\ e.s[p][n + 1 + 5] = ws[5] /\ e.s[p][n + 1 + 4] = ws[4] /\ e.s[p][n + 1 + 3] = ws[3]
        /\ e.s[p][n + 1 + 2] = ws[2] /\ e.s[p][n + 1 + 1] = ws[1]
    BY <1>6, <1>7
  <2>2. /\ n + 1 + 5 = n + 6 /\ n + 1 + 4 = n + 5 /\ n + 1 + 3 = n + 4
        /\ n + 1 + 2 = n + 3 /\ n + 1 + 1 = n + 2
    OBVIOUS
  <2> QED BY <1>3, <2>1, <2>2
<1>10. /\ On(b, u, l)
       /\ b.r["rip"] = c["rip"] /\ b.r["cs"] = c["cs"] /\ b.r["flags"] = c["flags"]
       /\ b.r["ss"] = c["ss"]
       /\ Others(e, b, {"rsp", "rip", "cs", "flags", "ss", "fs", "gs"})
       /\ b.r["fs"] = e.r["fs"] /\ b.r["gs"] = e.r["gs"]
       /\ \A q \in Stacks, i \in Nat :
            (q = p => i \in 1..(n + 1)) /\ (q = u => i \in 1..l) => b.s[q][i] = e.s[q][i]
  <2> DEFINE k == n + 6
  <2>1. /\ k \in Nat /\ 5 <= k /\ k - 1 = n + 5 /\ k - 2 = n + 4 /\ k - 3 = n + 3 /\ k - 4 = n + 2
        /\ k - 5 = n + 1 /\ k = n + 6
    OBVIOUS
  <2> HIDE DEF k
  <2>2. On(e, p, k) /\ e.s[p][k - 3] = Depth(u, l)
    BY <1>8, <1>9, <2>1
  <2>3. LET z == Iret(e)
        IN  /\ On(z, u, l)
            /\ z.r["rip"] = e.s[p][k] /\ z.r["cs"] = e.s[p][k - 1]
            /\ z.r["flags"] = e.s[p][k - 2] /\ z.r["ss"] = e.s[p][k - 4]
            /\ Others(e, z, {"rsp", "rip", "cs", "flags", "ss", "fs", "gs"})
            /\ e.s[p][k - 1] # "user" => z.r["fs"] = e.r["fs"] /\ z.r["gs"] = e.r["gs"]
            /\ \A q \in Stacks, i \in Nat :
                 /\ q = p => i \in 1..(k - 5)
                 /\ q = u => i \in 1..l
                 => z.s[q][i] = e.s[q][i]
    BY <2>1, <2>2, IretFacts
  <2>4. /\ On(b, u, l) /\ Others(e, b, {"rsp", "rip", "cs", "flags", "ss", "fs", "gs"})
        /\ b.r["rip"] = e.s[p][k] /\ b.r["cs"] = e.s[p][k - 1]
        /\ b.r["flags"] = e.s[p][k - 2] /\ b.r["ss"] = e.s[p][k - 4]
    BY <2>3
  <2>5. b.r["fs"] = e.r["fs"] /\ b.r["gs"] = e.r["gs"]
    <3>1. e.s[p][k - 1] # "user"
      BY <1>9, <2>1
    <3> QED BY <2>3, <3>1
  <2>6. \A q \in Stacks, i \in Nat :
          (q = p => i \in 1..(n + 1)) /\ (q = u => i \in 1..l) => b.s[q][i] = e.s[q][i]
    BY <2>1, <2>3
  <2> QED BY <1>9, <2>1, <2>4, <2>5, <2>6
<1> HIDE DEF b
<1>11. b.r = c
  <2>1. \A x \in Reg : b.r[x] = c[x]
    BY <1>0, <1>7, <1>10 DEF Others, On
  <2>2. b.r = [x \in Reg |-> b.r[x]]
    BY <1>10 DEF On, IsMachine
  <2> QED BY <2>1, <2>2
<1>12. ASSUME NEW q \in Stacks, NEW i \in Nat, q = p => i \in 1..n, q = u => i \in 1..l
       PROVE  b.s[q][i] = m.s[q][i]
  <2>1. b.s[q][i] = e.s[q][i]
    BY <1>10, <1>12
  <2>2. d.s[q][i] = a.s[q][i]
    BY <1>6, <1>12 DEF Upto
  <2>3. a.s[q][i] = m.s[q][i]
    BY <1>4, <1>12 DEF Upto
  <2> QED BY <1>7, <2>1, <2>2, <2>3
<1>13. RestoreContext(PushAll(m, <<m.r["rip"]>>), c) = b
  BY <1>2 DEF a, v
<1>14. Saved(PushAll(m, <<m.r["rip"]>>)) = m.r
  BY <1>5 DEF a, v
<1> QED BY <1>10, <1>11, <1>12, <1>13, <1>14

Names == {"kernel", "app", "irq"}

LEMMA StackFacts ==
  /\ \A t, o \in Tasks, x, y \in Names : Stack(t, x) = Stack(o, y) <=> t = o /\ x = y
  /\ \A t \in Tasks, x \in Names : Stack(t, x) \in Stacks
  /\ \A q \in Stacks : \E t \in Tasks, x \in Names : q = Stack(t, x)
  BY DEF Stack, Stacks, Names

LEMMA ResumeFacts ==
  ASSUME NEW n \in Tasks, NEW l \in Levels, NEW c, NEW m, NEW p \in Stacks, NEW k \in Nat,
         On(m, p, k), Waits(n, c, m.s, l), \A x \in Names : p # Stack(n, x)
  PROVE  LET a == PushAll(m, <<m.r["rip"]>>)
             b == RestoreContext(a, c)
             z == IF b.r["rip"] = Entry("handler") THEN Iret(b) ELSE b
         IN  /\ Saved(a) = m.r
             /\ IsMachine(z) /\ Fine(n, z.r, l)
             /\ Agree(n, l, m.s, z.s, 0)
             /\ \A q \in Stacks, i \in Nat :
                  /\ \A x \in Names : q # Stack(n, x)
                  /\ q = p => i \in 1..k
                  => z.s[q][i] = m.s[q][i]
<1> DEFINE a == PushAll(m, <<m.r["rip"]>>)
           b == RestoreContext(a, c)
           z == IF b.r["rip"] = Entry("handler") THEN Iret(b) ELSE b
           u == TrapStack(n, l)
<1>1. u \in Stacks /\ Used(l) \in Nat /\ Used(l) + 5 \in Nat /\ u # p
  BY StackTypes DEF TrapStack, Names
<1>2. c = [x \in Reg |-> c[x]] /\ c["cs"] = "kernel"
  BY DEF Waits
<1>3. CASE c["rip"] # Entry("handler")
  <2>1. Fine(n, c, l) /\ l # "app"
    BY <1>2, <1>3 DEF Waits, Fine
  <2>2. c["rsp"] = Depth(u, Used(l))
    BY <2>1, StackTypes DEF Fine
  <2>3. /\ Saved(a) = m.r /\ b.r = c /\ On(b, u, Used(l))
        /\ \A q \in Stacks, i \in Nat :
             (q = p => i \in 1..k) /\ (q = u => i \in 1..Used(l)) => b.s[q][i] = m.s[q][i]
    BY <1>1, <1>2, <2>2, SwitchFacts
  <2>4. z = b
    BY <1>3, <2>3
  <2> HIDE DEF a, b, z
  <2>5. Agree(n, l, m.s, z.s, 0)
    <3>1. \A i \in 1..(Used(l) + 0) : z.s[u][i] = m.s[u][i]
      BY <1>1, <2>3, <2>4
    <3>2. ASSUME l \in {"app", "api"}, NEW i \in 1..18
          PROVE  z.s[Stack(n, "kernel")][i] = m.s[Stack(n, "kernel")][i]
      <4>1. Stack(n, "kernel") # u /\ Stack(n, "kernel") \in Stacks /\ p # Stack(n, "kernel")
        BY <3>2, StackFacts DEF TrapStack, Names
      <4> QED BY <2>3, <2>4, <4>1
    <3> QED BY <3>1, <3>2 DEF Agree
  <2>6. \A q \in Stacks, i \in Nat :
          /\ \A x \in Names : q # Stack(n, x)
          /\ q = p => i \in 1..k
          => z.s[q][i] = m.s[q][i]
    <3>1. \E x \in Names : u = Stack(n, x)
      BY DEF TrapStack, Names
    <3> QED BY <2>3, <2>4, <3>1
  <2>7. IsMachine(z) /\ Fine(n, z.r, l)
    BY <2>1, <2>3, <2>4 DEF On
  <2> QED BY <2>3, <2>5, <2>6, <2>7 DEF a, b, z
<1>4. CASE c["rip"] = Entry("handler")
  <2> DEFINE N == Used(l) + 5
  <2>0. PICK r : Fine(n, r, l) /\ Trapped(n, c, m.s, r, l)
    BY <1>4 DEF Waits
  <2>1. c["rsp"] = Depth(u, N)
    BY <2>0 DEF Trapped
  <2>2. N \in Nat /\ 5 <= N /\ N - 5 = Used(l)
    BY <1>1
  <2> HIDE DEF N
  <2>3. /\ Saved(a) = m.r /\ b.r = c /\ On(b, u, N)
        /\ \A q \in Stacks, i \in Nat :
             (q = p => i \in 1..k) /\ (q = u => i \in 1..N) => b.s[q][i] = m.s[q][i]
    BY <1>1, <1>2, <2>1, <2>2, SwitchFacts
  <2>4. z = Iret(b)
    BY <1>4, <2>3
  <2> HIDE DEF a, b, z
  <2>5. /\ b.s[u][N - 4] = r["ss"] /\ b.s[u][N - 3] = r["rsp"] /\ b.s[u][N - 2] = r["flags"]
        /\ b.s[u][N - 1] = r["cs"] /\ b.s[u][N] = r["rip"]
    <3>1. \A i \in 1..N : b.s[u][i] = m.s[u][i]
      BY <1>1, <2>2, <2>3
    <3>2. /\ N - 4 = Used(l) + 1 /\ N - 3 = Used(l) + 2 /\ N - 2 = Used(l) + 3
          /\ N - 1 = Used(l) + 4 /\ N = Used(l) + 5
          /\ N - 4 \in 1..N /\ N - 3 \in 1..N /\ N - 2 \in 1..N /\ N - 1 \in 1..N /\ N \in 1..N
      BY <1>1 DEF N
    <3> QED BY <2>0, <3>1, <3>2 DEF Trapped
  <2> DEFINE h == Home(n, l)
  <2>6. h \in Stacks /\ r["rsp"] = Depth(h, Used(l))
    BY <2>0, StackTypes DEF Fine
  <2>7. /\ On(z, h, Used(l))
        /\ z.r["rip"] = r["rip"] /\ z.r["cs"] = r["cs"]
        /\ z.r["flags"] = r["flags"] /\ z.r["ss"] = r["ss"]
        /\ Others(b, z, {"rsp", "rip", "cs", "flags", "ss", "fs", "gs"})
        /\ r["cs"] # "user" => z.r["fs"] = b.r["fs"] /\ z.r["gs"] = b.r["gs"]
        /\ \A q \in Stacks, i \in Nat :
             /\ q = u => i \in 1..(N - 5)
             /\ q = h => i \in 1..Used(l)
             => z.s[q][i] = b.s[q][i]
    <3> HIDE DEF h
    <3>1. b.s[u][N - 3] = Depth(h, Used(l))
      BY <2>5, <2>6
    <3>2. LET g == Iret(b)
          IN  /\ On(g, h, Used(l))
              /\ g.r["rip"] = b.s[u][N] /\ g.r["cs"] = b.s[u][N - 1]
              /\ g.r["flags"] = b.s[u][N - 2] /\ g.r["ss"] = b.s[u][N - 4]
              /\ Others(b, g, {"rsp", "rip", "cs", "flags", "ss", "fs", "gs"})
              /\ b.s[u][N - 1] # "user" => g.r["fs"] = b.r["fs"] /\ g.r["gs"] = b.r["gs"]
              /\ \A q \in Stacks, i \in Nat :
                   /\ q = u => i \in 1..(N - 5)
                   /\ q = h => i \in 1..Used(l)
                   => g.s[q][i] = b.s[q][i]
      BY <1>1, <2>2, <2>3, <2>6, <3>1, IretFacts
    <3> QED BY <2>4, <2>5, <3>2
  <2>8. Fine(n, z.r, l)
    <3>1. \A x \in Reg \ {"fs", "gs"} : z.r[x] = r[x]
      BY <2>0, <2>3, <2>6, <2>7 DEF Others, Trapped, On
    <3>2. l # "app" => z.r["fs"] = r["fs"] /\ z.r["gs"] = r["gs"]
      <4>1. l # "app" => r["cs"] # "user"
        BY <2>0 DEF Fine
      <4> QED BY <2>0, <2>3, <2>7, <4>1 DEF Trapped
    <3>3. z.r = [x \in Reg |-> z.r[x]]
      BY <2>7 DEF On, IsMachine
    <3> QED BY <2>0, <3>1, <3>2, <3>3, FineSame
  <2>9. \A q \in Stacks, i \in Nat :
          /\ q = p => i \in 1..k
          /\ q \in {u, h} => i \in 1..Used(l)
          => z.s[q][i] = m.s[q][i]
    <3> SUFFICES ASSUME NEW q \in Stacks, NEW i \in Nat, q = p => i \in 1..k,
                        q \in {u, h} => i \in 1..Used(l)
                 PROVE  z.s[q][i] = m.s[q][i]
      OBVIOUS
    <3>1. z.s[q][i] = b.s[q][i]
      BY <2>2, <2>7
    <3>2. q = u => i \in 1..N
      BY <1>1, <2>2
    <3> QED BY <2>3, <3>1, <3>2
  <2>10. Agree(n, l, m.s, z.s, 0)
    <3>1. \A i \in 1..(Used(l) + 0) : z.s[u][i] = m.s[u][i]
      BY <1>1, <2>9
    <3>2. ASSUME l \in {"app", "api"}, NEW i \in 1..18
          PROVE  z.s[Stack(n, "kernel")][i] = m.s[Stack(n, "kernel")][i]
      <4>1. /\ Stack(n, "kernel") \notin {u, h} /\ Stack(n, "kernel") \in Stacks
            /\ p # Stack(n, "kernel")
        BY <3>2, StackFacts DEF TrapStack, Home, Names
      <4> QED BY <2>9, <4>1
    <3> QED BY <3>1, <3>2 DEF Agree
  <2>11. \A q \in Stacks, i \in Nat :
          /\ \A x \in Names : q # Stack(n, x)
          /\ q = p => i \in 1..k
          => z.s[q][i] = m.s[q][i]
    <3>1. (\E x \in Names : u = Stack(n, x)) /\ (\E x \in Names : h = Stack(n, x))
      BY DEF TrapStack, Names, Home
    <3> HIDE DEF u, h
    <3> QED BY <2>9, <3>1
  <2> QED BY <2>3, <2>7, <2>8, <2>10, <2>11 DEF a, b, z, On
<1> QED BY <1>3, <1>4

LEMMA SwitchKeeps ==
  ASSUME ContextInv, NEW n \in Tasks, n # running,
         NEW m, NEW e \in {0, 5},
         On(m, TrapStack(running, at[running]), Used(at[running]) + e),
         Waits(running, m.r, m.s, at[running]),
         e = 0 => m.r["rip"] # Entry("handler"),
         Agree(running, at[running], machine.s, m.s, 0), Stays(running, machine, m),
         SwitchFrom(m, n)
  PROVE  ContextInv'
<1> DEFINE t == running
           lt == at[t]
           l == at[n]
           p == TrapStack(t, lt)
           k == Used(lt) + e
           a == PushAll(m, <<m.r["rip"]>>)
           b == RestoreContext(a, ct[n])
           z == IF b.r["rip"] = Entry("handler") THEN Iret(b) ELSE b
<1>1. /\ t \in Tasks /\ lt \in Levels /\ l \in Levels /\ p \in Stacks /\ k \in Nat
      /\ \A o \in Tasks : at[o] \in Levels
  BY StackTypes DEF ContextInv
<1>2. /\ machine' = z /\ ct' = [ct EXCEPT ![t] = Saved(a)] /\ running' = n
      /\ brsp' = brsp /\ at' = at
  BY DEF SwitchFrom
<1>3. \A o \in Tasks \ {t} : /\ Waits(o, ct[o], m.s, at[o]) /\ Frames(o, m.s, brsp[o], at[o])
  <2> SUFFICES ASSUME NEW o \in Tasks \ {t}
               PROVE  Waits(o, ct[o], m.s, at[o]) /\ Frames(o, m.s, brsp[o], at[o])
    OBVIOUS
  <2>1. Agree(o, at[o], machine.s, m.s, 5)
    BY <1>1 DEF Stays, Agree, TrapStack, Used
  <2> QED BY <1>1, <2>1, AgreeLess, WaitsKept, FramesKept DEF ContextInv
<1>4. \A x \in Names : p # Stack(n, x)
  BY <1>1, StackFacts DEF TrapStack, Names
<1>5. /\ Saved(a) = m.r
      /\ IsMachine(z) /\ Fine(n, z.r, l)
      /\ Agree(n, l, m.s, z.s, 0)
      /\ \A q \in Stacks, i \in Nat :
           /\ \A x \in Names : q # Stack(n, x)
           /\ q = p => i \in 1..k
           => z.s[q][i] = m.s[q][i]
  <2> HIDE DEF l, p, k
  <2>1. Waits(n, ct[n], m.s, l) /\ On(m, p, k)
    BY <1>3 DEF l, p, k
  <2> QED BY <1>1, <1>4, <2>1, ResumeFacts
<1> HIDE DEF z, b, a
<1>6. \A o \in Tasks : Frames(o, z.s, brsp[o], at[o])
  <2>1. Frames(n, z.s, brsp[n], at[n])
    BY <1>1, <1>3, <1>5, FramesKept
  <2>2. Frames(t, z.s, brsp[t], at[t])
    <3>1. Frames(t, m.s, brsp[t], at[t])
      BY <1>1, FramesKept DEF ContextInv
    <3>2. Agree(t, lt, m.s, z.s, 0)
      <4>1. \A i \in 1..Used(lt) : z.s[p][i] = m.s[p][i]
        BY <1>1, <1>4, <1>5, StackTypes
      <4>2. ASSUME lt \in {"app", "api"}, NEW i \in 1..18
            PROVE  z.s[Stack(t, "kernel")][i] = m.s[Stack(t, "kernel")][i]
        <5>1. /\ Stack(t, "kernel") # p /\ Stack(t, "kernel") \in Stacks
              /\ \A x \in Names : Stack(t, "kernel") # Stack(n, x)
          BY <1>1, <4>2, StackFacts DEF TrapStack, Names
        <5> QED BY <1>5, <5>1
      <4> QED BY <4>1, <4>2 DEF Agree, Used
    <3> QED BY <1>1, <3>1, <3>2, FramesKept
  <2>3. ASSUME NEW o \in Tasks \ {t, n}
        PROVE  Frames(o, z.s, brsp[o], at[o])
    <3>1. Agree(o, at[o], m.s, z.s, 0)
      <4>1. \A x \in Names, i \in Nat : z.s[Stack(o, x)][i] = m.s[Stack(o, x)][i]
        <5>1. \A x \in Names : Stack(o, x) \in Stacks /\ Stack(o, x) # p
          BY <1>1, <2>3, StackFacts DEF TrapStack, Names
        <5>2. \A x, y \in Names : Stack(o, x) # Stack(n, y)
          BY <2>3, StackFacts
        <5> QED BY <1>5, <5>1, <5>2
      <4> QED BY <1>1, <4>1 DEF Agree, TrapStack, Used, Names
    <3> QED BY <1>1, <1>3, <3>1, FramesKept
  <2> QED BY <2>1, <2>2, <2>3
<1>7. \A o \in Tasks \ {n} : Waits(o, ct'[o], z.s, at[o])
  <2>1. ct'[t] = m.r /\ \A o \in Tasks \ {t} : ct'[o] = ct[o]
    BY <1>1, <1>2, <1>5 DEF ContextInv
  <2>2. Waits(t, m.r, z.s, lt)
    <3>1. CASE e = 0
      BY <3>1 DEF Waits
    <3>2. CASE e = 5
      <4>1. \A i \in 1..(Used(lt) + 5) : z.s[p][i] = m.s[p][i]
        BY <1>1, <1>4, <1>5, <3>2, StackTypes
      <4>2. ASSUME lt \in {"app", "api"}, NEW i \in 1..18
            PROVE  z.s[Stack(t, "kernel")][i] = m.s[Stack(t, "kernel")][i]
        <5>1. /\ Stack(t, "kernel") # p /\ Stack(t, "kernel") \in Stacks
              /\ \A x \in Names : Stack(t, "kernel") # Stack(n, x)
          BY <1>1, <4>2, StackFacts DEF TrapStack, Names
        <5> QED BY <1>5, <5>1
      <4>3. Agree(t, lt, m.s, z.s, 5)
        BY <4>1, <4>2 DEF Agree
      <4> QED BY <1>1, <4>3, WaitsKept
    <3> QED BY <3>1, <3>2
  <2>3. ASSUME NEW o \in Tasks \ {t, n}
        PROVE  Waits(o, ct[o], z.s, at[o])
    <3>1. Agree(o, at[o], m.s, z.s, 5)
      <4>1. \A x \in Names, i \in Nat : z.s[Stack(o, x)][i] = m.s[Stack(o, x)][i]
        <5>1. \A x \in Names : Stack(o, x) \in Stacks /\ Stack(o, x) # p
          BY <1>1, <2>3, StackFacts DEF TrapStack, Names
        <5>2. \A x, y \in Names : Stack(o, x) # Stack(n, y)
          BY <2>3, StackFacts
        <5> QED BY <1>5, <5>1, <5>2
      <4> QED BY <1>1, <4>1 DEF Agree, TrapStack, Used, Names
    <3> QED BY <1>1, <1>3, <3>1, WaitsKept
  <2> QED BY <1>1, <2>1, <2>2, <2>3
<1>8. ct' = [o \in Tasks |-> ct'[o]]
  BY <1>1, <1>2 DEF ContextInv
<1> QED BY <1>1, <1>2, <1>5, <1>6, <1>7, <1>8 DEF ContextInv

-------------------------------------------------------------------------------
(* The programs *)

Low5 == <<"rbx", "rcx", "rdx", "rdi", "rsi">>

\* The lists of registers, forwards and backwards
LEMMA Lists ==
  /\ Len(Low6) = 6 /\ Len(Low6Back) = 6 /\ Len(High8) = 8 /\ Len(High8Back) = 8
  /\ Tail(Low6) = Low5 /\ Len(Low5) = 5
  /\ \A i \in 1..8 : High8[i] = High8Back[9 - i] /\ High8[i] \in Gpr /\ High8Back[i] \in Gpr
  /\ \A i \in 1..6 : Low6[i] = Low6Back[7 - i] /\ Low6[i] \in Gpr /\ Low6Back[i] \in Gpr
  /\ \A i \in 1..5 : Low5[i] = Low6Back[6 - i] /\ Low6Back[i] # "rax"
<1>1. /\ Len(Low6) = 6 /\ Len(Low6Back) = 6 /\ Len(High8) = 8 /\ Len(High8Back) = 8
      /\ Len(Low5) = 5
  BY DEF Low6, Low6Back, High8, High8Back, Low5
<1>2. Tail(Low6) = Low5
  BY DEF Low6, Low5
<1>3. \A i \in 1..8 : High8[i] = High8Back[9 - i] /\ High8[i] \in Gpr /\ High8Back[i] \in Gpr
  BY DEF High8, High8Back, Gpr
<1>4. \A i \in 1..6 : Low6[i] = Low6Back[7 - i] /\ Low6[i] \in Gpr /\ Low6Back[i] \in Gpr
  BY DEF Low6, Low6Back, Gpr
<1>5. \A i \in 1..5 : Low5[i] = Low6Back[6 - i] /\ Low6Back[i] # "rax"
  BY DEF Low5, Low6Back
<1> QED BY <1>1, <1>2, <1>3, <1>4, <1>5

LEMMA DistinctLists ==
  Distinct(High8) /\ Distinct(Low6) /\ Distinct(Low5) /\ Distinct(<<"rbp">>)
  /\ Distinct(<<"rbp", "rip">>)
<1>1. Distinct(High8)
  BY DEF Distinct, High8, Reg, Gpr
<1>2. Distinct(Low6)
  BY DEF Distinct, Low6, Reg, Gpr
<1>3. Distinct(Low5)
  BY DEF Distinct, Low5, Reg, Gpr
<1>4. Distinct(<<"rbp">>)
  BY DEF Distinct, Reg, Gpr
<1>5. Distinct(<<"rbp", "rip">>)
  BY DEF Distinct, Reg, Gpr, Control
<1> QED BY <1>1, <1>2, <1>3, <1>4, <1>5

\* Every general register is in one of the lists.
LEMMA GprLists ==
  ASSUME NEW x \in Gpr
  PROVE  \/ x = "rbp" \/ x = "rax"
         \/ \E i \in 1..8 : x = High8[i]
         \/ \E i \in 1..5 : x = Low5[i]
<1>1. x \in {"r8", "r9", "r10", "r11", "r12", "r13", "r14", "r15"} => \E i \in 1..8 : x = High8[i]
  <2>1. /\ High8[1] = "r8" /\ High8[2] = "r9" /\ High8[3] = "r10" /\ High8[4] = "r11"
        /\ High8[5] = "r12" /\ High8[6] = "r13" /\ High8[7] = "r14" /\ High8[8] = "r15"
    BY DEF High8
  <2> QED BY <2>1
<1>2. x \in {"rbx", "rcx", "rdx", "rdi", "rsi"} => \E i \in 1..5 : x = Low5[i]
  <2>1. /\ Low5[1] = "rbx" /\ Low5[2] = "rcx" /\ Low5[3] = "rdx" /\ Low5[4] = "rdi"
        /\ Low5[5] = "rsi"
    BY DEF Low5
  <2> QED BY <2>1
<1> QED BY <1>1, <1>2 DEF Gpr

\* The frame that jumpasapp leaves on the stack of the task.
LEMMA JumpFacts ==
  ASSUME NEW t \in Tasks, NEW m, On(m, Stack(t, "kernel"), 0),
         \A x \in Gpr \cup {"rip"} : m.r[x] = Val(t, "kernel", x)
  PROVE  LET j == JumpAsApp(m, t)
             k == j.m
         IN  /\ j.saved = Depth(Stack(t, "kernel"), 18)
             /\ On(k, Stack(t, "app"), 0) /\ k.r["rip"] = Val(t, "app", "rip")
             /\ k.r["cs"] = "user" /\ k.r["ss"] = "user" /\ k.r["flags"] = TRUE
             /\ k.r["cr3"] = m.r["cr3"]
             /\ KernelFrame(t, k.s[Stack(t, "kernel")])
             /\ Stays(t, m, k)
<1> DEFINE p == Stack(t, "kernel")
           v == <<"rip", "rbp">>
           a == PushRegs(m, v)
           b == Set(a, "rbp", a.r["rsp"])
           c == PushRegs(b, High8Back)
           w == <<"rbp">>
           d == PushRegs(c, w)
           e == Skip(d, 1)
           fn == PushRegs(e, Low6Back)
           ws == <<"user", Empty(t, "app"), TRUE, "user", Val(t, "app", "rip")>>
           g == PushAll(fn, ws)
           k == Iret(g)
<1>0. p \in Stacks /\ Gpr \cup Control \cup {"rsp"} = Reg
  BY StackFacts DEF Names, Reg
<1>1. /\ Len(v) = 2 /\ v[1] = "rip" /\ v[2] = "rbp" /\ Len(w) = 1 /\ Len(ws) = 5
      /\ ws[1] = "user" /\ ws[2] = Empty(t, "app") /\ ws[3] = TRUE /\ ws[4] = "user"
      /\ ws[5] = Val(t, "app", "rip")
  OBVIOUS
<1>2. JumpAsApp(m, t) = [saved |-> fn.r["rsp"], m |-> k]
  BY DEF JumpAsApp
<1> HIDE DEF p, v, w, ws
<1>3. /\ On(a, p, 2) /\ Others(m, a, {"rsp"}) /\ Upto(m, a, p, 0)
      /\ a.s[p][1] = Val(t, "kernel", "rip") /\ a.s[p][2] = Val(t, "kernel", "rbp")
  <2>1. /\ On(a, p, 0 + Len(v)) /\ Others(m, a, {"rsp"}) /\ Upto(m, a, p, 0)
        /\ TopRegs(a, p, 0, m, v)
    <3>1. On(m, p, 0) /\ 0 \in Nat /\ Len(v) \in Nat
      BY <1>1 DEF p
    <3> QED BY <1>0, <3>1, PushRegsFacts
  <2>2. "rbp" \in Gpr
    BY DEF Gpr
  <2> QED BY <1>1, <2>1, <2>2 DEF TopRegs
<1> HIDE DEF a
<1>4. On(b, p, 2) /\ Others(a, b, {"rbp"}) /\ b.s = a.s
  <2>1. "rbp" \in Reg /\ "rsp" \in Reg
    BY DEF Reg, Gpr
  <2>2. IsMachine(b) /\ b.s = a.s /\ Others(a, b, {"rbp"})
    BY <1>3, <2>1 DEF On, Set, Others, IsMachine
  <2> QED BY <1>3, <2>1, <2>2 DEF On, Others
<1> HIDE DEF b
<1>5. /\ On(c, p, 10) /\ Others(b, c, {"rsp"}) /\ Upto(b, c, p, 2)
      /\ \A i \in 1..8 : c.s[p][2 + i] = Val(t, "kernel", High8Back[i])
  <2>1. /\ On(c, p, 2 + Len(High8Back)) /\ Others(b, c, {"rsp"}) /\ Upto(b, c, p, 2)
        /\ TopRegs(c, p, 2, b, High8Back)
    <3>1. 2 \in Nat /\ Len(High8Back) \in Nat
      BY Lists
    <3> QED BY <1>0, <1>4, <3>1, PushRegsFacts
  <2>2. \A i \in 1..8 : High8Back[i] \in Gpr \ {"rbp"} /\ High8Back[i] \in Reg \ {"rsp"}
    BY DEF High8Back, Gpr, Reg
  <2>3. \A i \in 1..8 : b.r[High8Back[i]] = Val(t, "kernel", High8Back[i])
    BY <1>3, <1>4, <2>2 DEF Others
  <2> QED BY <2>1, <2>3, Lists DEF TopRegs
<1> HIDE DEF c
<1>6. On(d, p, 11) /\ Others(c, d, {"rsp"}) /\ Upto(c, d, p, 10)
  <2>1. 10 \in Nat /\ Len(w) \in Nat
    BY <1>1
  <2>2. On(d, p, 10 + Len(w)) /\ Others(c, d, {"rsp"}) /\ Upto(c, d, p, 10)
    BY <1>0, <1>5, <2>1, PushRegsFacts
  <2> QED BY <1>1, <2>2
<1> HIDE DEF d
<1>7. On(e, p, 12) /\ Others(d, e, {"rsp"}) /\ Upto(d, e, p, 11)
  BY <1>0, <1>6, SkipFacts
<1> HIDE DEF e
<1>8. /\ On(fn, p, 18) /\ Others(e, fn, {"rsp"}) /\ Upto(e, fn, p, 12)
      /\ \A i \in 1..6 : fn.s[p][12 + i] = Val(t, "kernel", Low6Back[i])
  <2>1. /\ On(fn, p, 12 + Len(Low6Back)) /\ Others(e, fn, {"rsp"}) /\ Upto(e, fn, p, 12)
        /\ TopRegs(fn, p, 12, e, Low6Back)
    <3>1. 12 \in Nat /\ Len(Low6Back) \in Nat
      BY Lists
    <3> QED BY <1>0, <1>7, <3>1, PushRegsFacts
  <2>2. \A i \in 1..6 : Low6Back[i] \in Gpr \ {"rbp"} /\ Low6Back[i] \in Reg \ {"rsp"}
    BY DEF Low6Back, Gpr, Reg
  <2>3. \A i \in 1..6 : e.r[Low6Back[i]] = Val(t, "kernel", Low6Back[i])
    BY <1>3, <1>4, <1>5, <1>6, <1>7, <2>2 DEF Others
  <2>4. On(fn, p, 18) /\ TopRegs(fn, p, 12, e, Low6Back) /\ Len(Low6Back) = 6
    BY <2>1, Lists
  <2>5. \A i \in 1..6 : fn.s[p][12 + i] = Val(t, "kernel", Low6Back[i])
    BY <2>3, <2>4 DEF TopRegs
  <2> QED BY <2>1, <2>4, <2>5
<1> HIDE DEF fn
<1>9. /\ On(g, p, 23) /\ Others(fn, g, {"rsp"}) /\ Upto(fn, g, p, 18)
      /\ g.s[p][19] = "user" /\ g.s[p][20] = Empty(t, "app") /\ g.s[p][21] = TRUE
      /\ g.s[p][22] = "user" /\ g.s[p][23] = Val(t, "app", "rip")
  <2>1. On(g, p, 18 + Len(ws)) /\ Others(fn, g, {"rsp"}) /\ Upto(fn, g, p, 18) /\ Top(g, p, 18, ws)
    <3>1. 18 \in Nat /\ Len(ws) \in Nat
      BY <1>1
    <3> QED BY <1>0, <1>8, <3>1, PushFacts
  <2>2. \A i \in 1..5 : g.s[p][18 + i] = ws[i]
    BY <1>1, <2>1 DEF Top
  <2> QED BY <1>1, <2>1, <2>2
<1> HIDE DEF g
<1>10. /\ On(k, Stack(t, "app"), 0)
       /\ k.r["rip"] = Val(t, "app", "rip") /\ k.r["cs"] = "user"
       /\ k.r["flags"] = TRUE /\ k.r["ss"] = "user"
       /\ Others(g, k, {"rsp", "rip", "cs", "flags", "ss", "fs", "gs"})
       /\ \A q \in Stacks, i \in Nat :
            /\ q = p => i \in 1..18
            /\ q # Stack(t, "app")
            => k.s[q][i] = g.s[q][i]
  <2> DEFINE n == 23
  <2>1. /\ n \in Nat /\ 5 <= n /\ n - 1 = 22 /\ n - 2 = 21 /\ n - 3 = 20 /\ n - 4 = 19
        /\ n - 5 = 18 /\ n = 23
    OBVIOUS
  <2> HIDE DEF n
  <2>2. /\ On(g, p, n) /\ g.s[p][n - 3] = Depth(Stack(t, "app"), 0)
        /\ Stack(t, "app") \in Stacks
    BY <1>9, <2>1, StackFacts DEF Empty, Names
  <2>3. /\ On(k, Stack(t, "app"), 0)
        /\ k.r["rip"] = g.s[p][n] /\ k.r["cs"] = g.s[p][n - 1]
        /\ k.r["flags"] = g.s[p][n - 2] /\ k.r["ss"] = g.s[p][n - 4]
        /\ Others(g, k, {"rsp", "rip", "cs", "flags", "ss", "fs", "gs"})
        /\ \A q \in Stacks, i \in Nat :
             /\ q = p => i \in 1..(n - 5)
             /\ q = Stack(t, "app") => i \in 1..0
             => k.s[q][i] = g.s[q][i]
    BY <1>0, <2>1, <2>2, IretFacts
  <2> QED BY <1>9, <2>1, <2>3
<1> HIDE DEF k
<1>11. KernelFrame(t, k.s[p])
  <2>1. p # Stack(t, "app")
    BY StackFacts DEF Names, p
  <2>2. \A i \in 1..18 : k.s[p][i] = g.s[p][i] /\ g.s[p][i] = fn.s[p][i]
    BY <1>0, <1>9, <1>10, <2>1 DEF Upto
  <2>3. \A i \in 1..12 : fn.s[p][i] = e.s[p][i]
    BY <1>0, <1>8 DEF Upto
  <2>4. \A i \in 1..10 : e.s[p][i] = c.s[p][i]
    BY <1>0, <1>6, <1>7 DEF Upto
  <2>5. \A i \in 1..2 : c.s[p][i] = a.s[p][i]
    BY <1>0, <1>4, <1>5 DEF Upto
  <2>6. \A i \in 1..2 : k.s[p][i] = a.s[p][i]
    BY <2>2, <2>3, <2>4, <2>5
  <2>7. \A i \in 1..8 : k.s[p][2 + i] = c.s[p][2 + i]
    BY <2>2, <2>3, <2>4
  <2>8. \A i \in 1..6 : k.s[p][12 + i] = fn.s[p][12 + i]
    BY <2>2
  <2> QED BY <1>3, <1>5, <1>8, <2>6, <2>7, <2>8 DEF KernelFrame
<1>12. Stays(t, m, k)
  <2> SUFFICES ASSUME NEW o \in Tasks \ {t}, NEW x \in Names, NEW i \in Nat
               PROVE  k.s[Stack(o, x)][i] = m.s[Stack(o, x)][i]
    BY DEF Stays, Names
  <2>1. Stack(o, x) \in Stacks /\ Stack(o, x) # p /\ Stack(o, x) # Stack(t, "app")
    BY StackFacts DEF Names, p
  <2> QED BY <1>3, <1>4, <1>5, <1>6, <1>7, <1>8, <1>9, <1>10, <2>1 DEF Upto
<1>13. k.r["cr3"] = m.r["cr3"]
  <2>1. "cr3" \in Reg
    BY DEF Reg, Control
  <2> QED BY <1>3, <1>4, <1>5, <1>6, <1>7, <1>8, <1>9, <1>10, <2>1 DEF Others
<1>14. fn.r["rsp"] = Depth(p, 18)
  BY <1>8 DEF On
<1> QED BY <1>2, <1>10, <1>11, <1>12, <1>13, <1>14 DEF p

\* The frame of asmapihandle is on top of the interrupt's.
LEMMA ApiFrameFacts ==
  ASSUME NEW m, NEW p \in Stacks, On(m, p, 5)
  PROVE  LET k == ApiFrame(m)
         IN  /\ On(k, p, 30) /\ k.r["rbp"] = Depth(p, 6) /\ Upto(m, k, p, 5)
             /\ Others(m, k, {"rsp", "rbp", "rdi"})
             /\ k.s[p][6] = m.r["rbp"]
             /\ \A i \in 1..8 : k.s[p][6 + i] = m.r[High8Back[i]]
             /\ \A i \in 1..6 : k.s[p][16 + i] = m.r[Low6Back[i]]
<1> DEFINE w == <<"rbp">>
           a == PushRegs(m, w)
           b == Set(a, "rbp", a.r["rsp"])
           c == PushRegs(b, High8Back)
           d == Skip(c, 2)
           e == PushRegs(d, Low6Back)
           fn == Skip(e, 8)
           k == Set(fn, "rdi", fn.r["rsp"])
<1>0. {"rbp", "rsp", "rdi"} \subseteq Reg
  BY DEF Reg, Gpr
<1>1. Len(w) = 1 /\ w[1] = "rbp"
  OBVIOUS
<1>2. ApiFrame(m) = k
  BY DEF ApiFrame
<1> HIDE DEF w
<1>3. /\ On(a, p, 6) /\ Others(m, a, {"rsp"}) /\ Upto(m, a, p, 5)
      /\ a.s[p][6] = m.r["rbp"]
  <2>1. On(a, p, 5 + Len(w)) /\ Others(m, a, {"rsp"}) /\ Upto(m, a, p, 5) /\ TopRegs(a, p, 5, m, w)
    <3>1. 5 \in Nat /\ Len(w) \in Nat
      BY <1>1
    <3> QED BY <3>1, PushRegsFacts
  <2> QED BY <1>1, <2>1 DEF TopRegs
<1> HIDE DEF a
<1>4. On(b, p, 6) /\ Others(a, b, {"rbp"}) /\ b.s = a.s /\ b.r["rbp"] = Depth(p, 6)
  <2>1. "rbp" \in Reg /\ "rsp" \in Reg
    BY <1>0
  <2>2. IsMachine(b) /\ b.s = a.s /\ Others(a, b, {"rbp"}) /\ b.r["rbp"] = a.r["rsp"]
    BY <1>3, <2>1 DEF On, Set, Others, IsMachine
  <2> QED BY <1>3, <2>1, <2>2 DEF On, Others
<1> HIDE DEF b
<1>5. /\ On(c, p, 14) /\ Others(b, c, {"rsp"}) /\ Upto(b, c, p, 6)
      /\ \A i \in 1..8 : c.s[p][6 + i] = m.r[High8Back[i]]
  <2>1. /\ On(c, p, 6 + Len(High8Back)) /\ Others(b, c, {"rsp"}) /\ Upto(b, c, p, 6)
        /\ TopRegs(c, p, 6, b, High8Back)
    <3>1. 6 \in Nat /\ Len(High8Back) \in Nat
      BY Lists
    <3> QED BY <1>4, <3>1, PushRegsFacts
  <2>2. \A i \in 1..8 : High8Back[i] \in Gpr \ {"rbp"} /\ High8Back[i] \in Reg \ {"rsp"}
    BY DEF High8Back, Gpr, Reg
  <2>3. \A i \in 1..8 : b.r[High8Back[i]] = m.r[High8Back[i]]
    BY <1>3, <1>4, <2>2 DEF Others
  <2>4. On(c, p, 14) /\ TopRegs(c, p, 6, b, High8Back) /\ Len(High8Back) = 8
    BY <2>1, Lists
  <2>5. \A i \in 1..8 : c.s[p][6 + i] = m.r[High8Back[i]]
    BY <2>3, <2>4 DEF TopRegs
  <2> QED BY <2>1, <2>4, <2>5
<1> HIDE DEF c
<1>6. On(d, p, 16) /\ Others(c, d, {"rsp"}) /\ Upto(c, d, p, 14)
  BY <1>5, SkipFacts
<1> HIDE DEF d
<1>7. /\ On(e, p, 22) /\ Others(d, e, {"rsp"}) /\ Upto(d, e, p, 16)
      /\ \A i \in 1..6 : e.s[p][16 + i] = m.r[Low6Back[i]]
  <2>1. /\ On(e, p, 16 + Len(Low6Back)) /\ Others(d, e, {"rsp"}) /\ Upto(d, e, p, 16)
        /\ TopRegs(e, p, 16, d, Low6Back)
    <3>1. 16 \in Nat /\ Len(Low6Back) \in Nat
      BY Lists
    <3> QED BY <1>6, <3>1, PushRegsFacts
  <2>2. \A i \in 1..6 : Low6Back[i] \in Gpr \ {"rbp"} /\ Low6Back[i] \in Reg \ {"rsp"}
    BY DEF Low6Back, Gpr, Reg
  <2>3. \A i \in 1..6 : d.r[Low6Back[i]] = m.r[Low6Back[i]]
    BY <1>3, <1>4, <1>5, <1>6, <2>2 DEF Others
  <2>4. On(e, p, 22) /\ TopRegs(e, p, 16, d, Low6Back) /\ Len(Low6Back) = 6
    BY <2>1, Lists
  <2>5. \A i \in 1..6 : e.s[p][16 + i] = m.r[Low6Back[i]]
    BY <2>3, <2>4 DEF TopRegs
  <2> QED BY <2>1, <2>4, <2>5
<1> HIDE DEF e
<1>8. On(fn, p, 30) /\ Others(e, fn, {"rsp"}) /\ Upto(e, fn, p, 22)
  BY <1>7, SkipFacts
<1> HIDE DEF fn
<1>9. On(k, p, 30) /\ Others(fn, k, {"rdi"}) /\ k.s = fn.s
  <2>1. "rdi" \in Reg
    BY <1>0
  <2>2. IsMachine(k) /\ k.s = fn.s /\ Others(fn, k, {"rdi"})
    BY <1>8, <2>1 DEF On, Set, Others, IsMachine
  <2> QED BY <1>0, <1>8, <2>2 DEF On, Others
<1> HIDE DEF k
<1>10. k.r["rbp"] = Depth(p, 6)
  BY <1>0, <1>4, <1>5, <1>6, <1>7, <1>8, <1>9 DEF Others
<1>11. Others(m, k, {"rsp", "rbp", "rdi"})
  BY <1>3, <1>4, <1>5, <1>6, <1>7, <1>8, <1>9 DEF Others
<1>12. Upto(m, k, p, 5)
  BY <1>3, <1>4, <1>5, <1>6, <1>7, <1>8, <1>9 DEF Upto
<1>13. \A i \in 1..22 : k.s[p][i] = e.s[p][i]
  BY <1>8, <1>9 DEF Upto
<1>14. \A i \in 1..14 : e.s[p][i] = c.s[p][i]
  BY <1>6, <1>7 DEF Upto
<1>15. c.s[p][6] = a.s[p][6]
  BY <1>4, <1>5 DEF Upto
<1>16. /\ k.s[p][6] = m.r["rbp"]
       /\ \A i \in 1..8 : k.s[p][6 + i] = m.r[High8Back[i]]
       /\ \A i \in 1..6 : k.s[p][16 + i] = m.r[Low6Back[i]]
  <2>1. k.s[p][6] = m.r["rbp"]
    BY <1>3, <1>13, <1>14, <1>15
  <2>2. \A i \in 1..8 : k.s[p][6 + i] = m.r[High8Back[i]]
    BY <1>5, <1>13, <1>14
  <2>3. \A i \in 1..6 : k.s[p][16 + i] = m.r[Low6Back[i]]
    BY <1>7, <1>13
  <2> QED BY <2>1, <2>2, <2>3
<1> QED BY <1>2, <1>9, <1>10, <1>11, <1>12, <1>16

\* At .next the registers come from the frame, and iret gives the rest.
LEMMA ApiNextFacts ==
  ASSUME NEW t \in Tasks, NEW m, On(m, Stack(t, "irq"), 30),
         m.r["rbp"] = Depth(Stack(t, "irq"), 6), AppFrame(t, m.s[Stack(t, "irq")])
  PROVE  LET k == ApiNext(m)
         IN  /\ On(k, Stack(t, "app"), 0)
             /\ \A x \in Gpr \ {"rax"} : k.r[x] = Val(t, "app", x)
             /\ k.r["rax"] = m.r["rax"] /\ k.r["cr3"] = m.r["cr3"]
             /\ k.r["rip"] = Val(t, "app", "rip") /\ k.r["cs"] = "user"
             /\ k.r["ss"] = "user" /\ k.r["flags"] = TRUE
             /\ \A i \in Nat : k.s[Stack(t, "kernel")][i] = m.s[Stack(t, "kernel")][i]
             /\ Stays(t, m, k)
<1> DEFINE p == Stack(t, "irq")
           a == Drop(m, 9)
           b == PopRegs(a, Tail(Low6))
           c == Drop(b, 2)
           d == PopRegs(c, High8)
           e == SetRsp(d, d.r["rbp"])
           w == <<"rbp">>
           fn == PopRegs(e, w)
           k == Iret(fn)
<1>0. p \in Stacks /\ {"rbp", "rsp", "rax", "cr3"} \subseteq Reg
  BY StackFacts DEF Names, Reg, Gpr, Control
<1>1. Len(w) = 1 /\ w[1] = "rbp" /\ Distinct(w)
  BY DistinctLists
<1>2. ApiNext(m) = k
  BY DEF ApiNext
<1> HIDE DEF p, w
<1>3. On(a, p, 21) /\ Others(m, a, {"rsp"}) /\ Upto(m, a, p, 21)
  <2>1. 9 \in 0..30 /\ 30 \in Nat /\ On(m, p, 30)
    BY DEF p
  <2>2. On(a, p, 30 - 9) /\ Others(m, a, {"rsp"}) /\ Upto(m, a, p, 30 - 9)
    BY <1>0, <2>1, DropFacts
  <2> QED BY <2>2
<1> HIDE DEF a
<1>4. /\ On(b, p, 16) /\ Upto(a, b, p, 16)
      /\ Others(a, b, {Low5[i] : i \in 1..5} \cup {"rsp"})
      /\ \A i \in 1..5 : b.r[Low5[i]] = a.s[p][22 - i]
  <2>1. /\ On(b, p, 21 - Len(Low5)) /\ Upto(a, b, p, 21 - Len(Low5))
        /\ Others(a, b, RegsOf(Low5) \cup {"rsp"})
        /\ Popped(a, b, p, 21, Low5)
    <3>1. 21 \in Nat /\ Len(Low5) <= 21 /\ Distinct(Low5) /\ Tail(Low6) = Low5
      BY Lists, DistinctLists
    <3> QED BY <1>0, <1>3, <3>1, PopFacts
  <2>2. Len(Low5) = 5
    BY Lists
  <2> QED BY <2>1, <2>2 DEF RegsOf, Popped
<1> HIDE DEF b
<1>5. On(c, p, 14) /\ Others(b, c, {"rsp"}) /\ Upto(b, c, p, 14)
  <2>1. 2 \in 0..16 /\ 16 \in Nat
    OBVIOUS
  <2>2. On(c, p, 16 - 2) /\ Others(b, c, {"rsp"}) /\ Upto(b, c, p, 16 - 2)
    BY <1>0, <1>4, <2>1, DropFacts
  <2> QED BY <2>2
<1> HIDE DEF c
<1>6. /\ On(d, p, 6) /\ Upto(c, d, p, 6)
      /\ Others(c, d, {High8[i] : i \in 1..8} \cup {"rsp"})
      /\ \A i \in 1..8 : d.r[High8[i]] = c.s[p][15 - i]
  <2>1. /\ On(d, p, 14 - Len(High8)) /\ Upto(c, d, p, 14 - Len(High8))
        /\ Others(c, d, RegsOf(High8) \cup {"rsp"})
        /\ Popped(c, d, p, 14, High8)
    <3>1. 14 \in Nat /\ Len(High8) <= 14 /\ Distinct(High8)
      BY Lists, DistinctLists
    <3> QED BY <1>0, <1>5, <3>1, PopFacts
  <2>2. Len(High8) = 8
    BY Lists
  <2> QED BY <2>1, <2>2 DEF RegsOf, Popped
<1> HIDE DEF d
<1>7. /\ \A i \in 1..8 : High8[i] \notin {"rbp", "rax", "rsp", "cr3"}
      /\ \A i \in 1..5 : Low5[i] \notin {"rbp", "rax", "rsp", "cr3"}
      /\ \A i \in 1..5, j \in 1..8 : Low5[i] # High8[j]
      /\ \A i \in 1..8 : High8[i] \in Reg
      /\ \A i \in 1..5 : Low5[i] \in Reg
  BY DEF High8, Low5, Reg, Gpr
<1>8. d.r["rbp"] = Depth(p, 6)
  BY <1>0, <1>3, <1>4, <1>5, <1>6, <1>7 DEF Others, p
<1>9. On(e, p, 6) /\ Others(d, e, {"rsp"}) /\ Upto(d, e, p, 6)
  <2>1. IsMachine(d) /\ 6 \in Nat
    BY <1>6 DEF On
  <2> QED BY <1>0, <1>8, <2>1, SetRspFacts
<1> HIDE DEF e
<1>10. /\ On(fn, p, 5) /\ Upto(e, fn, p, 5) /\ Others(e, fn, {"rbp", "rsp"})
       /\ fn.r["rbp"] = e.s[p][6]
  <2>1. /\ On(fn, p, 6 - Len(w)) /\ Upto(e, fn, p, 6 - Len(w))
        /\ Others(e, fn, RegsOf(w) \cup {"rsp"})
        /\ Popped(e, fn, p, 6, w)
    <3>1. 6 \in Nat /\ Len(w) <= 6
      BY <1>1
    <3> QED BY <1>0, <1>1, <1>9, <3>1, PopFacts
  <2>2. RegsOf(w) \cup {"rsp"} = {"rbp", "rsp"}
    BY <1>1 DEF RegsOf
  <2> QED BY <1>1, <2>1, <2>2 DEF Popped
<1> HIDE DEF fn
<1>11. /\ fn.s[p][1] = "user" /\ fn.s[p][2] = Empty(t, "app") /\ fn.s[p][3] = TRUE
       /\ fn.s[p][4] = "user" /\ fn.s[p][5] = Val(t, "app", "rip")
  <2>1. \A i \in 1..5 : fn.s[p][i] = m.s[p][i]
    BY <1>0, <1>3, <1>4, <1>5, <1>6, <1>9, <1>10 DEF Upto
  <2> QED BY <2>1 DEF AppFrame, p
<1>12. /\ On(k, Stack(t, "app"), 0)
       /\ k.r["rip"] = Val(t, "app", "rip") /\ k.r["cs"] = "user"
       /\ k.r["flags"] = TRUE /\ k.r["ss"] = "user"
       /\ Others(fn, k, {"rsp", "rip", "cs", "flags", "ss", "fs", "gs"})
       /\ \A q \in Stacks \ {p, Stack(t, "app")}, i \in Nat : k.s[q][i] = fn.s[q][i]
  <2> DEFINE n == 5
  <2>1. /\ n \in Nat /\ 5 <= n /\ n - 1 = 4 /\ n - 2 = 3 /\ n - 3 = 2 /\ n - 4 = 1
        /\ n = 5
    OBVIOUS
  <2> HIDE DEF n
  <2>2. /\ On(fn, p, n) /\ fn.s[p][n - 3] = Depth(Stack(t, "app"), 0)
        /\ Stack(t, "app") \in Stacks
    BY <1>10, <1>11, <2>1, StackFacts DEF Empty, Names
  <2>3. /\ On(k, Stack(t, "app"), 0)
        /\ k.r["rip"] = fn.s[p][n] /\ k.r["cs"] = fn.s[p][n - 1]
        /\ k.r["flags"] = fn.s[p][n - 2] /\ k.r["ss"] = fn.s[p][n - 4]
        /\ Others(fn, k, {"rsp", "rip", "cs", "flags", "ss", "fs", "gs"})
        /\ \A q \in Stacks, i \in Nat :
             /\ q = p => i \in 1..(n - 5)
             /\ q = Stack(t, "app") => i \in 1..0
             => k.s[q][i] = fn.s[q][i]
    BY <1>0, <2>1, <2>2, IretFacts
  <2> QED BY <1>11, <2>1, <2>3
<1> HIDE DEF k
<1>13. \A x \in Gpr \ {"rax"} : k.r[x] = Val(t, "app", x)
  <2> SUFFICES ASSUME NEW x \in Gpr \ {"rax"} PROVE k.r[x] = Val(t, "app", x)
    OBVIOUS
  <2>0. /\ x \in Reg
        /\ x \notin {"rsp", "rip", "cs", "flags", "ss", "fs", "gs"}
    BY DEF Reg, Gpr
  <2>1. k.r[x] = fn.r[x]
    BY <1>12, <2>0 DEF Others
  <2>2. CASE x = "rbp"
    <3>1. e.s[p][6] = m.s[p][6]
      BY <1>0, <1>3, <1>4, <1>5, <1>6, <1>9 DEF Upto
    <3> QED BY <1>10, <2>1, <2>2, <3>1 DEF AppFrame, p
  <2>3. CASE \E i \in 1..8 : x = High8[i]
    <3>1. PICK i \in 1..8 : x = High8[i]
      BY <2>3
    <3>2. fn.r[x] = c.s[p][15 - i]
      BY <1>6, <1>7, <1>9, <1>10, <3>1 DEF Others
    <3>3. c.s[p][15 - i] = m.s[p][15 - i]
      BY <1>0, <1>3, <1>4, <1>5 DEF Upto
    <3>4. 9 - i \in 1..8 /\ 6 + (9 - i) = 15 - i /\ High8Back[9 - i] = x
      BY <3>1, Lists
    <3>5. m.s[p][6 + (9 - i)] = Val(t, "app", High8Back[9 - i])
      BY <3>4 DEF AppFrame, p
    <3> QED BY <2>1, <3>2, <3>3, <3>4, <3>5
  <2>4. CASE \E i \in 1..5 : x = Low5[i]
    <3>1. PICK i \in 1..5 : x = Low5[i]
      BY <2>4
    <3>2. b.r[x] = a.s[p][22 - i]
      BY <1>4, <3>1
    <3>3. fn.r[x] = b.r[x]
      <4>1. x \in Reg \ ({High8[j] : j \in 1..8} \cup {"rsp"}) /\ x # "rbp"
        BY <1>7, <3>1
      <4> QED BY <1>5, <1>6, <1>9, <1>10, <4>1 DEF Others
    <3>4. a.s[p][22 - i] = m.s[p][22 - i]
      BY <1>0, <1>3 DEF Upto
    <3>5. 6 - i \in 1..5 /\ 16 + (6 - i) = 22 - i /\ Low6Back[6 - i] = x
      BY <3>1, Lists
    <3>6. m.s[p][16 + (6 - i)] = Val(t, "app", Low6Back[6 - i])
      BY <3>5 DEF AppFrame, p
    <3> QED BY <2>1, <3>2, <3>3, <3>4, <3>5, <3>6
  <2> QED BY <2>2, <2>3, <2>4, GprLists
<1>14. k.r["rax"] = m.r["rax"] /\ k.r["cr3"] = m.r["cr3"]
  <2> SUFFICES ASSUME NEW x \in {"rax", "cr3"} PROVE k.r[x] = m.r[x]
    OBVIOUS
  <2>1. x \in Reg /\ x \notin {"rsp", "rbp", "rip", "cs", "flags", "ss", "fs", "gs"}
    BY <1>0
  <2>2. k.r[x] = d.r[x]
    BY <1>9, <1>10, <1>12, <2>1 DEF Others
  <2>3. d.r[x] = c.r[x]
    BY <1>6, <1>7, <2>1 DEF Others
  <2>4. c.r[x] = a.r[x]
    BY <1>4, <1>5, <1>7, <2>1 DEF Others
  <2> QED BY <1>3, <2>1, <2>2, <2>3, <2>4 DEF Others
<1>15. ASSUME NEW q \in Stacks \ {p, Stack(t, "app")}, NEW i \in Nat
       PROVE  k.s[q][i] = m.s[q][i]
  BY <1>3, <1>4, <1>5, <1>6, <1>9, <1>10, <1>12 DEF Upto
<1>16. \A i \in Nat : k.s[Stack(t, "kernel")][i] = m.s[Stack(t, "kernel")][i]
  <2>1. Stack(t, "kernel") \in Stacks \ {p, Stack(t, "app")}
    BY StackFacts DEF Names, p
  <2> QED BY <1>15, <2>1
<1>17. Stays(t, m, k)
  <2>1. \A o \in Tasks \ {t}, x \in Names : Stack(o, x) \in Stacks \ {p, Stack(t, "app")}
    BY StackFacts DEF Names, p
  <2> QED BY <1>15, <2>1 DEF Stays, Names
<1> QED BY <1>2, <1>12, <1>13, <1>14, <1>16, <1>17

\* Call 4 takes back what jumpasapp put on the stack of the task.
LEMMA ApiLeaveFacts ==
  ASSUME NEW t \in Tasks, NEW m, IsMachine(m),
         m.r["rax"] = Depth(Stack(t, "kernel"), 18), KernelFrame(t, m.s[Stack(t, "kernel")])
  PROVE  LET k == ApiLeave(m)
         IN  /\ On(k, Stack(t, "kernel"), 0)
             /\ \A x \in Gpr : k.r[x] = Val(t, "kernel", x)
             /\ k.r["rip"] = Val(t, "kernel", "rip") /\ k.r["cs"] = m.r["cs"]
             /\ Stays(t, m, k)
<1> DEFINE p == Stack(t, "kernel")
           v == <<"rbp">>
           w == <<"rbp", "rip">>
           a == SetRsp(m, m.r["rax"])
           b == PopRegs(a, Low6)
           c == Drop(b, 1)
           d == PopRegs(c, v)
           e == PopRegs(d, High8)
           k == PopRegs(e, w)
<1>0. p \in Stacks /\ {"rbp", "rip", "cs", "rax"} \subseteq Reg
  BY StackFacts DEF Names, Reg, Gpr, Control
<1>1. /\ Len(v) = 1 /\ v[1] = "rbp" /\ Distinct(v)
      /\ Len(w) = 2 /\ w[1] = "rbp" /\ w[2] = "rip" /\ Distinct(w)
  BY DistinctLists
<1>2. ApiLeave(m) = k
  BY DEF ApiLeave
<1> HIDE DEF p, v, w
<1>3. On(a, p, 18) /\ Others(m, a, {"rsp"}) /\ Upto(m, a, p, 18)
  <2>1. m.r["rax"] = Depth(p, 18) /\ 18 \in Nat
    BY DEF p
  <2> QED BY <1>0, <2>1, SetRspFacts
<1> HIDE DEF a
<1>4. /\ On(b, p, 12) /\ Upto(a, b, p, 12) /\ Others(a, b, RegsOf(Low6) \cup {"rsp"})
      /\ Popped(a, b, p, 18, Low6)
  <2>1. 18 \in Nat /\ Len(Low6) <= 18 /\ Distinct(Low6) /\ 18 - Len(Low6) = 12
    BY Lists, DistinctLists
  <2>2. /\ On(b, p, 18 - Len(Low6)) /\ Upto(a, b, p, 18 - Len(Low6))
        /\ Others(a, b, RegsOf(Low6) \cup {"rsp"}) /\ Popped(a, b, p, 18, Low6)
    BY <1>0, <1>3, <2>1, PopFacts
  <2> QED BY <2>1, <2>2
<1> HIDE DEF b
<1>5. On(c, p, 11) /\ Others(b, c, {"rsp"}) /\ Upto(b, c, p, 11)
  <2>1. 1 \in 0..12 /\ 12 \in Nat
    OBVIOUS
  <2>2. On(c, p, 12 - 1) /\ Others(b, c, {"rsp"}) /\ Upto(b, c, p, 12 - 1)
    BY <1>0, <1>4, <2>1, DropFacts
  <2> QED BY <2>2
<1> HIDE DEF c
<1>6. On(d, p, 10) /\ Upto(c, d, p, 10) /\ Others(c, d, {"rbp", "rsp"})
  <2>1. 11 \in Nat /\ Len(v) <= 11 /\ 11 - Len(v) = 10
    BY <1>1
  <2>2. On(d, p, 11 - Len(v)) /\ Upto(c, d, p, 11 - Len(v)) /\ Others(c, d, RegsOf(v) \cup {"rsp"})
    BY <1>0, <1>1, <1>5, <2>1, PopFacts
  <2>3. RegsOf(v) \cup {"rsp"} = {"rbp", "rsp"}
    BY <1>1 DEF RegsOf
  <2> QED BY <2>1, <2>2, <2>3
<1> HIDE DEF d
<1>7. /\ On(e, p, 2) /\ Upto(d, e, p, 2) /\ Others(d, e, RegsOf(High8) \cup {"rsp"})
      /\ Popped(d, e, p, 10, High8)
  <2>1. 10 \in Nat /\ Len(High8) <= 10 /\ Distinct(High8) /\ 10 - Len(High8) = 2
    BY Lists, DistinctLists
  <2>2. /\ On(e, p, 10 - Len(High8)) /\ Upto(d, e, p, 10 - Len(High8))
        /\ Others(d, e, RegsOf(High8) \cup {"rsp"}) /\ Popped(d, e, p, 10, High8)
    BY <1>0, <1>6, <2>1, PopFacts
  <2> QED BY <2>1, <2>2
<1> HIDE DEF e
<1>8. /\ On(k, p, 0) /\ Upto(e, k, p, 0) /\ Others(e, k, {"rbp", "rip", "rsp"})
      /\ k.r["rbp"] = e.s[p][2] /\ k.r["rip"] = e.s[p][1]
  <2>1. 2 \in Nat /\ Len(w) <= 2 /\ 2 - Len(w) = 0
    BY <1>1
  <2>2. /\ On(k, p, 2 - Len(w)) /\ Upto(e, k, p, 2 - Len(w))
        /\ Others(e, k, RegsOf(w) \cup {"rsp"}) /\ Popped(e, k, p, 2, w)
    BY <1>0, <1>1, <1>7, <2>1, PopFacts
  <2>3. RegsOf(w) \cup {"rsp"} = {"rbp", "rip", "rsp"}
    BY <1>1 DEF RegsOf
  <2>4. k.r["rbp"] = e.s[p][2] /\ k.r["rip"] = e.s[p][1]
    <3>1. k.r[w[1]] = e.s[p][2 - (1 - 1)] /\ k.r[w[2]] = e.s[p][2 - (2 - 1)]
      BY <1>1, <2>2 DEF Popped
    <3> QED BY <1>1, <3>1
  <2> QED BY <2>1, <2>2, <2>3, <2>4
<1> HIDE DEF k
<1>9. /\ \A i \in 1..8 : High8[i] \in Reg \ {"rbp", "rip", "rsp", "cs"}
      /\ \A i \in 1..6 : Low6[i] \in Reg \ {"rbp", "rip", "rsp", "cs"}
      /\ \A i \in 1..6, j \in 1..8 : Low6[i] # High8[j]
  BY DEF High8, Low6, Reg, Gpr
<1>10. /\ \A i \in 1..2 : e.s[p][i] = m.s[p][i]
       /\ \A i \in 1..10 : d.s[p][i] = m.s[p][i]
       /\ \A i \in 1..18 : a.s[p][i] = m.s[p][i]
  BY <1>0, <1>3, <1>4, <1>5, <1>6, <1>7 DEF Upto
<1>11. k.r["rip"] = Val(t, "kernel", "rip") /\ k.r["rbp"] = Val(t, "kernel", "rbp")
  BY <1>8, <1>10 DEF KernelFrame, p
<1>12. ASSUME NEW i \in 1..8
       PROVE  k.r[High8[i]] = Val(t, "kernel", High8[i])
  <2>1. k.r[High8[i]] = e.r[High8[i]]
    BY <1>8, <1>9 DEF Others
  <2>2. e.r[High8[i]] = d.s[p][10 - (i - 1)]
    BY <1>7, Lists DEF Popped
  <2>3. 9 - i \in 1..8 /\ 10 - (i - 1) = 2 + (9 - i) /\ High8Back[9 - i] = High8[i]
        /\ 10 - (i - 1) \in 1..10
    BY Lists
  <2>4. m.s[p][2 + (9 - i)] = Val(t, "kernel", High8Back[9 - i])
    BY <2>3 DEF KernelFrame, p
  <2> QED BY <1>10, <2>1, <2>2, <2>3, <2>4
<1>13. ASSUME NEW i \in 1..6
       PROVE  k.r[Low6[i]] = Val(t, "kernel", Low6[i])
  <2>1. k.r[Low6[i]] = b.r[Low6[i]]
    <3>1. Low6[i] \in Reg \ (RegsOf(High8) \cup {"rsp"})
      BY <1>9, Lists DEF RegsOf
    <3> QED BY <1>5, <1>6, <1>7, <1>8, <1>9, <3>1 DEF Others
  <2>2. b.r[Low6[i]] = a.s[p][18 - (i - 1)]
    BY <1>4, Lists DEF Popped
  <2>3. 7 - i \in 1..6 /\ 18 - (i - 1) = 12 + (7 - i) /\ Low6Back[7 - i] = Low6[i]
        /\ 18 - (i - 1) \in 1..18
    BY Lists
  <2>4. m.s[p][12 + (7 - i)] = Val(t, "kernel", Low6Back[7 - i])
    BY <2>3 DEF KernelFrame, p
  <2> QED BY <1>10, <2>1, <2>2, <2>3, <2>4
<1>14. \A x \in Gpr : k.r[x] = Val(t, "kernel", x)
  <2>1. Low6[1] = "rax" /\ \A i \in 1..5 : Low5[i] = Low6[i + 1]
    BY DEF Low6, Low5
  <2> QED BY <1>11, <1>12, <1>13, <2>1, GprLists
<1>15. k.r["cs"] = m.r["cs"]
  <2>1. "cs" \in Reg \ (RegsOf(High8) \cup RegsOf(Low6) \cup {"rsp", "rbp", "rip"})
    BY <1>0, <1>9, Lists DEF RegsOf
  <2> QED BY <1>3, <1>4, <1>5, <1>6, <1>7, <1>8, <2>1 DEF Others
<1>16. Stays(t, m, k)
  <2>1. \A o \in Tasks \ {t}, x \in Names : Stack(o, x) \in Stacks \ {p}
    BY StackFacts DEF Names, p
  <2>2. \A q \in Stacks \ {p}, i \in Nat : k.s[q][i] = m.s[q][i]
    BY <1>3, <1>4, <1>5, <1>6, <1>7, <1>8 DEF Upto
  <2> QED BY <2>1, <2>2 DEF Stays, Names
<1> QED BY <1>2, <1>8, <1>11, <1>14, <1>15, <1>16 DEF p

-------------------------------------------------------------------------------
(* The steps *)

\* A step of the task that has the processor and keeps it.
LEMMA HereKeeps ==
  ASSUME ContextInv, NEW l \in Levels, NEW b,
         running' = running, ct' = ct, at' = [at EXCEPT ![running] = l],
         brsp' = [brsp EXCEPT ![running] = b],
         IsMachine(machine'), Fine(running, machine'.r, l),
         Frames(running, machine'.s, b, l), Stays(running, machine, machine')
  PROVE  ContextInv'
<1>1. running \in Tasks /\ at \in [Tasks -> Levels] /\ brsp = [t \in Tasks |-> brsp[t]]
  BY DEF ContextInv
<1>2. /\ at' \in [Tasks -> Levels] /\ at'[running] = l
      /\ brsp' = [t \in Tasks |-> brsp'[t]] /\ brsp'[running] = b
      /\ \A o \in Tasks \ {running} : at'[o] = at[o] /\ brsp'[o] = brsp[o]
  BY <1>1
<1>3. ASSUME NEW o \in Tasks \ {running}
      PROVE  /\ Frames(o, machine'.s, brsp[o], at[o])
             /\ Waits(o, ct[o], machine'.s, at[o])
  <2>1. Agree(o, at[o], machine.s, machine'.s, 5)
    <3>1. at[o] \in Levels
      BY <1>1
    <3> QED BY <3>1 DEF Stays, Agree, TrapStack, Used
  <2> QED BY <1>1, <2>1, AgreeLess, WaitsKept, FramesKept DEF ContextInv
<1> QED BY <1>1, <1>2, <1>3 DEF ContextInv

LEMMA WorkKeeps == ContextInv /\ Work => ContextInv'
<1> SUFFICES ASSUME ContextInv, Work PROVE ContextInv'
  OBVIOUS
<1> DEFINE t == running
           fn == Own(t, "kernel")
<1>1. /\ t \in Tasks /\ IsMachine(machine) /\ Fine(t, machine.r, "new")
      /\ brsp = [o \in Tasks |-> brsp[o]]
  BY DEF ContextInv, Work
<1>2. DOMAIN fn = Gpr /\ Gpr \subseteq Reg /\ \A x \in Gpr : fn[x] = Val(t, "kernel", x)
  BY DEF Own, Reg
<1>3. machine' = SetAll(machine, fn)
  BY DEF Work
<1> HIDE DEF fn
<1>4. /\ IsMachine(machine') /\ machine'.s = machine.s /\ Others(machine, machine', Gpr)
      /\ \A x \in Gpr : machine'.r[x] = Val(t, "kernel", x)
  BY <1>1, <1>2, <1>3, SetAllFacts
<1>5. Fine(t, machine'.r, "kernel")
  <2>1. /\ machine.r["rsp"] = Depth(Stack(t, "kernel"), 0) /\ machine.r["cs"] = "kernel"
        /\ machine.r["cr3"] = "kernel" /\ machine.r["rip"] = Val(t, "kernel", "rip")
    BY <1>1 DEF Fine, Home, Used
  <2>2. {"rsp", "cs", "cr3", "rip"} \subseteq Reg \ Gpr
    BY DEF Reg, Gpr, Control
  <2>3. /\ machine'.r["rsp"] = Depth(Stack(t, "kernel"), 0) /\ machine'.r["cs"] = "kernel"
        /\ machine'.r["cr3"] = "kernel" /\ machine'.r["rip"] = Val(t, "kernel", "rip")
    BY <1>4, <2>1, <2>2 DEF Others
  <2>4. machine'.r = [x \in Reg |-> machine'.r[x]]
    BY <1>4 DEF IsMachine
  <2> QED BY <1>4, <2>3, <2>4 DEF Fine, Home, Used
<1>6. /\ running' = running /\ ct' = ct /\ at' = [at EXCEPT ![running] = "kernel"]
      /\ brsp' = [brsp EXCEPT ![running] = brsp[running]]
  BY <1>1 DEF Work
<1>7. Frames(running, machine'.s, brsp[running], "kernel")
  BY DEF Frames
<1>8. Stays(running, machine, machine')
  BY <1>4 DEF Stays
<1> QED BY <1>4, <1>5, <1>6, <1>7, <1>8, HereKeeps DEF Levels

LEMMA SleepKeeps ==
  ASSUME ContextInv, NEW n \in Tasks, Sleep(n)
  PROVE  ContextInv'
<1> DEFINE l == at[running]
<1>1. /\ running \in Tasks /\ l \in {"kernel", "api"} /\ n # running
      /\ IsMachine(machine) /\ Fine(running, machine.r, l) /\ SwitchFrom(machine, n)
  BY DEF ContextInv, Sleep
<1>2. On(machine, TrapStack(running, l), Used(l) + 0)
  BY <1>1 DEF On, Fine, Home, TrapStack, Used
<1>3. machine.r["rip"] # Entry("handler") /\ machine.r["cs"] = "kernel"
  BY <1>1 DEF Fine, Entry, Val
<1>4. Waits(running, machine.r, machine.s, l)
  BY <1>1, <1>3 DEF Waits, IsMachine
<1>5. Agree(running, l, machine.s, machine.s, 0) /\ Stays(running, machine, machine)
  BY DEF Agree, Stays
<1> QED BY <1>1, <1>2, <1>3, <1>4, <1>5, SwitchKeeps

LEMMA TimerSwitchKeeps ==
  ASSUME ContextInv, NEW n \in Tasks, TimerSwitch(n)
  PROVE  ContextInv'
<1> DEFINE l == at[running]
           m == Trap(machine, running, "handler")
<1>1. /\ running \in Tasks /\ l \in Levels /\ n # running
      /\ IsMachine(machine) /\ Fine(running, machine.r, l) /\ SwitchFrom(m, n)
  BY DEF ContextInv, TimerSwitch
<1>2. /\ On(m, TrapStack(running, l), Used(l) + 5)
      /\ Upto(machine, m, TrapStack(running, l), Used(l))
      /\ m.r["rip"] = Entry("handler") /\ m.r["cs"] = "kernel"
      /\ Trapped(running, m.r, m.s, machine.r, l)
  <2>1. /\ machine.r["cs"] = "user" <=> l = "app"
        /\ l # "app" => machine.r["rsp"] = Depth(TrapStack(running, l), Used(l))
    BY <1>1, StackTypes DEF Fine
  <2> QED BY <1>1, <2>1, TrapFacts
<1> HIDE DEF m
<1>3. Waits(running, m.r, m.s, l)
  BY <1>1, <1>2 DEF Waits, On, IsMachine
<1>4. Agree(running, l, machine.s, m.s, 0)
  <2>1. \A i \in 1..(Used(l) + 0) : m.s[TrapStack(running, l)][i] = machine.s[TrapStack(running, l)][i]
    BY <1>1, <1>2, StackTypes DEF Upto
  <2>2. ASSUME l \in {"app", "api"}, NEW i \in 1..18
        PROVE  m.s[Stack(running, "kernel")][i] = machine.s[Stack(running, "kernel")][i]
    <3>1. Stack(running, "kernel") # TrapStack(running, l) /\ Stack(running, "kernel") \in Stacks
      BY <1>1, <2>2, StackFacts DEF TrapStack, Names
    <3> QED BY <1>2, <3>1 DEF Upto
  <2> QED BY <2>1, <2>2 DEF Agree
<1>5. Stays(running, machine, m)
  <2>1. \A o \in Tasks \ {running}, x \in Names :
          Stack(o, x) \in Stacks /\ Stack(o, x) # TrapStack(running, l)
    BY <1>1, StackFacts DEF TrapStack, Names
  <2> QED BY <1>2, <2>1 DEF Stays, Names, Upto
<1> QED BY <1>1, <1>2, <1>3, <1>4, <1>5, SwitchKeeps

LEMMA JumpKeeps == ContextInv /\ Jump => ContextInv'
<1> SUFFICES ASSUME ContextInv, Jump PROVE ContextInv'
  OBVIOUS
<1> DEFINE t == running
           m == Set(machine, "cr3", Val(t, "app", "cr3"))
           j == JumpAsApp(m, t)
           k == j.m
           fn == Own(t, "app")
<1>1. /\ t \in Tasks /\ at[t] = "kernel" /\ IsMachine(machine) /\ Fine(t, machine.r, "kernel")
  BY DEF ContextInv, Jump
<1>2. /\ brsp' = [brsp EXCEPT ![t] = j.saved]
      /\ machine' = SetAll(k, fn)
      /\ at' = [at EXCEPT ![t] = "app"]
      /\ ct' = ct /\ running' = running
  BY DEF Jump
<1>3. /\ DOMAIN fn = Gpr /\ Gpr \subseteq Reg /\ "cr3" \in Reg \ Gpr
      /\ \A x \in Gpr : fn[x] = Val(t, "app", x)
  BY DEF Own, Reg, Gpr, Control
<1> HIDE DEF fn
<1>4. /\ IsMachine(m) /\ m.s = machine.s /\ Others(machine, m, {"cr3"})
      /\ m.r["cr3"] = Val(t, "app", "cr3")
  BY <1>1, <1>3 DEF Set, Others, IsMachine
<1> HIDE DEF m
<1>5. On(m, Stack(t, "kernel"), 0) /\ \A x \in Gpr \cup {"rip"} : m.r[x] = Val(t, "kernel", x)
  <2>1. /\ machine.r["rsp"] = Depth(Stack(t, "kernel"), 0)
        /\ \A x \in Gpr \cup {"rip"} : machine.r[x] = Val(t, "kernel", x)
    BY <1>1 DEF Fine, Home, Used
  <2>2. Gpr \cup {"rip", "rsp"} \subseteq Reg \ {"cr3"}
    BY DEF Reg, Gpr, Control
  <2> QED BY <1>4, <2>1, <2>2 DEF On, Others
<1>6. /\ j.saved = Depth(Stack(t, "kernel"), 18)
      /\ On(k, Stack(t, "app"), 0) /\ k.r["rip"] = Val(t, "app", "rip")
      /\ k.r["cs"] = "user" /\ k.r["ss"] = "user" /\ k.r["flags"] = TRUE
      /\ k.r["cr3"] = m.r["cr3"]
      /\ KernelFrame(t, k.s[Stack(t, "kernel")])
      /\ Stays(t, m, k)
  BY <1>1, <1>5, JumpFacts
<1> HIDE DEF j
<1>7. /\ IsMachine(machine') /\ machine'.s = k.s /\ Others(k, machine', Gpr)
      /\ \A x \in Gpr : machine'.r[x] = Val(t, "app", x)
  BY <1>2, <1>3, <1>6, SetAllFacts DEF On
<1>8. Fine(t, machine'.r, "app")
  <2>1. {"rsp", "cs", "cr3", "rip", "ss", "flags"} \subseteq Reg \ Gpr /\ "rax" \in Gpr
    BY DEF Reg, Gpr, Control
  <2>2. /\ machine'.r["rsp"] = Depth(Stack(t, "app"), 0) /\ machine'.r["cs"] = "user"
        /\ machine'.r["cr3"] = Val(t, "app", "cr3") /\ machine'.r["rip"] = Val(t, "app", "rip")
        /\ machine'.r["ss"] = "user" /\ machine'.r["flags"] = TRUE
    BY <1>4, <1>6, <1>7, <2>1 DEF Others, On
  <2>4. machine'.r = [x \in Reg |-> machine'.r[x]]
    BY <1>7 DEF IsMachine
  <2> QED BY <1>7, <2>1, <2>2, <2>4 DEF Fine, Home, Used
<1>9. Frames(t, machine'.s, j.saved, "app")
  BY <1>6, <1>7 DEF Frames
<1>10. Stays(t, machine, machine')
  BY <1>4, <1>6, <1>7 DEF Stays
<1> QED BY <1>2, <1>7, <1>8, <1>9, <1>10, HereKeeps DEF Levels

LEMMA UserTrap ==
  ASSUME NEW b, NEW t \in Tasks, NEW h, IsMachine(b), b.r["cs"] = "user"
  PROVE  LET k == Trap(b, t, h)
         IN  /\ On(k, TrapStack(t, "app"), Used("app") + 5)
             /\ Upto(b, k, TrapStack(t, "app"), Used("app"))
             /\ k.r["rip"] = Entry(h) /\ k.r["cs"] = "kernel" /\ k.r["flags"] = FALSE
             /\ Trapped(t, k.r, k.s, b.r, "app")
<1>1. \E l \in Levels : l = "app"
  BY DEF Levels
<1>2. PICK l \in Levels : l = "app"
  BY <1>1
<1>3. (b.r["cs"] = "user" <=> l = "app") /\ ~(l # "app")
  BY <1>2
<1>4. LET k == Trap(b, t, h)
      IN  /\ On(k, TrapStack(t, l), Used(l) + 5) /\ Upto(b, k, TrapStack(t, l), Used(l))
          /\ k.r["rip"] = Entry(h) /\ k.r["cs"] = "kernel" /\ k.r["flags"] = FALSE
          /\ Trapped(t, k.r, k.s, b.r, l)
  BY <1>3, TrapFacts
<1> QED BY <1>2, <1>4

LEMMA ApiCallKeeps ==
  ASSUME ContextInv, NEW number, ApiCall(number)
  PROVE  ContextInv'
<1> DEFINE t == running
           p == Stack(t, "irq")
           a == Set(machine, "rax", number)
           m == Trap(a, t, "apibody")
           k == ApiFrame(m)
           fn == [x \in Scratch \ {"rdi"} |-> Val(t, "api", x)]
<1>1. /\ t \in Tasks /\ at[t] = "app" /\ IsMachine(machine) /\ Fine(t, machine.r, "app")
      /\ Frames(t, machine.s, brsp[t], "app") /\ brsp = [o \in Tasks |-> brsp[o]]
      /\ p \in Stacks
  BY StackFacts DEF ContextInv, ApiCall, Names
<1>2. /\ machine' = SetAll(k, fn)
      /\ at' = [at EXCEPT ![t] = "api"]
      /\ ct' = ct /\ running' = running /\ brsp' = [brsp EXCEPT ![t] = brsp[t]]
  BY <1>1 DEF ApiCall
<1>3. DOMAIN fn \subseteq Reg \ {"rbp", "rdi"} /\ {"rax", "rbp"} \subseteq Reg
      /\ DOMAIN fn \cap (Control \cup {"rsp"}) = {}
  BY DEF Scratch, Reg, Gpr, Control
<1> HIDE DEF fn
<1>4. IsMachine(a) /\ a.s = machine.s /\ Others(machine, a, {"rax"})
  BY <1>1, <1>3 DEF Set, Others, IsMachine
<1> HIDE DEF a
<1>5. /\ a.r["cs"] = "user" /\ a.r["ss"] = "user" /\ a.r["flags"] = TRUE
      /\ a.r["rsp"] = Empty(t, "app") /\ a.r["rip"] = Val(t, "app", "rip")
      /\ a.r["cr3"] = Val(t, "app", "cr3")
      /\ \A x \in Gpr \ {"rax"} : a.r[x] = Val(t, "app", x)
  <2>1. /\ {"cs", "ss", "flags", "rsp", "rip", "cr3"} \subseteq Reg \ {"rax"}
        /\ Gpr \ {"rax"} \subseteq Reg \ {"rax"}
    BY DEF Reg, Gpr, Control
  <2> QED BY <1>1, <1>4, <2>1 DEF Others, Fine, Home, Used, Empty
<1>6. /\ On(m, p, 5) /\ Upto(a, m, p, 0)
      /\ m.r["rip"] = Entry("apibody") /\ m.r["cs"] = "kernel"
      /\ m.s[p][1] = "user" /\ m.s[p][2] = Empty(t, "app") /\ m.s[p][3] = TRUE
      /\ m.s[p][4] = "user" /\ m.s[p][5] = Val(t, "app", "rip")
      /\ \A x \in Reg \ {"rsp", "rip", "cs", "flags", "ss", "fs", "gs"} : m.r[x] = a.r[x]
  <2>1. p = TrapStack(t, "app") /\ Used("app") = 0 /\ "app" \in Levels
    BY DEF TrapStack, Used, Levels
  <2>2. /\ On(m, p, 0 + 5) /\ Upto(a, m, p, 0)
        /\ m.r["rip"] = Entry("apibody") /\ m.r["cs"] = "kernel"
        /\ Trapped(t, m.r, m.s, a.r, "app")
    <3>1. IsMachine(a) /\ a.r["cs"] = "user" /\ t \in Tasks
      BY <1>1, <1>4, <1>5
    <3>2. LET c == Trap(a, t, "apibody")
          IN  /\ On(c, TrapStack(t, "app"), Used("app") + 5)
              /\ Upto(a, c, TrapStack(t, "app"), Used("app"))
              /\ c.r["rip"] = Entry("apibody") /\ c.r["cs"] = "kernel" /\ c.r["flags"] = FALSE
              /\ Trapped(t, c.r, c.s, a.r, "app")
      <4> HIDE DEF t, p, k, m
      <4> QED BY <3>1, UserTrap
    <3> QED BY <2>1, <3>2
  <2>3. /\ m.s[p][0 + 1] = a.r["ss"] /\ m.s[p][0 + 2] = a.r["rsp"] /\ m.s[p][0 + 3] = a.r["flags"]
        /\ m.s[p][0 + 4] = a.r["cs"] /\ m.s[p][0 + 5] = a.r["rip"]
        /\ \A x \in Reg \ {"rsp", "rip", "cs", "flags", "ss", "fs", "gs"} : m.r[x] = a.r[x]
    BY <2>1, <2>2 DEF Trapped
  <2> QED BY <1>5, <2>2, <2>3
<1> HIDE DEF m
<1>7. /\ On(k, p, 30) /\ k.r["rbp"] = Depth(p, 6) /\ Upto(m, k, p, 5)
      /\ Others(m, k, {"rsp", "rbp", "rdi"})
      /\ k.s[p][6] = m.r["rbp"]
      /\ \A i \in 1..8 : k.s[p][6 + i] = m.r[High8Back[i]]
      /\ \A i \in 1..6 : k.s[p][16 + i] = m.r[Low6Back[i]]
  BY <1>1, <1>6, ApiFrameFacts
<1> HIDE DEF k
<1>8. /\ IsMachine(machine') /\ machine'.s = k.s /\ Others(k, machine', DOMAIN fn)
  BY <1>2, <1>3, <1>7, SetAllFacts DEF On
<1>9. Fine(t, machine'.r, "api")
  <2>1. {"rsp", "cs", "cr3", "rip", "rbp"} \subseteq Reg \ DOMAIN fn
    BY <1>3 DEF Reg, Gpr, Control
  <2>2. /\ machine'.r["rsp"] = Depth(p, 30) /\ machine'.r["cs"] = "kernel"
        /\ machine'.r["cr3"] = Val(t, "app", "cr3") /\ machine'.r["rip"] = Entry("apibody")
        /\ machine'.r["rbp"] = Depth(p, 6)
    BY <1>5, <1>6, <1>7, <1>8, <2>1 DEF Others, On
  <2>4. machine'.r = [x \in Reg |-> machine'.r[x]]
    BY <1>8 DEF IsMachine
  <2> QED BY <2>2, <2>4 DEF Fine, Home, Used
<1>10. AppFrame(t, machine'.s[p])
  <2>1. \A x \in Gpr \ {"rax"} : m.r[x] = Val(t, "app", x)
    <3>1. Gpr \subseteq Reg \ {"rsp", "rip", "cs", "flags", "ss", "fs", "gs"}
      BY DEF Reg, Gpr, Control
    <3> QED BY <1>5, <1>6, <3>1
  <2>2. /\ "rbp" \in Gpr \ {"rax"}
        /\ \A i \in 1..8 : High8Back[i] \in Gpr \ {"rax"}
        /\ \A i \in 1..5 : Low6Back[i] \in Gpr \ {"rax"}
    BY DEF Gpr, High8Back, Low6Back
  <2>3. \A i \in 1..5 : machine'.s[p][i] = m.s[p][i]
    BY <1>1, <1>7, <1>8 DEF Upto
  <2>4. machine'.s[p][6] = Val(t, "app", "rbp")
    BY <1>7, <1>8, <2>1, <2>2
  <2>5. \A i \in 1..8 : machine'.s[p][6 + i] = Val(t, "app", High8Back[i])
    BY <1>7, <1>8, <2>1, <2>2
  <2>6. \A i \in 1..5 : machine'.s[p][16 + i] = Val(t, "app", Low6Back[i])
    BY <1>7, <1>8, <2>1, <2>2
  <2> QED BY <1>6, <2>3, <2>4, <2>5, <2>6 DEF AppFrame
<1>11. \A q \in Stacks \ {p}, i \in Nat : machine'.s[q][i] = machine.s[q][i]
  BY <1>4, <1>6, <1>7, <1>8 DEF Upto
<1>12. Frames(t, machine'.s, brsp[t], "api")
  <2>1. Stack(t, "kernel") \in Stacks \ {p}
    BY <1>1, StackFacts DEF Names
  <2>2. KernelFrame(t, machine'.s[Stack(t, "kernel")])
    BY <1>1, <1>11, <2>1 DEF Frames, KernelFrame
  <2> QED BY <1>1, <1>10, <2>2 DEF Frames
<1>13. Stays(t, machine, machine')
  <2>1. \A o \in Tasks \ {t}, x \in Names : Stack(o, x) \in Stacks \ {p}
    BY <1>1, StackFacts DEF Names
  <2> QED BY <1>11, <2>1 DEF Stays, Names
<1> QED BY <1>2, <1>8, <1>9, <1>12, <1>13, HereKeeps DEF Levels

LEMMA ApiStiKeeps == ContextInv /\ ApiSti => ContextInv'
<1> SUFFICES ASSUME ContextInv, ApiSti PROVE ContextInv'
  OBVIOUS
<1> DEFINE t == running
<1>1. /\ t \in Tasks /\ at[t] = "api" /\ IsMachine(machine) /\ Fine(t, machine.r, "api")
      /\ Frames(t, machine.s, brsp[t], "api")
      /\ brsp = [o \in Tasks |-> brsp[o]] /\ at \in [Tasks -> Levels]
  BY DEF ContextInv, ApiSti
<1>2. /\ machine' = Set(machine, "flags", TRUE)
      /\ at' = [at EXCEPT ![t] = "api"]
      /\ ct' = ct /\ running' = running /\ brsp' = [brsp EXCEPT ![t] = brsp[t]]
  BY <1>1 DEF ApiSti
<1>3. /\ IsMachine(machine') /\ machine'.s = machine.s /\ Others(machine, machine', {"flags"})
  <2>1. "flags" \in Reg
    BY DEF Reg, Control
  <2> QED BY <1>1, <1>2, <2>1 DEF Set, Others, IsMachine
<1>4. Fine(t, machine'.r, "api")
  <2>1. {"rsp", "cs", "cr3", "rip", "rbp"} \subseteq Reg \ {"flags"}
    BY DEF Reg, Gpr, Control
  <2>2. /\ machine'.r["rsp"] = machine.r["rsp"] /\ machine'.r["cs"] = machine.r["cs"]
        /\ machine'.r["cr3"] = machine.r["cr3"] /\ machine'.r["rip"] = machine.r["rip"]
        /\ machine'.r["rbp"] = machine.r["rbp"]
    BY <1>3, <2>1 DEF Others
  <2>3. machine'.r = [x \in Reg |-> machine'.r[x]]
    BY <1>3 DEF IsMachine
  <2> QED BY <1>1, <2>2, <2>3 DEF Fine
<1>5. Frames(t, machine'.s, brsp[t], "api") /\ Stays(t, machine, machine')
  BY <1>1, <1>3 DEF Stays
<1> QED BY <1>2, <1>3, <1>4, <1>5, HereKeeps DEF Levels

LEMMA ApiReturnKeeps == ContextInv /\ ApiReturn => ContextInv'
<1> SUFFICES ASSUME ContextInv, ApiReturn PROVE ContextInv'
  OBVIOUS
<1> DEFINE t == running
           m == Set(machine, "rax", Val(t, "api", "rax"))
           k == ApiNext(m)
<1>1. /\ t \in Tasks /\ at[t] = "api" /\ IsMachine(machine) /\ Fine(t, machine.r, "api")
      /\ Frames(t, machine.s, brsp[t], "api")
      /\ brsp = [o \in Tasks |-> brsp[o]]
  BY DEF ContextInv, ApiReturn
<1>2. /\ machine' = k
      /\ at' = [at EXCEPT ![t] = "app"]
      /\ ct' = ct /\ running' = running /\ brsp' = [brsp EXCEPT ![t] = brsp[t]]
  BY <1>1 DEF ApiReturn
<1>3. /\ IsMachine(m) /\ m.s = machine.s /\ Others(machine, m, {"rax"})
      /\ m.r["rax"] = Val(t, "api", "rax")
  <2>1. "rax" \in Reg
    BY DEF Reg, Gpr
  <2> QED BY <1>1, <2>1 DEF Set, Others, IsMachine
<1> HIDE DEF m
<1>4. /\ On(m, Stack(t, "irq"), 30) /\ m.r["rbp"] = Depth(Stack(t, "irq"), 6)
      /\ m.r["cr3"] = Val(t, "app", "cr3") /\ AppFrame(t, m.s[Stack(t, "irq")])
  <2>1. {"rsp", "rbp", "cr3"} \subseteq Reg \ {"rax"}
    BY DEF Reg, Gpr, Control
  <2> QED BY <1>1, <1>3, <2>1 DEF On, Others, Fine, Frames, Home, Used
<1>5. /\ On(k, Stack(t, "app"), 0)
      /\ \A x \in Gpr \ {"rax"} : k.r[x] = Val(t, "app", x)
      /\ k.r["rax"] = m.r["rax"] /\ k.r["cr3"] = m.r["cr3"]
      /\ k.r["rip"] = Val(t, "app", "rip") /\ k.r["cs"] = "user"
      /\ k.r["ss"] = "user" /\ k.r["flags"] = TRUE
      /\ \A i \in Nat : k.s[Stack(t, "kernel")][i] = m.s[Stack(t, "kernel")][i]
      /\ Stays(t, m, k)
  BY <1>1, <1>4, ApiNextFacts
<1> HIDE DEF k
<1>6. Fine(t, machine'.r, "app")
  <2>1. machine'.r = [x \in Reg |-> machine'.r[x]] /\ machine'.r["rsp"] = Depth(Stack(t, "app"), 0)
    BY <1>2, <1>5 DEF On, IsMachine
  <2> QED BY <1>2, <1>3, <1>4, <1>5, <2>1 DEF Fine, Home, Used
<1>7. Frames(t, machine'.s, brsp[t], "app")
  BY <1>1, <1>2, <1>3, <1>5 DEF Frames, KernelFrame
<1>8. Stays(t, machine, machine')
  BY <1>2, <1>3, <1>5 DEF Stays
<1>9. IsMachine(machine')
  BY <1>2, <1>5 DEF On
<1> QED BY <1>2, <1>6, <1>7, <1>8, <1>9, HereKeeps DEF Levels

LEMMA ApiExitKeeps == ContextInv /\ ApiExit => ContextInv'
<1> SUFFICES ASSUME ContextInv, ApiExit PROVE ContextInv'
  OBVIOUS
<1> DEFINE t == running
           m == Set(machine, "rax", brsp[t])
           k == ApiLeave(m)
<1>1. /\ t \in Tasks /\ at[t] = "api" /\ IsMachine(machine) /\ Fine(t, machine.r, "api")
      /\ Frames(t, machine.s, brsp[t], "api")
      /\ brsp = [o \in Tasks |-> brsp[o]]
  BY DEF ContextInv, ApiExit
<1>2. /\ machine' = Set(k, "cr3", "kernel")
      /\ at' = [at EXCEPT ![t] = "kernel"]
      /\ ct' = ct /\ running' = running /\ brsp' = [brsp EXCEPT ![t] = brsp[t]]
  BY <1>1 DEF ApiExit
<1>3. {"rax", "cr3", "cs", "rip", "rsp"} \subseteq Reg /\ Gpr \subseteq Reg \ {"cr3"}
  BY DEF Reg, Gpr, Control
<1>4. /\ IsMachine(m) /\ m.s = machine.s /\ Others(machine, m, {"rax"})
      /\ m.r["rax"] = Depth(Stack(t, "kernel"), 18)
  <2>1. brsp[t] = Depth(Stack(t, "kernel"), 18)
    BY <1>1 DEF Frames
  <2> QED BY <1>1, <1>3, <2>1 DEF Set, Others, IsMachine
<1> HIDE DEF m
<1>5. m.r["cs"] = "kernel" /\ KernelFrame(t, m.s[Stack(t, "kernel")])
  BY <1>1, <1>3, <1>4 DEF Others, Fine, Frames
<1>6. /\ On(k, Stack(t, "kernel"), 0)
      /\ \A x \in Gpr : k.r[x] = Val(t, "kernel", x)
      /\ k.r["rip"] = Val(t, "kernel", "rip") /\ k.r["cs"] = m.r["cs"]
      /\ Stays(t, m, k)
  BY <1>1, <1>4, <1>5, ApiLeaveFacts
<1> HIDE DEF k
<1>7. /\ IsMachine(machine') /\ machine'.s = k.s /\ Others(k, machine', {"cr3"})
      /\ machine'.r["cr3"] = "kernel"
  BY <1>2, <1>3, <1>6 DEF On, Set, Others, IsMachine
<1>8. Fine(t, machine'.r, "kernel")
  <2>1. machine'.r = [x \in Reg |-> machine'.r[x]]
    BY <1>7 DEF IsMachine
  <2>2. /\ machine'.r["rsp"] = Depth(Stack(t, "kernel"), 0) /\ machine'.r["cs"] = "kernel"
        /\ machine'.r["rip"] = Val(t, "kernel", "rip")
        /\ \A x \in Gpr : machine'.r[x] = Val(t, "kernel", x)
    BY <1>3, <1>5, <1>6, <1>7 DEF Others, On
  <2> QED BY <1>7, <2>1, <2>2 DEF Fine, Home, Used
<1>9. Frames(t, machine'.s, brsp[t], "kernel")
  BY DEF Frames
<1>10. Stays(t, machine, machine')
  BY <1>4, <1>6, <1>7 DEF Stays
<1> QED BY <1>2, <1>7, <1>8, <1>9, <1>10, HereKeeps DEF Levels

LEMMA ContextInit_Inv == ContextInit => ContextInv
<1> SUFFICES ASSUME ContextInit PROVE ContextInv
  OBVIOUS
<1> DEFINE m == [r |-> NewTask(Main), s |-> [p \in Stacks |-> <<>>]]
           fn == Own(Main, "kernel")
<1>1. /\ running = Main /\ Main \in Tasks /\ machine = SetAll(m, fn)
      /\ at = [t \in Tasks |-> IF t = Main THEN "kernel" ELSE "new"]
      /\ ct = [t \in Tasks |-> NewTask(t)] /\ brsp = [t \in Tasks |-> "none"]
  BY ContextAssumption DEF ContextInit
<1>2. /\ DOMAIN fn = Gpr /\ Gpr \subseteq Reg /\ {"rsp", "cs", "cr3", "rip", "fs"} \subseteq Reg \ Gpr
      /\ \A x \in Gpr : fn[x] = Val(Main, "kernel", x)
  BY DEF Own, Reg, Gpr, Control
<1> HIDE DEF fn
<1>3. \A t \in Tasks : /\ NewTask(t) = [x \in Reg |-> NewTask(t)[x]]
                       /\ NewTask(t)["rsp"] = Empty(t, "kernel") /\ NewTask(t)["cs"] = "kernel"
                       /\ NewTask(t)["cr3"] = "kernel"
                       /\ NewTask(t)["rip"] = Val(t, "kernel", "rip")
  BY <1>2 DEF NewTask
<1>4. IsMachine(m) /\ m.r = NewTask(Main)
  BY <1>1, <1>3 DEF IsMachine
<1> HIDE DEF m
<1>5. /\ IsMachine(machine) /\ Others(m, machine, Gpr)
      /\ \A x \in Gpr : machine.r[x] = Val(Main, "kernel", x)
  BY <1>1, <1>2, <1>4, SetAllFacts
<1>6. Fine(Main, machine.r, "kernel")
  <2>1. machine.r = [x \in Reg |-> machine.r[x]]
    BY <1>5 DEF IsMachine
  <2>2. /\ machine.r["rsp"] = Depth(Stack(Main, "kernel"), 0) /\ machine.r["cs"] = "kernel"
        /\ machine.r["cr3"] = "kernel" /\ machine.r["rip"] = Val(Main, "kernel", "rip")
    BY <1>1, <1>2, <1>3, <1>4, <1>5 DEF Others, Empty
  <2> QED BY <1>5, <2>1, <2>2 DEF Fine, Home, Used
<1>7. ASSUME NEW t \in Tasks \ {Main}
      PROVE  Waits(t, ct[t], machine.s, at[t])
  <2>1. ct[t] = NewTask(t) /\ at[t] = "new"
    BY <1>1, <1>7
  <2>2. Fine(t, NewTask(t), "new")
    BY <1>3, <1>7 DEF Fine, Home, Used, Empty
  <2>3. NewTask(t)["rip"] # Entry("handler")
    BY <1>3, <1>7 DEF Val, Entry
  <2> QED BY <1>3, <1>7, <2>1, <2>2, <2>3 DEF Waits
<1>8. \A t \in Tasks : Frames(t, machine.s, brsp[t], at[t])
  BY <1>1 DEF Frames
<1>9. at \in [Tasks -> Levels]
  BY <1>1 DEF Levels
<1> QED BY <1>1, <1>5, <1>6, <1>7, <1>8, <1>9 DEF ContextInv

\* struct tc in the frame that a call finds
LEMMA TcFrame ==
  ASSUME NEW t, NEW w, AppFrame(t, w), NEW k \in 1..Len(Tc), Tc[k] \in Gpr \ {"rax", "rbp"}
  PROVE  w[31 - k] = Val(t, "app", Tc[k])
<1>1. /\ Len(Tc) = 24
      /\ Tc[1] = "cr3" /\ Tc[2] = "rip" /\ Tc[3] = "flags" /\ Tc[4] = "rsv" /\ Tc[5] = "cs"
      /\ Tc[6] = "ss" /\ Tc[7] = "fs" /\ Tc[8] = "gs" /\ Tc[9] = "rax" /\ Tc[10] = "rbx"
      /\ Tc[11] = "rcx" /\ Tc[12] = "rdx" /\ Tc[13] = "rdi" /\ Tc[14] = "rsi"
      /\ Tc[15] = "rsp" /\ Tc[16] = "rbp" /\ Tc[17] = "r8" /\ Tc[18] = "r9"
      /\ Tc[19] = "r10" /\ Tc[20] = "r11" /\ Tc[21] = "r12" /\ Tc[22] = "r13"
      /\ Tc[23] = "r14" /\ Tc[24] = "r15"
  BY DEF Tc
<1>2. k \in (10..14) \cup (17..24)
  BY <1>1 DEF Gpr
<1>3. CASE k \in 10..14
  <2>1. 15 - k \in 1..5 /\ 16 + (15 - k) = 31 - k
    BY <1>3
  <2>2. Low6Back[15 - k] = Tc[k]
    BY <1>1, <1>3 DEF Low6Back
  <2> QED BY <2>1, <2>2 DEF AppFrame
<1>4. CASE k \in 17..24
  <2>1. 25 - k \in 1..8 /\ 6 + (25 - k) = 31 - k
    BY <1>4
  <2>2. High8Back[25 - k] = Tc[k]
    BY <1>1, <1>4 DEF High8Back
  <2> QED BY <2>1, <2>2 DEF AppFrame
<1> QED BY <1>2, <1>3, <1>4

LEMMA ContextInv_Kept == ContextInv => RegistersKept
<1> SUFFICES ASSUME ContextInv PROVE RegistersKept
  OBVIOUS
<1> DEFINE t == running
           l == at[t]
           r == machine.r
<1>1. /\ t \in Tasks /\ l \in Levels /\ Fine(t, r, l) /\ Frames(t, machine.s, brsp[t], l)
  BY DEF ContextInv
<1>2. CASE l = "new"
  BY <1>1, <1>2 DEF RegistersKept, Fine
<1>3. CASE l = "kernel"
  BY <1>1, <1>3 DEF RegistersKept, Fine, Kept, Home, Used, Empty
<1>4. CASE l = "app"
  <2>1. \A x \in Gpr : Kept(machine, t, l, x)
    BY <1>1, <1>4 DEF Fine, Kept
  <2> QED BY <1>1, <1>4, <2>1 DEF RegistersKept, Fine, Home, Used, Empty
<1>5. CASE l = "api"
  <2>1. /\ r["cs"] = "kernel" /\ r["cr3"] = Val(t, "app", "cr3")
        /\ r["rsp"] = Depth(Stack(t, "irq"), 30) /\ AppFrame(t, machine.s[Stack(t, "irq")])
    BY <1>1, <1>5 DEF Fine, Frames, Home, Used
  <2>2. ASSUME NEW k \in 1..Len(Tc), Tc[k] \in Gpr \ {"rax", "rbp"}
        PROVE  WordAt(machine, k - 1) = Val(t, "app", Tc[k])
    <3>1. Len(Tc) = 24
      BY DEF Tc
    <3>2. WordAt(machine, k - 1) = machine.s[Stack(t, "irq")][30 - (k - 1)]
      BY <2>1, DepthParts DEF WordAt
    <3>3. 30 - (k - 1) = 31 - k
      BY <3>1
    <3> QED BY <2>1, <2>2, <3>2, <3>3, TcFrame
  <2> QED BY <1>5, <2>1, <2>2 DEF RegistersKept
<1> QED BY <1>1, <1>2, <1>3, <1>4, <1>5 DEF Levels

\* Whoever has the processor has its registers, stack depth, page tables and
\* privilege, whatever switches, calls and returns came before, and a call finds
\* the application's registers (asm.asm:88-308): RegistersKept for every set of
\* tasks and any number of applications.
THEOREM RegistersAlwaysKept == ContextSpec => []RegistersKept
<1>1. ContextInit => ContextInv
  BY ContextInit_Inv
<1>2. ContextInv /\ [ContextNext]_contextvars => ContextInv'
  <2> SUFFICES ASSUME ContextInv, [ContextNext]_contextvars PROVE ContextInv'
    OBVIOUS
  <2>1. CASE Work
    BY <2>1, WorkKeeps
  <2>2. CASE \E n \in Tasks : Sleep(n) \/ TimerSwitch(n)
    BY <2>2, SleepKeeps, TimerSwitchKeeps
  <2>3. CASE Jump
    BY <2>3, JumpKeeps
  <2>4. CASE ApiSti
    BY <2>4, ApiStiKeeps
  <2>5. CASE ApiReturn
    BY <2>5, ApiReturnKeeps
  <2>6. CASE ApiExit
    BY <2>6, ApiExitKeeps
  <2>7. CASE \E number \in {"call", "exit"} : ApiCall(number)
    BY <2>7, ApiCallKeeps
  <2>8. CASE UNCHANGED contextvars
    BY <2>8 DEF contextvars, ContextInv
  <2> QED BY <2>1, <2>2, <2>3, <2>4, <2>5, <2>6, <2>7, <2>8 DEF ContextNext
<1>3. ContextInv => RegistersKept
  BY ContextInv_Kept
<1> QED BY <1>1, <1>2, <1>3, PTL DEF ContextSpec
===============================================================================
