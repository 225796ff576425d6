------------------------------ MODULE FifoProofs ------------------------------
(***************************************************************************)
(* Proofs about Fifo, for every Size and every set of words.               *)
(***************************************************************************)
EXTENDS Fifo, TLAPS

\* What holds between the accesses of a call, besides the ranges: the lock is
\* taken exactly inside write(), the register of len-- and len++ is len when it
\* is stored back, a read has a word to count off and a write a slot to count.
Calls == /\ lock = 1 <=> pc \in {"w_data", "w_load", "w_store", "w_unlock"}
         /\ pc \in {"r_store", "w_store"} => reg = len
         /\ pc \in {"r_load", "r_store"} => len > 0
         /\ pc \in {"w_data", "w_load", "w_store"} => len < Size

IInv == TypeOK /\ IndexInv /\ NoLockError /\ Calls

USE SizeAssumption, WordAssumption

\* Two slots fewer than Size places apart, counted from the same slot, are
\* different: a write into the free slot leaves the queued words alone.
LEMMA SlotInjective ==
  ASSUME NEW a \in 0..(Size - 1), NEW j \in 0..(Size - 1), NEW k \in 0..(Size - 1),
         Slot(a, j) = Slot(a, k)
  PROVE  j = k
  BY DEF Slot

\* The slots counted from a slot of the ring are slots of the ring.
LEMMA SlotInRing ==
  ASSUME NEW a \in 0..(Size - 1), NEW k \in 0..(Size - 1)
  PROVE  Slot(a, k) \in 0..(Size - 1)
  BY DEF Slot

\* Moving the index a on by one, or counting one place more: the same slot.
LEMMA SlotNext ==
  ASSUME NEW a \in 0..(Size - 1), NEW k \in 0..(Size - 1)
  PROVE  /\ Slot(Wrap(a), k) = Slot(a, k + 1)
         /\ Slot(a, k + 1) = Wrap(Slot(a, k))
         /\ Wrap(a) \in 0..(Size - 1)
  BY DEF Slot, Wrap

\* The initial state satisfies the invariant.
LEMMA InitInv == Init => IInv
  BY DEF Init, IInv, TypeOK, IndexInv, NoLockError, Calls, Queued, Slot, PCs

\* With the main-line calls made under cli, every step keeps the invariant.
LEMMA StepInv == ASSUME Masked = TRUE, IInv, [Next]_vars
                 PROVE  IInv'
<1> USE DEF IInv, TypeOK, IndexInv, NoLockError, Calls, PCs, ring
<1>1. CASE ReadWord
  <2>1. /\ pc = "idle" /\ pc' = "r_load" /\ len \in 1..Size
        /\ rp' = Wrap(rp) /\ rd' \in Word
        /\ UNCHANGED <<datas, wp, len, lock, arg, reg>>
    BY <1>1 DEF ReadWord
  <2>2. /\ Queued' = len - 1 /\ wp = Slot(rp, len) /\ rp \in 0..(Size - 1)
    BY <2>1 DEF Queued
  <2>3. Wrap(rp) \in 0..(Size - 1) /\ Slot(Wrap(rp), len - 1) = Slot(rp, len)
    BY <2>1, <2>2 DEF Wrap, Slot
  <2>4. IndexInv'
    BY <2>1, <2>2, <2>3 DEF Slot
  <2>5. TypeOK' /\ NoLockError' /\ Calls'
    BY <2>1, <2>3
  <2> QED BY <2>4, <2>5
<1>2. CASE ReadLoadLen
  BY <1>2 DEF ReadLoadLen, Queued, Slot
<1>3. CASE ReadStoreLen
  BY <1>3 DEF ReadStoreLen, Queued, Slot
<1>4. ASSUME NEW d \in Word, WriteLock(d) PROVE IInv'
  BY <1>4 DEF WriteLock, Room, Queued, Slot
<1>5. CASE WriteData
  <2>1. datas' \in [0..(Size - 1) -> Word]
    BY <1>5 DEF WriteData
  <2>2. /\ pc = "w_data" /\ pc' = "w_load"
        /\ wp' = Wrap(wp)
        /\ UNCHANGED <<rp, len, lock, rd, arg, reg>>
    BY <1>5 DEF WriteData
  <2>3. /\ Queued \in 0..(Size - 1) /\ Queued' = Queued + 1
        /\ rp \in 0..(Size - 1) /\ wp \in 0..(Size - 1)
        /\ wp = Slot(rp, Queued)
    BY <2>2 DEF Queued
  <2>4. Wrap(wp) \in 0..(Size - 1) /\ Wrap(wp) = Slot(rp, Queued + 1)
    BY <2>3, SlotNext
  <2>5. IndexInv'
    BY <2>2, <2>3, <2>4
  <2> QED BY <2>1, <2>2, <2>3, <2>4, <2>5
<1>6. CASE WriteLoadLen
  BY <1>6 DEF WriteLoadLen, Queued, Slot
<1>7. CASE WriteStoreLen
  BY <1>7 DEF WriteStoreLen, Queued, Slot
<1>8. CASE WriteUnlock
  BY <1>8 DEF WriteUnlock, Queued, Slot
<1>9. ASSUME NEW d \in Word, IsrWrite(d) PROVE IInv'
  <2>1. datas' \in [0..(Size - 1) -> Word]
    BY <1>9 DEF IsrWrite
  <2>2. /\ pc = "idle" /\ len < Size
        /\ wp' = Wrap(wp) /\ len' = len + 1
        /\ UNCHANGED <<rp, lock, pc, rd, arg, reg>>
    BY <1>9 DEF IsrWrite, InterruptsOpen, Room
  <2>3. /\ Queued \in 0..(Size - 1) /\ Queued' = Queued + 1
        /\ rp \in 0..(Size - 1) /\ wp \in 0..(Size - 1)
        /\ wp = Slot(rp, Queued)
    BY <2>2 DEF Queued
  <2>4. Wrap(wp) \in 0..(Size - 1) /\ Wrap(wp) = Slot(rp, Queued + 1)
    BY <2>3, SlotNext
  <2>5. IndexInv'
    BY <2>2, <2>3, <2>4
  <2> QED BY <2>1, <2>2, <2>3, <2>4, <2>5
<1>10. CASE IsrLockError
  BY <1>10 DEF IsrLockError, InterruptsOpen
<1>11. CASE UNCHANGED vars
  BY <1>11 DEF vars, Queued, Slot
<1> QED BY <1>1, <1>2, <1>3, <1>4, <1>5, <1>6, <1>7, <1>8, <1>9, <1>10, <1>11 DEF Next, IsrCall

-------------------------------------------------------------------------------
(* The refinement *)

\* A word stored at wp, with room in the ring, is the newest of the queue.
LEMMA StoreIsWrite ==
  ASSUME IInv, NEW d \in Word, Queued < Size,
         datas' = [datas EXCEPT ![wp] = d],
         Queued' = Queued + 1, UNCHANGED <<rp, rd>>
  PROVE  Abs!Write(d)
<1> DEFINE n == Queued
<1>1. /\ n \in 0..(Size - 1) /\ rp \in 0..(Size - 1) /\ wp = Slot(rp, n)
      /\ datas \in [0..(Size - 1) -> Word]
  BY DEF IInv, TypeOK, IndexInv
<1>2. ASSUME NEW k \in 1..(n + 1)
      PROVE  datas'[Slot(rp, k - 1)]
               = IF k = n + 1 THEN d ELSE datas[Slot(rp, k - 1)]
  <2>1. k - 1 \in 0..(Size - 1)
    BY <1>1
  <2>2. Slot(rp, k - 1) \in 0..(Size - 1)
    BY <1>1, <2>1, SlotInRing
  <2>3. Slot(rp, k - 1) = wp <=> k - 1 = n
    BY <1>1, <2>1, SlotInjective
  <2> QED BY <1>1, <2>1, <2>2, <2>3
<1>3. [k \in 1..Queued' |-> datas'[Slot(rp', k - 1)]]
        = [k \in 1..(n + 1) |->
             IF k = n + 1 THEN d
             ELSE [j \in 1..n |-> datas[Slot(rp, j - 1)]][k]]
  <2>1. ASSUME NEW k \in 1..(n + 1)
        PROVE  datas'[Slot(rp, k - 1)]
                 = IF k = n + 1 THEN d
                   ELSE [j \in 1..n |-> datas[Slot(rp, j - 1)]][k]
    BY <1>1, <1>2
  <2> QED BY <2>1
<1> QED BY <1>1, <1>3 DEF Abs!Write

\* Taking the word at rp and moving rp on is the queue's Read.
LEMMA TakeIsRead ==
  ASSUME IInv, Queued > 0, rd' = datas[rp], rp' = Wrap(rp),
         Queued' = Queued - 1, UNCHANGED datas
  PROVE  Abs!Read
<1> DEFINE n == Queued
<1>1. n \in 1..Size /\ rp \in 0..(Size - 1)
  BY DEF IInv, TypeOK, IndexInv
<1>2. datas[rp] = [j \in 1..n |-> datas[Slot(rp, j - 1)]][1]
  <2>1. Slot(rp, 1 - 1) = rp
    BY <1>1 DEF Slot
  <2> QED BY <1>1, <2>1
<1>3. ASSUME NEW k \in 1..(n - 1)
      PROVE  datas[Slot(Wrap(rp), k - 1)]
               = [j \in 1..n |-> datas[Slot(rp, j - 1)]][k + 1]
  <2>1. Slot(Wrap(rp), k - 1) = Slot(rp, k)
    BY <1>1, SlotNext
  <2> QED BY <1>1, <2>1
<1>4. [k \in 1..Queued' |-> datas'[Slot(rp', k - 1)]]
        = [k \in 1..(n - 1) |-> [j \in 1..n |-> datas[Slot(rp, j - 1)]][k + 1]]
  BY <1>3
<1> QED BY <1>1, <1>2, <1>4 DEF Abs!Read

LEMMA InitAbs == Init => Abs!Init
  BY DEF Init, Abs!Init, Queued

\* Every access of a call is a step of the queue or invisible to its users.
LEMMA StepAbs == ASSUME Masked = TRUE, IInv, [Next]_vars
                 PROVE  [Abs!Next]_(Abs!vars)
<1> USE DEF IInv, TypeOK, IndexInv, Calls, PCs, NoLockError
<1>0. ASSUME UNCHANGED <<datas, rp, rd, Queued>> PROVE UNCHANGED Abs!vars
  BY <1>0 DEF Abs!vars
<1>1. CASE ReadWord
  <2>1. Queued > 0 /\ Queued' = Queued - 1
    BY <1>1 DEF ReadWord, Queued
  <2> QED BY <1>1, <2>1, TakeIsRead DEF ReadWord, Abs!Next
<1>2. CASE ReadLoadLen
  BY <1>0, <1>2 DEF ReadLoadLen, ring, Queued
<1>3. CASE ReadStoreLen
  BY <1>0, <1>3 DEF ReadStoreLen, Queued
<1>4. ASSUME NEW d \in Word, WriteLock(d) PROVE UNCHANGED Abs!vars
  BY <1>0, <1>4 DEF WriteLock, Queued
<1>5. CASE WriteData
  <2>1. Queued < Size /\ Queued' = Queued + 1
    BY <1>5 DEF WriteData, Queued
  <2> QED BY <1>5, <2>1, StoreIsWrite DEF WriteData, Abs!Next
<1>6. CASE WriteLoadLen
  BY <1>0, <1>6 DEF WriteLoadLen, ring, Queued
<1>7. CASE WriteStoreLen
  BY <1>0, <1>7 DEF WriteStoreLen, Queued
<1>8. CASE WriteUnlock
  BY <1>0, <1>8 DEF WriteUnlock, Queued
<1>9. ASSUME NEW d \in Word, IsrWrite(d) PROVE Abs!Next
  <2>1. Queued < Size /\ Queued' = Queued + 1
    BY <1>9 DEF IsrWrite, InterruptsOpen, Room, Queued
  <2> QED BY <1>9, <2>1, StoreIsWrite DEF IsrWrite, Abs!Next
<1>10. CASE IsrLockError
  BY <1>10 DEF IsrLockError, InterruptsOpen
<1>11. CASE UNCHANGED vars
  BY <1>0, <1>11 DEF vars, Queued
<1> QED
  BY <1>1, <1>2, <1>3, <1>4, <1>5, <1>6, <1>7, <1>8, <1>9, <1>10, <1>11 DEF Next, IsrCall

-------------------------------------------------------------------------------
(* The results *)

\* With the main-line calls of read() and write() made under cli, the fields of
\* the fifo stay in range, the indices delimit len words and the halt behind
\* the lock (fifo.cpp:20-22) is not reached, whatever the size of the ring.
THEOREM Safety == ASSUME Masked = TRUE
                  PROVE  Spec => [](TypeOK /\ IndexInv /\ NoLockError)
<1>1. Spec => []IInv
  BY InitInv, StepInv, PTL DEF Spec
<1>2. IInv => TypeOK /\ IndexInv /\ NoLockError
  BY DEF IInv
<1> QED BY <1>1, <1>2, PTL

\* Then the ring is a first-in first-out queue: what its users see of it is a
\* behaviour of FifoQueue.
THEOREM Refinement == ASSUME Masked = TRUE PROVE Spec => ImplementsQueue
<1>1. Spec => []IInv
  BY InitInv, StepInv, PTL DEF Spec
<1> QED BY InitAbs, StepAbs, <1>1, PTL DEF Spec, ImplementsQueue, Abs!Spec
===============================================================================
