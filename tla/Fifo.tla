--------------------------------- MODULE Fifo ---------------------------------
(***************************************************************************)
(* The ring buffer of fifo.cpp, at the grain of the memory accesses that   *)
(* an interrupt can separate.  One fifo is used from two contexts:         *)
(*                                                                         *)
(*   - main-line code (the kernel's event loop, a terminal), which executes*)
(*     read() and write() one access at a time, pc saying how far it is;   *)
(*   - an interrupt handler, which runs to completion (its gate is an      *)
(*     interrupt gate, type 0x8e) and calls write().                       *)
(*                                                                         *)
(* Masked says whether the main-line code holds IF=0 around its calls, as  *)
(* the event loop (kernel.cpp:329) and getc (terminal.cpp:15) do.  The     *)
(* exceptions run with IF=1: hid::comp, called after the sti of            *)
(* xhci.cpp:427, writes kernelbuf, and the q==5 branch of the event loop   *)
(* reads it after the sti of kernel.cpp:489.                               *)
(*                                                                         *)
(* write() has no test for a full ring and read() none for an empty one.   *)
(* The callers of read() test len first; Room is the assumption that the   *)
(* writers do not fill the ring.                                           *)
(***************************************************************************)
EXTENDS Integers

CONSTANTS Word,     \* values of the unsigned long long slots
          Zero,     \* the word 0: operator new clears what it returns
          Size,     \* fifo::size
          Masked    \* the main-line code calls with interrupts off

ASSUME WordAssumption == Zero \in Word
ASSUME SizeAssumption == Size \in Nat \ {0}
ASSUME MaskedAssumption == Masked \in BOOLEAN

VARIABLES datas, rp, wp, len, lock,  \* the fields of class fifo
          pc,     \* where the main-line call is, "idle" between calls
          rd,     \* local d of the main-line read(), its result
          arg,    \* parameter d of the main-line write()
          reg     \* the register len-- and len++ go through

ring == <<datas, rp, wp, len, lock>>
vars == <<datas, rp, wp, len, lock, pc, rd, arg, reg>>

\* Mutant of Wrap: the index is never taken back to the first slot.
WrapNever(i) == i + 1

\* if(++i==size) i=0
Wrap(i) == IF i + 1 = Size THEN 0 ELSE i + 1

\* The writers' assumption: the words under way fit in the ring.
Room == len < Size

\* fifo::fifo: searchmem and operator new hand out cleared memory.
Init == /\ datas = [i \in 0..(Size - 1) |-> Zero]
        /\ rp = 0
        /\ wp = 0
        /\ len = 0
        /\ lock = 0
        /\ pc = "idle"
        /\ rd = Zero
        /\ arg = Zero
        /\ reg = 0

-------------------------------------------------------------------------------
(* unsigned long long fifo::read(), called by main-line code after it has   *)
(* seen len!=0.                                                             *)

ReadWord == /\ pc = "idle"
            /\ len # 0
            /\ rd' = datas[rp]
            /\ rp' = Wrap(rp)
            /\ pc' = "r_load"
            /\ UNCHANGED <<datas, wp, len, lock, arg, reg>>

\* len-- is a load, a decrement in a register and a store.
ReadLoadLen == /\ pc = "r_load"
               /\ reg' = len
               /\ pc' = "r_store"
               /\ UNCHANGED <<ring, rd, arg>>

ReadStoreLen == /\ pc = "r_store"
                /\ len' = reg - 1
                /\ pc' = "idle"
                /\ UNCHANGED <<datas, rp, wp, lock, rd, arg, reg>>

-------------------------------------------------------------------------------
(* void fifo::write(d), called by main-line code.  Between its calls the    *)
(* lock is free, for the handler's write is over before it returns: the     *)
(* else branch is the handler's alone (IsrLockError).                       *)

WriteLock(d) == /\ pc = "idle"
                /\ Room
                /\ lock = 0
                /\ lock' = 1
                /\ arg' = d
                /\ pc' = "w_data"
                /\ UNCHANGED <<datas, rp, wp, len, rd, reg>>

\* Mutant of WriteData: wp is moved before the word is stored.
WriteDataLate == /\ pc = "w_data"
                 /\ datas' = [datas EXCEPT ![Wrap(wp)] = arg]
                 /\ wp' = Wrap(wp)
                 /\ pc' = "w_load"
                 /\ UNCHANGED <<rp, len, lock, rd, arg, reg>>

WriteData == /\ pc = "w_data"
             /\ datas' = [datas EXCEPT ![wp] = arg]
             /\ wp' = Wrap(wp)
             /\ pc' = "w_load"
             /\ UNCHANGED <<rp, len, lock, rd, arg, reg>>

WriteLoadLen == /\ pc = "w_load"
                /\ reg' = len
                /\ pc' = "w_store"
                /\ UNCHANGED <<ring, rd, arg>>

WriteStoreLen == /\ pc = "w_store"
                 /\ len' = reg + 1
                 /\ pc' = "w_unlock"
                 /\ UNCHANGED <<datas, rp, wp, lock, rd, arg, reg>>

\* lock=0; the task behind the fifo is then run (module Mtask).
WriteUnlock == /\ pc = "w_unlock"
               /\ lock' = 0
               /\ pc' = "idle"
               /\ UNCHANGED <<datas, rp, wp, len, rd, arg, reg>>

-------------------------------------------------------------------------------
(* The interrupt handler calls write(d): at once, and only where the        *)
(* main-line code lets it in.  When it finds the lock taken the code prints *)
(* FIFO LOCK ERROR and halts for good with interrupts off.                  *)

\* Mutant of InterruptsOpen: the callers forget their cli.
InterruptsNeverMasked == pc # "halted"

InterruptsOpen == /\ pc # "halted"
                  /\ Masked => pc = "idle"

\* Mutant of IsrWrite: the word is not counted.
IsrWriteUncounted(d) == /\ InterruptsOpen
                        /\ lock = 0
                        /\ Room
                        /\ datas' = [datas EXCEPT ![wp] = d]
                        /\ wp' = Wrap(wp)
                        /\ UNCHANGED <<rp, len, lock, pc, rd, arg, reg>>

IsrWrite(d) == /\ InterruptsOpen
               /\ lock = 0
               /\ Room
               /\ datas' = [datas EXCEPT ![wp] = d]
               /\ wp' = Wrap(wp)
               /\ len' = len + 1
               /\ UNCHANGED <<rp, lock, pc, rd, arg, reg>>

IsrLockError == /\ InterruptsOpen
                /\ lock # 0
                /\ pc' = "halted"
                /\ UNCHANGED <<ring, rd, arg, reg>>

IsrCall(d) == IF lock = 0 THEN IsrWrite(d) ELSE IsrLockError

Next == \/ ReadWord \/ ReadLoadLen \/ ReadStoreLen
        \/ \E d \in Word : WriteLock(d)
        \/ WriteData \/ WriteLoadLen \/ WriteStoreLen \/ WriteUnlock
        \/ \E d \in Word : IsrCall(d)

Spec == Init /\ [][Next]_vars

-------------------------------------------------------------------------------
(* Properties *)

PCs == {"idle", "r_load", "r_store", "w_data", "w_load", "w_store",
        "w_unlock", "halted"}

\* The fields stay within the types and ranges of class fifo.
TypeOK == /\ datas \in [0..(Size - 1) -> Word]
          /\ rp \in 0..(Size - 1)
          /\ wp \in 0..(Size - 1)
          /\ len \in 0..Size
          /\ lock \in {0, 1}
          /\ pc \in PCs
          /\ rd \in Word
          /\ arg \in Word
          /\ reg \in 0..Size

\* The number of words between rp and wp: len, except inside a call that has
\* moved an index and not yet stored len.
Queued == CASE pc \in {"r_load", "r_store"} -> len - 1
            [] pc \in {"w_load", "w_store"} -> len + 1
            [] OTHER -> len

\* The slot i places after slot a.
Slot(a, i) == IF a + i < Size THEN a + i ELSE a + i - Size

\* wp is always Queued places after rp: the words that the indices delimit
\* are the words that len counts.
IndexInv == /\ Queued \in 0..Size
            /\ wp = Slot(rp, Queued)

\* The halt behind the lock is never reached: no call of write() begins
\* inside another one (fifo.cpp:20-22 stops the machine when it does).
NoLockError == pc # "halted"

\* The promise the ring keeps, with the word a call is moving counted as
\* soon as its index has moved.
Abs == INSTANCE FifoQueue WITH
         n <- Queued,
         q <- [i \in 1..Queued |-> datas[Slot(rp, i - 1)]]

\* Every step of the ring is a step of the first-in first-out queue, or
\* changes nothing that its users can see.
ImplementsQueue == Abs!Spec
===============================================================================
