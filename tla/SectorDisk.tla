------------------------------ MODULE SectorDisk ------------------------------
(***************************************************************************)
(* What the file system relies on when it calls a drive: one call at a     *)
(* time, a write changes its own sector and no other, a read returns what  *)
(* was last written.  After something that the drive does not survive      *)
(* (spoiled) nothing is promised.                                          *)
(***************************************************************************)
CONSTANTS Sector, Value, NoCall

VARIABLES store,      \* the contents of the sectors
          call,       \* the call under way: [op, sector, value], or NoCall
          result,     \* what the last read returned
          spoiled

Call == [op : {"read"}, sector : Sector] \cup
        [op : {"write"}, sector : Sector, value : Value]

Init == /\ store \in [Sector -> Value]
        /\ call = NoCall
        /\ result \in Value
        /\ spoiled = FALSE

Begin(j) == /\ call = NoCall
            /\ call' = j
            /\ UNCHANGED <<store, result, spoiled>>

\* A write may reach the medium more than once before it ends.
Apply == /\ call # NoCall
         /\ call.op = "write"
         /\ store' = [store EXCEPT ![call.sector] = call.value]
         /\ UNCHANGED <<call, result, spoiled>>

EndRead == /\ call # NoCall
           /\ call.op = "read"
           /\ result' = store[call.sector]
           /\ call' = NoCall
           /\ UNCHANGED <<store, spoiled>>

EndWrite == /\ call # NoCall
            /\ call.op = "write"
            /\ store[call.sector] = call.value
            /\ call' = NoCall
            /\ UNCHANGED <<store, result, spoiled>>

Spoil == ~spoiled /\ spoiled'

Next == \/ \E j \in Call : Begin(j)
        \/ Apply \/ EndRead \/ EndWrite
        \/ Spoil
        \/ spoiled /\ spoiled'

Spec == Init /\ [][Next]_<<store, call, result, spoiled>>
===============================================================================
