------------------------------ MODULE FifoQueue ------------------------------
(***************************************************************************)
(* What class fifo (kernel.h:256-267, fifo.cpp) promises to the code that  *)
(* uses it: a first-in first-out queue of words.  A write appends one      *)
(* word; a read removes the oldest word and leaves it in rd.  Nothing is   *)
(* lost, duplicated or reordered, whichever of the interrupt handlers and  *)
(* the interrupted code performs the operations.                           *)
(*                                                                         *)
(* The queue is written as a function on 1..n, the form that Fifo's        *)
(* refinement mapping produces, so that the refinement can be proved.      *)
(***************************************************************************)
EXTENDS Integers

CONSTANTS Word,     \* the values a slot can hold
          Size      \* fifo::size

VARIABLES n,        \* how many words are queued
          q,        \* the queued words, oldest first: a function on 1..n
          rd        \* the word the last read took

vars == <<n, q, rd>>

Init == /\ n = 0
        /\ q = [i \in 1..0 |-> i]
        /\ rd \in Word

Write(w) == /\ n < Size
            /\ n' = n + 1
            /\ q' = [i \in 1..(n + 1) |-> IF i = n + 1 THEN w ELSE q[i]]
            /\ UNCHANGED rd

Read == /\ n > 0
        /\ n' = n - 1
        /\ rd' = q[1]
        /\ q' = [i \in 1..(n - 1) |-> q[i + 1]]

Next == Read \/ \E w \in Word : Write(w)

Spec == Init /\ [][Next]_vars
==============================================================================
