------------------------------- MODULE MCMemory ------------------------------
(* Instance of Memory and Apps for TLC: two terminals, eight pages, the first*)
(* of them reserved, in three large pages of three.  At first the terminals  *)
(* only allocate and free, step by step: up to three blocks of one and two   *)
(* pages leave holes of both sizes.  From states with a block or none for    *)
(* each, applications are started, two in all, by one terminal or by both:   *)
(* a start takes a block that is kept, a table and a stack, and it allocates *)
(* up to two pages, which come to lie before, between and behind the others. *)
EXTENDS Apps, TLC

CONSTANTS t1, t2

MCProcs == {t1, t2}
MCReserved == {0}

\* The terminals are interchangeable.
MCSymmetry == Permutations(MCProcs)

\* Nothing lies behind alp, where nobody reads, and the terminals have few blocks.
Fresh == /\ \A k \in alp..(NList - 1) : al[k] = NoBlock
         /\ \A t \in Procs : Cardinality(held[t]) <= MaxHeld

MCNext ==
  \/ /\ runs = 0 /\ Next
     /\ Cardinality(HeldBlocks') <= 3
     /\ UNCHANGED appvars
  \/ /\ \A t \in Procs : pc[t] = "out"
     /\ runs = 0 => Fresh
     /\ AppsNext

MCSpec == AppsInit /\ [][MCNext]_<<vars, appvars>>
==============================================================================
