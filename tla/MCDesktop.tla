------------------------------ MODULE MCDesktop -------------------------------
(***************************************************************************)
(* An instance of Desktop for TLC: the logform, then two terminals and the *)
(* window of an application.                                               *)
(***************************************************************************)
EXTENDS Desktop

Alike == Permutations(Terminals)
===============================================================================
