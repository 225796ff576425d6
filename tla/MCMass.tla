-------------------------------- MODULE MCMass --------------------------------
(***************************************************************************)
(* Instances of Mass for TLC: one block of three sectors, so that a write  *)
(* has a neighbour, and the third lies behind those that 32 bits reach; the *)
(* main task and one other.                                                *)
(***************************************************************************)
EXTENDS Mass

CONSTANTS ta, t1, a, b

MCOthers == {t1}
MCValue == {a, b}
===============================================================================
