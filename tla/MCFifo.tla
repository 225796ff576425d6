------------------------------- MODULE MCFifo --------------------------------
(* Instance of Fifo for TLC: a ring of three slots and two words besides 0, *)
(* so that the indices wrap and a misplaced word is told from its           *)
(* neighbours.                                                              *)
EXTENDS Fifo

MCWord == 0..2

==============================================================================
