------------------------------- MODULE MCMtask -------------------------------
(* Instance of Mtask for TLC: two terminals, so that one can run, sleep or   *)
(* spin in an application while keys for the other arrive.                   *)
EXTENDS Mtask

CONSTANTS t1, t2

MCTerminals == {t1, t2}
==============================================================================
