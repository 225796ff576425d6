------------------------------ MODULE MCTimers -------------------------------
(* Instance of Timers for TLC: mt and two sleepers, so that mt can be at the *)
(* front, in the middle and at the end of the list; 5 values of count, so    *)
(* that it wraps with timers pending.                                        *)
EXTENDS Timers

CONSTANTS s1, s2

MCOthers == {s1, s2}
==============================================================================
