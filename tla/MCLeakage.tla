------------------------------ MODULE MCLeakage ------------------------------
(* Model-checking instance of Leakage.  The cfg files give the constants:  *)
(* a small rate, a clock of a few ticks per second (so that truncation of  *)
(* int(elapsed * rate) loses fractions), demands above the rate (so that   *)
(* consume() is capped), and windows longer than one second.              *)
EXTENDS Leakage, TLC
=============================================================================
