-------------------------- MODULE LeakageRefinement ---------------------------
(***************************************************************************)
(* The leaky bucket of leakage.py implements the ideal token bucket of     *)
(* TokenBucket.  Leakage keeps no absolute time, so a history variable     *)
(* `tick`, flipped by every Tick and left alone by every other step, is    *)
(* added to it; hiding `tick` gives back Leakage's Spec.                   *)
(*                                                                         *)
(* Refinement mapping: the ideal credit is the tokens in the bucket plus   *)
(* what the pending time since last_check is worth with exact arithmetic  *)
(* (nothing while time.time() is behind last_check), capped at one         *)
(* second's worth; the bytes the caller holds are its unsettled grant.     *)
(***************************************************************************)
EXTENDS Leakage

VARIABLE tick

varsR == <<vars, tick>>

(* max(elapsed, 0): the accrued time a refill can credit.                  *)
Pos(e) == IF e > 0 THEN e ELSE 0

IdealCredit ==
    MinOf(tokens * TicksPerSecond + Pos(elapsed) * Rate, Rate * TicksPerSecond)

Ideal == INSTANCE TokenBucket WITH credit <- IdealCredit, held <- reserved

(* Every step of Leakage but a tick of real time.                          *)
CallerStep ==
    \/ \E a \in Amounts : Consume(a)
    \/ \E n \in 0 .. Rate : Settle(n)
    \/ \E d \in 1 .. MaxStepBack : ClockStepBack(d)
    \/ OpenWindow

InitR == Init /\ tick = 0

NextR ==
    \/ Tick /\ tick' = 1 - tick
    \/ CallerStep /\ UNCHANGED tick

SpecR == InitR /\ [][NextR]_varsR

(* consume(), release() and _refill never hand out more than an exact      *)
(* token bucket of the same rate would: credit comes only from elapsed     *)
(* time, at most rate bytes per second, or from bytes released, and        *)
(* consume() pays for what it grants (leakage.py:24-52).                   *)
IdealSpec == Ideal!Spec

=============================================================================
