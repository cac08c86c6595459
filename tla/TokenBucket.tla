------------------------------ MODULE TokenBucket ------------------------------
(***************************************************************************)
(* What the leaky bucket of leakage.py promises its caller (spec 4.A): an  *)
(* ideal token bucket with exact arithmetic.  Credit is counted in         *)
(* 1/TicksPerSecond of a byte, so that a tick of real time adds exactly    *)
(* Rate of it, and the bucket holds at most one second's worth.            *)
(*                                                                         *)
(* The bucket may lose credit (a real one truncates, and a clock set back  *)
(* hides time), but it never gains any except from a tick of time, at most *)
(* Rate per tick, or from bytes its caller gives back, at most what it    *)
(* holds.  A grant takes its bytes' worth of credit.  `tick` flips with    *)
(* every tick of real time: it tells time from the caller's steps.         *)
(***************************************************************************)
EXTENDS Integers

CONSTANTS Rate, TicksPerSecond

VARIABLES
    credit,  \* credit in the bucket, in 1/TicksPerSecond bytes
    held,    \* bytes granted to the caller and not yet settled
    tick     \* flips with every tick of real time

vars == <<credit, held, tick>>

Cap == Rate * TicksPerSecond

UpTo(x, bound) == IF x <= bound THEN x ELSE bound

Init == credit = Cap /\ held = 0 /\ tick = 0

(* A tick of real time adds at most Rate, up to the cap.                   *)
Accrue ==
    /\ tick' = 1 - tick
    /\ credit' \in 0 .. UpTo(credit + Rate, Cap)
    /\ UNCHANGED held

(* The caller, holding nothing, is granted g bytes and pays g bytes' worth.*)
Grant(g) ==
    /\ held = 0
    /\ credit' \in 0 .. (credit - g * TicksPerSecond)
    /\ held' = g
    /\ UNCHANGED tick

(* The caller settles its grant and gives back n of the bytes it held.     *)
GiveBack(n) ==
    /\ held > 0
    /\ credit' = UpTo(credit + n * TicksPerSecond, Cap)
    /\ held' = 0
    /\ UNCHANGED tick

(* Credit is lost.                                                         *)
Lose ==
    /\ credit' \in 0 .. credit
    /\ UNCHANGED <<held, tick>>

Next ==
    \/ Accrue
    \/ \E g \in 0 .. Rate : Grant(g)
    \/ \E n \in 0 .. held : GiveBack(n)
    \/ Lose

Spec == Init /\ [][Next]_vars

=============================================================================
