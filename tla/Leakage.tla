------------------------------- MODULE Leakage -------------------------------
(***************************************************************************)
(* The leaky bucket of src/proxy/common/leakage.py (class Leakage), driven *)
(* the way the HTTP protocol handler drives it: before each recv/send it   *)
(* calls consume(desired), does at most the granted I/O, and gives back    *)
(* what the I/O did not use with release(granted - actual).                *)
(*                                                                         *)
(* Time.  The code reads time.time() in _refill and keeps last_check.      *)
(* Only now - last_check matters, so the model keeps that difference as    *)
(* `elapsed`, counted in ticks of 1/TicksPerSecond second.  Once elapsed   *)
(* reaches one second the refill fills the bucket whatever the exact       *)
(* value, so `elapsed` saturates at TicksPerSecond without losing a        *)
(* behaviour.  time.time() is a wall clock: it can be stepped back.        *)
(* MaxStepBack bounds how far; 0 is the monotonic clock the spec demands.  *)
(*                                                                         *)
(* A window monitor (winLen, winGranted) opens at any moment and counts    *)
(* the bytes granted net of releases over the next Window ticks: it is the *)
(* history the rate property of the spec talks about.  winLen = -1 while   *)
(* no window is open.                                                      *)
(***************************************************************************)
EXTENDS Integers

CONSTANTS
    Rate,            \* Leakage(rate): bytes per second, also the bucket size
    TicksPerSecond,  \* clock resolution of the model
    MaxAmount,       \* largest amount the caller asks consume() for
    MaxStepBack,     \* largest backward step of time.time() (0: monotonic)
    Window           \* longest window, in ticks, the monitor measures

ASSUME RateAssumption == Rate \in Nat
ASSUME TicksAssumption == TicksPerSecond \in Nat \ {0}
ASSUME AmountAssumption == MaxAmount \in Nat \ {0}
ASSUME StepBackAssumption == MaxStepBack \in Nat
ASSUME WindowAssumption == Window \in Nat

VARIABLES
    tokens,      \* self.tokens
    elapsed,     \* time.time() - self.last_check, in ticks, saturated
    reserved,    \* granted by the caller's last consume() and not yet settled
    allowed,     \* value returned by the last consume()
    winLen, winGranted   \* the window monitor

vars == <<tokens, elapsed, reserved, allowed, winLen, winGranted>>

Amounts == 1 .. MaxAmount

MinOf(a, b) == IF a <= b THEN a ELSE b

(* Python int() of a float: truncation toward zero, not floor.            *)
IntPart(x, q) == IF x >= 0 THEN x \div q ELSE -((-x) \div q)

(* A refill that rounds the accrued credit up instead of truncating it.   *)
AccruedRounded(e) == IntPart(e * Rate + TicksPerSecond - 1, TicksPerSecond)

(* int(elapsed * self.rate) with elapsed = e ticks = e / TicksPerSecond s *)
Accrued(e) == IntPart(e * Rate, TicksPerSecond)

(* Backward steps of time.time() shorter than the time one token takes to  *)
(* accrue: int(elapsed * rate) is then never negative.                     *)
SmallStepBack == MaxStepBack * Rate < TicksPerSecond

-----------------------------------------------------------------------------
(* Leakage.__init__: tokens = rate, last_check = time.time().             *)
Init ==
    /\ tokens = Rate
    /\ elapsed = 0
    /\ reserved = 0
    /\ allowed = 0
    /\ winLen = -1
    /\ winGranted = 0

(* Slips _refill could make: no cap at rate; last_check = now taken       *)
(* before elapsed is computed, so nothing ever accrues.                    *)
RefillUncapped(t, e) == t + Accrued(e)
RefillStale(t, e) == MinOf(t + Accrued(0), Rate)

(* _refill: add int(elapsed * rate), cap at rate; last_check = now.       *)
Refill(t, e) == MinOf(t + Accrued(e), Rate)

(* release(n) for n >= 0: add n, cap at rate.                              *)
Release(t, n) == MinOf(t + n, Rate)

WinOpen == winLen >= 0

(* The monitor counts a grant (or, negated, a release) while open.         *)
Count(n) == winGranted' = IF WinOpen THEN winGranted + n ELSE winGranted

(* consume() whose _refill forgets last_check = now.                       *)
ConsumeNoReset(amount) ==
    LET t1 == Refill(tokens, elapsed)
        a  == MinOf(amount, t1)
    IN  /\ reserved = 0
        /\ tokens' = t1 - a
        /\ elapsed' = elapsed
        /\ allowed' = a
        /\ reserved' = a
        /\ Count(a)
        /\ UNCHANGED winLen

(* consume(amount): _refill, then grant min(amount, tokens) and take it.   *)
(* The caller consumes only once its previous grant is settled.            *)
Consume(amount) ==
    LET t1 == Refill(tokens, elapsed)
        a  == MinOf(amount, t1)
    IN  /\ reserved = 0
        /\ tokens' = t1 - a
        /\ elapsed' = 0
        /\ allowed' = a
        /\ reserved' = a
        /\ Count(a)
        /\ UNCHANGED winLen

(* The caller's recv/send moved `actual` of the `reserved` bytes and the   *)
(* caller gives back the rest: release(granted - actual).                  *)
Settle(actual) ==
    /\ reserved > 0
    /\ actual \in 0 .. reserved
    /\ tokens' = Release(tokens, reserved - actual)
    /\ reserved' = 0
    /\ Count(actual - reserved)
    /\ UNCHANGED <<elapsed, allowed, winLen>>

(* Real time advances one tick; time.time() moves with it.                 *)
Tick ==
    /\ elapsed' = MinOf(elapsed + 1, TicksPerSecond)
    /\ winLen' = IF winLen \in 0 .. (Window - 1) THEN winLen + 1 ELSE -1
    /\ UNCHANGED <<tokens, reserved, allowed, winGranted>>

(* time.time() is stepped back by d ticks while real time stands still.    *)
(* Only taken where `elapsed` is exact (below saturation).                 *)
ClockStepBack(d) ==
    /\ elapsed < TicksPerSecond
    /\ elapsed - d >= -MaxStepBack
    /\ elapsed' = elapsed - d
    /\ UNCHANGED <<tokens, reserved, allowed, winLen, winGranted>>

(* The monitor starts a fresh window at the current instant.               *)
OpenWindow ==
    /\ ~WinOpen
    /\ winLen' = 0
    /\ winGranted' = 0
    /\ UNCHANGED <<tokens, elapsed, reserved, allowed>>

Next ==
    \/ \E a \in Amounts : Consume(a)
    \/ \E n \in 0 .. Rate : Settle(n)
    \/ Tick
    \/ \E d \in 1 .. MaxStepBack : ClockStepBack(d)
    \/ OpenWindow

(* The handler keeps asking while its socket is ready, settles every grant *)
(* before its next call, and real time never stops.                        *)
Fairness ==
    /\ WF_vars(\E a \in Amounts : Consume(a))
    /\ WF_vars(\E n \in 0 .. Rate : Settle(n))
    /\ WF_vars(Tick)

Spec == Init /\ [][Next]_vars /\ Fairness

-----------------------------------------------------------------------------
(* Types.  The bucket holds between 0 and rate tokens, as the spec's data  *)
(* model requires of every state a caller can see; a grant never exceeds  *)
(* what the bucket held.                                                   *)
TypeOK ==
    /\ tokens \in 0 .. Rate
    /\ elapsed \in -MaxStepBack .. TicksPerSecond
    /\ reserved \in 0 .. Rate
    /\ allowed \in 0 .. Rate
    /\ winLen \in -1 .. Window
    /\ winGranted \in Int

(* Spec 4.A: consume(amount) grants min(amount, tokens) of a bucket that   *)
(* holds 0..rate tokens, so a grant is never negative, whatever            *)
(* time.time() does between two calls (the caller hands it to recv/send).  *)
GrantNonNegative == allowed >= 0

(* Spec 8 (leaky bucket): over any window of d ticks the bytes granted net  *)
(* of releases are at most rate * d / TicksPerSecond + rate: the initial    *)
(* bucket plus what _refill may add, truncation included.                   *)
RateLimit ==
    WinOpen =>
        winGranted * TicksPerSecond <= Rate * TicksPerSecond + Rate * winLen

(* A caller that keeps calling consume() is granted bytes again and again: *)
(* the bucket leaks at `rate` bytes per second (Leakage docstring).         *)
Progress == []<>(allowed > 0)

=============================================================================
