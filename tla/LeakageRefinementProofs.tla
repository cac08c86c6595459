----------------------- MODULE LeakageRefinementProofs ------------------------
(***************************************************************************)
(* Leakage, with the history variable `tick` of LeakageRefinement,         *)
(* implements the ideal token bucket of TokenBucket, for every value of    *)
(* the constants, provided the clock never steps back by a token's worth.  *)
(*                                                                         *)
(* The only invariant the mapping needs is the type invariant: the bucket  *)
(* holds 0..rate tokens and elapsed lies in -MaxStepBack..TicksPerSecond.  *)
(* Each step of Leakage is then matched with one step of the ideal bucket: *)
(* Tick with Accrue, consume() with Grant, the caller's release() with     *)
(* GiveBack, a clock set back with Lose, and OpenWindow with a stutter.    *)
(* The products of the mapping are named by proof-local definitions, so    *)
(* that each leaf is linear arithmetic over them.                          *)
(***************************************************************************)
EXTENDS LeakageProofs

USE RateAssumption, TicksAssumption, AmountAssumption, StepBackAssumption,
    WindowAssumption

Cap == Rate * TicksPerSecond

(* The ideal credit as an operator of the state it reads, so that its      *)
(* primed form is the same operator applied to primed variables.           *)
IC(t, e) == MinOf(t * TicksPerSecond + Pos(e) * Rate, Cap)

LEMMA CreditForms ==
    /\ IdealCredit = IC(tokens, elapsed)
    /\ IdealCredit' = IC(tokens', elapsed')
  BY DEF IdealCredit, IC, Cap, Pos

(* Facts about products, with the factor that multiplies on the right.    *)
LEMMA MulLe ==
    ASSUME NEW k \in Nat, NEW x \in Int, NEW y \in Int, x <= y
    PROVE  x * k <= y * k
  OBVIOUS

LEMMA MulNat ==
    ASSUME NEW x \in Nat, NEW y \in Nat
    PROVE  x * y \in Nat
  OBVIOUS

LEMMA MulAdd ==
    ASSUME NEW x \in Int, NEW y \in Int, NEW k \in Int
    PROVE  (x + y) * k = x * k + y * k
  OBVIOUS

(* The credit is a number between 0 and one second's worth.                *)
LEMMA CreditRange ==
    ASSUME NEW t \in 0 .. Rate, NEW e \in Int
    PROVE  IC(t, e) \in 0 .. Cap
<1> DEFINE K == t * TicksPerSecond
           P == Pos(e) * Rate
<1>1. K \in Nat /\ P \in Nat /\ Cap \in Nat
  BY DEF Pos, Cap
<1>2. QED
  BY <1>1 DEF IC, MinOf

-----------------------------------------------------------------------------
LEMMA InitMapped == InitR => Ideal!Init
<1> SUFFICES ASSUME InitR PROVE Ideal!Init
  OBVIOUS
<1>1. tokens = Rate /\ elapsed = 0 /\ reserved = 0 /\ tick = 0
  BY DEF InitR, Init
<1>2. IdealCredit = Rate * TicksPerSecond
  BY <1>1 DEF IdealCredit, MinOf, Pos
<1>3. QED
  BY <1>1, <1>2 DEF Ideal!Init, Ideal!Cap

(* A tick of real time adds at most one tick's worth, Rate, to the credit. *)
LEMMA TickMapped ==
    ASSUME TypeOK, Tick, tick' = 1 - tick
    PROVE  Ideal!Accrue
<1> DEFINE K  == tokens * TicksPerSecond
           P  == Pos(elapsed) * Rate
           P1 == Pos(elapsed') * Rate
<1>1. tokens' = tokens /\ reserved' = reserved
  BY DEF Tick
<1>2. elapsed' \in Int /\ Pos(elapsed') <= Pos(elapsed) + 1
  BY DEF Tick, TypeOK, MinOf, Pos
<1>3. P1 <= P + Rate
  <2>1. Pos(elapsed') \in Int /\ Pos(elapsed) \in Int /\ 1 \in Int
    BY <1>2 DEF Pos, TypeOK
  <2>2. Pos(elapsed') * Rate <= (Pos(elapsed) + 1) * Rate
    BY <1>2, <2>1, MulLe
  <2>3. (Pos(elapsed) + 1) * Rate = Pos(elapsed) * Rate + 1 * Rate
    BY <2>1, MulAdd
  <2>4. QED
    BY <2>2, <2>3 DEF P, P1
<1>4. K \in Nat /\ P \in Nat /\ P1 \in Nat /\ Cap \in Nat
  <2>1. Pos(elapsed) \in Nat /\ Pos(elapsed') \in Nat
    BY <1>2 DEF Pos, TypeOK
  <2>2. QED
    BY <2>1, MulNat DEF TypeOK, Cap, K, P, P1
<1>5. IdealCredit' = MinOf(K + P1, Cap) /\ IdealCredit = MinOf(K + P, Cap)
  BY <1>1, CreditForms DEF IC
<1>6. IdealCredit' \in 0 .. Ideal!UpTo(IdealCredit + Rate, Ideal!Cap)
  BY <1>3, <1>4, <1>5 DEF MinOf, Ideal!UpTo, Ideal!Cap, Cap
<1>7. QED
  BY <1>1, <1>6 DEF Ideal!Accrue

(* consume() grants what it takes from the tokens, and the tokens it keeps *)
(* are worth no more than the credit minus the grant: the truncated        *)
(* refill never credits more than the exact one.                           *)
LEMMA ConsumeMapped ==
    ASSUME SmallStepBack, TypeOK, NEW a \in Amounts, Consume(a),
           UNCHANGED tick
    PROVE  \E g \in 0 .. Rate : Ideal!Grant(g)
<1> DEFINE acc == Accrued(elapsed)
           t1  == Refill(tokens, elapsed)
           g   == MinOf(a, t1)
           K   == tokens * TicksPerSecond
           P   == Pos(elapsed) * Rate
           A   == acc * TicksPerSecond
           X   == t1 * TicksPerSecond
           G   == g * TicksPerSecond
<1>1. acc \in Nat /\ A <= Rate * Pos(elapsed)
  BY AccruedBound DEF TypeOK
<1>2. t1 \in 0 .. Rate /\ t1 <= tokens + acc
  BY <1>1 DEF Refill, MinOf, TypeOK
<1>3. g \in 0 .. Rate /\ g <= t1
  BY <1>2 DEF MinOf, Amounts
<1>4. /\ tokens' = t1 - g /\ elapsed' = 0 /\ reserved' = g
      /\ reserved = 0
  BY DEF Consume
<1>5. /\ X <= Cap
      /\ X <= K + A
  <2>1. t1 * TicksPerSecond <= Rate * TicksPerSecond
    BY <1>2, MulLe
  <2>2. t1 * TicksPerSecond <= (tokens + acc) * TicksPerSecond
    BY <1>1, <1>2, MulLe DEF TypeOK
  <2>3. (tokens + acc) * TicksPerSecond = K + A
    BY <1>1, MulAdd DEF TypeOK, K, A
  <2>4. QED
    BY <2>1, <2>2, <2>3 DEF Cap, X
<1>6. (t1 - g) * TicksPerSecond = X - G
  BY <1>2, <1>3, DistribSub
<1>7. /\ K \in Nat /\ P \in Nat /\ A \in Nat /\ G \in Nat /\ X \in Int
      /\ A <= P
  BY <1>1, <1>2, <1>3 DEF TypeOK, Pos
<1>8. IdealCredit' = X - G
  <2>1. IdealCredit' = MinOf((t1 - g) * TicksPerSecond + Pos(0) * Rate, Cap)
    BY <1>4, CreditForms DEF IC
  <2>2. Pos(0) * Rate = 0
    BY DEF Pos
  <2>3. X - G <= Cap /\ X - G >= 0
    <3>1. g * TicksPerSecond <= t1 * TicksPerSecond
      BY <1>2, <1>3, MulLe
    <3>2. X - G >= 0
      BY <3>1, <1>7 DEF G, X
    <3>3. Cap \in Nat
      BY MulNat DEF Cap
    <3>4. QED
      BY <1>5, <1>7, <3>2, <3>3
  <2>4. QED
    BY <1>6, <2>1, <2>2, <2>3, <1>7 DEF MinOf
<1>9. IdealCredit = MinOf(K + P, Cap)
  BY CreditForms DEF IC
<1>10. IdealCredit' \in 0 .. (IdealCredit - G)
  <2>1. X - G >= 0
    <3>1. g * TicksPerSecond <= t1 * TicksPerSecond
      BY <1>2, <1>3, MulLe
    <3>2. QED
      BY <3>1, <1>7 DEF G, X
  <2>2. QED
    BY <1>5, <1>7, <1>8, <1>9, <2>1 DEF MinOf, Cap
<1>11. Ideal!Grant(g)
  BY <1>4, <1>10 DEF Ideal!Grant
<1>12. QED
  BY <1>3, <1>11

(* The caller's release(reserved - n) gives back what it held, capped as  *)
(* release() caps the tokens at rate.                                      *)
LEMMA SettleMapped ==
    ASSUME TypeOK, NEW n \in 0 .. Rate, Settle(n), UNCHANGED tick
    PROVE  \E m \in 0 .. reserved : Ideal!GiveBack(m)
<1> DEFINE m  == reserved - n
           K  == tokens * TicksPerSecond
           M  == m * TicksPerSecond
           P  == Pos(elapsed) * Rate
           K1 == tokens' * TicksPerSecond
<1>1. /\ reserved > 0 /\ n \in 0 .. reserved /\ reserved' = 0
      /\ elapsed' = elapsed /\ tokens' = MinOf(tokens + m, Rate)
  BY DEF Settle, Release
<1>2. m \in 0 .. reserved /\ m \in Nat
  BY <1>1 DEF TypeOK
<1>3. /\ K \in Nat /\ M \in Nat /\ P \in Nat /\ Cap \in Nat
  BY <1>2 DEF TypeOK, Pos, Cap
<1>4. IdealCredit' = MinOf(K1 + P, Cap) /\ IdealCredit = MinOf(K + P, Cap)
  BY <1>1, CreditForms DEF IC
<1>5. IdealCredit' = Ideal!UpTo(IdealCredit + M, Ideal!Cap)
  <2>1. CASE tokens + m <= Rate
    <3>1. K1 = K + M
      BY <1>1, <1>2, <2>1 DEF MinOf, TypeOK
    <3>2. QED
      BY <1>3, <1>4, <3>1 DEF MinOf, Ideal!UpTo, Ideal!Cap, Cap
  <2>2. CASE tokens + m > Rate
    <3>1. K1 = Cap
      BY <1>1, <2>1, <2>2 DEF MinOf, Cap
    <3>2. K + M >= Cap
      <4>1. TicksPerSecond * Rate <= TicksPerSecond * (tokens + m)
        BY <1>2, <2>2, MulMono DEF TypeOK
      <4>2. QED
        BY <4>1, <1>2 DEF TypeOK, Cap
    <3>3. QED
      BY <1>3, <1>4, <3>1, <3>2 DEF MinOf, Ideal!UpTo, Ideal!Cap, Cap
  <2>3. QED
    BY <2>1, <2>2, <1>2 DEF TypeOK
<1>6. Ideal!GiveBack(m)
  BY <1>1, <1>5 DEF Ideal!GiveBack
<1>7. QED
  BY <1>2, <1>6

(* time.time() set back hides pending time: the credit can only shrink.    *)
LEMMA StepBackMapped ==
    ASSUME TypeOK, NEW d \in 1 .. MaxStepBack, ClockStepBack(d),
           UNCHANGED tick
    PROVE  Ideal!Lose
<1> DEFINE K  == tokens * TicksPerSecond
           P  == Pos(elapsed) * Rate
           P1 == Pos(elapsed') * Rate
<1>1. tokens' = tokens /\ reserved' = reserved /\ elapsed' = elapsed - d
  BY DEF ClockStepBack
<1>2. Rate * Pos(elapsed') <= Rate * Pos(elapsed)
  BY <1>1, MulMono DEF Pos, TypeOK
<1>3. K \in Nat /\ P \in Nat /\ P1 \in Nat /\ Cap \in Nat /\ P1 <= P
  BY <1>1, <1>2 DEF TypeOK, Pos, Cap
<1>4. IdealCredit' = MinOf(K + P1, Cap) /\ IdealCredit = MinOf(K + P, Cap)
  BY <1>1, CreditForms DEF IC
<1>5. QED
  BY <1>1, <1>3, <1>4 DEF MinOf, Ideal!Lose

(* Every step of Leakage is a step of the ideal bucket or leaves its state *)
(* alone.                                                                  *)
LEMMA StepMapped ==
    ASSUME SmallStepBack, TypeOK, [NextR]_varsR
    PROVE  [Ideal!Next]_Ideal!vars
<1>1. CASE Tick /\ tick' = 1 - tick
  BY <1>1, TickMapped DEF Ideal!Next
<1>2. CASE \E a \in Amounts : Consume(a) /\ UNCHANGED tick
  BY <1>2, ConsumeMapped DEF Ideal!Next
<1>3. CASE \E n \in 0 .. Rate : Settle(n) /\ UNCHANGED tick
  BY <1>3, SettleMapped DEF Ideal!Next
<1>4. CASE \E d \in 1 .. MaxStepBack : ClockStepBack(d) /\ UNCHANGED tick
  BY <1>4, StepBackMapped DEF Ideal!Next
<1>5. CASE OpenWindow /\ UNCHANGED tick
  <2>1. UNCHANGED <<tokens, elapsed, reserved>>
    BY <1>5 DEF OpenWindow
  <2>2. UNCHANGED IdealCredit
    BY <2>1, CreditForms
  <2>3. QED
    BY <1>5, <2>1, <2>2 DEF Ideal!vars
<1>6. CASE UNCHANGED varsR
  <2>1. UNCHANGED <<tokens, elapsed, reserved, tick>>
    BY <1>6 DEF varsR, vars
  <2>2. UNCHANGED IdealCredit
    BY <2>1, CreditForms
  <2>3. QED
    BY <2>1, <2>2 DEF Ideal!vars
<1>7. QED
  BY <1>1, <1>2, <1>3, <1>4, <1>5, <1>6 DEF NextR, CallerStep

-----------------------------------------------------------------------------
(* The extended spec keeps Leakage's types: each of its steps is a step of *)
(* Leakage or a stutter of it.                                             *)
LEMMA TypeCorrectR ==
    ASSUME SmallStepBack
    PROVE  SpecR => []TypeOK
<1>1. InitR => TypeOK
  BY InitTypeOK DEF InitR
<1>2. TypeOK /\ [NextR]_varsR => TypeOK'
  <2>1. [NextR]_varsR => [Next]_vars
    BY DEF NextR, CallerStep, Next, varsR, vars
  <2>2. QED
    BY <2>1, TypeStep
<1>3. QED
  BY <1>1, <1>2, PTL DEF SpecR

(* consume(), release() and _refill (leakage.py:24-52) never hand out more *)
(* than an exact token bucket of the same rate, whatever the caller asks   *)
(* for and whenever the clock is read, as long as time.time() is never set *)
(* back by the time one token takes to accrue.                             *)
THEOREM ImplementsIdeal ==
    ASSUME SmallStepBack
    PROVE  SpecR => IdealSpec
<1>1. SpecR => []TypeOK
  BY TypeCorrectR
<1>2. InitR => Ideal!Init
  BY InitMapped
<1>3. TypeOK /\ [NextR]_varsR => [Ideal!Next]_Ideal!vars
  BY StepMapped
<1>4. QED
  BY <1>1, <1>2, <1>3, PTL DEF SpecR, IdealSpec, Ideal!Spec
=============================================================================
