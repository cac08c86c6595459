---------------------------- MODULE LeakageProofs ----------------------------
(***************************************************************************)
(* Proofs about the leaky bucket of Leakage.tla, for every value of the    *)
(* constants, under SmallStepBack: time.time() never steps back by as much *)
(* as the time one token takes to accrue (0 steps back: a monotonic clock).*)
(*                                                                         *)
(* RateLimit is not inductive: a window may open while the bucket is full *)
(* and time has accrued since the last refill.  RateCredit strengthens it: *)
(* the tokens granted in the window plus those still in the bucket stay    *)
(* within a full bucket plus the time of the window already credited by a  *)
(* refill.  NoGrantYet says that while the last refill lies before the     *)
(* window, nothing has been granted in it.                                 *)
(***************************************************************************)
EXTENDS LeakageRefinement, TLAPS

(* Accrued time since the last refill that lies inside the open window.   *)
Pending == MinOf(Pos(elapsed), winLen)

(* Granted in the window plus in the bucket, scaled by ticks per second.   *)
Load(G, T) == G * TicksPerSecond + T * TicksPerSecond

RateCredit ==
    WinOpen =>
        Load(winGranted, tokens)
            <= Rate * TicksPerSecond + Rate * (winLen - Pending)

NoGrantYet == (WinOpen /\ Pos(elapsed) > winLen) => winGranted <= 0

IInv == TypeOK /\ RateCredit /\ NoGrantYet

-----------------------------------------------------------------------------
USE RateAssumption, TicksAssumption, AmountAssumption, StepBackAssumption,
    WindowAssumption

(* Multiplying by a natural number preserves <=.                           *)
LEMMA MulMono ==
    ASSUME NEW k \in Nat, NEW x \in Int, NEW y \in Int, x <= y
    PROVE  k * x <= k * y
  OBVIOUS

(* Multiplication distributes over subtraction.                           *)
LEMMA DistribSub ==
    ASSUME NEW a \in Int, NEW b \in Int, NEW c \in Int
    PROVE  (a - b) * c = a * c - b * c
  OBVIOUS

(* int(elapsed * rate) is a natural number no larger than                  *)
(* Pos(elapsed) * rate / TicksPerSecond when the clock steps back by less  *)
(* than one token's worth.                                                 *)
LEMMA AccruedBound ==
    ASSUME SmallStepBack, NEW e \in -MaxStepBack .. TicksPerSecond
    PROVE  /\ Accrued(e) \in Nat
           /\ Accrued(e) * TicksPerSecond <= Rate * Pos(e)
<1>1. CASE e >= 0
  <2>1. e * Rate \in Nat
    BY <1>1
  <2>2. QED
    BY <1>1, <2>1 DEF Accrued, IntPart, Pos
<1>2. CASE e < 0
  <2>1. (-e) * Rate <= MaxStepBack * Rate
    BY <1>2
  <2>2. (-e) * Rate \in 0 .. (TicksPerSecond - 1)
    BY <1>2, <2>1 DEF SmallStepBack
  <2>3. ((-e) * Rate) \div TicksPerSecond = 0
    BY <2>2
  <2>4. Accrued(e) = 0
    BY <1>2, <2>3 DEF Accrued, IntPart
  <2>5. QED
    BY <1>2, <2>4 DEF Pos
<1>3. QED
  BY <1>1, <1>2

-----------------------------------------------------------------------------
LEMMA InitTypeOK == Init => TypeOK
  BY DEF Init, TypeOK

(* Every step keeps the types, the bucket within 0..rate included.         *)
LEMMA TypeStep ==
    ASSUME SmallStepBack, TypeOK, [Next]_vars
    PROVE  TypeOK'
<1>1. ASSUME NEW a \in Amounts, Consume(a) PROVE TypeOK'
  <2>1. Accrued(elapsed) \in Nat
    BY AccruedBound DEF TypeOK
  <2>2. QED
    BY <1>1, <2>1 DEF Consume, Refill, MinOf, Count, WinOpen, TypeOK, Amounts
<1>2. ASSUME NEW n \in 0 .. Rate, Settle(n) PROVE TypeOK'
  BY <1>2 DEF Settle, Release, MinOf, Count, WinOpen, TypeOK
<1>3. CASE Tick
  BY <1>3 DEF Tick, MinOf, TypeOK
<1>4. ASSUME NEW d \in 1 .. MaxStepBack, ClockStepBack(d) PROVE TypeOK'
  BY <1>4 DEF ClockStepBack, TypeOK
<1>5. CASE OpenWindow
  BY <1>5 DEF OpenWindow, WinOpen, TypeOK
<1>6. CASE UNCHANGED vars
  BY <1>6 DEF vars, TypeOK
<1>7. QED
  BY <1>1, <1>2, <1>3, <1>4, <1>5, <1>6 DEF Next

(* The bucket stays within 0..rate and every grant within 0..rate, when    *)
(* time.time() never steps back by a token's worth (Leakage.consume,       *)
(* _refill and release, as the protocol handler calls them).               *)
THEOREM TypeCorrect ==
    ASSUME SmallStepBack
    PROVE  Spec => []TypeOK
<1>1. TypeOK /\ [Next]_vars => TypeOK'
  BY TypeStep
<1>2. QED
  BY InitTypeOK, <1>1, PTL DEF Spec

-----------------------------------------------------------------------------
LEMMA InitIInv == Init => IInv
  BY InitTypeOK DEF Init, IInv, RateCredit, NoGrantYet, WinOpen

(* consume(): the refill credits at most the pending time of the window,   *)
(* and what is granted moves from the bucket to the window's count.        *)
LEMMA ConsumeStep ==
    ASSUME SmallStepBack, IInv, NEW a \in Amounts, Consume(a)
    PROVE  (RateCredit /\ NoGrantYet)'
<1> DEFINE t1 == Refill(tokens, elapsed)
           g  == MinOf(a, t1)
           acc == Accrued(elapsed)
<1>1. /\ acc \in Nat /\ acc * TicksPerSecond <= Rate * Pos(elapsed)
  BY AccruedBound DEF IInv, TypeOK
<1>2. /\ t1 \in 0 .. Rate /\ t1 <= tokens + acc
      /\ g \in 0 .. t1 /\ tokens' = t1 - g
      /\ elapsed' = 0 /\ winLen' = winLen
      /\ winGranted' = IF WinOpen THEN winGranted + g ELSE winGranted
  BY <1>1 DEF Consume, Refill, MinOf, Count, IInv, TypeOK, Amounts
<1>3. NoGrantYet'
  BY <1>2 DEF NoGrantYet, Pos, WinOpen, IInv, TypeOK
<1>4. RateCredit'
  <2> DEFINE W  == winGranted * TicksPerSecond
             K  == tokens * TicksPerSecond
             U  == t1 * TicksPerSecond
             A  == acc * TicksPerSecond
             RT == Rate * TicksPerSecond
             RW == Rate * winLen
             RP == Rate * Pos(elapsed)
             RWP == Rate * (winLen - Pos(elapsed))
  <2> SUFFICES ASSUME WinOpen
               PROVE  Load(winGranted', tokens') <= RT + RW
    BY <1>2 DEF RateCredit, WinOpen, Pending, Pos, MinOf, IInv, TypeOK, RT, RW
  <2>0. /\ W \in Int /\ K \in Int /\ U \in Int /\ A \in Int
        /\ RT \in Int /\ RW \in Int /\ RP \in Int /\ RWP \in Int
    BY <1>1, <1>2 DEF W, K, U, A, RT, RW, RP, RWP, Pos, IInv, TypeOK
  <2>1. Load(winGranted', tokens') = W + U
    BY <1>2 DEF Load, W, U, IInv, TypeOK
  <2>2. U <= K + A
    BY <1>1, <1>2, MulMono DEF U, K, A, IInv, TypeOK
  <2>3. CASE Pos(elapsed) <= winLen
    <3>1. W + K <= RT + RWP
      BY <2>3 DEF IInv, RateCredit, Pending, MinOf, Load, W, K, RT, RWP
    <3>2. RWP + RP = RW
      BY DEF RWP, RP, RW, IInv, TypeOK, Pos
    <3>3. A <= RP
      BY <1>1 DEF A, RP
    <3>4. QED
      BY <2>0, <2>1, <2>2, <3>1, <3>2, <3>3
  <2>4. CASE Pos(elapsed) > winLen
    <3>1. winGranted <= 0
      BY <2>4 DEF IInv, NoGrantYet
    <3>2. W <= 0 /\ U <= RT /\ RW >= 0
      BY <1>2, <3>1 DEF W, U, RT, RW, IInv, TypeOK, WinOpen
    <3>3. QED
      BY <2>0, <2>1, <3>2
  <2>5. QED
    BY <2>3, <2>4 DEF Pos, IInv, TypeOK
<1>5. QED
  BY <1>3, <1>4

(* release(): what returns to the bucket leaves the window's count.        *)
LEMMA SettleStep ==
    ASSUME IInv, NEW n \in 0 .. Rate, Settle(n)
    PROVE  (RateCredit /\ NoGrantYet)'
<1> DEFINE r == reserved - n
<1>1. /\ r \in Nat /\ tokens' \in Int /\ tokens' <= tokens + r
      /\ elapsed' = elapsed /\ winLen' = winLen
      /\ winGranted' = IF WinOpen THEN winGranted - r ELSE winGranted
  BY DEF Settle, Release, MinOf, Count, IInv, TypeOK
<1>2. CASE WinOpen
  <2> DEFINE W  == winGranted * TicksPerSecond
             W1 == winGranted' * TicksPerSecond
             K  == tokens * TicksPerSecond
             K1 == tokens' * TicksPerSecond
             R  == r * TicksPerSecond
  <2>1. /\ winGranted \in Int /\ tokens \in Int
        /\ winGranted' = winGranted - r /\ winGranted' \in Int
    BY <1>1, <1>2 DEF IInv, TypeOK
  <2>2. /\ W \in Int /\ W1 \in Int /\ K \in Int /\ K1 \in Int /\ R \in Int
    BY <1>1, <2>1 DEF W, W1, K, K1, R
  <2>3. K1 <= K + R
    <3>1. TicksPerSecond * tokens' <= TicksPerSecond * (tokens + r)
      BY <1>1, <2>1, MulMono
    <3>2. QED
      BY <1>1, <2>1, <3>1 DEF K, K1, R
  <2>4. W1 = W - R
    BY <1>1, <2>1, DistribSub DEF W, W1, R
  <2>5. Load(winGranted', tokens') <= Load(winGranted, tokens)
    <3>1. W1 + K1 <= W + K
      BY <2>2, <2>3, <2>4
    <3>2. QED
      BY <3>1 DEF Load, W, W1, K, K1
  <2>6. RateCredit'
    <3>1. Pending' = Pending
      BY <1>1 DEF Pending, Pos, MinOf
    <3> DEFINE C == Rate * TicksPerSecond + Rate * (winLen - Pending)
    <3>2. /\ C \in Int
          /\ Load(winGranted, tokens) \in Int
          /\ Load(winGranted', tokens') \in Int
      BY <1>1, <2>1 DEF C, Pending, Pos, MinOf, Load, IInv, TypeOK
    <3>3. Load(winGranted, tokens) <= C
      BY <1>2 DEF IInv, RateCredit, C
    <3>4. Load(winGranted', tokens') <= C
      BY <2>5, <3>2, <3>3
    <3>5. QED
      BY <1>1, <3>1, <3>4 DEF RateCredit, WinOpen, Load, C
  <2>7. NoGrantYet'
    BY <1>1, <2>1 DEF NoGrantYet, WinOpen, IInv
  <2>8. QED
    BY <2>6, <2>7
<1>3. CASE ~WinOpen
  BY <1>1, <1>3 DEF RateCredit, NoGrantYet, WinOpen
<1>4. QED
  BY <1>2, <1>3

(* RateCredit and NoGrantYet as operators of the state they read, so that *)
(* their primed forms are the same operators applied to primed variables.  *)
RC(G, K, E, L) ==
    L >= 0 =>
        G * TicksPerSecond + K * TicksPerSecond
            <= Rate * TicksPerSecond + Rate * (L - MinOf(Pos(E), L))

NG(G, E, L) == (L >= 0 /\ Pos(E) > L) => G <= 0

LEMMA ExplicitForms ==
    /\ RateCredit = RC(winGranted, tokens, elapsed, winLen)
    /\ NoGrantYet = NG(winGranted, elapsed, winLen)
    /\ RateCredit' = RC(winGranted', tokens', elapsed', winLen')
    /\ NoGrantYet' = NG(winGranted', elapsed', winLen')
  BY DEF RateCredit, NoGrantYet, RC, NG, Load, Pending, WinOpen

(* A tick extends the window by one tick and the pending time by at most   *)
(* one tick; the end of the window closes it.                              *)
LEMMA TickStep ==
    ASSUME IInv, Tick
    PROVE  (RateCredit /\ NoGrantYet)'
<1>1. CASE winLen \in 0 .. (Window - 1)
  <2> DEFINE m  == MinOf(Pos(elapsed), winLen)
             m1 == MinOf(Pos(elapsed'), winLen')
  <2>1. /\ winLen' = winLen + 1 /\ tokens' = tokens /\ winGranted' = winGranted
        /\ elapsed' = MinOf(elapsed + 1, TicksPerSecond)
    BY <1>1 DEF Tick
  <2>2. /\ Pos(elapsed) \in Nat /\ Pos(elapsed') \in Nat
        /\ Pos(elapsed') <= Pos(elapsed) + 1
    BY <2>1 DEF Pos, MinOf, IInv, TypeOK
  <2>3. /\ m \in Int /\ m1 \in Int /\ winLen - m <= winLen' - m1
    BY <1>1, <2>1, <2>2 DEF m, m1, MinOf
  <2>4. Rate * (winLen - m) <= Rate * (winLen' - m1)
    BY <1>1, <2>1, <2>3, MulMono
  <2>5. RC(winGranted', tokens', elapsed', winLen')
    <3>1. RC(winGranted, tokens, elapsed, winLen)
      BY ExplicitForms DEF IInv
    <3> DEFINE W  == winGranted * TicksPerSecond
               K  == tokens * TicksPerSecond
               RT == Rate * TicksPerSecond
               A  == Rate * (winLen - m)
               A1 == Rate * (winLen' - m1)
    <3>2. /\ W \in Int /\ K \in Int /\ RT \in Int /\ A \in Int /\ A1 \in Int
      BY <1>1, <2>1, <2>3 DEF W, K, RT, A, A1, IInv, TypeOK
    <3>3. W + K <= RT + A
      BY <1>1, <3>1 DEF RC, W, K, RT, A, m
    <3>4. winGranted' * TicksPerSecond + tokens' * TicksPerSecond <= RT + A1
      BY <2>1, <2>4, <3>2, <3>3 DEF W, K, A, A1
    <3>5. QED
      BY <1>1, <2>1, <3>4 DEF RC, RT, A1, m1
  <2>6. NG(winGranted', elapsed', winLen')
    <3>1. NG(winGranted, elapsed, winLen)
      BY ExplicitForms DEF IInv
    <3>2. QED
      BY <1>1, <2>1, <2>2, <3>1 DEF NG
  <2>7. QED
    BY <2>5, <2>6, ExplicitForms
<1>2. CASE winLen \notin 0 .. (Window - 1)
  <2>1. winLen' = -1
    BY <1>2 DEF Tick
  <2>2. RC(winGranted', tokens', elapsed', winLen')
    BY <2>1 DEF RC
  <2>3. NG(winGranted', elapsed', winLen')
    BY <2>1 DEF NG
  <2>4. QED
    BY <2>2, <2>3, ExplicitForms
<1>3. QED
  BY <1>1, <1>2

(* A backward step of the clock only shrinks the pending time.             *)
LEMMA StepBackStep ==
    ASSUME IInv, NEW d \in 1 .. MaxStepBack, ClockStepBack(d)
    PROVE  (RateCredit /\ NoGrantYet)'
<1> DEFINE m  == MinOf(Pos(elapsed), winLen)
           m1 == MinOf(Pos(elapsed'), winLen)
<1>1. /\ elapsed' < elapsed /\ elapsed' \in Int /\ winLen' = winLen
      /\ tokens' = tokens /\ winGranted' = winGranted
  BY DEF ClockStepBack, IInv, TypeOK
<1>2. /\ Pos(elapsed) \in Nat /\ Pos(elapsed') \in Nat
      /\ Pos(elapsed') <= Pos(elapsed)
  BY <1>1 DEF Pos, IInv, TypeOK
<1>3. /\ m \in Int /\ m1 \in Int /\ winLen - m <= winLen - m1
  BY <1>2 DEF m, m1, MinOf, IInv, TypeOK
<1>4. Rate * (winLen - m) <= Rate * (winLen - m1)
  BY <1>3, MulMono DEF IInv, TypeOK
<1>5. RC(winGranted', tokens', elapsed', winLen')
  <2>1. RC(winGranted, tokens, elapsed, winLen)
    BY ExplicitForms DEF IInv
  <2> DEFINE W  == winGranted * TicksPerSecond
             K  == tokens * TicksPerSecond
             RT == Rate * TicksPerSecond
             A  == Rate * (winLen - m)
             A1 == Rate * (winLen - m1)
  <2>2. /\ W \in Int /\ K \in Int /\ RT \in Int /\ A \in Int /\ A1 \in Int
    BY <1>3 DEF W, K, RT, A, A1, IInv, TypeOK
  <2>3. CASE winLen >= 0
    <3>1. W + K <= RT + A
      BY <2>1, <2>3 DEF RC, W, K, RT, A, m
    <3>2. winGranted' * TicksPerSecond + tokens' * TicksPerSecond <= RT + A1
      BY <1>1, <1>4, <2>2, <3>1 DEF W, K, A, A1
    <3>3. QED
      BY <1>1, <3>2 DEF RC, RT, A1, m1
  <2>4. CASE ~(winLen >= 0)
    BY <1>1, <2>4 DEF RC
  <2>5. QED
    BY <2>3, <2>4
<1>6. NG(winGranted', elapsed', winLen')
  <2>1. NG(winGranted, elapsed, winLen)
    BY ExplicitForms DEF IInv
  <2>2. QED
    BY <1>1, <1>2, <2>1 DEF NG, IInv, TypeOK
<1>7. QED
  BY <1>5, <1>6, ExplicitForms

(* A fresh window starts with nothing granted and nothing pending.         *)
LEMMA OpenWindowStep ==
    ASSUME IInv, OpenWindow
    PROVE  (RateCredit /\ NoGrantYet)'
<1>1. /\ winGranted' = 0 /\ winLen' = 0 /\ tokens' = tokens
      /\ elapsed' = elapsed
  BY DEF OpenWindow
<1>2. MinOf(Pos(elapsed), 0) = 0
  BY DEF Pos, MinOf, IInv, TypeOK
<1>3. tokens * TicksPerSecond <= Rate * TicksPerSecond
  BY MulMono DEF IInv, TypeOK
<1>4. RC(winGranted', tokens', elapsed', winLen')
  BY <1>1, <1>2, <1>3 DEF RC, IInv, TypeOK
<1>5. NG(winGranted', elapsed', winLen')
  BY <1>1 DEF NG
<1>6. QED
  BY <1>4, <1>5, ExplicitForms

LEMMA IInvStep ==
    ASSUME SmallStepBack, IInv, [Next]_vars
    PROVE  IInv'
<1>1. TypeOK'
  BY TypeStep DEF IInv
<1>2. (RateCredit /\ NoGrantYet)'
  <2>1. CASE UNCHANGED vars
    BY <2>1, ExplicitForms DEF vars, IInv
  <2>2. QED
    BY <2>1, ConsumeStep, SettleStep, TickStep, StepBackStep, OpenWindowStep
       DEF Next
<1>3. QED
  BY <1>1, <1>2 DEF IInv

LEMMA IInvRateLimit == IInv => RateLimit
<1> SUFFICES ASSUME IInv, WinOpen
             PROVE  winGranted * TicksPerSecond
                        <= Rate * TicksPerSecond + Rate * winLen
  BY DEF RateLimit
<1> DEFINE W == winGranted * TicksPerSecond
           K == tokens * TicksPerSecond
           X == Rate * (winLen - Pending)
           Y == Rate * winLen
           RT == Rate * TicksPerSecond
<1>1. Pending \in 0 .. winLen
  BY DEF IInv, TypeOK, Pending, Pos, MinOf, WinOpen
<1>2. /\ W \in Int /\ K \in Int /\ X \in Int /\ Y \in Int /\ RT \in Int
  BY <1>1 DEF W, K, X, Y, RT, IInv, TypeOK
<1>3. X <= Y
  BY <1>1, MulMono DEF X, Y, IInv, TypeOK
<1>4. K >= 0
  BY DEF K, IInv, TypeOK
<1>5. W + K <= RT + X
  BY DEF W, K, X, RT, IInv, RateCredit, Load
<1>6. QED
  BY <1>2, <1>3, <1>4, <1>5 DEF W, Y, RT

(* Spec 8: over any window the bytes granted net of releases never exceed  *)
(* a full bucket plus rate bytes per second of the window, truncation of   *)
(* int(elapsed * rate) and release() included (Leakage.consume/_refill).   *)
THEOREM RateLimitHolds ==
    ASSUME SmallStepBack
    PROVE  Spec => []RateLimit
<1>1. IInv /\ [Next]_vars => IInv'
  BY IInvStep
<1>2. QED
  BY InitIInv, <1>1, IInvRateLimit, PTL DEF Spec
=============================================================================
