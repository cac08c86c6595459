------------------------- MODULE ProxyLifecycleProofs -------------------------
(***************************************************************************)
(* Proofs about ProxyLifecycle: the teardown order of Proxy.shutdown(),   *)
(* that none of its asserts fails, and the soundness of the port file when *)
(* the listener pool keeps the declared order.                            *)
(***************************************************************************)
EXTENDS ProxyLifecycle, FiniteSetTheorems, SequenceTheorems, TLAPS

(* Every running component is one setup() started: its flags ask for it.  *)
RunningStarted == \A c \in running : Starts(c)

(* The exit handler is installed exactly from the end of setup() on.      *)
HandlerMatchesPc ==
    /\ pc = "setup" => handler = "default"
    /\ pc \in {"entering", "running", "shutdown"} => handler = "exit"

(* The components shutdown() reaches from statement k on.                  *)
From(k) == {ShutdownSteps[j] : j \in k .. Len(ShutdownSteps)}

(* The components shutdown() has yet to reach.                             *)
Remaining == From(at)

(* Inside shutdown(), only components of statements still to come run,    *)
(* and the signal that started it has been counted.                        *)
ShutdownProgress ==
    pc = "shutdown" =>
        /\ at \in 1 .. Len(ShutdownSteps)
        /\ running \subseteq Remaining
        /\ signals >= 1

(* The inductive invariant of the lifecycle.                               *)
LInv == TypeOK /\ RunningStarted /\ HandlerMatchesPc /\ ShutdownProgress

(* The setup statements before statement k.                               *)
Done(k) == {SetupSteps[j] : j \in 1 .. k - 1}

(* The components running are exactly those setup() has started so far    *)
(* and shutdown() has not reached yet.                                     *)
StartedExactly ==
    /\ pc = "setup" => running = {c \in Done(at) \cap Components : Starts(c)}
    /\ pc \in {"entering", "running"} =>
          running = {c \in Components : Starts(c)}
    /\ pc = "shutdown" => running = {c \in Remaining : Starts(c)}

(* The inductive invariant for the asserts of shutdown().                  *)
SInv == LInv /\ StartedExactly

-----------------------------------------------------------------------------
(* The pool SetupListeners builds from a binding r of the declared order.  *)
PoolOf(r) ==
    [i \in 1 .. Len(DeclaredListeners) |->
        [cfg |-> DeclaredListeners[i], port |-> r[i]]]

FlagsOK ==
    flags \in [on: SUBSET Features, port: PortChoices, ports: Seq(PortChoices)]

(* From the port rewrite on, the pool is a binding of the declared order. *)
PoolBound ==
    (pc = "setup" /\ at >= 3) \/ "port" \in files =>
        \E r \in Bindings(DeclaredListeners) : pool = PoolOf(r)

(* The port file is not written before the port rewrite.                  *)
PortNotYet == pc = "setup" /\ at <= 3 => "port" \notin files

(* The inductive invariant for the port file.                              *)
PInv == LInv /\ FlagsOK /\ PoolBound /\ PortNotYet /\ PortFileSound

-----------------------------------------------------------------------------
(* What the proofs use of the constants: ports are positive numbers, and  *)
(* there are finitely many of them.                                        *)
LEMMA ConstantFacts ==
    /\ PortSpace \subseteq Nat \ {0}
    /\ IsFiniteSet(PortSpace)
    /\ PortChoices \subseteq PortSpace \cup {0}
    /\ MaxPorts \in Nat /\ MaxSignals \in Nat
    /\ PoolOrdered \in BOOLEAN
<1>1. PortSpace \in SUBSET (1 .. MaxTcpPort)
  BY PortsAssumption, Zenon
<1>2. PortSpace \subseteq Nat \ {0}
  <2>1. ASSUME NEW x \in 1 .. MaxTcpPort PROVE x \in Nat \ {0}
    BY SMT
  <2> QED
    BY <1>1, <2>1, Zenon
<1>3. IsFiniteSet(1 .. MaxTcpPort)
  <2>1. MaxTcpPort \in Int
    BY DEF MaxTcpPort
  <2> QED
    BY <2>1, FS_Interval
<1>4. IsFiniteSet(PortSpace)
  BY <1>1, <1>3, FS_Subset
<1>5. /\ PortChoices \subseteq PortSpace \cup {0}
      /\ MaxPorts \in Nat /\ MaxSignals \in Nat
      /\ PoolOrdered \in BOOLEAN
  BY PortsAssumption, Zenon
<1> QED
  BY <1>2, <1>4, <1>5

USE ConstantFacts

(* Statement k of shutdown() stops a component, and no component of a     *)
(* later statement was set up with a handle of it.                         *)
LEMMA ShutdownOrderFacts ==
    ASSUME NEW k \in 1 .. Len(ShutdownSteps)
    PROVE  /\ ShutdownSteps[k] \in Components
           /\ From(k) = {ShutdownSteps[k]} \cup From(k + 1)
           /\ ShutdownSteps[k] \notin From(k + 1)
           /\ \A d \in From(k + 1) : ~Uses(d, ShutdownSteps[k])
<1>1. Len(ShutdownSteps) = 6 /\ From(1) = Components
  BY DEF ShutdownSteps, From, Components
<1>2. k \in 1 .. 6
  BY <1>1
<1> QED
  BY <1>2 DEF ShutdownSteps, From, Components, Uses

(* Statement k of setup() that is not the last one is followed by another. *)
LEMMA SetupStepFacts ==
    ASSUME NEW k \in 1 .. Len(SetupSteps)
    PROVE  /\ SetupSteps[k] # "signals" => k + 1 \in 1 .. Len(SetupSteps)
           /\ SetupSteps[k] = "pid" => k = 1
           /\ SetupSteps[k] = "listeners" => k = 2
           /\ SetupSteps[k] = "ports" => k = 3
           /\ SetupSteps[k] \in Components \ {"listeners"} => k >= 4
BY DEF SetupSteps, Components

(* A component that runs is one shutdown() stops when it reaches it.       *)
LEMMA StopsRunning ==
    ASSUME RunningStarted, NEW c \in running
    PROVE  Stops(c)
BY DEF RunningStarted, Starts, Stops, RemoteExecutorsEnabled

-----------------------------------------------------------------------------
LEMMA InitLInv == Init => LInv
<1> SUFFICES ASSUME Init PROVE LInv
  OBVIOUS
<1>1. Len(SetupSteps) = 9
  BY DEF SetupSteps
<1> QED
  BY <1>1 DEF Init, LInv, TypeOK, RunningStarted, HandlerMatchesPc,
             ShutdownProgress

(* Each action of setup() keeps the lifecycle invariant.                   *)
LEMMA SetupStepLInv ==
    ASSUME LInv,
           WritePidFile \/ SetupListeners \/ RewritePorts \/ StartComponent
    PROVE  LInv'
<1> USE DEF LInv, TypeOK, HandlerMatchesPc, ShutdownProgress
<1>1. pc = "setup" /\ pc' = "setup" /\ handler' = handler
      /\ signals' = signals /\ exit' = exit
  BY DEF WritePidFile, SetupListeners, RewritePorts, StartComponent, Step
<1>2. at' = at + 1 /\ SetupSteps[at] # "signals"
  BY DEF WritePidFile, SetupListeners, RewritePorts, StartComponent, Step,
         Components
<1>3. at' \in 1 .. Len(SetupSteps)
  BY <1>2, SetupStepFacts
<1>4. files' \subseteq {"pid", "port"}
  BY DEF WritePidFile, SetupListeners, RewritePorts, StartComponent
<1>5. running' \subseteq Components /\ RunningStarted'
  <2>1. CASE WritePidFile \/ RewritePorts
    BY <2>1 DEF WritePidFile, RewritePorts, RunningStarted, Starts, On,
                RemoteExecutorsEnabled
  <2>2. CASE SetupListeners
    <3>1. running' = running \cup {"listeners"} /\ flags' = flags
      BY <2>2 DEF SetupListeners
    <3>2. Starts("listeners")
      BY DEF Starts
    <3> QED
      BY <3>1, <3>2 DEF RunningStarted, Starts, On, RemoteExecutorsEnabled,
                        Components
  <2>3. CASE StartComponent
    <3> DEFINE s == SetupSteps[at]
    <3>1. s \in Components /\ flags' = flags
      BY <2>3 DEF StartComponent
    <3>2. running' = IF Starts(s) THEN running \cup {s} ELSE running
      BY <2>3 DEF StartComponent
    <3> QED
      BY <3>1, <3>2 DEF RunningStarted, Starts, On, RemoteExecutorsEnabled
  <2> QED
    BY <2>1, <2>2, <2>3
<1> QED
  BY <1>1, <1>3, <1>4, <1>5

(* Installing the handlers, entering sleep_loop and a failing setup()     *)
(* keep it.                                                                *)
LEMMA EndOfSetupLInv ==
    ASSUME LInv, RegisterSignals \/ Enter \/ SetupFails
    PROVE  LInv'
BY DEF LInv, TypeOK, HandlerMatchesPc, ShutdownProgress, RunningStarted,
       RegisterSignals, Enter, SetupFails, Starts, On, RemoteExecutorsEnabled

(* A signal keeps it: out of sleep_loop it starts shutdown() at its first  *)
(* statement, with every component still to be reached.                   *)
LEMMA SignalLInv ==
    ASSUME LInv, Signal
    PROVE  LInv'
<1> USE DEF LInv, TypeOK, HandlerMatchesPc, ShutdownProgress
<1>1. running' = running /\ flags' = flags /\ handler' = handler
      /\ files' = files /\ signals' \in 1 .. MaxSignals
  BY DEF Signal
<1>2. RunningStarted'
  BY <1>1 DEF RunningStarted, Starts, On, RemoteExecutorsEnabled
<1>3. CASE pc = "running"
  <2>1. pc' = "shutdown" /\ at' = 1 /\ exit' = exit
    BY <1>3 DEF Signal
  <2>2. From(1) = Components /\ Len(ShutdownSteps) = 6 /\ Len(SetupSteps) = 9
    BY DEF From, ShutdownSteps, Components, SetupSteps
  <2> QED
    BY <1>1, <1>2, <1>3, <2>1, <2>2 DEF Remaining
<1>4. CASE pc # "running"
  BY <1>1, <1>2, <1>4 DEF Signal
<1> QED
  BY <1>3, <1>4

(* A shutdown() statement keeps it: the component it stops, if running, is *)
(* gone, and the rest belong to later statements.                          *)
LEMMA ShutdownStepLInv ==
    ASSUME LInv, ShutdownStep
    PROVE  LInv'
<1> USE DEF LInv, TypeOK, HandlerMatchesPc, ShutdownProgress
<1> DEFINE c == ShutdownSteps[at]
<1>1. pc = "shutdown" /\ at \in 1 .. Len(ShutdownSteps)
      /\ running \subseteq From(at)
  BY DEF ShutdownStep, Remaining
<1>2. /\ running' = IF Stops(c) THEN running \ {c} ELSE running
      /\ files' \subseteq files
      /\ UNCHANGED <<flags, handler, signals>>
  BY DEF ShutdownStep
<1>3. running' \subseteq From(at + 1) /\ running' \subseteq running
  <2>1. c \in running => Stops(c)
    BY StopsRunning
  <2> QED
    BY <1>1, <1>2, <2>1, ShutdownOrderFacts
<1>4. RunningStarted'
  BY <1>2, <1>3 DEF RunningStarted, Starts, On, RemoteExecutorsEnabled
<1>5. Len(ShutdownSteps) = 6 /\ Len(SetupSteps) = 9
  BY DEF ShutdownSteps, SetupSteps
<1>6. CASE at = Len(ShutdownSteps)
  BY <1>1, <1>2, <1>3, <1>4, <1>5, <1>6 DEF ShutdownStep
<1>7. CASE at # Len(ShutdownSteps)
  <2>1. pc' = "shutdown" /\ at' = at + 1 /\ exit' = exit
    BY <1>7 DEF ShutdownStep
  <2>2. Remaining' = From(at + 1)
    BY <2>1 DEF Remaining
  <2>3. at + 1 \in 1 .. Len(ShutdownSteps)
    BY <1>1, <1>7
  <2> QED
    BY <1>1, <1>2, <1>3, <1>4, <1>5, <2>1, <2>2, <2>3
<1> QED
  BY <1>6, <1>7

(* The lifecycle invariant is inductive.                                   *)
LEMMA LInvStep == LInv /\ [Next]_vars => LInv'
<1> SUFFICES ASSUME LInv, [Next]_vars PROVE LInv'
  OBVIOUS
<1>1. CASE UNCHANGED vars
  BY <1>1 DEF vars, LInv, TypeOK, HandlerMatchesPc, ShutdownProgress,
              Remaining, From, RunningStarted, Starts, On,
              RemoteExecutorsEnabled
<1> QED
  BY <1>1, SetupStepLInv, EndOfSetupLInv, SignalLInv, ShutdownStepLInv
     DEF Next

-----------------------------------------------------------------------------
(* Only a shutdown() statement stops a component.                          *)
LEMMA OnlyShutdownStops ==
    ASSUME LInv, Next, ~ShutdownStep
    PROVE  running \subseteq running'
BY DEF Next, WritePidFile, SetupListeners, RewritePorts, StartComponent,
       RegisterSignals, Enter, SetupFails, Signal

(* Proxy.shutdown() stops the acceptors before the executors and the event *)
(* queue they were handed, and every user of a component before it, for    *)
(* every flag combination and any number of signals.                       *)
THEOREM TeardownOrderHolds == Spec => TeardownOrder
<1> DEFINE Safe == \A c \in running \ running' : \A d \in running' :
                      ~Uses(d, c)
<1>1. LInv /\ [Next]_vars => [Safe]_vars
  <2> SUFFICES ASSUME LInv, [Next]_vars PROVE [Safe]_vars
    OBVIOUS
  <2>1. CASE ShutdownStep
    <3> USE DEF LInv, ShutdownProgress
    <3> DEFINE c == ShutdownSteps[at]
    <3>1. pc = "shutdown" /\ at \in 1 .. Len(ShutdownSteps)
          /\ running \subseteq From(at)
      BY <2>1 DEF ShutdownStep, Remaining
    <3>2. running' = IF Stops(c) THEN running \ {c} ELSE running
      BY <2>1 DEF ShutdownStep
    <3>3. c \in running => Stops(c)
      BY StopsRunning
    <3>4. running \ running' \subseteq {c} /\ running' \subseteq From(at + 1)
      BY <3>1, <3>2, <3>3, ShutdownOrderFacts
    <3> QED
      BY <3>1, <3>4, ShutdownOrderFacts
  <2>2. CASE Next /\ ~ShutdownStep
    BY <2>2, OnlyShutdownStops
  <2>3. CASE UNCHANGED vars
    BY <2>3 DEF vars
  <2> QED
    BY <2>1, <2>2, <2>3 DEF Next
<1> QED
  BY <1>1, InitLInv, LInvStep, PTL DEF Spec, TeardownOrder

-----------------------------------------------------------------------------
(* Each setup statement adds itself to the statements done.                *)
LEMMA DoneStep ==
    ASSUME NEW k \in 1 .. Len(SetupSteps)
    PROVE  Done(k + 1) = Done(k) \cup {SetupSteps[k]}
<1>1. k \in 1 .. 9
  BY DEF SetupSteps
<1> QED
  BY <1>1 DEF Done

(* Before setup() every component is to come; at _register_signals every *)
(* component's statement is done.                                          *)
LEMMA DoneBounds ==
    /\ Done(1) = {}
    /\ Done(9) \cap Components = Components
    /\ \A k \in 1 .. Len(SetupSteps) : SetupSteps[k] = "signals" => k = 9
BY DEF Done, SetupSteps, Components

(* A step of setup() keeps the components running those started so far.   *)
LEMMA SetupStepStarted ==
    ASSUME SInv,
           WritePidFile \/ SetupListeners \/ RewritePorts \/ StartComponent
    PROVE  StartedExactly'
<1> DEFINE s == SetupSteps[at]
           Started(k) == {c \in Done(k) \cap Components : Starts(c)}
<1>1. pc = "setup" /\ pc' = "setup" /\ at \in 1 .. Len(SetupSteps)
      /\ at' = at + 1 /\ flags' = flags
  BY DEF WritePidFile, SetupListeners, RewritePorts, StartComponent, Step,
         SInv, LInv, TypeOK
<1>2. running = Started(at)
  BY <1>1 DEF SInv, StartedExactly, Started
<1>3. Started(at + 1) = IF s \in Components /\ Starts(s)
                          THEN Started(at) \cup {s} ELSE Started(at)
  BY <1>1, DoneStep DEF Started
<1>4. running' = IF s \in Components /\ Starts(s)
                 THEN running \cup {s} ELSE running
  <2>1. CASE WritePidFile \/ RewritePorts
    <3>1. s \notin Components
      BY <2>1 DEF WritePidFile, RewritePorts, Step, Components
    <3> QED
      BY <2>1, <3>1 DEF WritePidFile, RewritePorts
  <2>2. CASE SetupListeners
    <3>1. s = "listeners" /\ Starts(s)
      BY <2>2 DEF SetupListeners, Step, Starts
    <3> QED
      BY <2>2, <3>1 DEF SetupListeners, Components
  <2>3. CASE StartComponent
    BY <2>3 DEF StartComponent
  <2> QED
    BY <2>1, <2>2, <2>3
<1>5. running' = {c \in Done(at') \cap Components : Starts(c)'}
  BY <1>1, <1>2, <1>3, <1>4 DEF Started, Starts, On, RemoteExecutorsEnabled
<1> QED
  BY <1>1, <1>5 DEF StartedExactly

(* A shutdown() statement removes the component it reaches, which runs    *)
(* exactly when setup() started it.                                        *)
LEMMA ShutdownStepStarted ==
    ASSUME SInv, ShutdownStep
    PROVE  StartedExactly'
<1> DEFINE c == ShutdownSteps[at]
<1>1. pc = "shutdown" /\ at \in 1 .. Len(ShutdownSteps) /\ flags' = flags
      /\ running = {d \in From(at) : Starts(d)}
  BY DEF ShutdownStep, SInv, StartedExactly, LInv, ShutdownProgress, Remaining
<1>2. running' = running \ {c}
  <2>1. c \in running => Stops(c)
    BY StopsRunning DEF SInv, LInv
  <2>2. ~Stops(c) => c \notin running
    BY <2>1
  <2> QED
    BY <2>2 DEF ShutdownStep
<1>3. running' = {d \in From(at + 1) : Starts(d)'}
  BY <1>1, <1>2, ShutdownOrderFacts DEF Starts, On, RemoteExecutorsEnabled
<1>4. CASE at = Len(ShutdownSteps)
  BY <1>4 DEF ShutdownStep, StartedExactly
<1>5. CASE at # Len(ShutdownSteps)
  <2>1. pc' = "shutdown" /\ at' = at + 1
    BY <1>5 DEF ShutdownStep
  <2> QED
    BY <1>3, <2>1 DEF StartedExactly, Remaining
<1> QED
  BY <1>4, <1>5

(* The assert invariant is inductive.                                      *)
LEMMA SInvStep == SInv /\ [Next]_vars => SInv'
<1> SUFFICES ASSUME SInv, [Next]_vars PROVE SInv'
  OBVIOUS
<1>1. LInv'
  BY LInvStep DEF SInv
<1>2. StartedExactly'
  <2>1. CASE WritePidFile \/ SetupListeners \/ RewritePorts \/ StartComponent
    BY <2>1, SetupStepStarted
  <2>2. CASE RegisterSignals
    <3>1. at = 9 /\ pc' = "entering" /\ UNCHANGED <<flags, running>>
      BY <2>2, DoneBounds DEF RegisterSignals, Step, SInv, LInv, TypeOK
    <3>2. running = {c \in Components : Starts(c)}
      BY <2>2, <3>1, DoneBounds DEF RegisterSignals, Step, SInv,
                                     StartedExactly
    <3> QED
      BY <3>1, <3>2 DEF StartedExactly, Starts, On, RemoteExecutorsEnabled
  <2>3. CASE Enter
    BY <2>3 DEF Enter, SInv, StartedExactly, Starts, On,
                RemoteExecutorsEnabled
  <2>4. CASE Signal
    <3>1. UNCHANGED <<flags, running>>
      BY <2>4 DEF Signal
    <3>2. CASE pc = "running"
      <4>1. pc' = "shutdown" /\ at' = 1
        BY <2>4, <3>2 DEF Signal
      <4>2. From(1) = Components
        BY DEF From, ShutdownSteps, Components
      <4> QED
        BY <3>1, <3>2, <4>1, <4>2 DEF SInv, StartedExactly, Remaining, Starts,
                                      On, RemoteExecutorsEnabled
    <3>3. CASE pc # "running"
      BY <2>4, <3>3 DEF Signal, StartedExactly
    <3> QED
      BY <3>2, <3>3
  <2>5. CASE SetupFails
    BY <2>5 DEF SetupFails, StartedExactly
  <2>6. CASE ShutdownStep
    BY <2>6, ShutdownStepStarted
  <2>7. CASE UNCHANGED vars
    BY <2>7 DEF vars, SInv, StartedExactly, Remaining, From, Done, Starts, On,
                RemoteExecutorsEnabled
  <2> QED
    BY <2>1, <2>2, <2>3, <2>4, <2>5, <2>6, <2>7 DEF Next
<1> QED
  BY <1>1, <1>2 DEF SInv

(* For every flag combination, port space and number of signals, no       *)
(* assert of Proxy.shutdown() fails: the tunnel, acceptors, executors and  *)
(* event manager it asserts under its own conditions were all started by   *)
(* setup() under setup's conditions, and shutdown() has not stopped them.  *)
THEOREM ShutdownAssertsHoldProved == Spec => []ShutdownAssertsHold
<1>1. Init => SInv
  <2> SUFFICES ASSUME Init PROVE SInv
    OBVIOUS
  <2>1. LInv
    BY InitLInv
  <2> QED
    BY <2>1, DoneBounds DEF Init, SInv, StartedExactly
<1>2. SInv /\ [Next]_vars => SInv'
  BY SInvStep
<1>3. SInv => ShutdownAssertsHold
  <2> SUFFICES ASSUME SInv, pc = "shutdown", NEW c \in Asserted,
                      c = ShutdownSteps[at], Stops(c)
               PROVE  c \in running
    BY DEF ShutdownAssertsHold
  <2>1. at \in 1 .. Len(ShutdownSteps)
        /\ running = {d \in Remaining : Starts(d)}
    BY DEF SInv, LInv, ShutdownProgress, StartedExactly
  <2>2. c \in Remaining
    BY <2>1 DEF Remaining, From
  <2>3. Starts(c)
    BY DEF Asserted, Stops, Starts
  <2> QED
    BY <2>1, <2>2, <2>3
<1> QED
  BY <1>1, <1>2, <1>3, PTL DEF Spec

-----------------------------------------------------------------------------
(* A listing of a finite set by SetToSeqs is a sequence of its elements    *)
(* without repetition.                                                     *)
LEMMA SetToSeqsFacts ==
    ASSUME NEW S, IsFiniteSet(S), NEW f \in SetToSeqs(S)
    PROVE  /\ f \in Seq(S)
           /\ ToSet(f) \subseteq S
           /\ IsInjective(f)
<1>1. Cardinality(S) \in Nat
  BY FS_CardinalityType
<1>2. f \in [1 .. Cardinality(S) -> S]
      /\ \A i, j \in 1 .. Cardinality(S) : i # j => f[i] # f[j]
  BY DEF SetToSeqs
<1>3. f \in Seq(S)
  BY <1>1, <1>2
<1>4. ToSet(f) \subseteq S
  BY <1>2 DEF ToSet
<1>5. IsInjective(f)
  BY <1>2 DEF IsInjective
<1> QED
  BY <1>3, <1>4, <1>5
(* Putting an element that a sequence without repetition does not hold in  *)
(* front of it gives a sequence without repetition, starting with it.      *)
LEMMA ConsInjective ==
    ASSUME NEW S, NEW x \in S, NEW f \in Seq(S), IsInjective(f),
           x \notin ToSet(f)
    PROVE  /\ IsInjective(<<x>> \o f)
           /\ ToSet(<<x>> \o f) = {x} \cup ToSet(f)
           /\ (<<x>> \o f)[1] = x
<1>1. <<x>> \in Seq(S)
  OBVIOUS
<1> DEFINE g == <<x>> \o f
<1>2. /\ g \in Seq(S)
      /\ Len(g) = 1 + Len(f)
      /\ \A i \in 1 .. 1 + Len(f) : g[i] = IF i <= 1 THEN x ELSE f[i - 1]
  BY <1>1, ConcatProperties
<1>3. DOMAIN g = 1 .. 1 + Len(f) /\ DOMAIN f = 1 .. Len(f)
  BY <1>2
<1>4. IsInjective(g)
  BY <1>2, <1>3 DEF IsInjective, ToSet
<1>5. ToSet(g) = {x} \cup ToSet(f)
  <2>1. ASSUME NEW i \in 1 .. 1 + Len(f) PROVE g[i] \in {x} \cup ToSet(f)
    <3>1. CASE i = 1
      BY <1>2, <3>1
    <3>2. CASE i # 1
      <4>1. i - 1 \in DOMAIN f /\ g[i] = f[i - 1]
        BY <1>2, <1>3, <3>2
      <4> QED
        BY <4>1 DEF ToSet
    <3> QED
      BY <3>1, <3>2
  <2>2. x = g[1] /\ 1 \in DOMAIN g
    BY <1>2, <1>3
  <2>3. ASSUME NEW j \in DOMAIN f PROVE f[j] = g[j + 1] /\ j + 1 \in DOMAIN g
    BY <1>2, <1>3
  <2>4. ToSet(g) \subseteq {x} \cup ToSet(f)
    BY <2>1, <1>3 DEF ToSet
  <2>5. {x} \cup ToSet(f) \subseteq ToSet(g)
    <3>1. x \in ToSet(g)
      BY <2>2 DEF ToSet
    <3>2. ASSUME NEW y \in ToSet(f) PROVE y \in ToSet(g)
      <4>1. PICK j \in DOMAIN f : y = f[j]
        BY DEF ToSet
      <4> QED
        BY <4>1, <2>3 DEF ToSet
    <3> QED
      BY <3>1, <3>2
  <2> QED
    BY <2>4, <2>5
<1> QED
  BY <1>2, <1>4, <1>5
(* The declared listeners: one per --ports entry after the first, which is *)
(* the unix socket or the --port listener.                                 *)
LEMMA DeclaredFacts ==
    ASSUME FlagsOK
    PROVE  LET n == Len(flags.ports)
           IN  /\ Len(DeclaredListeners) = n + 1
               /\ \A k \in 2 .. n + 1 :
                     DeclaredListeners[k] = flags.ports[k - 1]
                     /\ DeclaredListeners[k] \in PortSpace \cup {0}
               /\ ~On("unix_socket_path") =>
                     DeclaredListeners[1] = flags.port
               /\ flags.port \in PortSpace \cup {0}
<1> DEFINE n == Len(flags.ports)
           P == PortSpace \cup {0, Unix}
<1>1. flags.ports \in Seq(PortSpace \cup {0})
      /\ flags.port \in PortSpace \cup {0}
  <2>1. flags.ports \in Seq(PortChoices) /\ flags.port \in PortChoices
    BY DEF FlagsOK
  <2> QED
    BY <2>1, SeqMonotonic
<1>2. /\ <<Unix>> \in Seq(P) /\ <<flags.port>> \in Seq(P)
      /\ flags.ports \in Seq(P) /\ n \in Nat
  BY <1>1, SeqMonotonic
<1>3. \A k \in 2 .. n + 1 : flags.ports[k - 1] \in PortSpace \cup {0}
  BY <1>1
<1>4. CASE On("unix_socket_path")
  <2>1. DeclaredListeners = <<Unix>> \o flags.ports
    BY <1>4 DEF DeclaredListeners
  <2> QED
    BY <1>1, <1>2, <1>3, <1>4, <2>1, ConcatProperties
<1>5. CASE ~On("unix_socket_path")
  <2>1. DeclaredListeners = <<flags.port>> \o flags.ports
    BY <1>5 DEF DeclaredListeners
  <2> QED
    BY <1>1, <1>2, <1>3, <2>1, ConcatProperties
<1> QED
  BY <1>4, <1>5

(* A pool bound from the declared listeners: every listener after the     *)
(* first, and the first one without a unix socket, is a TCP listener that  *)
(* realized a port.                                                        *)
LEMMA PoolFacts ==
    ASSUME FlagsOK, NEW r \in Bindings(DeclaredListeners), pool = PoolOf(r)
    PROVE  LET n == Len(flags.ports)
           IN  /\ DOMAIN pool = 1 .. n + 1
               /\ \A k \in 2 .. n + 1 :
                     pool[k].port \in TcpPorts \cap PortSpace
               /\ ~On("unix_socket_path") =>
                     /\ pool[1].cfg = flags.port
                     /\ pool[1].port \in TcpPorts \cap PortSpace
<1> DEFINE n == Len(flags.ports)
           D == DeclaredListeners
<1>1. /\ Len(D) = n + 1
      /\ \A k \in 2 .. n + 1 : D[k] \in PortSpace \cup {0}
      /\ ~On("unix_socket_path") => D[1] = flags.port
      /\ flags.port \in PortSpace \cup {0}
  BY DeclaredFacts
<1>2. Unix \notin PortSpace \cup {0}
  BY DEF Unix
<1>3. /\ r \in [1 .. n + 1 -> PortSpace \cup {0}]
      /\ \A i \in 1 .. n + 1 : D[i] # Unix => r[i] # 0
  BY <1>1 DEF Bindings
<1>4. DOMAIN pool = 1 .. n + 1
      /\ \A k \in 1 .. n + 1 : pool[k].cfg = D[k] /\ pool[k].port = r[k]
  BY <1>1 DEF PoolOf
<1>5. ASSUME NEW k \in 1 .. n + 1, D[k] # Unix
      PROVE  pool[k].port \in TcpPorts \cap PortSpace
  <2>1. pool[k].port \in PortSpace
    BY <1>3, <1>4, <1>5
  <2>2. pool[k].port \in TcpPorts
    BY <1>4, <1>5 DEF TcpPorts
  <2> QED
    BY <2>1, <2>2
<1>6. \A k \in 2 .. n + 1 : pool[k].port \in TcpPorts \cap PortSpace
  BY <1>1, <1>2, <1>5
<1>7. ~On("unix_socket_path") =>
          /\ pool[1].cfg = flags.port
          /\ pool[1].port \in TcpPorts \cap PortSpace
  BY <1>1, <1>2, <1>4, <1>5
<1> QED
  BY <1>4, <1>6, <1>7

(* The port rewrite of setup() writes a sound port file: flags.port is    *)
(* the first line, and every other line is a distinct port of a --ports    *)
(* listener other than it.                                                 *)
LEMMA RewritePortsSound ==
    ASSUME PInv, RewritePorts
    PROVE  PortFileSound'
<1> DEFINE n      == Len(flags.ports)
           unix   == On("unix_socket_path")
           offset == IF unix THEN 1 ELSE 0
           port1  == IF unix THEN flags.port ELSE pool[1].port
           ports  == {pool[i + 1].port : i \in offset .. (offset + n - 1)}
                     \ {port1}
<1>1. pc = "setup" /\ at = 3
  BY SetupStepFacts DEF RewritePorts, Step, PInv, LInv, TypeOK
<1>2. PICK r \in Bindings(DeclaredListeners) : pool = PoolOf(r)
  BY <1>1 DEF PInv, PoolBound
<1>3. /\ DOMAIN pool = 1 .. n + 1
      /\ \A k \in 2 .. n + 1 : pool[k].port \in TcpPorts \cap PortSpace
      /\ ~unix => /\ pool[1].cfg = flags.port
                   /\ pool[1].port \in TcpPorts \cap PortSpace
  BY <1>2, PoolFacts DEF PInv
<1>4. /\ flagPort' = port1
      /\ flagPorts' \in SetToSeqs(ports)
      /\ "port" \in files' => portFile' = (IF unix THEN <<>> ELSE <<port1>>)
                                           \o flagPorts'
      /\ UNCHANGED <<flags, pool>>
  BY <1>1, <1>2 DEF RewritePorts, PInv, PortNotYet
<1>5. ports \subseteq TcpPorts \cap PortSpace
  <2> SUFFICES ASSUME NEW x \in ports PROVE x \in TcpPorts \cap PortSpace
    OBVIOUS
  <2>1. PICK i \in offset .. (offset + n - 1) : x = pool[i + 1].port
                                              /\ x # port1
    BY DEF ports
  <2>2. n \in Nat
    BY DEF PInv, FlagsOK
  <2>3. CASE unix
    <3>1. i + 1 \in 2 .. n + 1
      BY <2>1, <2>2, <2>3 DEF offset
    <3> QED
      BY <1>3, <2>1, <3>1
  <2>4. CASE ~unix /\ i = 0
    <3>1. x = pool[1].port /\ port1 = pool[1].port
      BY <2>1, <2>4 DEF port1
    <3> QED
      BY <2>1, <3>1
  <2>5. CASE ~unix /\ i # 0
    <3>1. i + 1 \in 2 .. n + 1
      BY <2>1, <2>2, <2>5 DEF offset
    <3> QED
      BY <1>3, <2>1, <3>1
  <2> QED
    BY <2>3, <2>4, <2>5
<1>6. /\ flagPorts' \in Seq(PortSpace)
      /\ ToSet(flagPorts') \subseteq ports
      /\ IsInjective(flagPorts')
  <2>1. IsFiniteSet(ports)
    <3>1. ports \in SUBSET PortSpace /\ IsFiniteSet(PortSpace)
      BY <1>5, ConstantFacts
    <3> QED
      BY <3>1, FS_Subset
  <2>2. flagPorts' \in SetToSeqs(ports)
    BY <1>4
  <2>3. flagPorts' \in Seq(ports) /\ ToSet(flagPorts') \subseteq ports
        /\ IsInjective(flagPorts')
    BY <2>1, <2>2, SetToSeqsFacts
  <2>4. ports \subseteq PortSpace
    BY <1>5
  <2> QED
    BY <2>3, <2>4, SeqMonotonic
<1>7. /\ TcpPorts' = TcpPorts
      /\ On("unix_socket_path")' = unix
      /\ flags'.port = flags.port
      /\ pool' = pool
  BY <1>4 DEF TcpPorts, On
<1>8. CASE unix
  <2> SUFFICES ASSUME "port" \in files'
               PROVE  ToSet(portFile') \subseteq TcpPorts
                      /\ IsInjective(portFile')
    BY <1>7, <1>8 DEF PortFileSound
  <2>1. portFile' = flagPorts'
    BY <1>4, <1>6, <1>8, ConcatEmptySeq
  <2> QED
    BY <1>5, <1>6, <2>1
<1>9. CASE ~unix
  <2> SUFFICES ASSUME "port" \in files'
               PROVE  /\ ToSet(portFile') \subseteq TcpPorts
                      /\ IsInjective(portFile')
                      /\ portFile'[1] = flagPort'
                      /\ \E i \in DOMAIN pool :
                            pool[i].port = flagPort' /\ pool[i].cfg = flags.port
    BY <1>7, <1>9 DEF PortFileSound
  <2>1. port1 = pool[1].port
    BY <1>9 DEF port1
  <2>2. port1 \in PortSpace /\ port1 \in TcpPorts
    BY <1>3, <1>9, <2>1
  <2>3. port1 \notin ToSet(flagPorts')
    BY <1>6 DEF ports
  <2>4. /\ IsInjective(<<port1>> \o flagPorts')
        /\ ToSet(<<port1>> \o flagPorts') = {port1} \cup ToSet(flagPorts')
        /\ (<<port1>> \o flagPorts')[1] = port1
    BY <1>6, <2>2, <2>3, ConsInjective
  <2>5. portFile' = <<port1>> \o flagPorts'
    BY <1>4, <1>9
  <2>6. 1 \in DOMAIN pool /\ pool[1].cfg = flags.port
    <3>1. n \in Nat
      BY DEF PInv, FlagsOK
    <3> QED
      BY <1>3, <1>9, <3>1
  <2> QED
    BY <1>4, <1>5, <1>6, <2>1, <2>2, <2>4, <2>5, <2>6
<1> QED
  BY <1>8, <1>9

(* A step that leaves the flags, the pool and the port file alone, writes *)
(* no port file, and does not move setup() back across the port rewrite    *)
(* keeps the port-file invariant.                                          *)
LEMMA PortFrame ==
    ASSUME PInv,
           UNCHANGED <<flags, pool, flagPort, portFile>>,
           files' \subseteq files \cup {"pid"},
           pc' = "setup" /\ at' >= 3 => pc = "setup" /\ at >= 3,
           pc' = "setup" /\ at' <= 3 => pc = "setup" /\ at <= 3
    PROVE  FlagsOK' /\ PoolBound' /\ PortNotYet' /\ PortFileSound'
<1>1. /\ DeclaredListeners' = DeclaredListeners
      /\ TcpPorts' = TcpPorts
      /\ \A f : On(f)' = On(f)
  BY DEF DeclaredListeners, TcpPorts, On
<1>2. "port" \in files' => "port" \in files
  OBVIOUS
<1>3. PoolBound'
  BY <1>1, <1>2 DEF PInv, PoolBound, PoolOf
<1> QED
  BY <1>1, <1>2, <1>3 DEF PInv, FlagsOK, PortNotYet, PortFileSound

(* With the pool in the declared order, binding the listeners gives the   *)
(* pool the port rewrite reads.                                            *)
LEMMA SetupListenersPInv ==
    ASSUME PoolOrdered, PInv, SetupListeners
    PROVE  FlagsOK' /\ PoolBound' /\ PortNotYet' /\ PortFileSound'
<1>1. pc = "setup" /\ at = 2 /\ at' = 3 /\ pc' = "setup"
  BY SetupStepFacts DEF SetupListeners, Step, PInv, LInv, TypeOK
<1>2. "port" \notin files /\ files' = files
  BY <1>1 DEF SetupListeners, PInv, PortNotYet
<1>3. PoolOrders = {DeclaredListeners}
  BY DEF PoolOrders
<1>4. PICK r \in Bindings(DeclaredListeners) :
        pool' = [i \in 1 .. Len(DeclaredListeners) |->
                   [cfg |-> DeclaredListeners[i], port |-> r[i]]]
  BY <1>3 DEF SetupListeners
<1>5. flags' = flags /\ DeclaredListeners' = DeclaredListeners
  BY DEF SetupListeners, DeclaredListeners, On
<1>6. PoolBound'
  BY <1>4, <1>5 DEF PoolBound, PoolOf
<1> QED
  BY <1>1, <1>2, <1>5, <1>6 DEF PInv, FlagsOK, PortNotYet, PortFileSound

(* The port-file invariant is inductive when the pool keeps the declared  *)
(* order.                                                                  *)
LEMMA PInvStep ==
    ASSUME PoolOrdered, PInv, [Next]_vars
    PROVE  PInv'
<1>1. LInv'
  BY LInvStep DEF PInv
<1>2. FlagsOK' /\ PoolBound' /\ PortNotYet' /\ PortFileSound'
  <2>1. CASE WritePidFile
    <3>1. at = 1 /\ at' = 2 /\ pc' = "setup"
      BY <2>1, SetupStepFacts DEF WritePidFile, Step, PInv, LInv, TypeOK
    <3> QED
      BY <2>1, <3>1, PortFrame DEF WritePidFile
  <2>2. CASE SetupListeners
    BY <2>2, SetupListenersPInv
  <2>3. CASE RewritePorts
    <3>1. pc = "setup" /\ at = 3 /\ at' = 4 /\ pc' = "setup"
      BY <2>3, SetupStepFacts DEF RewritePorts, Step, PInv, LInv, TypeOK
    <3>2. UNCHANGED <<flags, pool>>
      BY <2>3 DEF RewritePorts
    <3>3. DeclaredListeners' = DeclaredListeners
      BY <3>2 DEF DeclaredListeners, On
    <3>4. PoolBound'
      BY <3>1, <3>2, <3>3 DEF PInv, PoolBound, PoolOf
    <3>5. PortFileSound'
      BY <2>3, RewritePortsSound
    <3> QED
      BY <3>1, <3>2, <3>4, <3>5 DEF PInv, FlagsOK, PortNotYet
  <2>4. CASE StartComponent
    <3>1. pc = "setup" /\ at >= 4 /\ at' = at + 1 /\ pc' = "setup"
      BY <2>4, SetupStepFacts DEF StartComponent, PInv, LInv, TypeOK
    <3>2. UNCHANGED <<flags, pool, flagPort, portFile, files>>
      BY <2>4 DEF StartComponent
    <3>3. /\ files' \subseteq files \cup {"pid"}
          /\ pc' = "setup" /\ at' >= 3 => pc = "setup" /\ at >= 3
          /\ pc' = "setup" /\ at' <= 3 => pc = "setup" /\ at <= 3
      BY <3>1, <3>2 DEF PInv, LInv, TypeOK
    <3> QED
      BY <3>2, <3>3, PortFrame
  <2>5. CASE RegisterSignals \/ Enter \/ SetupFails \/ Signal
    <3>1. pc' # "setup"
      BY <2>5 DEF RegisterSignals, Enter, SetupFails, Signal
    <3> QED
      BY <2>5, <3>1, PortFrame DEF RegisterSignals, Enter, SetupFails, Signal
  <2>6. CASE ShutdownStep
    <3>1. pc' # "setup" /\ files' \subseteq files
      BY <2>6 DEF ShutdownStep
    <3> QED
      BY <2>6, <3>1, PortFrame DEF ShutdownStep
  <2>7. CASE UNCHANGED vars
    BY <2>7, PortFrame DEF vars
  <2> QED
    BY <2>1, <2>2, <2>3, <2>4, <2>5, <2>6, <2>7 DEF Next
<1> QED
  BY <1>1, <1>2 DEF PInv

LEMMA InitPInv == Init => PInv
<1> SUFFICES ASSUME Init PROVE PInv
  OBVIOUS
<1>1. LInv
  BY InitLInv
<1>2. FlagsOK
  <2>1. PICK m \in 0 .. MaxPorts : flags.ports \in [1 .. m -> PortChoices]
    BY DEF Init, BoundedSeq, SeqOf
  <2>2. flags.ports \in Seq(PortChoices)
    BY <2>1
  <2> QED
    BY <2>2 DEF Init, FlagsOK
<1>3. PoolBound /\ PortNotYet /\ PortFileSound
  BY DEF Init, PoolBound, PortNotYet, PortFileSound
<1> QED
  BY <1>1, <1>2, <1>3 DEF PInv

(* When the listener pool keeps the declared order, the port file setup() *)
(* writes is sound for every port space, flag combination and --ports     *)
(* list: each line is the realized port of a TCP listener, no port twice, *)
(* and without a unix socket the first line is the port the --port        *)
(* listener realized.  The run lifecycle_pool_order shows that an          *)
(* unordered pool breaks it.                                               *)
THEOREM PortFileSoundHolds ==
    ASSUME PoolOrdered
    PROVE  Spec => []PortFileSound
<1>1. Init => PInv
  BY InitPInv
<1>2. PInv /\ [Next]_vars => PInv'
  BY PInvStep
<1>3. PInv => PortFileSound
  BY DEF PInv
<1> QED
  BY <1>1, <1>2, <1>3, PTL DEF Spec

=============================================================================
