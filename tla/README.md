# TLA+ models of proxy.py

This directory holds TLA+ models of the proxy.py code in `src/`, the TLC
configurations that model-check them on small instances, and TLAPS proofs.

## The system and its parts

The tree under `src/` holds three files of implementation:

- `src/proxy/common/leakage.py` is the class `Leakage`, a leaky bucket.
  - `consume(amount)` refills the bucket from the wall clock, then grants
    `min(amount, tokens)`.
  - `release(n)` gives back tokens, capped at `rate`.
  - The HTTP protocol handler (spec 4.G) calls `consume` before every
    `recv`/`send`, then releases whatever the I/O did not use.
- `src/proxy/proxy.py` holds the `Proxy` lifecycle, `main`, `sleep_loop`, the
  signal handlers, the pid and port files, and the `grout` tunnel client.
  - `Proxy.setup` writes the pid file and sets up the listener pool.
  - It then rewrites `flags.port` and `flags.ports` with the realized ports and
    writes the port file.
  - It then starts the event manager, the executors, the acceptors, the SSH
    tunnel and the metrics subscriber, in that order. Each one is given handles
    of the ones before it.
  - Last, it registers the exit-signal handlers.
  - `Proxy.shutdown` stops the components in the reverse order of
    dependency, then deletes both files.
- `src/proxy/core/listener/tcp.py` is `TcpSocketListener`. Its `listen` binds
  the configured port, or an ephemeral one for port 0, and records the realized
  port in `_port`.

The listener pool, the acceptors, the executors, the work contract, the HTTP
parser, the protocol handler, the plugins and the event queue are described in
`spec.md`. Their code is not in the tree.

## Modules

| Module | Models | State ↔ code |
|---|---|---|
| `Leakage` | `leakage.py`, driven as spec 4.G drives it | see below |
| `LeakageProofs` | TLAPS proofs about `Leakage` | |
| `MCLeakage` | TLC instance of `Leakage` | |
| `TokenBucket` | the abstract bucket `Leakage` promises | see below |
| `LeakageRefinement` | `Leakage` with a tick history variable, and the mapping onto `TokenBucket` | see below |
| `MCLeakageRefinement` | TLC instance of the refinement | |
| `LeakageRefinementProofs` | TLAPS proof that `Leakage` implements `TokenBucket` | |
| `ProxyLifecycleProofs` | TLAPS proofs of `ProxyLifecycle`'s type, teardown order, orderly exit and port file | |
| `GroutClient` | `grout()`, its `_env()` and the retry loop (`proxy.py:408-514`) | see below |
| `ProxyLifecycle` | `Proxy.__init__/setup/shutdown/__enter__/__exit__`, `_write_pid_file`, `_write_port_file`, `_register_signals`, `_handle_exit_signal`, `sleep_loop`, `main`, and `TcpSocketListener.listen` | see below |
| `MCProxyLifecycle` | TLC instance: ports {7,8,9}, port flags {0,7,8} | |

### `Leakage`

The state maps to the code as follows:

- `tokens` is `self.tokens`.
- `elapsed` is `time.time() - self.last_check`, counted in ticks of
  `1/TicksPerSecond` s.
  - It saturates at one second, because a refill after one second fills the
    bucket anyway.
  - It goes negative when the wall clock steps back.
- `reserved` and `allowed` are the caller's last grant.
- `winLen` and `winGranted` are a monitor. It opens a window at any moment and
  counts the bytes granted, net of releases, over at most `Window` ticks.

Each action models code as follows:

- `Consume(a)` is `consume`, including its `_refill`. The refill adds
  `int(elapsed*rate)`, with the truncation toward zero of Python's `int`, caps
  the bucket at `rate`, and resets `last_check`.
- `Settle(actual)` is the handler's `release(granted - actual)`, modelled from
  spec 4.G.
- `Tick` is real time passing.
- `ClockStepBack(d)` is `time.time()` being set back.

### `TokenBucket` and the refinement

`TokenBucket` states what the class promises, without clocks or rounding.
`credit` is counted in 1/`TicksPerSecond` of a byte, and `held` is the
caller's outstanding grant. It has these actions:

- `Accrue` is one tick of time: at most `Rate` units are added, up to the cap
  `Rate·TicksPerSecond`.
- `Grant(g)` hands out `g` bytes and takes at least `g·TicksPerSecond` units.
- `GiveBack(n)` returns `n` held bytes, up to the cap.
- `Lose` drops credit.

The bucket may lose credit but never creates it. `LeakageRefinement` maps
`Leakage` onto it:

- `credit` is `min(tokens·TPS + max(elapsed,0)·Rate, Rate·TPS)`, the credit the
  next `_refill` would give if it did not truncate.
- `held` is `reserved`.

`Tick` flips the history variable `tick`, so every tick is an `Accrue` step
even when the saturated `elapsed` hides it. The run `leakage_refinement` checks
`IdealSpec` (`TokenBucket!Spec`) as a property of `SpecR`. The
`Accrued`→`AccruedRounded` mutant, a refill that rounds up, creates credit and
breaks it. So does a clock step back of a full token.

### `GroutClient`

`grout()` asks the registry for the client's environment, sleeps two seconds
after a failure and tries again. Once it has an answer, it starts the plugin
named by `env['m']`.

- `registry` is the answer the registry would give to the next request. It is a
  record of what `_env` looks at: the failure kind or status, how the body is
  encoded, and what JSON it holds. `RegistryChange` changes it at any time while
  `grout()` runs.
- `EnvOf(a)` is `_env` on that answer:
  - `None` after each failure it reports;
  - an escaping exception for a non-numeric status, a corrupt gzip body or a
    body that is not JSON;
  - otherwise the JSON value.
- `pc` is the loop's statement: `env`, `sleep1`, `sleep2` or `start`. Its end
  states are `started`, `crashed` and `exited`. `env` is the variable `env`.
- `Interrupt` is Ctrl-C inside the `try`, which runs `sys.exit(1)`.

The attempt counter and the messages are only printed, and `_parse` runs
before the loop, so they are left out.

### `ProxyLifecycle`

The state maps to the code as follows:

- `flags` is the parsed flags. `Init` enumerates every combination of the
  features the lifecycle reads, with `--port` and `--ports` taken from
  `PortChoices`.
- `pc` and `at` are the program counter: `setup` at the `at`-th statement,
  `entering` once `_register_signals` has run but before `__enter__` has
  returned, `running` in `sleep_loop`, `shutdown` at the next statement of
  `shutdown()`, or `exited`.
- `running` is the set of started components.
- `files` is the pid file and the port file on disk.
- `pool` is the listener pool's list, holding each listener's configured port
  and realized port.
- `flagPort` and `flagPorts` are the rewritten flags.
- `portFile` is the port file's content.
- `handler` is the installed SIGINT/SIGTERM disposition.
- `signals` counts the signals delivered, and `exit` is how the process ended:
  `failed` (a setup step raised), `killed` (a signal before `sleep_loop`),
  `aborted` (a signal inside `shutdown()`) or `shutdown`.

Each `setup()` statement is one step, and each can fail instead: a
`SetupFails` step raises out of `__enter__`, so `__exit__` is not run.
`RegisterSignals` installs the exit handler and leaves the process inside
`setup()` and `__enter__`; `Enter` is their return and the start of
`sleep_loop`. A signal can arrive between any two steps, and what it does
depends on `handler` and `pc`:

- With the default handler, it kills the process.
- With `_handle_exit_signal`, it raises `SystemExit`. Still inside `__enter__`
  (`entering`), that skips `__exit__`. Out of `sleep_loop`, it runs `__exit__`
  and `shutdown()`. Inside `shutdown()`, it aborts the teardown.

`main()` is the program's entry, so `Proxy` runs in the main thread and
`setup()` always calls `_register_signals` (`proxy.py:299`).

The listener pool's order of listeners is modelled from spec 4.C in two
variants:

- unix socket first, then `--port`, then `--ports` (`PoolOrdered = TRUE`);
- any order (`PoolOrdered = FALSE`).

## Runs

| Run | Expect | Checks | Shows |
|---|---|---|---|
| `leakage_safety` | pass | `TypeOK`, `RateLimit` | rate 2, 3 ticks/s, amounts ≤ 3, clock steps back ≤ 1 tick, windows ≤ 4 ticks: the bucket stays in 0..rate, and no window is granted more than `rate + rate·d/TPS` |
| `leakage_progress` | pass | `Progress` | rate 3 at 2 ticks/s (at least one byte accrues per tick): a caller that keeps consuming is served again and again |
| `leakage_starvation` | violation | `Progress` | rate 2 at 3 ticks/s: `_refill` resets `last_check` even when it adds 0, so a caller polling every tick starves forever |
| `leakage_stepback` | violation | `GrantNonNegative` | a wall-clock step back of 2 ticks (≥ 1/rate s) makes `consume()` return a negative grant |
| `leakage_refinement` | pass | `IdealSpec` | rate 2, 3 ticks/s, clock steps back ≤ 1 tick: every behaviour of the bucket is one of the exact token bucket |
| `grout_retry` | pass | `StopsWaitingOnceServing` | from each of the 15 kinds of registry answer, changing at any time: once the registry keeps serving an environment, `grout()` leaves its retry loop |
| `lifecycle` | pass | `PortFileSound`, `ShutdownAssertsHold`, `TeardownOrder` | over all 256 flag combinations, every `--port`/`--ports` value in {0,7,8} with up to 2 `--ports`, every failing setup step and up to two signals at any points: port file sound, no assert of `shutdown()` fails, dependents stopped first |
| `lifecycle_enter_signal` | violation | `OrderlyExit` | one signal after `_register_signals` (`proxy.py:370`) and before `__enter__` returns (`proxy.py:215`) skips `shutdown()`: components keep running and the files stay on disk |
| `lifecycle_double_signal` | violation | `CleanShutdown` | a second signal during `shutdown()` aborts it and leaves components running (and files on disk when the flags ask for them) |
| `lifecycle_port_file` | violation | `PortFileComplete` | without a unix socket, the port file misses the last `--ports` listener (`proxy.py:246`, offset 0) |
| `lifecycle_pool_order` | violation | `PortFileSound` | if the pool does not keep the declared order, `flags.port` and the port file name the wrong listener |

### Bounds

Why the bounds are enough:

- **Leakage.** The interesting cases are these:
  - truncation, which needs rate < ticks per second;
  - saturation of the bucket, which needs amounts ≥ rate;
  - a clock step back shorter, or not shorter, than one token;
  - windows longer than one second.

  Every one of them happens with rates 2 and 3 and 2 or 3 ticks per second.
  The rate proof covers every value of the constants.
- **Lifecycle.**
  - Three ports and port flags {0, 7, 8} give ephemeral ports, fixed ports and
    a conflict between them.
  - One `--ports` entry already shows the off-by-one of `proxy.py:246`. Two
    entries also reach ports repeated in the list.
  - One signal reaches every interleaving of a signal with setup, with the
    return from `__enter__` and with shutdown. Two signals add a signal inside
    an already signalled shutdown, so the passing run uses two.

- **Grout.** The model has no bound: every kind of answer `_env` tells apart is
  one of the 15 answers, and the state space is finite.

### Fairness

`Leakage` has weak fairness on `Consume`, `Settle` and `Tick`, for these
reasons:

- The handler calls `consume()` while its socket is ready.
- It settles each grant before the next I/O.
- Real time does not stop.

`GroutClient` has weak fairness on each statement of the loop. `grout()` is
one thread, `time.sleep` returns, and `client()` is assumed to return or raise.
`client()` is not in the tree, so its return is an assumption of the model.
Ctrl-C and the registry have no fairness. The run sets `CHECK_DEADLOCK FALSE`,
because `grout()` really ends.

`ProxyLifecycle` has no fairness, because it states only safety properties.
Its runs set `CHECK_DEADLOCK FALSE`: an exited process really stops, and a
`running` proxy can wait in `sleep_loop` forever.

## Mutants

Every property of a passing run is broken by a plausible slip in the code it
is about:

| Slip | Property it breaks |
|---|---|
| no cap in `_refill` | `TypeOK` |
| `consume` without the `last_check` reset | `RateLimit` |
| a refill that never accrues | `Progress` |
| setup's executors guard with the `not` dropped (`StartsDroppedNot`) | `ShutdownAssertsHold` |
| setup that does not remove the `--port` port from the ports list | `PortFileSound` |
| executors shut down before the acceptors | `TeardownOrder` |
| a refill that rounds up (`AccruedRounded`) | `IdealSpec` |
| `_env` comparing the raw status bytes with 200 (`EnvOfRawCode`) | `StopsWaitingOnceServing` |

The mutant operators sit just before the definitions they replace.

## Proofs (checked by `tlapm`)

### `LeakageProofs`

The assumptions are those on the constants:

- `Rate ∈ Nat`;
- `TicksPerSecond ∈ Nat \ {0}`;
- `MaxAmount ∈ Nat \ {0}`;
- `MaxStepBack ∈ Nat`;
- `Window ∈ Nat`;
- and `SmallStepBack`: `MaxStepBack·Rate < TicksPerSecond`. The clock is never
  set back by a token's worth or more, and the `stepback` run shows what
  happens otherwise.

The theorems:

- `TypeCorrect`: `Spec => []TypeOK`.
- `RateLimitHolds`: `Spec => []RateLimit`, for every value of the constants.

`RateLimit` is not inductive. It bounds `winGranted`, but the bound depends on
what the bucket holds and what may still accrue. The inductive invariant is
`IInv == TypeOK /\ RateCredit /\ NoGrantYet`:

- `RateCredit` says that the bytes granted in the window plus the tokens in
  the bucket are at most `rate + rate·(winLen − Pending)/TPS`. `TPS` is
  `TicksPerSecond`, and `Pending` is the part of the window that the pending
  `elapsed` covers: the next refill may still add that part.
- `NoGrantYet` says that while the pending `elapsed` reaches back before the
  window opened, the window has granted nothing net. So no consume has taken
  place in it yet.

The proof has these steps:

- `Init` implies `IInv`.
- Each action preserves `IInv`. There is one lemma per action (`ConsumeStep`,
  `SettleStep`, `TickStep`, `StepBackStep` and `OpenWindowStep`).
- `IInv` implies `RateLimit`.

Two further parts of the argument:

- The accrual bound `Accrued(e)·TPS ≤ Rate·e` for `e ≥ 0` carries the
  truncation.
- `SmallStepBack` keeps `Accrued` at 0 for negative `elapsed`.

`IInv` was checked with TLC as an invariant before it was proved.

### `LeakageRefinementProofs`

`ImplementsIdeal` proves `SpecR => IdealSpec` under `SmallStepBack`, for every
value of the constants. It has three steps:

- `InitR` maps to `TokenBucket`'s `Init`.
- Each step of `NextR`, under `TypeOK`, maps to a step of `TokenBucket` or a
  stutter. There is one lemma per action:
  - `Tick` is `Accrue` (`TickMapped`).
  - `Consume` is `Grant(g)` with `g` the grant (`ConsumeMapped`).
  - `Settle` is `GiveBack` of the released bytes (`SettleMapped`).
  - A step back is `Lose` (`StepBackMapped`).
  - Opening a window is a stutter.
- `TypeOK` is an invariant of `SpecR` (`TypeCorrectR`, from `TypeCorrect`'s
  step lemma).

The arithmetic turns on the truncation: `Accrued(e)·TPS ≤ Rate·e`, so a
refill never adds more than the mapped credit already counts.

### `ProxyLifecycleProofs`

`PortsAssumption` bounds the port space by `MaxTcpPort` (65535), as the OS
does. The bound is a named constant so that the provers do not expand the
interval. The proofs use the lemma `ConstantFacts` derived from it: ports are
positive, and there are finitely many. The theorems hold for every port space,
every set of port choices and every bound on `--ports`:

- `TeardownOrderHolds`: `Spec => TeardownOrder`, for any number of signals.
- `ShutdownAssertsHoldProved`: `Spec => []ShutdownAssertsHold`, for any number
  of signals.
- `PortFileSoundHolds`: `Spec => []PortFileSound`, if `PoolOrdered`. The
  `lifecycle_pool_order` run shows that the hypothesis is needed.

All of them rest on the inductive invariant
`LInv == TypeOK /\ RunningStarted /\ HandlerMatchesPc /\ ShutdownProgress`
(the type invariant alone is not inductive):

- `RunningStarted`: a running component is one whose flags asked for it. So
  `shutdown()` stops it when it reaches its statement (`StopsRunning`).
- `HandlerMatchesPc`: the default handler is installed during setup and the
  exit handler from `_register_signals` on.
- `ShutdownProgress`: inside `shutdown()` at statement `at`, only components of
  statements `at..6` run, and a signal has been counted.

`ShutdownOrderFacts` states that no component of a later shutdown statement
uses the one the current statement stops. That gives `TeardownOrder` from
`LInv` and `[Next]_vars`.

`ShutdownAssertsHold` needs `SInv == LInv /\ StartedExactly`:
`StartedExactly` says the running components are exactly those whose
statement setup has done (`Done(at)`) and whose flags asked for them, all of
them once setup is over, and inside `shutdown()` exactly those of statements
still to come that were started. A shutdown statement whose own condition is
false finds its component not running (`StopsRunning`), so every statement
removes exactly its component. For an asserted component shutdown's condition
is setup's, so it is running when the assert is reached.

`PortFileSound` needs `PInv`, which adds these to `LInv`:

- `FlagsOK`;
- `PoolBound`: from the port rewrite on, the pool is a binding of the declared
  listeners;
- `PortNotYet`: no port file before the rewrite.

The rewrite itself is `RewritePortsSound`, and it rests on these lemmas:

- `PoolFacts`: every listener after the first, and the first one without a unix
  socket, holds a realized TCP port.
- `SetToSeqsFacts`: `list(ports)` is a sequence without repetition.
- `ConsInjective`: putting `flags.port`, which the code removed from the set,
  in front keeps it without repetition.

Every step that leaves the pool and the port file alone is covered by
`PortFrame`. Each invariant (`LInv`, `PInv`, `SInv`) was checked with TLC on
the `lifecycle` instance, with one and with two signals, before it was
proved.

### Model-checked only

- `Progress` and `StopsWaitingOnceServing` are liveness properties, which are
  outside TLAPS's reach here.
- `OrderlyExit` and `CleanShutdown` are not proved: the code violates them
  (`lifecycle_enter_signal`, `lifecycle_double_signal`).

## What is not modelled, and why

- **`_parse` and `GroutClientBasePlugin`.** `_parse` is string handling
  before the loop, and `GroutClientBasePlugin` is an interface.
- **Crashes of `grout()` on malformed answers.** The model reaches them, but
  nothing states what `grout()` should do instead, so no property claims it.
- **`web_scraper`.** The example's handlers do nothing.
- **Flag declarations.** These are configuration. They appear only as the
  features `Init` enumerates.
- **Components without code in the tree.** These are the listener pool
  (except its order and binding), the acceptor pool, the threadless executor,
  the work contract, the HTTP parser, the protocol handler and its plugins,
  and the event queue. A model of them can only come from `spec.md`. They are
  planned as spec-modelled modules:
  - acceptor dispatch and fd hand-off;
  - the executor's inbox and selector;
  - the handler's state machine and plugin close callbacks;
  - the event queue's per-publisher FIFO order.

## Plan for further work

1. Spec-modelled modules for the acceptor pool and the executor, composed with
   `ProxyLifecycle`'s setup and shutdown order.
2. The protocol handler driving `Leakage`, composed with the `TokenBucket`
   refinement.
