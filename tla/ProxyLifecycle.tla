--------------------------- MODULE ProxyLifecycle ---------------------------
(***************************************************************************)
(* The life of the proxy.py main process: main() enters `with Proxy(...)`, *)
(* Proxy.setup() writes the pid file, binds the listener pool, rewrites    *)
(* flags.port / flags.ports to the realized ports and writes the port      *)
(* file, starts the event manager, executors, acceptors, SSH tunnel and    *)
(* metrics subscriber, then registers the exit signal handlers;            *)
(* sleep_loop() waits; a signal makes Proxy.shutdown() stop everything and *)
(* delete both files (src/proxy/proxy.py, src/proxy/core/listener/tcp.py). *)
(*                                                                         *)
(* Each statement of setup and shutdown is one step of the main thread.    *)
(* Python runs a signal handler between two such steps, so a signal is an  *)
(* action that may come between any two of them, including the return     *)
(* from _register_signals, setup() and __enter__ before sleep_loop.  Any  *)
(* setup step that does I/O may raise; an exception (a signal's           *)
(* SystemExit included) that leaves __enter__ skips __exit__.  main()     *)
(* (proxy.py:399-405) is the program's entry: Proxy runs in the main      *)
(* thread, so setup() always reaches _register_signals (proxy.py:299).    *)
(*                                                                         *)
(* The listener pool (src/proxy/core/listener/pool.py is not in the tree)  *)
(* follows spec 4.C and 6: a unix socket, if configured, at index 0, then  *)
(* a TCP listener for hostname:port (only without a unix socket) and one   *)
(* per --ports entry.  PoolOrdered says whether the TCP listeners keep     *)
(* that declared order; the spec only promises "an ordered list".  Every  *)
(* listener binds the one --hostname (--hostnames is not modelled).        *)
(***************************************************************************)
EXTENDS Integers, SequencesExt

CONSTANTS
    PortSpace,    \* ports the OS can bind; ephemeral ports come from here
    PortChoices,  \* values --port and --ports entries take (0: ephemeral)
    MaxPorts,     \* longest --ports list
    MaxSignals,   \* signals delivered to the process in one run
    PoolOrdered   \* TRUE: the pool keeps the declared listener order

MaxTcpPort == 65535   \* the largest TCP port number

ASSUME PortsAssumption ==
    /\ PortSpace \subseteq 1 .. MaxTcpPort
    /\ PortChoices \subseteq PortSpace \cup {0}
    /\ MaxPorts \in Nat /\ MaxSignals \in Nat
    /\ PoolOrdered \in BOOLEAN

(* Command-line flags the lifecycle reads (spec 6).                        *)
Features ==
    {"unix_socket_path", "pid_file", "port_file", "enable_events",
     "threadless", "local_executor", "enable_ssh_tunnel", "enable_metrics"}

(* Components Proxy.setup() starts and Proxy.shutdown() stops.             *)
Components == {"listeners", "events", "executors", "acceptors", "tunnel",
               "metrics"}

(* The statements of Proxy.setup(), in order (proxy.py:230-300).           *)
SetupSteps ==
    <<"pid", "listeners", "ports", "events", "executors", "acceptors",
      "tunnel", "metrics", "signals">>

(* shutdown() stopping the executors before the acceptors that feed them. *)
ShutdownStepsSwapped ==
    <<"metrics", "tunnel", "executors", "acceptors", "events", "listeners">>

(* The statements of Proxy.shutdown(), in order (proxy.py:320-336).        *)
ShutdownSteps ==
    <<"metrics", "tunnel", "acceptors", "executors", "events", "listeners">>

Unix == -1   \* pool entry of the unix socket listener (it has no port)

VARIABLES
    flags,     \* [on: enabled features, port: --port, ports: --ports]
    pc,        \* "setup", "entering", "running", "shutdown" or "exited"
    at,        \* index of the next statement of setup or shutdown
    running,   \* components set up and not yet shut down
    files,     \* which of the pid and port files exist on disk
    pool,      \* listeners: [cfg: configured port or Unix, port: realized]
    flagPort,  \* flags.port after setup's override
    flagPorts, \* flags.ports after setup's override
    portFile,  \* lines of the port file
    handler,   \* "default" until _register_signals, then "exit"
    signals,   \* signals delivered so far
    exit       \* how the process ended: "none" while it runs, "failed",
               \* "killed" (a signal before sleep_loop), "aborted" (a
               \* signal inside shutdown()) or "shutdown"

vars == <<flags, pc, at, running, files, pool, flagPort, flagPorts, portFile,
          handler, signals, exit>>

On(f) == f \in flags.on

(* Proxy.remote_executors_enabled (proxy.py:338-341).                      *)
RemoteExecutorsEnabled == On("threadless") /\ ~On("local_executor")

(* Starts with the `not` of remote_executors_enabled dropped.            *)
StartsDroppedNot(c) ==
    CASE c = "events"    -> On("enable_events")
      [] c = "executors" -> On("threadless") /\ On("local_executor")
      [] c = "tunnel"    -> On("enable_ssh_tunnel")
      [] c = "metrics"   -> On("enable_events") /\ On("enable_metrics")
      [] OTHER           -> TRUE

(* Whether setup starts component c (proxy.py:233, 260, 269, 277, 287,    *)
(* 292: metrics need the event queue, which exists with enable_events).    *)
Starts(c) ==
    CASE c = "events"    -> On("enable_events")
      [] c = "executors" -> RemoteExecutorsEnabled
      [] c = "tunnel"    -> On("enable_ssh_tunnel")
      [] c = "metrics"   -> On("enable_events") /\ On("enable_metrics")
      [] OTHER           -> TRUE

(* Whether shutdown stops component c (proxy.py:320, 322, 325, 327, 330,  *)
(* 333).                                                                   *)
Stops(c) ==
    CASE c = "metrics"   -> "metrics" \in running
      [] c = "tunnel"    -> On("enable_ssh_tunnel")
      [] c = "executors" -> RemoteExecutorsEnabled
      [] c = "events"    -> On("enable_events")
      [] OTHER           -> TRUE

(* Uses(d, c): component d was set up with a handle of c: acceptors get    *)
(* the listeners, the executors' queues and the event queue, executors and *)
(* the metrics subscriber the event queue (proxy.py:264-296).              *)
Uses(d, c) ==
    \/ d = "acceptors" /\ c \in {"listeners", "executors", "events"}
    \/ d \in {"executors", "metrics"} /\ c = "events"

(* Listeners in the declared order (spec 4.C, 6).                          *)
DeclaredListeners ==
    IF On("unix_socket_path") THEN <<Unix>> \o flags.ports
    ELSE <<flags.port>> \o flags.ports

(* Orders the pool may hold them in: unix first, TCP ones as declared or  *)
(* in any order.                                                           *)
PoolOrders ==
    LET d == DeclaredListeners
        k == IF On("unix_socket_path") THEN 1 ELSE 0
    IN  IF PoolOrdered THEN {d}
        ELSE {SubSeq(d, 1, k) \o [i \in 1 .. Len(d) - k |-> d[p[i] + k]] :
                p \in SetToSeqs(1 .. Len(d) - k)}

(* TcpSocketListener.listen (tcp.py:83-98): bind the configured port, or   *)
(* an ephemeral one for 0, and record the realized port in _port.  The OS  *)
(* refuses a port another listener holds, so the realized ports differ.    *)
Bindings(order) ==
    LET tcp == {i \in 1 .. Len(order) : order[i] # Unix}
    IN  {r \in [1 .. Len(order) -> PortSpace \cup {0}] :
            /\ \A i \in 1 .. Len(order) \ tcp : r[i] = 0
            /\ \A i \in tcp : r[i] # 0 /\ (order[i] # 0 => r[i] = order[i])
            /\ \A i, j \in tcp : i # j => r[i] # r[j]}

TcpPorts == {pool[i].port : i \in {j \in DOMAIN pool : pool[j].cfg # Unix}}

-----------------------------------------------------------------------------
(* main(): Proxy.__init__ parses the flags; nothing is set up yet.         *)
Init ==
    /\ flags \in [on: SUBSET Features, port: PortChoices,
                  ports: BoundedSeq(PortChoices, MaxPorts)]
    /\ pc = "setup" /\ at = 1
    /\ running = {} /\ files = {}
    /\ pool = <<>> /\ flagPort = flags.port /\ flagPorts = flags.ports
    /\ portFile = <<>>
    /\ handler = "default" /\ signals = 0 /\ exit = "none"

Step(s) == pc = "setup" /\ SetupSteps[at] = s

(* _write_pid_file (proxy.py:230, 343-346).                                *)
WritePidFile ==
    /\ Step("pid")
    /\ files' = IF On("pid_file") THEN files \cup {"pid"} ELSE files
    /\ at' = at + 1
    /\ UNCHANGED <<flags, pc, running, pool, flagPort, flagPorts, portFile,
                   handler, signals, exit>>

(* ListenerPool(flags).setup() (proxy.py:233-234): every listener binds.   *)
SetupListeners ==
    /\ Step("listeners")
    /\ \E order \in PoolOrders :
         \E r \in Bindings(order) :
           pool' = [i \in 1 .. Len(order) |-> [cfg |-> order[i], port |-> r[i]]]
    /\ running' = running \cup {"listeners"}
    /\ at' = at + 1
    /\ UNCHANGED <<flags, pc, files, flagPort, flagPorts, portFile, handler,
                   signals, exit>>

(* The port rewrite without ports.remove(flags.port) (proxy.py:254-255).  *)
RewritePortsNoRemove ==
    /\ Step("ports")
    /\ LET offset == IF On("unix_socket_path") THEN 1 ELSE 0
           port1  == IF On("unix_socket_path") THEN flags.port
                     ELSE pool[1].port
           ports  == {pool[i + 1].port :
                        i \in offset .. (offset + Len(flags.ports) - 1)}
       IN  /\ flagPort' = port1
           /\ flagPorts' \in SetToSeqs(ports)
           /\ IF On("port_file")
                THEN /\ files' = files \cup {"port"}
                     /\ portFile' =
                          (IF On("unix_socket_path") THEN <<>> ELSE <<port1>>)
                            \o flagPorts'
                ELSE UNCHANGED <<files, portFile>>
    /\ at' = at + 1
    /\ UNCHANGED <<flags, pc, running, pool, handler, signals, exit>>

(* proxy.py:238-258: flags.port := pool[0]._port without a unix socket;    *)
(* ports := {pool[i]._port : offset <= i < offset + len(flags.ports)}      *)
(* minus flags.port; flags.ports := list(ports) in set order; then         *)
(* _write_port_file (353-361) writes flags.port (without a unix socket)    *)
(* and each of flags.ports, one per line.  Python index i is pool[i + 1].  *)
RewritePorts ==
    /\ Step("ports")
    /\ LET offset == IF On("unix_socket_path") THEN 1 ELSE 0
           port1  == IF On("unix_socket_path") THEN flags.port
                     ELSE pool[1].port
           ports  == {pool[i + 1].port :
                        i \in offset .. (offset + Len(flags.ports) - 1)}
                     \ {port1}
       IN  /\ flagPort' = port1
           /\ flagPorts' \in SetToSeqs(ports)
           /\ IF On("port_file")
                THEN /\ files' = files \cup {"port"}
                     /\ portFile' =
                          (IF On("unix_socket_path") THEN <<>> ELSE <<port1>>)
                            \o flagPorts'
                ELSE UNCHANGED <<files, portFile>>
    /\ at' = at + 1
    /\ UNCHANGED <<flags, pc, running, pool, handler, signals, exit>>

(* proxy.py:260-297: set up the event manager, executors, acceptors, SSH  *)
(* tunnel and metrics subscriber, each when its flags ask for it.          *)
StartComponent ==
    /\ pc = "setup"
    /\ SetupSteps[at] \in Components \ {"listeners"}
    /\ running' = IF Starts(SetupSteps[at]) THEN running \cup {SetupSteps[at]}
                  ELSE running
    /\ at' = at + 1
    /\ UNCHANGED <<flags, pc, files, pool, flagPort, flagPorts, portFile,
                   handler, signals, exit>>

(* _register_signals (proxy.py:299-300, 368-380), main thread: SIGINT,     *)
(* SIGTERM, SIGHUP and SIGQUIT now call _handle_exit_signal.  The process  *)
(* is still inside setup() and __enter__.                                  *)
RegisterSignals ==
    /\ Step("signals")
    /\ handler' = "exit"
    /\ pc' = "entering"
    /\ UNCHANGED <<flags, at, running, files, pool, flagPort, flagPorts,
                   portFile, signals, exit>>

(* setup() and __enter__ return (proxy.py:214-215) and main() enters      *)
(* sleep_loop inside the `with` (proxy.py:400-401).                        *)
Enter ==
    /\ pc = "entering"
    /\ pc' = "running"
    /\ UNCHANGED <<flags, at, running, files, pool, flagPort, flagPorts,
                   portFile, handler, signals, exit>>

(* A setup statement that does I/O raises (open, bind, process spawn):     *)
(* the exception leaves __enter__ and main(); __exit__ is not called.      *)
SetupFails ==
    /\ pc = "setup"
    /\ LET s == SetupSteps[at]
       IN  \/ s = "pid" /\ On("pid_file")
           \/ s = "ports" /\ On("port_file")
           \/ s \in Components /\ Starts(s)
    /\ pc' = "exited" /\ exit' = "failed"
    /\ UNCHANGED <<flags, at, running, files, pool, flagPort, flagPorts,
                   portFile, handler, signals>>

(* A signal reaches the main thread.  Before _register_signals the default *)
(* action ends the process (SIGTERM kills it, SIGINT raises                *)
(* KeyboardInterrupt out of __enter__).  After it, _handle_exit_signal     *)
(* raises SystemExit (proxy.py:382-385): still inside __enter__ it skips   *)
(* __exit__; out of sleep_loop the `with` calls __exit__, so shutdown()   *)
(* runs; inside shutdown() it aborts it.                                   *)
Signal ==
    /\ pc # "exited"
    /\ signals < MaxSignals
    /\ signals' = signals + 1
    /\ IF pc = "running"
         THEN pc' = "shutdown" /\ at' = 1 /\ UNCHANGED exit
         ELSE /\ pc' = "exited"
              /\ exit' = IF pc = "shutdown" THEN "aborted" ELSE "killed"
              /\ UNCHANGED at
    /\ UNCHANGED <<flags, running, files, pool, flagPort, flagPorts, portFile,
                   handler>>

(* One statement of Proxy.shutdown(); the last one also deletes the port   *)
(* and pid files (proxy.py:333-336, 348-351, 363-366).                     *)
ShutdownStep ==
    /\ pc = "shutdown"
    /\ LET c == ShutdownSteps[at]
       IN  /\ running' = IF Stops(c) THEN running \ {c} ELSE running
           /\ files' = IF c = "listeners" THEN {} ELSE files
    /\ IF at = Len(ShutdownSteps)
         THEN pc' = "exited" /\ exit' = "shutdown" /\ UNCHANGED at
         ELSE at' = at + 1 /\ UNCHANGED <<pc, exit>>
    /\ UNCHANGED <<flags, pool, flagPort, flagPorts, portFile, handler,
                   signals>>

Next ==
    \/ WritePidFile \/ SetupListeners \/ RewritePorts \/ StartComponent
    \/ RegisterSignals \/ Enter \/ SetupFails \/ Signal \/ ShutdownStep

Spec == Init /\ [][Next]_vars

-----------------------------------------------------------------------------
TypeOK ==
    /\ pc \in {"setup", "entering", "running", "shutdown", "exited"}
    /\ at \in 1 .. Len(SetupSteps)
    /\ running \subseteq Components
    /\ files \subseteq {"pid", "port"}
    /\ handler \in {"default", "exit"}
    /\ signals \in 0 .. MaxSignals
    /\ exit \in {"none", "failed", "killed", "aborted", "shutdown"}

(* An exit that a registered handler started (the process was fully set   *)
(* up) leaves neither the pid file nor the port file behind and no         *)
(* component running: spec 6 calls SIGINT/SIGTERM/SIGHUP/SIGQUIT an        *)
(* orderly shutdown, and Proxy.shutdown() deletes both files last.         *)
OrderlyExit ==
    (pc = "exited" /\ handler = "exit") => files = {} /\ running = {}

(* Once shutdown() has begun (a signal reached sleep_loop), the process    *)
(* ends with neither file on disk and no component running, whether        *)
(* shutdown() finished or a later signal cut it short.                     *)
CleanShutdown ==
    (pc = "exited" /\ exit \in {"shutdown", "aborted"}) =>
        files = {} /\ running = {}

(* Components whose handle shutdown() asserts before stopping it           *)
(* (proxy.py:324, 326, 329, 332).                                          *)
Asserted == {"tunnel", "acceptors", "executors", "events"}

(* No assert of shutdown() fails: when shutdown() reaches the statement of *)
(* a component it asserts, under shutdown's own condition for it, setup()  *)
(* started that component and nothing stopped it yet.  setup() and         *)
(* shutdown() test the flags separately (proxy.py:260, 269, 287 against    *)
(* 322, 328, 331); a failed assert would raise out of __exit__ with the    *)
(* rest of the teardown and both files left undone.                        *)
ShutdownAssertsHold ==
    pc = "shutdown" =>
        \A c \in Asserted :
            c = ShutdownSteps[at] /\ Stops(c) => c \in running

(* Proxy.shutdown() never stops a component while a component set up with *)
(* a handle of it still runs: the acceptors stop before the executors and  *)
(* the event queue they publish to, the listeners last.                    *)
TeardownOrder ==
    [][\A c \in running \ running' : \A d \in running' : ~Uses(d, c)]_vars

(* Every line of the port file is the realized port of a TCP listener,     *)
(* no port twice, and without a unix socket the first line is flags.port,  *)
(* the port the --port listener realized (spec 6, proxy.py:238-258).       *)
PortFileSound ==
    "port" \in files =>
        /\ ToSet(portFile) \subseteq TcpPorts
        /\ IsInjective(portFile)
        /\ ~On("unix_socket_path") =>
              portFile[1] = flagPort
              /\ \E i \in DOMAIN pool :
                    pool[i].port = flagPort /\ pool[i].cfg = flags.port

(* The port file names every port the proxy listens on: spec 6, "port=0    *)
(* yields an ephemeral port, discoverable via the realized port file".     *)
PortFileComplete == "port" \in files => TcpPorts \subseteq ToSet(portFile)

=============================================================================
