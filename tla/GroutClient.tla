------------------------------ MODULE GroutClient ------------------------------
(***************************************************************************)
(* grout() of src/proxy/proxy.py: ask the registry for the client's        *)
(* environment with _env(), once per loop, sleep and retry until it        *)
(* answers, then start the client plugin the answer names.                 *)
(*                                                                         *)
(* The registry is the environment: its answer to the next request changes *)
(* at any time.  An answer is a record of what _env() looks at: whether   *)
(* the name resolved and a connection was made, the status code, how the   *)
(* body is encoded and what JSON it holds.  The attempt counter and the    *)
(* messages are only printed, and _parse() (the registry's host and port   *)
(* from argv) runs before the loop: they are left out.                     *)
(***************************************************************************)
EXTENDS Naturals

(* Answers that never reach the status check, and bad statuses.            *)
Failures ==
    {"unresolvable",  \* client() raises socket.gaierror
     "unreachable",   \* client() returns None
     "nocode",        \* a response without a status code
     "error",         \* a numeric status other than 200
     "badcode",       \* a status int() cannot parse
     "nobody"}        \* 200 without a body

(* Every answer the registry may give to one request.                      *)
Answers ==
    {[status |-> s, enc |-> "none", json |-> "none"] : s \in Failures}
    \cup [status: {"ok"}, enc: {"identity", "gzip"},
          json: {"env", "null", "invalid", "nokeys"}]
    \cup {[status |-> "ok", enc |-> "corrupt", json |-> "none"]}

(* Values _env() returns: None, a dict holding 'm' and 'e', or another    *)
(* JSON value.                                                             *)
EnvValues == {"none", "env", "nokeys"}

Waiting == {"env", "sleep1", "sleep2"}   \* inside the retry loop

VARIABLES
    pc,        \* the statement grout() runs next, or how it ended
    env,       \* the value of `env`
    registry   \* the answer the registry gives to the next request

vars == <<pc, env, registry>>

(* _env() reading int(response.code) as the bytes it is, never 200.        *)
EnvOfRawCode(a) ==
    CASE a.status = "badcode" -> "raise"
      [] OTHER                -> "none"

(* _env() (proxy.py:414-472) on answer a: None after a failure it reports, *)
(* "raise" where an exception escapes it: int() of a non-numeric status    *)
(* (439), gzip.decompress of a body that is not gzip (446), json.loads or *)
(* .decode() of a body that is not JSON (444-449); otherwise the decoded  *)
(* JSON value.                                                             *)
EnvOf(a) ==
    CASE a.status = "badcode"                         -> "raise"
      [] a.status # "ok"                              -> "none"
      [] a.enc = "corrupt" \/ a.json = "invalid"      -> "raise"
      [] a.json = "null"                              -> "none"
      [] OTHER                                        -> a.json

Init ==
    /\ pc = "env"
    /\ env = "none"
    /\ registry \in Answers

(* env = _env(...); attempts += 1; break if env is not None                *)
(* (proxy.py:495-500).  An exception other than KeyboardInterrupt ends     *)
(* grout() with a traceback.                                               *)
Request ==
    /\ pc = "env"
    /\ LET r == EnvOf(registry)
       IN  IF r = "raise"
             THEN pc' = "crashed" /\ UNCHANGED env
             ELSE /\ env' = r
                  /\ pc' = IF r = "none" THEN "sleep1" ELSE "start"
    /\ UNCHANGED registry

(* time.sleep(1); print "Waiting for connection" (proxy.py:501-507).       *)
SleepOne ==
    /\ pc = "sleep1"
    /\ pc' = "sleep2"
    /\ UNCHANGED <<env, registry>>

(* The second time.sleep(1), back to the top of the loop (proxy.py:508).   *)
SleepTwo ==
    /\ pc = "sleep2"
    /\ pc' = "env"
    /\ UNCHANGED <<env, registry>>

(* Ctrl-C inside the loop: sys.exit(1) (proxy.py:509-510).                 *)
Interrupt ==
    /\ pc \in Waiting
    /\ pc' = "exited"
    /\ UNCHANGED <<env, registry>>

(* Plugins.from_bytes(env['m']...).grout(env=env['e']) (proxy.py:512-514): *)
(* a JSON value without 'm' and 'e' raises KeyError or TypeError.          *)
Start ==
    /\ pc = "start"
    /\ pc' = IF env = "env" THEN "started" ELSE "crashed"
    /\ UNCHANGED <<env, registry>>

(* The registry's next answer changes while grout() runs.                  *)
RegistryChange ==
    /\ pc \in Waiting \cup {"start"}
    /\ registry' \in Answers \ {registry}
    /\ UNCHANGED <<pc, env>>

Next ==
    \/ Request \/ SleepOne \/ SleepTwo \/ Start
    \/ Interrupt \/ RegistryChange

(* grout() is one thread: every statement of the loop finishes (sleep      *)
(* returns, client() returns or raises).  Neither the user's Ctrl-C nor   *)
(* the registry is bound to act.                                           *)
Fairness ==
    /\ WF_vars(Request) /\ WF_vars(SleepOne) /\ WF_vars(SleepTwo)
    /\ WF_vars(Start)

Spec == Init /\ [][Next]_vars /\ Fairness

-----------------------------------------------------------------------------
(* The registry answers 200 with a well-encoded body holding the client's  *)
(* environment.                                                            *)
Serving ==
    /\ registry.status = "ok"
    /\ registry.enc \in {"identity", "gzip"}
    /\ registry.json = "env"

(* Once the registry keeps answering with an environment, grout() stops    *)
(* waiting: the retry loop of proxy.py:495-508 ends, whatever answers came *)
(* before and however they alternated.                                     *)
StopsWaitingOnceServing == <>[]Serving => <>(pc \notin Waiting)

=============================================================================
