-------------------------- MODULE MCProxyLifecycle --------------------------
(* Model-checking instance of ProxyLifecycle: three bindable ports, --port *)
(* and --ports entries fixed or ephemeral, up to two --ports entries.      *)
EXTENDS ProxyLifecycle, TLC

MCPortSpace == {7, 8, 9}
MCPortChoices == {0, 7, 8}
=============================================================================
