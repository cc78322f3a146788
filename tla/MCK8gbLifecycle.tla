-------------------------- MODULE MCK8gbLifecycle --------------------------
(***************************************************************************)
(* Values of the constants of K8gbLifecycle for model checking.            *)
(***************************************************************************)
EXTENDS K8gbLifecycle

Auto == [install |-> "auto", manage |-> TRUE]
AutoUnmanaged == [install |-> "auto", manage |-> FALSE]
Always == [install |-> "always", manage |-> TRUE]
Never == [install |-> "never", manage |-> TRUE]

AllClaims == {Auto, AutoUnmanaged, Always, Never}

Status(host, routed, verdict) ==
  [records |-> [h \in {host} |-> routed], health |-> {verdict}, exposed |-> {"here"}]

\* Serving, unhealthy, and healthy with the traffic elsewhere.
OwnStatuses ==
  {Status("app", {"here"}, "Healthy"), Status("app", {}, "Unhealthy"),
   Status("app", {"there"}, "Healthy")}
\* Another application, serving its own hostname here.
OtherStatuses == {Status("shop", {"here"}, "Healthy")}
=============================================================================
