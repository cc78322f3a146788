-------------------------------- MODULE Gslb --------------------------------
(***************************************************************************)
(* gslb.py: the local GSLB signal, read off the status of the k8gb Gslbs   *)
(* a reconcile has at hand.                                                *)
(*                                                                         *)
(* The status of a Gslb is reduced to what the signal depends on: records, *)
(* the healthy addresses of each hostname it lists, health, the verdicts   *)
(* on its services, and exposed, the addresses of this cluster.            *)
(***************************************************************************)
EXTENDS Naturals, Sequences

Unreported == [records |-> <<>>, health |-> {}, exposed |-> {}]

Lists(g, host) == host \in DOMAIN g.records

\* The first Gslb that lists the hostname, else the first of all.
SelectGslb(gslbs, host) ==
  LET listing == {n \in DOMAIN gslbs : Lists(gslbs[n], host)}
  IN  gslbs[CHOOSE n \in DOMAIN gslbs :
              IF listing = {} THEN n = 1 ELSE n \in listing /\ \A m \in listing : n <= m]

\* Nothing reported is not yet known, which is not healthy.
Healthy(g) == g.health # {} /\ g.health \subseteq {"Healthy"}

\* Faulty variant: traffic for any hostname counts.
Active_AnyHost(g, host) == \E h \in DOMAIN g.records : g.records[h] \cap g.exposed # {}

\* Traffic for the hostname is routed to this cluster.
Active(g, host) == Lists(g, host) /\ g.records[host] \cap g.exposed # {}

NoGslbFound == [found |-> FALSE, healthy |-> TRUE, active |-> TRUE]

Evaluate(gslbs, host) ==
  IF gslbs = <<>> THEN NoGslbFound
  ELSE LET g == SelectGslb(gslbs, host)
       IN  [found |-> TRUE, healthy |-> Healthy(g), active |-> Active(g, host)]
=============================================================================
