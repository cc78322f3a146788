------------------------------ MODULE Election ------------------------------
(***************************************************************************)
(* election.decide: the pure decision one reconcile takes from the local   *)
(* GSLB signal, the liveness of the peers and the persisted status.  A     *)
(* control plane is named by its priority, a smaller number being          *)
(* preferred.                                                              *)
(***************************************************************************)
EXTENDS Heartbeat

CONSTANTS
  HysteresisPeriods,  \* failback.hysteresisPeriods
  Strategy            \* gslb.strategy

ASSUME ElectionAssumption ==
  /\ HysteresisPeriods \in Nat
  /\ Strategy \in {"failover", "roundRobin", "geoip"}

AtLeastOne(n) == IF n < 1 THEN 1 ELSE n

HysteresisWindow == AtLeastOne(HysteresisPeriods) * AtLeastOne(Throttle)

\* The fields of the XR status that the next reconcile reads back.
NoStatus == [role |-> "", cand |-> 0, selfEpoch |-> 0]

\* A persisted role "leader" proves uninterrupted leadership only while this
\* control plane's own last heartbeat is recent.
ContinuousLeader(prior, now) ==
  /\ prior.role = "leader"
  /\ prior.selfEpoch > 0
  /\ now - prior.selfEpoch <= HysteresisWindow

SelfEligible(gslb) == gslb.healthy /\ gslb.active

GslbActiveFailover(gslb) == gslb.found /\ gslb.active /\ Strategy = "failover"

\* Faulty variants: only a leader is waited for; a stepped-down peer blocks even
\* under GSLB arbitration; a peer that is not known to be alive never blocks.
Blocks_LeaderOnly(p, gslb) ==
  \/ ~p.readable /\ ~GslbActiveFailover(gslb)
  \/ p.fresh /\ p.role = "leader"
Blocks_AnyFresh(p, gslb) ==
  \/ ~p.readable /\ ~GslbActiveFailover(gslb)
  \/ p.fresh

Blocks_KnownOnly(p, gslb) ==
  p.readable /\ p.fresh /\ (p.role = "leader" \/ ~GslbActiveFailover(gslb))

\* Whether a higher-priority peer, seen as p, blocks promotion.
Blocks(p, gslb) ==
  \/ ~p.readable /\ ~GslbActiveFailover(gslb)
  \/ p.readable /\ p.fresh /\ (p.role = "leader" \/ ~GslbActiveFailover(gslb))

\* Faulty variant: the larger number is preferred.
HigherIn_Flipped(me, peers) == {j \in DOMAIN peers : j > me}

HigherIn(me, peers) == {j \in DOMAIN peers : j < me}

HigherAllDown(me, gslb, peers) ==
  \A j \in HigherIn(me, peers) : ~Blocks(peers[j], gslb)

\* Faulty variant: only leaders that are preferred to this one are waited for.
LowerLeader_WrongSide(me, peers) ==
  \E j \in DOMAIN peers :
    j < me /\ peers[j].role = "leader" /\ peers[j].fresh

LowerLeader(me, peers) ==
  \E j \in DOMAIN peers :
    j > me /\ peers[j].role = "leader" /\ peers[j].fresh

\* Every gate but the hysteresis is open.
MayLead(me, gslb, peers) ==
  /\ SelfEligible(gslb)
  /\ HigherAllDown(me, gslb, peers)
  /\ ~LowerLeader(me, peers)

\* Promotion into the gap higher-priority peers left has to wait its window.
MustServe(me, peers, prior, now) ==
  HigherIn(me, peers) # {} /\ ~ContinuousLeader(prior, now)

\* Faulty variant: a candidate promotes at its next reconcile.
Served_AtOnce(prior, now) == prior.cand > 0

Served(prior, now) == prior.cand > 0 /\ now - prior.cand >= HysteresisWindow

\* Faulty variant: every reconcile restarts the hysteresis.
Decide_Restarts(me, gslb, peers, prior, now) ==
  LET may   == MayLead(me, gslb, peers)
      waits == MustServe(me, peers, prior, now) /\ ~Served(prior, now)
  IN  [role |-> IF may /\ ~waits THEN "leader" ELSE "standby",
       cand |-> IF may /\ waits THEN now ELSE 0]

Decide(me, gslb, peers, prior, now) ==
  LET may   == MayLead(me, gslb, peers)
      waits == MustServe(me, peers, prior, now) /\ ~Served(prior, now)
  IN  [role |-> IF may /\ ~waits THEN "leader" ELSE "standby",
       cand |-> IF may /\ waits
                THEN IF prior.cand > 0 THEN prior.cand ELSE now
                ELSE 0]
=============================================================================
