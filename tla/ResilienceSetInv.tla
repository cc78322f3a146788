-------------------------- MODULE ResilienceSetInv --------------------------
(***************************************************************************)
(* The inductive invariant behind the timing properties of ResilienceSet.  *)
(* It follows a heartbeat from the reconcile that decides its role to the  *)
(* reconcile of a peer that obeys it, and says at each stage how old the   *)
(* timestamp can be and whose role it carries.                             *)
(***************************************************************************)
EXTENDS ResilienceSet

\* How much older than the reconcile that wrote it a throttled epoch may be.
ThrottleSlack == AtLeastOne(Throttle) - 1

\* The clock and the recorded times: nothing is recorded ahead of the clock,
\* and nothing that runs is overdue.
InPast(i) ==
  /\ modeSince[i] <= now /\ holdsSince[i] <= now
  /\ reconciledAt[i] <= now /\ dirtyAt[i] <= now
  /\ \A j \in CP : polledAt[i][j] <= now

ReconcileTimely(i) ==
  mode[i] = "up" =>
    modeSince[i] <= reconciledAt[i] /\ now <= reconciledAt[i] + ReconcilePeriod

NotYetComposed(i) ==
  mode[i] = "up" /\ ~Composed(i) => reconciledAt[i] = modeSince[i]

PublishTimely(i) ==
  mode[i] # "down" /\ desired[i] # cloud[i] => now <= dirtyAt[i] + WriteLag

PollTimely(i, j) ==
  mode[i] # "down" /\ Composed(i) => now <= polledAt[i][j] + PollPeriod

TimersOK ==
  /\ now > 0
  /\ \A i \in CP :
       /\ InPast(i) /\ ReconcileTimely(i) /\ NotYetComposed(i) /\ PublishTimely(i)
       /\ \A j \in CP : PollTimely(i, j)

\* The own resource carries the role of the status.
OwnTagsOK(i) == desired[i].role = status[i].role

\* The tags carry a timestamp written at t or later.
WrittenSince(tags, t) == tags.ts > 0 /\ tags.ts >= t

\* Stage 1, in the control plane.
DesiredFresh(i) ==
  mode[i] = "up" /\ reconciledAt[i] > modeSince[i] =>
    WrittenSince(desired[i], reconciledAt[i] + Skew[i] - ThrottleSlack)

\* Stage 2, in the cloud while the provider has not caught up.
CloudFresh(i) ==
  /\ mode[i] = "up" /\ desired[i] # cloud[i]
  /\ dirtyAt[i] > modeSince[i] + ReconcilePeriod
  => WrittenSince(cloud[i],
       dirtyAt[i] + Skew[i] - ThrottleSlack - ReconcilePeriod)

CloudRole(i) ==
  Holds(i) /\ desired[i] # cloud[i] /\ dirtyAt[i] > holdsSince[i] =>
    cloud[i].role = "leader"

\* Stage 3, at the peer.
ObservedFresh(i, j) ==
  /\ mode[i] = "up" /\ polledAt[i][j] > modeSince[i] + ReconcilePeriod
  /\ mode[j] = "up"
  /\ polledAt[i][j] > modeSince[j] + ReconcilePeriod + WriteLag
  => WrittenSince(observed[i][j],
       polledAt[i][j] + Skew[j] - ThrottleSlack - ReconcilePeriod - WriteLag)

ObservedRole(i, j) ==
  /\ mode[i] = "up" /\ polledAt[i][j] > modeSince[i] + ReconcilePeriod
  /\ Holds(j) /\ polledAt[i][j] > holdsSince[j] + WriteLag
  => observed[i][j].role = "leader"

\* Stage 4, in the peer's decision: a reconcile that knew of another leader
\* did not leave its control plane leading.
DecidedKnowing(i, j) ==
  /\ i # j /\ mode[i] = "up" /\ mode[j] = "up" /\ Holds(i) /\ Holds(j)
  /\ reconciledAt[i] > modeSince[i] + ReconcilePeriod + PollPeriod
  /\ reconciledAt[i] > modeSince[j] + KnownAfter
  => reconciledAt[i] <= holdsSince[j] + KnownAfter

\* A heartbeat on its way, at stages 1 to 3; this much holds for every TTL.
Travel ==
  /\ TypeOK /\ TimersOK
  /\ \A i \in CP :
       /\ OwnTagsOK(i) /\ DesiredFresh(i) /\ CloudFresh(i) /\ CloudRole(i)
       /\ \A j \in CP : ObservedFresh(i, j) /\ ObservedRole(i, j)

IInv == Travel /\ \A i, j \in CP : DecidedKnowing(i, j)

\* What the timing properties need of the settings: the TTL covers the age a
\* live heartbeat can reach on its way, plus the skew (SPEC.md:418).
TTLCovers == TTL >= ThrottleSlack + KnownAfter + MaxSkew

\* Where no reconciler pauses, whoever holds ["*"] began after it came up.
HoldsSinceUp ==
  \A i \in CP : mode[i] # "paused" /\ (Holds(i) => modeSince[i] <= holdsSince[i])

\* No signal of the GSLB lifts the block of an alive peer (election.py:102).
NoArbitration == \A g \in GslbStates : ~GslbActiveFailover(g)

\* A reconcile that knew of a live control plane above did not leave its own
\* leading.
DecidedUnderLive(i, j) ==
  /\ j < i /\ mode[i] = "up" /\ mode[j] = "up" /\ Holds(i)
  /\ reconciledAt[i] > modeSince[i] + ReconcilePeriod + PollPeriod
  => reconciledAt[i] <= modeSince[j] + KnownAfter

LeadersUnderLive == \A i, j \in CP : DecidedUnderLive(i, j)
=============================================================================
