---------------------------- MODULE FailoverInv ----------------------------
(***************************************************************************)
(* What holds of ResilienceSet while one control plane takes over from     *)
(* those above it, beyond the stages of a heartbeat: how late a stamp can  *)
(* be, which gaps are real, and how far a hysteresis has come.             *)
(***************************************************************************)
EXTENDS ResilienceSetInv

\* The tags of j, wherever they are.
TagsOf(j) == {desired[j], cloud[j]} \cup {observed[k][j] : k \in CP}

\* The last moment j could stamp a heartbeat.
LastUp(j) == IF mode[j] = "down" THEN modeSince[j] ELSE now

\* Every stamp was taken while its control plane ran.
Stamps ==
  /\ StartTime <= now
  /\ \A j \in CP : \A t \in TagsOf(j) :
       t.ts # Missing => StartTime <= t.ts /\ t.ts <= LastUp(j) + Skew[j]

\* What i has observed of a control plane that is down is the last there is.
Settled(i, j) ==
  /\ mode[i] = "up" /\ polledAt[i][j] > modeSince[i] + ReconcilePeriod
  /\ mode[j] = "down" /\ polledAt[i][j] > modeSince[j]
  => observed[i][j] = cloud[j]

\* A leader is no candidate, a candidature is of the past, and the status has
\* the stamp of the heartbeat.
StatusOK(i) ==
  /\ status[i].role = "leader" => status[i].cand = 0
  /\ status[i].cand <= now + Skew[i]
  /\ Composed(i) => status[i].selfEpoch = desired[i].ts

Takeover ==
  /\ Travel /\ Stamps
  /\ \A i \in CP : StatusOK(i) /\ \A j \in CP : Settled(i, j)

-----------------------------------------------------------------------------
(* Where nothing that is lost comes back and no GSLB arbitrates. *)

CrashStop == MayRecover = {} /\ MayPause = {}

UpFromStart ==
  \A k \in CP : mode[k] # "paused" /\ (mode[k] = "up" => modeSince[k] = StartTime)

\* Whoever is a candidate became one after everyone above it was lost.
CandidateInGap(i) ==
  status[i].cand > 0 =>
    \A j \in Higher(i) : mode[j] = "down" /\ modeSince[j] + Skew[i] <= status[i].cand

\* Nobody below a live control plane has ever said that it leads.
NoLowerLeads(i) ==
  mode[i] = "up" =>
    \A j \in CP : i < j => \A t \in TagsOf(j) : t.role # "leader"

GapInv ==
  /\ UpFromStart /\ LeaderOutranksLive
  /\ \A i \in CP : CandidateInGap(i) /\ NoLowerLeads(i)

-----------------------------------------------------------------------------
(* The way to leadership, once nothing stands in it. *)

\* After this time the heartbeats of those that are gone are read and too old.
Lag == TTL + MaxSkew + PollPeriod

\* A hysteresis shorter than a heartbeat may become old would have a leader of
\* its own step down between two reconciles (election.py:81-86).
WindowCovers == HysteresisWindow >= ReconcilePeriod + ThrottleSlack

\* With nothing in its way since the last of the times T, i leads, or waits for a
\* hysteresis that began with the first reconcile of the time after.
LeadsOrWaits(i, T) ==
  \/ Holds(i)
  \/ /\ status[i].cand > 0
     /\ reconciledAt[i] + Skew[i] < status[i].cand + HysteresisWindow
     /\ \E t \in T : status[i].cand <= t + Lag + ReconcilePeriod + Skew[i]

OnItsWay(i, T) == (\A t \in T : reconciledAt[i] > t + Lag) => LeadsOrWaits(i, T)

\* Everyone above i is lost, and each had published a heartbeat.
Gap(i) == mode[i] = "up" /\ \A j \in Higher(i) : mode[j] = "down" /\ cloud[j].ts # Missing

GapTimes(i) == {modeSince[j] : j \in Higher(i) \cup {i}}

GapServed == \A i \in CP : Gap(i) => OnItsWay(i, GapTimes(i))

\* What FailoverBounded needs of the signals: none interrupts a control plane.
AlwaysEligible == \A g \in GslbStates : SelfEligible(g) /\ ~GslbActiveFailover(g)

-----------------------------------------------------------------------------
(* The same where the GSLB arbitrates. *)

\* Every signal that makes a control plane eligible is of a Gslb that is found and
\* active, under failover.
EligibleArbitrated == \A g \in GslbStates : SelfEligible(g) => GslbActiveFailover(g)

\* The last moment j could stamp a heartbeat as a leader.
LastEligible(j) == IF SelfEligible(gslb[j]) THEN now ELSE gslbSince

LeaderStamps ==
  /\ gslbSince <= now
  /\ \A j \in CP : \A t \in TagsOf(j) :
       t.role = "leader" => t.ts <= LastEligible(j) + Skew[j]

SoleActive(i) ==
  /\ mode[i] = "up"
  /\ SelfEligible(gslb[i])
  /\ \A j \in Peers(i) : ~SelfEligible(gslb[j])

SoleTimes(i) == {modeSince[i], gslbSince}

SoleServed == \A i \in CP : SoleActive(i) => OnItsWay(i, SoleTimes(i))
=============================================================================
