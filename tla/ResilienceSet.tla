--------------------------- MODULE ResilienceSet ---------------------------
(***************************************************************************)
(* The control planes of one resilience set under heartbeat.read = mr.     *)
(* Each runs the composition function on its own XR (Reconcile), and the   *)
(* providers next to it publish its heartbeat resource to the cloud        *)
(* (Publish) and refresh the heartbeat resources it observes (Poll).  The  *)
(* control planes share nothing but the cloud.                             *)
(*                                                                         *)
(* Time is a global clock; a control plane reads it through its own skew.  *)
(* A running component is late by at most the bound named for it: Tick is  *)
(* disabled while something is due.                                        *)
(***************************************************************************)
EXTENDS Election

CONSTANTS
  CP,               \* control planes, each named by its (unique) priority
  Gcp,              \* those whose heartbeat is a GCP bucket
  Skew, MaxSkew,    \* clock offset of each control plane, and its bound
  GslbStates,       \* signals the local GSLB may give
  MayCrash,         \* control planes that may lose their region
  MayRecover,       \* those that may come back, with the state they had
  MayPause,         \* those whose reconciler may stop while the rest runs on
  ReconcilePeriod,  \* a running reconciler runs at least this often
  WriteLag,         \* a changed heartbeat reaches the cloud within this time
  PollPeriod,       \* an observed heartbeat is refreshed at least this often
  StartTime,        \* the clock at installation
  MaxTime           \* the clock stops here (a bound of the model)

ASSUME SetAssumption ==
  /\ CP \subseteq Nat \ {0}
  /\ Gcp \subseteq CP /\ MayCrash \subseteq CP
  /\ MayRecover \subseteq CP /\ MayPause \subseteq CP
  /\ MaxSkew \in Nat /\ Skew \in [CP -> 0..MaxSkew]
  /\ ReconcilePeriod \in Nat \ {0} /\ WriteLag \in Nat \ {0}
  /\ PollPeriod \in Nat \ {0}
  /\ StartTime \in Nat \ {0} /\ MaxTime \in Nat
  /\ GslbStates \subseteq [found : BOOLEAN, healthy : BOOLEAN, active : BOOLEAN]

VARIABLES
  now,           \* the global clock
  mode,          \* "up", "paused" (reconciler stopped) or "down" (region lost)
  gslb,          \* the signal of the local GSLB
  status,        \* the XR status the last reconcile wrote
  desired,       \* tags of the own heartbeat resource in the control plane
  cloud,         \* tags of the heartbeat resource in the cloud
  observed,      \* observed[i][j]: i's provider's last reading of cloud[j]
  reconciledAt,  \* last Reconcile, or start of the current reconciling period
  dirtyAt,       \* when desired and cloud last became different
  polledAt,      \* polledAt[i][j]: last Poll, or start of the polling period
  modeSince,     \* (history) when mode[i] last changed
  holdsSince,    \* (history) when i last began to hold ["*"]
  gslbSince      \* (history) when any GSLB signal last changed

state == <<status, desired, cloud, observed>>
timers == <<reconciledAt, dirtyAt, polledAt>>
history == <<modeSince, holdsSince, gslbSince>>
vars == <<now, mode, gslb, state, timers, history>>

Peers(i) == CP \ {i}
Higher(i) == {j \in CP : j < i}

LocalNow(i) == now + Skew[i]

\* The XR has been reconciled at least once, so its resources exist.
Composed(i) == status[i].role # ""

\* Workloads on i run with managementPolicies ["*"].
Holds(i) == mode[i] # "down" /\ status[i].role = "leader"

\* Step 4a reads only atProvider.tags: a GCP bucket keeps its tags in labels.
ThrottleTags(i) == IF i \in Gcp THEN NoTags ELSE observed[i][i]

Seen(i) == [j \in Peers(i) |-> LivenessFromTags(observed[i][j], LocalNow(i))]

Decision(i) == Decide(i, gslb[i], Seen(i), status[i], LocalNow(i))

OwnHeartbeat(i) ==
  LET role == Decision(i).role
  IN  OwnTags(EpochToWrite(ThrottleTags(i), role, LocalNow(i)), role)

Init ==
  /\ now = StartTime
  /\ mode = [i \in CP |-> "up"]
  /\ gslb \in [CP -> GslbStates]
  /\ status = [i \in CP |-> NoStatus]
  /\ desired = [i \in CP |-> NoTags]
  /\ cloud = [i \in CP |-> NoTags]
  /\ observed = [i \in CP |-> [j \in CP |-> NoTags]]
  /\ reconciledAt = [i \in CP |-> now]
  /\ dirtyAt = [i \in CP |-> now]
  /\ polledAt = [i \in CP |-> [j \in CP |-> now]]
  /\ modeSince = [i \in CP |-> now]
  /\ holdsSince = [i \in CP |-> now]
  /\ gslbSince = now

-----------------------------------------------------------------------------

\* One run of _compose, its desired resources and status applied.
Reconcile(i) ==
  /\ mode[i] = "up"
  /\ status' = [status EXCEPT ![i] =
       [role |-> Decision(i).role,
        cand |-> Decision(i).cand,
        selfEpoch |-> OwnHeartbeat(i).ts]]
  /\ desired' = [desired EXCEPT ![i] = OwnHeartbeat(i)]
  /\ reconciledAt' = [reconciledAt EXCEPT ![i] = now]
  /\ dirtyAt' = [dirtyAt EXCEPT ![i] = IF desired[i] = cloud[i] THEN now ELSE @]
  /\ polledAt' = [polledAt EXCEPT ![i] =
       IF Composed(i) THEN @ ELSE [j \in CP |-> now]]
  /\ holdsSince' = [holdsSince EXCEPT ![i] =
       IF status[i].role = "leader" THEN @ ELSE now]
  /\ UNCHANGED <<now, mode, gslb, cloud, observed, modeSince, gslbSince>>

\* The provider writes the changed heartbeat resource to the cloud.
Publish(i) ==
  /\ mode[i] # "down"
  /\ desired[i] # cloud[i]
  /\ cloud' = [cloud EXCEPT ![i] = desired[i]]
  /\ UNCHANGED <<now, mode, gslb, status, desired, observed, timers, history>>

\* The provider refreshes an observed heartbeat resource.
Poll(i, j) ==
  /\ mode[i] # "down"
  /\ Composed(i)
  /\ observed' = [observed EXCEPT ![i][j] = cloud[j]]
  /\ polledAt' = [polledAt EXCEPT ![i][j] = now]
  /\ UNCHANGED <<now, mode, gslb, status, desired, cloud, reconciledAt,
                 dirtyAt, history>>

\* The region of i is lost: nothing of i runs, what it stored stays.
Crash(i) ==
  /\ i \in MayCrash
  /\ mode[i] # "down"
  /\ mode' = [mode EXCEPT ![i] = "down"]
  /\ modeSince' = [modeSince EXCEPT ![i] = now]
  /\ UNCHANGED <<now, gslb, state, timers, holdsSince, gslbSince>>

Recover(i) ==
  /\ i \in MayRecover
  /\ mode[i] = "down"
  /\ mode' = [mode EXCEPT ![i] = "up"]
  /\ modeSince' = [modeSince EXCEPT ![i] = now]
  /\ reconciledAt' = [reconciledAt EXCEPT ![i] = now]
  /\ dirtyAt' = [dirtyAt EXCEPT ![i] = now]
  /\ polledAt' = [polledAt EXCEPT ![i] = [j \in CP |-> now]]
  /\ holdsSince' = [holdsSince EXCEPT ![i] = now]
  /\ UNCHANGED <<now, gslb, state, gslbSince>>

\* The XR is paused, or every run of the function ends in a fatal result,
\* which applies nothing; the providers run on.
Pause(i) ==
  /\ i \in MayPause
  /\ mode[i] = "up"
  /\ mode' = [mode EXCEPT ![i] = "paused"]
  /\ modeSince' = [modeSince EXCEPT ![i] = now]
  /\ UNCHANGED <<now, gslb, state, timers, holdsSince, gslbSince>>

Resume(i) ==
  /\ mode[i] = "paused"
  /\ mode' = [mode EXCEPT ![i] = "up"]
  /\ modeSince' = [modeSince EXCEPT ![i] = now]
  /\ reconciledAt' = [reconciledAt EXCEPT ![i] = now]
  /\ UNCHANGED <<now, gslb, state, dirtyAt, polledAt, holdsSince,
                 gslbSince>>

GslbChange(i) ==
  /\ gslb' \in {[gslb EXCEPT ![i] = g] : g \in GslbStates \ {gslb[i]}}
  /\ gslbSince' = now
  /\ UNCHANGED <<now, mode, state, timers, modeSince, holdsSince>>

\* Nothing running at i is due.
NotDue(i) ==
  /\ mode[i] = "up" => now < reconciledAt[i] + ReconcilePeriod
  /\ mode[i] # "down" /\ desired[i] # cloud[i] => now < dirtyAt[i] + WriteLag
  /\ mode[i] # "down" /\ Composed(i) =>
       \A j \in CP : now < polledAt[i][j] + PollPeriod

Tick ==
  /\ now < MaxTime
  /\ \A i \in CP : NotDue(i)
  /\ now' = now + 1
  /\ UNCHANGED <<mode, gslb, state, timers, history>>

Next ==
  \/ Tick
  \/ \E i \in CP :
       \/ Reconcile(i) \/ Publish(i) \/ \E j \in CP : Poll(i, j)
       \/ Crash(i) \/ Recover(i) \/ Pause(i) \/ Resume(i) \/ GslbChange(i)

Spec == Init /\ [][Next]_vars

-----------------------------------------------------------------------------

Statuses == [role : Roles \cup {""}, cand : Nat, selfEpoch : Nat]

\* Types of the variables, and the history recorded within the present.
TypeOK ==
  /\ now \in Nat
  /\ mode \in [CP -> {"up", "paused", "down"}]
  /\ gslb \in [CP -> GslbStates]
  /\ status \in [CP -> Statuses]
  /\ desired \in [CP -> Tags]
  /\ cloud \in [CP -> Tags]
  /\ observed \in [CP -> [CP -> Tags]]
  /\ reconciledAt \in [CP -> Nat]
  /\ dirtyAt \in [CP -> Nat]
  /\ polledAt \in [CP -> [CP -> Nat]]
  /\ modeSince \in [CP -> Nat]
  /\ holdsSince \in [CP -> Nat]
  /\ gslbSince \in Nat

\* How long i has held ["*"], been in its mode.
HeldFor(i) == now - holdsSince[i]
InModeFor(i) == now - modeSince[i]

\* A role a reconcile wrote is known to every reconcile that runs this much
\* later: one more reconcile after a recovery, a publication and a poll.
KnownAfter == ReconcilePeriod + WriteLag + PollPeriod

\* Two leaders at once are bounded in time: of two control planes that hold
\* ["*"], the one that began later has not held it longer than its heartbeat
\* takes to reach the other plus one reconcile there. It bounds every overlap
\* the two-phase handoff (election.py:142-152) and the leader tie-breaker
\* (election.py:116-117) let through, crashes and recoveries included.
SplitBrainBounded ==
  \A i, j \in CP :
    i # j /\ Holds(i) /\ Holds(j) =>
      \/ HeldFor(i) <= KnownAfter + ReconcilePeriod
      \/ HeldFor(j) <= KnownAfter + ReconcilePeriod

\* No false death: a control plane that has been up long enough to be heard is
\* read as fresh by every control plane whose provider is polling, at every
\* moment of its write throttle, its publications, their polls and the clock
\* skew. What a TTL is chosen for (main.py:205-216, heartbeat.py:229).
LivePeerSeenFresh ==
  \A i, j \in CP :
    /\ i # j
    /\ mode[i] = "up" /\ InModeFor(i) > KnownAfter + ReconcilePeriod
    /\ mode[j] = "up" /\ InModeFor(j) > KnownAfter + ReconcilePeriod
    => LivenessFromTags(observed[i][j], LocalNow(i)).fresh

\* Without GSLB arbitration a leader makes way for every live control plane it
\* is outranked by, within the time it takes to hear of it (the "alive" block,
\* election.py:120, which is also the first phase of a failback).
YieldsToHigher ==
  \A i \in CP : \A j \in Higher(i) :
    Holds(i) /\ mode[i] = "up" /\ mode[j] = "up" =>
      \/ InModeFor(i) <= KnownAfter + ReconcilePeriod
      \/ InModeFor(j) <= KnownAfter + ReconcilePeriod

\* When nothing that is lost comes back and no GSLB arbitrates, whoever leads
\* outranks every live control plane, whether its peers are up, starting or
\* silent; so at most one live control plane leads (SPEC.md:167, 173-179).
LeaderOutranksLive ==
  \A i \in CP : Holds(i) => \A j \in Higher(i) : mode[j] = "down"

Promotes(i) == status[i].role # "leader" /\ status'[i].role = "leader"

\* Damping: whoever promotes into the gap above it does so only after every
\* control plane above it has been gone for a hysteresis window
\* (election.py:35-37, 157-169).
PromotesOnlyAfterGap ==
  [][\A i \in CP : Promotes(i) =>
       \A j \in Higher(i) : mode[j] = "down" /\ InModeFor(j) >= HysteresisWindow]_vars

\* From the loss of the last control plane above it to leadership: the last
\* heartbeat ages out, one reconcile starts the hysteresis, one ends it.
FailoverTime ==
  TTL + MaxSkew + PollPeriod + HysteresisWindow + 2 * ReconcilePeriod + 1

\* Failover completes: an eligible control plane leads once everyone above it
\* whose heartbeat it ever read has been gone for FailoverTime
\* (election.py:114-115, 138-171).
FailoverBounded ==
  \A i \in CP :
    /\ mode[i] = "up" /\ InModeFor(i) > FailoverTime
    /\ gslb[i].healthy /\ gslb[i].active
    /\ \A j \in Higher(i) :
         /\ mode[j] = "down" /\ InModeFor(j) > FailoverTime
         /\ observed[i][j].ts # Missing
    => Holds(i)

\* Application failover: when the GSLB has settled on one control plane, and it
\* has been up meanwhile, that one leads, whatever its rank and whether the
\* others are down or merely unhealthy (the relaxation of election.py:118-119).
SoleActiveLeads ==
  \A i \in CP :
    /\ mode[i] = "up" /\ InModeFor(i) > FailoverTime
    /\ now - gslbSince > FailoverTime
    /\ SelfEligible(gslb[i])
    /\ \A j \in Peers(i) : ~SelfEligible(gslb[j])
    => Holds(i)

\* Nobody takes ["*"] from a lower control plane that has led long enough for
\* its heartbeat to be known: the release is observed before the promotion.
NeverSeizes ==
  [][\A i \in CP : Promotes(i) =>
       \A j \in CP : i < j /\ Holds(j) => HeldFor(j) <= KnownAfter]_vars

\* The hysteresis never ends in a promotion over a control plane above that has
\* been up long enough to be heard: the gap is still open when it ends.
GapStillOpen ==
  [][\A i \in CP : Promotes(i) =>
       \A j \in Higher(i) :
         mode[j] = "up" => InModeFor(j) <= KnownAfter + ReconcilePeriod]_vars

\* Once its provider has read a heartbeat back, a control plane does not write
\* the same role again before the throttle has passed.
ThrottledOnceObserved ==
  [][\A i \in CP :
       /\ observed[i][i] = desired[i] /\ desired[i] # NoTags
       /\ desired'[i] # desired[i] /\ desired'[i].role = desired[i].role
       => desired'[i].ts - desired[i].ts >= Throttle]_vars
=============================================================================
