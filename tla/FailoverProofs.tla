--------------------------- MODULE FailoverProofs ---------------------------
(***************************************************************************)
(* Proofs about how one control plane takes over from those above it, for  *)
(* every set of control planes and every timing: that the gap it takes is  *)
(* real, that it has waited its hysteresis, and that it gets there in      *)
(* time, after a loss and under the arbitration of a GSLB.                 *)
(***************************************************************************)
EXTENDS FailoverInv, ResilienceSetProofs

-----------------------------------------------------------------------------
(* What any step does to one control plane. *)

LEMMA ClockStep ==
  ASSUME TypeOK, [Next]_vars
  PROVE  now' \in {now, now + 1}
BY DEF TypeOK, Next, vars, Tick, Reconcile, Publish, Poll, Crash, Recover,
       Pause, Resume, GslbChange

LEMMA ModeStep ==
  ASSUME TypeOK, [Next]_vars, NEW k \in CP
  PROVE  \/ mode'[k] = mode[k] /\ modeSince'[k] = modeSince[k]
         \/ /\ now' = now /\ modeSince'[k] = now
            /\ \/ mode[k] # "down" /\ mode'[k] = "down"
               \/ k \in MayRecover
               \/ k \in MayPause
               \/ mode[k] = "paused"
<1> DEFINE Goal == \/ mode'[k] = mode[k] /\ modeSince'[k] = modeSince[k]
                   \/ /\ now' = now /\ modeSince'[k] = now
                      /\ \/ mode[k] # "down" /\ mode'[k] = "down"
                         \/ k \in MayRecover
                         \/ k \in MayPause
                         \/ mode[k] = "paused"
<1>1. CASE core' = core
  BY <1>1 DEF core
<1>2. CASE Tick
  BY <1>2, TickEffect
<1>3. ASSUME NEW a \in CP, Reconcile(a) \/ Publish(a) PROVE Goal
  BY <1>3 DEF Reconcile, Publish, history
<1>4. ASSUME NEW a \in CP, NEW b \in CP, Poll(a, b) PROVE Goal
  BY <1>4 DEF Poll, history
<1>5. ASSUME NEW a \in CP, Crash(a) PROVE Goal
  BY <1>5, CrashEffect DEF Crash
<1>6. ASSUME NEW a \in CP, Recover(a) PROVE Goal
  BY <1>6, RecoverEffect DEF Recover
<1>7. ASSUME NEW a \in CP, Pause(a) PROVE Goal
  BY <1>7, PauseEffect DEF Pause
<1>8. ASSUME NEW a \in CP, Resume(a) PROVE Goal
  BY <1>8, ResumeEffect DEF Resume
<1> QED
  BY <1>1, <1>2, <1>3, <1>4, <1>5, <1>6, <1>7, <1>8,
     GslbChangeEffect, StutterEffect DEF Next

\* Only its own reconcile changes the status and the heartbeat of a control plane.
LEMMA QuietStep ==
  ASSUME TypeOK, [Next]_vars, NEW k \in CP, ~Reconcile(k)
  PROVE  /\ status'[k] = status[k] /\ desired'[k] = desired[k]
         /\ \/ reconciledAt'[k] = reconciledAt[k]
            \/ reconciledAt'[k] = now /\ modeSince'[k] = now
<1>1. CASE core' = core
  BY <1>1 DEF core
<1>2. CASE Tick
  BY <1>2, TickEffect
<1>3. ASSUME NEW a \in CP, Reconcile(a)
      PROVE  /\ status'[k] = status[k] /\ desired'[k] = desired[k]
             /\ reconciledAt'[k] = reconciledAt[k]
  BY <1>3 DEF Reconcile, TypeOK
<1>4. ASSUME NEW a \in CP, Publish(a) \/ (\E b \in CP : Poll(a, b)) \/ Crash(a) \/ Pause(a)
      PROVE  /\ status'[k] = status[k] /\ desired'[k] = desired[k]
             /\ reconciledAt'[k] = reconciledAt[k]
  BY <1>4 DEF Publish, Poll, Crash, Pause, state, timers
<1>5. ASSUME NEW a \in CP, Recover(a)
      PROVE  /\ status'[k] = status[k] /\ desired'[k] = desired[k]
             /\ \/ reconciledAt'[k] = reconciledAt[k]
                \/ reconciledAt'[k] = now /\ modeSince'[k] = now
  BY <1>5, RecoverEffect
<1>6. ASSUME NEW a \in CP, Resume(a)
      PROVE  /\ status'[k] = status[k] /\ desired'[k] = desired[k]
             /\ \/ reconciledAt'[k] = reconciledAt[k]
                \/ reconciledAt'[k] = now /\ modeSince'[k] = now
  BY <1>6, ResumeEffect
<1> QED
  BY <1>1, <1>2, <1>3, <1>4, <1>5, <1>6, GslbChangeEffect, StutterEffect DEF Next

LEMMA CloudStep ==
  ASSUME TypeOK, [Next]_vars, NEW k \in CP
  PROVE  \/ cloud'[k] = cloud[k]
         \/ mode[k] # "down" /\ cloud'[k] = desired[k]
<1>1. CASE core' = core
  BY <1>1 DEF core
<1>2. ASSUME NEW a \in CP, Publish(a)
      PROVE  cloud'[k] = cloud[k] \/ (mode[k] # "down" /\ cloud'[k] = desired[k])
  BY <1>2, PublishEffect
<1>3. CASE ~\E a \in CP : Publish(a)
  BY <1>3, GslbChangeEffect, StutterEffect
  DEF Next, Tick, Reconcile, Poll, Crash, Recover, Pause, Resume, state, core
<1> QED
  BY <1>1, <1>2, <1>3

LEMMA ObservedStep ==
  ASSUME TypeOK, [Next]_vars, NEW k \in CP, NEW l \in CP
  PROVE  observed'[k][l] \in {observed[k][l], cloud[l]}
<1>1. CASE core' = core
  BY <1>1 DEF core
<1>2. ASSUME NEW a \in CP, NEW b \in CP, Poll(a, b)
      PROVE  observed'[k][l] \in {observed[k][l], cloud[l]}
  BY <1>2, PollEffect
<1>3. CASE ~\E a \in CP, b \in CP : Poll(a, b)
  BY <1>3, GslbChangeEffect, StutterEffect
  DEF Next, Tick, Reconcile, Publish, Crash, Recover, Pause, Resume, state, core
<1> QED
  BY <1>1, <1>2, <1>3

\* New tags of j come from a reconcile of j only.
LEMMA TagsStep ==
  ASSUME TypeOK, now > 0, [Next]_vars, NEW j \in CP, NEW t \in TagsOf(j)'
  PROVE  t \in TagsOf(j) \/ (Reconcile(j) /\ t = OwnHeartbeat(j))
<1>1. \/ t = desired'[j] \/ t = cloud'[j] \/ \E k \in CP : t = observed'[k][j]
  BY DEF TagsOf
<1>2. CASE t = desired'[j]
  <2>1. CASE Reconcile(j)
    BY <1>2, <2>1, ReconcileEffect
  <2>2. CASE ~Reconcile(j)
    BY <1>2, <2>2, QuietStep DEF TagsOf
  <2> QED
    BY <2>1, <2>2
<1>3. CASE t = cloud'[j]
  BY <1>3, CloudStep DEF TagsOf
<1>4. ASSUME NEW k \in CP, t = observed'[k][j] PROVE t \in TagsOf(j)
  <2>1. t = observed[k][j] \/ t = cloud[j]
    BY <1>4, ObservedStep
  <2> QED
    BY <2>1 DEF TagsOf
<1> QED
  BY <1>1, <1>2, <1>3, <1>4

LEMMA TagsOfTypes ==
  ASSUME TypeOK, NEW j \in CP, NEW t \in TagsOf(j)
  PROVE  t \in Tags /\ t.ts \in Int /\ (t.ts # Missing => t.ts \in Nat)
<1>1. t \in Tags
  BY DEF TagsOf, TypeOK
<1>2. t.ts \in Nat \cup {Missing}
  BY <1>1 DEF Tags
<1> QED
  BY <1>1, <1>2 DEF Missing

-----------------------------------------------------------------------------
(* The pure operators. *)

\* The epoch of a reconcile is its own time or the one it read back.
LEMMA EpochFrom ==
  ASSUME NEW prev, NEW role, NEW t
  PROVE  \/ EpochToWrite(prev, role, t) = t
         \/ EpochToWrite(prev, role, t) = prev.ts /\ prev.ts # Missing
BY DEF EpochToWrite, AsInt

\* A candidature is kept, begun now or given up, and ends with the promotion.
LEMMA DecideCand ==
  ASSUME NEW me, NEW g, NEW peers, NEW prior, NEW t
  PROVE  /\ Decide(me, g, peers, prior, t).cand \in {0, prior.cand, t}
         /\ Decide(me, g, peers, prior, t).role = "leader" =>
              /\ Decide(me, g, peers, prior, t).cand = 0
              /\ MayLead(me, g, peers)
         /\ Decide(me, g, peers, prior, t).cand # 0 => MayLead(me, g, peers)
BY DEF Decide

-----------------------------------------------------------------------------
(* The invariant that holds whatever is lost and comes back. *)

LEMMA TakeoverFacts ==
  ASSUME Takeover, NEW k \in CP
  PROVE  /\ TypeOK /\ Travel /\ Stamps /\ StatusOK(k) /\ now > 0 /\ now \in Nat
         /\ InPast(k) /\ ReconcileTimely(k) /\ NotYetComposed(k)
         /\ \A j \in CP : PollTimely(k, j) /\ Settled(k, j)
BY DEF Takeover, Travel, TimersOK, TypeOK

LEMMA LastUpStep ==
  ASSUME Travel, [Next]_vars, NEW j \in CP
  PROVE  LastUp(j) \in Nat /\ LastUp(j)' \in Nat /\ LastUp(j) <= LastUp(j)'
<1>0. /\ TypeOK /\ TypeOK' /\ now \in Nat /\ modeSince[j] \in Nat
      /\ now' \in Nat /\ modeSince'[j] \in Nat
      /\ modeSince[j] <= now
  <2>1. TypeOK /\ now > 0 /\ InPast(j)
    BY DEF Travel, TimersOK
  <2>2. TypeOK'
    BY <2>1, StepTypeOK
  <2> QED
    BY <2>1, <2>2 DEF TypeOK, InPast
<1>1. now <= now'
  BY <1>0, ClockStep
<1>2. CASE mode'[j] = mode[j] /\ modeSince'[j] = modeSince[j]
  BY <1>0, <1>1, <1>2 DEF LastUp
<1>3. CASE now' = now /\ modeSince'[j] = now
  BY <1>0, <1>3 DEF LastUp
<1> QED
  BY <1>0, <1>2, <1>3, ModeStep

\* A stamp is taken no earlier than the installation and no later than now.
LEMMA OwnStamp ==
  ASSUME Travel, Stamps, NEW i \in CP, mode[i] = "up"
  PROVE  /\ StartTime <= OwnHeartbeat(i).ts
         /\ OwnHeartbeat(i).ts <= now + Skew[i]
<1>0. TypeOK /\ now > 0 /\ now \in Nat /\ StartTime \in Nat
  BY SetAssumption DEF Travel, TimersOK, TypeOK
<1>1. OwnHeartbeat(i).ts = EpochToWrite(ThrottleTags(i), Decision(i).role, LocalNow(i))
  BY DEF OwnHeartbeat, OwnTags
<1>2. LocalNow(i) = now + Skew[i] /\ Skew[i] \in Nat /\ StartTime <= now
  BY <1>0, LocalNowNat DEF Stamps
<1>3. CASE OwnHeartbeat(i).ts = LocalNow(i)
  BY <1>0, <1>2, <1>3
<1>4. CASE OwnHeartbeat(i).ts = ThrottleTags(i).ts /\ ThrottleTags(i).ts # Missing
  <2>1. ThrottleTags(i) \in TagsOf(i)
    BY <1>4, TagsFacts DEF ThrottleTags, TagsOf
  <2>2. LastUp(i) = now
    BY DEF LastUp
  <2> QED
    BY <1>4, <2>1, <2>2 DEF Stamps
<1> QED
  BY <1>1, <1>3, <1>4, EpochFrom

LEMMA StepStamps ==
  ASSUME Travel, Stamps, [Next]_vars
  PROVE  Stamps'
<1>0. TypeOK /\ now > 0 /\ now \in Nat /\ StartTime \in Nat
  BY SetAssumption DEF Travel, TimersOK, TypeOK
<1>1. StartTime <= now'
  <2>1. StartTime <= now
    BY DEF Stamps
  <2> QED
    BY <1>0, <2>1, ClockStep
<1>2. ASSUME NEW j \in CP, NEW t \in TagsOf(j)', t.ts # Missing
      PROVE  StartTime <= t.ts /\ t.ts <= LastUp(j)' + Skew[j]
  <2>1. LastUp(j) \in Nat /\ LastUp(j)' \in Nat /\ LastUp(j) <= LastUp(j)'
    BY LastUpStep
  <2>2. Skew[j] \in Nat
    BY <1>0, LocalNowNat
  <2>3. CASE t \in TagsOf(j)
    <3>1. t.ts \in Int /\ StartTime <= t.ts /\ t.ts <= LastUp(j) + Skew[j]
      BY <1>0, <1>2, <2>3, TagsOfTypes DEF Stamps
    <3> QED
      BY <2>1, <2>2, <3>1
  <2>4. CASE Reconcile(j) /\ t = OwnHeartbeat(j)
    <3>1. mode[j] = "up" /\ LastUp(j) = now /\ t.ts \in Nat
      BY <1>0, <2>4, OwnHeartbeatFacts DEF Reconcile, LastUp
    <3>2. StartTime <= t.ts /\ t.ts <= now + Skew[j]
      BY <2>4, <3>1, OwnStamp
    <3> QED
      BY <1>0, <2>1, <2>2, <3>1, <3>2
  <2> QED
    BY <1>0, <1>2, <2>3, <2>4, TagsStep
<1>3. \A j \in CP : Skew'[j] = Skew[j]
  OBVIOUS
<1> QED
  BY <1>1, <1>2 DEF Stamps

LEMMA StepStatusOK ==
  ASSUME Travel, [Next]_vars, NEW k \in CP, StatusOK(k)
  PROVE  StatusOK(k)'
<1>0. TypeOK /\ now > 0 /\ now \in Nat /\ now <= now' /\ now' \in Nat
  BY ClockStep DEF Travel, TimersOK, TypeOK
<1>1. Skew[k] \in Nat /\ LocalNow(k) = now + Skew[k] /\ status[k].cand \in Nat
  BY <1>0, LocalNowNat DEF TypeOK, Statuses
<1>2. CASE Reconcile(k)
  <2>1. /\ status'[k].role = Decision(k).role
        /\ status'[k].cand = Decision(k).cand
        /\ status'[k].selfEpoch = OwnHeartbeat(k).ts
        /\ desired'[k] = OwnHeartbeat(k)
    BY <1>0, <1>2 DEF Reconcile, TypeOK
  <2>2. /\ Decision(k).cand \in {0, status[k].cand, LocalNow(k)}
        /\ Decision(k).role = "leader" => Decision(k).cand = 0
    BY DecideCand DEF Decision
  <2>3. status[k].cand <= now + Skew[k]
    BY DEF StatusOK
  <2> QED
    BY <1>0, <1>1, <2>1, <2>2, <2>3 DEF StatusOK
<1>3. CASE ~Reconcile(k)
  <2>1. status'[k] = status[k] /\ desired'[k] = desired[k]
    BY <1>0, <1>3, QuietStep
  <2>2. /\ status'[k].role = "leader" => status'[k].cand = 0
        /\ Composed(k)' => status'[k].selfEpoch = desired'[k].ts
    BY <2>1 DEF StatusOK, Composed
  <2>3. status'[k].cand <= now' + Skew[k]
    <3>1. status[k].cand <= now + Skew[k]
      BY DEF StatusOK
    <3> QED
      BY <1>0, <1>1, <2>1, <3>1
  <2> QED
    BY <2>2, <2>3 DEF StatusOK
<1> QED
  BY <1>2, <1>3

LEMMA StepSettled ==
  ASSUME Travel, [Next]_vars, NEW k \in CP, NEW l \in CP, Settled(k, l)
  PROVE  Settled(k, l)'
<1>0. TypeOK /\ now > 0 /\ now \in Nat
  BY DEF Travel, TimersOK, TypeOK
<1>k. InPast(k) /\ NotYetComposed(k) /\ ReconcileTimely(k)
  BY DEF Travel, TimersOK
<1>n. /\ modeSince[k] \in Nat /\ modeSince[l] \in Nat /\ polledAt[k][l] \in Nat
      /\ ReconcilePeriod \in Nat /\ polledAt[k][l] <= now
  BY <1>0, <1>k, NumberTypes, KnownAfterNat DEF InPast
<1>1. CASE core' = core
  BY <1>1 DEF core, Settled
<1>2. CASE Tick
  BY <1>2, TickEffect DEF Settled
<1>3. ASSUME NEW a \in CP, Reconcile(a) PROVE Settled(k, l)'
  <2>1. CASE k # a \/ Composed(k)
    BY <1>0, <1>3, <2>1, ReconcileEffect DEF Settled
  <2>2. CASE k = a /\ ~Composed(k)
    <3>1. polledAt'[k][l] = now /\ modeSince'[k] = modeSince[k] /\ mode[k] = "up"
      BY <1>0, <1>3, <2>2, ReconcileEffect
    <3>2. now <= modeSince[k] + ReconcilePeriod
      BY <1>k, <2>2, <3>1 DEF NotYetComposed, ReconcileTimely
    <3> QED
      BY <1>0, <1>n, <3>1, <3>2 DEF Settled
  <2> QED
    BY <2>1, <2>2
<1>4. ASSUME NEW a \in CP, Publish(a) PROVE Settled(k, l)'
  BY <1>0, <1>4, PublishEffect DEF Settled
<1>5. ASSUME NEW a \in CP, NEW b \in CP, Poll(a, b) PROVE Settled(k, l)'
  BY <1>0, <1>5, PollEffect DEF Settled
<1>6. ASSUME NEW a \in CP, Crash(a) PROVE Settled(k, l)'
  <2>1. CASE k # a /\ l # a
    BY <1>0, <1>6, <2>1, CrashEffect DEF Settled
  <2>2. CASE k = a
    BY <1>0, <1>6, <2>2, CrashEffect DEF Settled
  <2>3. CASE k # a /\ l = a
    <3>1. modeSince'[l] = now /\ polledAt' = polledAt
      BY <1>0, <1>6, <2>3, CrashEffect
    <3> QED
      BY <1>0, <1>n, <3>1 DEF Settled
  <2> QED
    BY <2>1, <2>2, <2>3
<1>7. ASSUME NEW a \in CP, Recover(a) PROVE Settled(k, l)'
  <2>1. CASE k # a /\ l # a
    BY <1>0, <1>7, <2>1, RecoverEffect DEF Settled
  <2>2. CASE k = a
    <3>1. modeSince'[k] = now /\ polledAt'[k][l] = now
      BY <1>0, <1>7, <2>2, RecoverEffect
    <3> QED
      BY <1>0, <1>n, <3>1 DEF Settled
  <2>3. CASE l = a
    BY <1>0, <1>7, <2>3, RecoverEffect DEF Settled
  <2> QED
    BY <2>1, <2>2, <2>3
<1>8. ASSUME NEW a \in CP, Pause(a) PROVE Settled(k, l)'
  BY <1>0, <1>8, PauseEffect DEF Settled
<1>9. ASSUME NEW a \in CP, Resume(a) PROVE Settled(k, l)'
  <2>1. CASE k # a /\ l # a
    BY <1>0, <1>9, <2>1, ResumeEffect DEF Settled
  <2>2. CASE k = a
    <3>1. modeSince'[k] = now /\ polledAt' = polledAt
      BY <1>0, <1>9, <2>2, ResumeEffect
    <3> QED
      BY <1>0, <1>n, <3>1 DEF Settled
  <2>3. CASE l = a
    BY <1>0, <1>9, <2>3, ResumeEffect DEF Settled
  <2> QED
    BY <2>1, <2>2, <2>3
<1> QED
  BY <1>1, <1>2, <1>3, <1>4, <1>5, <1>6, <1>7, <1>8, <1>9,
     GslbChangeEffect, StutterEffect DEF Next

LEMMA StepTakeover == ASSUME Takeover, [Next]_vars PROVE Takeover'
<1>1. Travel' /\ Stamps'
  BY StepTravel, StepStamps DEF Takeover
<1>2. ASSUME NEW i \in CP PROVE StatusOK(i)'
  BY StepStatusOK DEF Takeover
<1>3. ASSUME NEW i \in CP, NEW j \in CP PROVE Settled(i, j)'
  BY StepSettled DEF Takeover
<1> QED
  BY <1>1, <1>2, <1>3 DEF Takeover

LEMMA InitTakeover == Init => Takeover
<1> SUFFICES ASSUME Init PROVE Takeover
  OBVIOUS
<1>1. Travel
  BY InitIInv DEF IInv
<1>2. Stamps
  <2>1. StartTime <= now
    BY SetAssumption DEF Init
  <2>2. ASSUME NEW j \in CP, NEW t \in TagsOf(j) PROVE t.ts = Missing
    <3>1. /\ desired[j] = NoTags /\ cloud[j] = NoTags
          /\ \A k \in CP : observed[k][j] = NoTags
      BY DEF Init
    <3>2. t = NoTags
      BY <2>2, <3>1 DEF TagsOf
    <3> QED
      BY <3>2, TagsFacts
  <2> QED
    BY <2>1, <2>2 DEF Stamps
<1>3. ASSUME NEW i \in CP PROVE StatusOK(i)
  <2>1. Skew[i] \in Nat /\ now \in Nat
    BY <1>1, LocalNowNat DEF Travel, TypeOK
  <2>2. status[i].role = "" /\ status[i].cand = 0
    BY DEF Init, NoStatus
  <2>3. status[i].cand <= now + Skew[i]
    <3>1. 0 <= now + Skew[i]
      BY <2>1
    <3> QED
      BY <2>2, <3>1, Zenon
  <2>4. status[i].role # "leader" /\ ~Composed(i)
    BY <2>2 DEF Composed
  <2> QED
    BY <2>3, <2>4 DEF StatusOK
<1>4. ASSUME NEW i \in CP, NEW j \in CP PROVE Settled(i, j)
  BY DEF Settled, Init
<1> QED
  BY <1>1, <1>2, <1>3, <1>4 DEF Takeover

LEMMA TakeoverInvariant == Spec => []Takeover
<1>1. Init => Takeover
  BY InitTakeover
<1>2. Takeover /\ [Next]_vars => Takeover'
  BY StepTakeover
<1> QED
  BY <1>1, <1>2, PTL DEF Spec

-----------------------------------------------------------------------------
(* Where nothing that is lost comes back and no GSLB arbitrates. *)

\* A mode changes only by a loss, and a loss is final.
LEMMA CrashStopStep ==
  ASSUME TypeOK, CrashStop, UpFromStart, [Next]_vars, NEW k \in CP
  PROVE  \/ mode'[k] = mode[k] /\ modeSince'[k] = modeSince[k]
         \/ mode[k] = "up" /\ mode'[k] = "down"
<1>1. k \notin MayRecover /\ k \notin MayPause
  BY DEF CrashStop
<1>2. mode[k] # "paused" /\ mode[k] \in {"up", "paused", "down"}
  BY DEF UpFromStart, TypeOK
<1> QED
  BY <1>1, <1>2, ModeStep

LEMMA StepUpFromStart ==
  ASSUME TypeOK, CrashStop, UpFromStart, [Next]_vars
  PROVE  UpFromStart'
<1> SUFFICES ASSUME NEW k \in CP
             PROVE  /\ mode'[k] # "paused"
                    /\ mode'[k] = "up" => modeSince'[k] = StartTime
  BY DEF UpFromStart
<1>1. mode[k] # "paused" /\ (mode[k] = "up" => modeSince[k] = StartTime)
  BY DEF UpFromStart
<1> QED
  BY <1>1, CrashStopStep

\* A heartbeat read from a live control plane is fresh: either it is old enough
\* to be heard, or the whole set is younger than a heartbeat may become.
LEMMA SeenIsFresh ==
  ASSUME Takeover, UpFromStart, TTLCovers, NEW k \in CP, NEW l \in CP,
         mode[k] = "up", mode[l] = "up", observed[k][l].ts # Missing
  PROVE  LivenessFromTags(observed[k][l], LocalNow(k)).fresh
<1>0. /\ TypeOK /\ Travel /\ Stamps /\ now \in Nat
      /\ modeSince[k] = StartTime /\ modeSince[l] = StartTime
  BY TakeoverFacts DEF UpFromStart
<1>c. /\ ReconcilePeriod \in Nat /\ WriteLag \in Nat /\ PollPeriod \in Nat
      /\ KnownAfter = ReconcilePeriod + WriteLag + PollPeriod
      /\ ThrottleSlack \in Nat /\ TTL \in Nat /\ MaxSkew \in Nat
      /\ StartTime \in Nat /\ StartTime > 0
  BY KnownAfterNat, SlackNat, HeartbeatAssumption, SetAssumption
<1>1. CASE now > StartTime + KnownAfter
  BY <1>0, <1>1, <1>c, LiveSeenFresh
<1>2. CASE ~(now > StartTime + KnownAfter)
  <2>1. observed[k][l] \in TagsOf(l)
    BY DEF TagsOf
  <2>2. observed[k][l].ts \in Nat /\ StartTime <= observed[k][l].ts
    BY <1>0, <2>1, TagsOfTypes DEF Stamps
  <2>3. /\ LocalNow(k) = now + Skew[k] /\ Skew[k] \in Nat /\ Skew[k] <= MaxSkew
    BY <1>0, LocalNowNat
  <2>4. TTL >= ThrottleSlack + KnownAfter + MaxSkew
    BY DEF TTLCovers
  <2>5. observed[k][l].ts > 0 /\ LocalNow(k) - observed[k][l].ts <= TTL
    BY <1>0, <1>2, <1>c, <2>2, <2>3, <2>4
  <2> QED
    BY <2>5 DEF LivenessFromTags, AsInt
<1> QED
  BY <1>1, <1>2

\* Whoever may lead has nobody alive above it.
LEMMA LeadsIntoGap ==
  ASSUME Takeover, UpFromStart, TTLCovers, NoArbitration, NEW k \in CP,
         mode[k] = "up", MayLead(k, gslb[k], Seen(k)), NEW l \in Higher(k)
  PROVE  mode[l] = "down"
<1>0. TypeOK /\ l \in CP /\ l < k /\ l # k
  BY TakeoverFacts, SetAssumption DEF Higher
<1>1. /\ l \in HigherIn(k, Seen(k))
      /\ Seen(k)[l] = LivenessFromTags(observed[k][l], LocalNow(k))
  BY <1>0 DEF HigherIn, Seen, Peers
<1>2. ~GslbActiveFailover(gslb[k])
  BY <1>0 DEF NoArbitration, TypeOK
<1>3. Seen(k)[l].readable /\ ~Seen(k)[l].fresh
  BY <1>1, <1>2 DEF MayLead, HigherAllDown, Blocks
<1>4. observed[k][l].ts # Missing
  <2>1. Seen(k)[l].readable = (observed[k][l].ts # Missing)
    BY <1>1 DEF LivenessFromTags
  <2> QED
    BY <1>3, <2>1
<1>5. mode[l] # "up"
  BY <1>0, <1>1, <1>3, <1>4, SeenIsFresh
<1> QED
  BY <1>0, <1>5 DEF UpFromStart, TypeOK

\* What a reconcile that leads or waits to lead decides.
LEMMA ReconcileDecides ==
  ASSUME TypeOK, now > 0, NEW k \in CP, Reconcile(k)
  PROVE  /\ mode[k] = "up" /\ mode' = mode /\ modeSince' = modeSince /\ now' = now
         /\ status'[k].role = Decision(k).role
         /\ status'[k].cand = Decision(k).cand
         /\ status'[k].selfEpoch = OwnHeartbeat(k).ts
         /\ desired'[k] = OwnHeartbeat(k) /\ reconciledAt'[k] = now
         /\ Decision(k).cand \in {0, status[k].cand, LocalNow(k)}
         /\ Decision(k).role = "leader" \/ Decision(k).cand # 0 =>
              MayLead(k, gslb[k], Seen(k))
<1>1. /\ mode[k] = "up" /\ mode' = mode /\ modeSince' = modeSince /\ now' = now
      /\ status'[k].role = Decision(k).role
      /\ status'[k].cand = Decision(k).cand
      /\ status'[k].selfEpoch = OwnHeartbeat(k).ts
      /\ desired'[k] = OwnHeartbeat(k) /\ reconciledAt'[k] = now
  BY DEF Reconcile, TypeOK
<1>2. /\ Decision(k).cand \in {0, status[k].cand, LocalNow(k)}
      /\ Decision(k).role = "leader" \/ Decision(k).cand # 0 =>
           MayLead(k, gslb[k], Seen(k))
  BY DecideCand DEF Decision
<1> QED
  BY <1>1, <1>2

LEMMA StepGapInv ==
  ASSUME Takeover, GapInv, TTLCovers, NoArbitration, CrashStop, [Next]_vars
  PROVE  GapInv'
<1>0. TypeOK /\ now > 0 /\ now \in Nat /\ UpFromStart /\ LeaderOutranksLive
  BY DEF Takeover, Travel, TimersOK, TypeOK, GapInv
<1>1. UpFromStart'
  BY <1>0, StepUpFromStart
<1>2. ASSUME NEW k \in CP, NEW l \in Higher(k), mode[l] = "down"
      PROVE  mode'[l] = "down" /\ modeSince'[l] = modeSince[l]
  BY <1>0, <1>2, CrashStopStep DEF Higher
<1>3. ASSUME NEW k \in CP, Holds(k)', NEW l \in Higher(k) PROVE mode'[l] = "down"
  <2>1. CASE Reconcile(k)
    <3>1. MayLead(k, gslb[k], Seen(k)) /\ mode[k] = "up"
      BY <1>0, <1>3, <2>1, ReconcileDecides DEF Holds
    <3> QED
      BY <1>0, <1>2, <1>3, <3>1, LeadsIntoGap
  <2>2. CASE ~Reconcile(k)
    <3>1. status'[k] = status[k] /\ mode[k] # "down"
      BY <1>0, <1>3, <2>2, QuietStep, CrashStopStep DEF Holds
    <3>2. Holds(k)
      BY <1>3, <3>1 DEF Holds
    <3> QED
      BY <1>0, <1>2, <1>3, <3>2 DEF LeaderOutranksLive
  <2> QED
    BY <2>1, <2>2
<1>4. ASSUME NEW k \in CP, status'[k].cand > 0, NEW l \in Higher(k)
      PROVE  mode'[l] = "down" /\ modeSince'[l] + Skew[k] <= status'[k].cand
  <2>0. CandidateInGap(k) /\ l \in CP /\ modeSince[l] \in Nat /\ modeSince[l] <= now
    BY <1>0, NumberTypes DEF GapInv, Higher, Takeover, Travel, TimersOK, InPast
  <2>n. Skew[k] \in Nat /\ LocalNow(k) = now + Skew[k]
    BY <1>0, LocalNowNat
  <2>1. CASE status'[k].cand = status[k].cand
    <3>1. mode[l] = "down" /\ modeSince[l] + Skew[k] <= status[k].cand
      BY <1>4, <2>0, <2>1 DEF CandidateInGap
    <3> QED
      BY <1>2, <1>4, <2>1, <3>1
  <2>2. CASE Reconcile(k) /\ status'[k].cand # status[k].cand
    <3>1. /\ MayLead(k, gslb[k], Seen(k)) /\ mode[k] = "up"
          /\ status'[k].cand = LocalNow(k)
      BY <1>0, <1>4, <2>2, ReconcileDecides
    <3>2. mode[l] = "down"
      BY <1>0, <1>4, <3>1, LeadsIntoGap
    <3> QED
      BY <1>0, <1>2, <1>4, <2>0, <2>n, <3>1, <3>2
  <2> QED
    BY <1>0, <2>1, <2>2, QuietStep
<1>5. ASSUME NEW k \in CP, mode'[k] = "up", NEW l \in CP, k < l, NEW t \in TagsOf(l)'
      PROVE  t.role # "leader"
  <2>1. mode[k] = "up"
    BY <1>0, <1>5, CrashStopStep
  <2>2. CASE t \in TagsOf(l)
    BY <1>5, <2>1, <2>2 DEF GapInv, NoLowerLeads
  <2>3. CASE Reconcile(l) /\ t = OwnHeartbeat(l)
    <3>1. ASSUME t.role = "leader" PROVE FALSE
      <4>1. MayLead(l, gslb[l], Seen(l)) /\ mode[l] = "up"
        BY <1>0, <2>3, <3>1, ReconcileDecides, OwnHeartbeatFacts
      <4>2. k \in Higher(l)
        BY <1>5 DEF Higher
      <4> QED
        BY <1>0, <2>1, <4>1, <4>2, LeadsIntoGap
    <3> QED
      BY <3>1
  <2> QED
    BY <1>0, <1>5, <2>2, <2>3, TagsStep
<1>6. LeaderOutranksLive'
  BY <1>3 DEF LeaderOutranksLive, Higher
<1>7. ASSUME NEW k \in CP PROVE CandidateInGap(k)' /\ NoLowerLeads(k)'
  BY <1>4, <1>5 DEF CandidateInGap, NoLowerLeads, Higher
<1> QED
  BY <1>1, <1>6, <1>7 DEF GapInv

LEMMA GapInvariant ==
  ASSUME TTLCovers, NoArbitration, CrashStop
  PROVE  Spec => [](Takeover /\ GapInv)
<1>1. Init => Takeover /\ GapInv
  <2> SUFFICES ASSUME Init PROVE Takeover /\ GapInv
    OBVIOUS
  <2>1. UpFromStart
    BY DEF Init, UpFromStart
  <2>2. ASSUME NEW i \in CP PROVE ~Holds(i) /\ CandidateInGap(i)
    <3>1. status[i].role = "" /\ status[i].cand = 0
      BY DEF Init, NoStatus
    <3>2. ~(0 > 0)
      OBVIOUS
    <3>3. ~(status[i].cand > 0)
      BY <3>1, <3>2, Zenon
    <3> QED
      BY <3>1, <3>3 DEF Holds, CandidateInGap
  <2>3. ASSUME NEW j \in CP, NEW t \in TagsOf(j) PROVE t.role # "leader"
    <3>1. /\ desired[j] = NoTags /\ cloud[j] = NoTags
          /\ \A k \in CP : observed[k][j] = NoTags
      BY DEF Init
    <3>2. t = NoTags
      BY <2>3, <3>1 DEF TagsOf
    <3> QED
      BY <3>2, TagsFacts
  <2>4. LeaderOutranksLive /\ \A i \in CP : CandidateInGap(i) /\ NoLowerLeads(i)
    BY <2>2, <2>3 DEF LeaderOutranksLive, NoLowerLeads
  <2> QED
    BY <2>1, <2>4, InitTakeover DEF GapInv
<1>2. (Takeover /\ GapInv) /\ [Next]_vars => (Takeover /\ GapInv)'
  BY StepTakeover, StepGapInv
<1> QED
  BY <1>1, <1>2, PTL DEF Spec

\* Where nothing that is lost comes back and no GSLB arbitrates, nobody leads
\* under a live control plane: the failover takes over from the dead only
\* (election.py:104-120), in every set whose TTL covers the way of a heartbeat.
THEOREM LeadersOutrank ==
  ASSUME TTLCovers, NoArbitration, CrashStop
  PROVE  Spec => []LeaderOutranksLive
<1>1. Takeover /\ GapInv => LeaderOutranksLive
  BY DEF GapInv
<1> QED
  BY <1>1, GapInvariant, PTL

LEMMA HysteresisWindowNat == HysteresisWindow \in Nat /\ HysteresisWindow >= 1
<1>1. /\ AtLeastOne(HysteresisPeriods) \in Nat /\ AtLeastOne(HysteresisPeriods) >= 1
      /\ AtLeastOne(Throttle) \in Nat /\ AtLeastOne(Throttle) >= 1
  BY AtLeastOneNat, HeartbeatAssumption, ElectionAssumption
<1>2. \A a, b \in Nat : a >= 1 /\ b >= 1 => a * b \in Nat /\ a * b >= 1
  OBVIOUS
<1> QED
  BY <1>1, <1>2 DEF HysteresisWindow

\* In the same sets, whoever promotes with others above it has seen the last of
\* them go a whole hysteresis window ago (election.py:35-37, 157-169).
THEOREM PromotionDamped ==
  ASSUME TTLCovers, NoArbitration, CrashStop
  PROVE  Spec => PromotesOnlyAfterGap
<1>1. ASSUME Takeover, GapInv, [Next]_vars, NEW i \in CP, Promotes(i), NEW j \in Higher(i)
      PROVE  mode[j] = "down" /\ InModeFor(j) >= HysteresisWindow
  <2>0. /\ TypeOK /\ now > 0 /\ now \in Nat /\ j \in CP /\ j < i /\ i \in Nat
        /\ modeSince[j] \in Nat /\ status[i].cand \in Nat
        /\ Skew[i] \in Nat /\ LocalNow(i) = now + Skew[i]
    BY <1>1, TakeoverFacts, LocalNowNat, NumberTypes, SetAssumption
    DEF Higher, TypeOK, Statuses
  <2>1. Reconcile(i)
    BY <1>1, <2>0, QuietStep DEF Promotes
  <2>2. Decision(i).role = "leader"
    BY <1>1, <2>0, <2>1, ReconcileDecides DEF Promotes
  <2>3. MustServe(i, Seen(i), status[i], LocalNow(i))
    <3>1. ~ContinuousLeader(status[i], LocalNow(i))
      BY <1>1 DEF Promotes, ContinuousLeader
    <3>2. j \in HigherIn(i, Seen(i))
      BY <2>0 DEF HigherIn, Seen, Peers
    <3> QED
      BY <3>1, <3>2 DEF MustServe
  <2>4. Served(status[i], LocalNow(i))
    BY <2>2, <2>3 DEF Decision, Decide
  <2>5. status[i].cand > 0 /\ LocalNow(i) - status[i].cand >= HysteresisWindow
    BY <2>4 DEF Served
  <2>6. mode[j] = "down" /\ modeSince[j] + Skew[i] <= status[i].cand
    BY <1>1, <2>5 DEF GapInv, CandidateInGap
  <2> QED
    BY <2>0, <2>5, <2>6, HysteresisWindowNat DEF InModeFor
<1>2. (Takeover /\ GapInv) /\ [Next]_vars =>
        [\A i \in CP : Promotes(i) =>
           \A j \in Higher(i) :
             mode[j] = "down" /\ InModeFor(j) >= HysteresisWindow]_vars
  BY <1>1
<1> QED
  BY <1>2, GapInvariant, PTL DEF PromotesOnlyAfterGap, Spec

-----------------------------------------------------------------------------
(* The way to leadership. *)

LEMMA LagNat == Lag = TTL + MaxSkew + PollPeriod /\ Lag \in Nat
BY HeartbeatAssumption, SetAssumption DEF Lag

\* A leader without interruption is one that would not have to wait again.
LEMMA StaysContinuous ==
  ASSUME Takeover, WindowCovers, NEW i \in CP, mode[i] = "up", Holds(i),
         reconciledAt[i] > modeSince[i]
  PROVE  ContinuousLeader(status[i], LocalNow(i))
<1>0. /\ TypeOK /\ now \in Nat /\ reconciledAt[i] \in Nat
      /\ desired[i].ts \in Int /\ ThrottleSlack \in Nat /\ ReconcilePeriod \in Nat
      /\ LocalNow(i) = now + Skew[i] /\ Skew[i] \in Nat /\ HysteresisWindow \in Nat
  BY TakeoverFacts, NumberTypes, TagTypes, SlackNat, KnownAfterNat, LocalNowNat,
     HysteresisWindowNat
<1>1. now <= reconciledAt[i] + ReconcilePeriod
  BY TakeoverFacts DEF ReconcileTimely
<1>2. desired[i].ts > 0 /\ desired[i].ts >= reconciledAt[i] + Skew[i] - ThrottleSlack
  <2>1. DesiredFresh(i)
    BY DEF Takeover, Travel
  <2> QED
    BY <2>1 DEF DesiredFresh, WrittenSince
<1>3. status[i].role = "leader" /\ status[i].selfEpoch = desired[i].ts
  BY TakeoverFacts DEF Holds, StatusOK, Composed
<1>4. LocalNow(i) - desired[i].ts <= HysteresisWindow
  BY <1>0, <1>1, <1>2 DEF WindowCovers
<1> QED
  BY <1>2, <1>3, <1>4 DEF ContinuousLeader

\* A decision that nothing blocks leads at once or waits out its candidature.
LEMMA UnblockedDecision ==
  ASSUME NEW me, NEW g, NEW peers, NEW prior, NEW t, MayLead(me, g, peers)
  PROVE  LET d == Decide(me, g, peers, prior, t)
         IN  \/ d.role = "leader"
             \/ /\ ~ContinuousLeader(prior, t)
                /\ ~Served(prior, t)
                /\ d.cand = IF prior.cand > 0 THEN prior.cand ELSE t
BY DEF Decide, MustServe

\* A reconcile that nothing blocks brings its control plane on its way, or on.
LEMMA ReconcileServes ==
  ASSUME Takeover, WindowCovers, NEW i \in CP, Reconcile(i),
         NEW T \in SUBSET Nat, modeSince[i] \in T, OnItsWay(i, T),
         MayLead(i, gslb[i], Seen(i))
  PROVE  \/ Holds(i)'
         \/ /\ status'[i].cand > 0
            /\ now + Skew[i] < status'[i].cand + HysteresisWindow
            /\ \E t \in T : status'[i].cand <= t + Lag + ReconcilePeriod + Skew[i]
<1>0. /\ TypeOK /\ now > 0 /\ now \in Nat /\ mode[i] = "up"
      /\ reconciledAt[i] \in Nat /\ modeSince[i] \in Nat /\ status[i].cand \in Nat
      /\ LocalNow(i) = now + Skew[i] /\ Skew[i] \in Nat
      /\ HysteresisWindow \in Nat /\ HysteresisWindow >= 1
      /\ Lag \in Nat /\ ReconcilePeriod \in Nat
  BY TakeoverFacts, NumberTypes, LocalNowNat, HysteresisWindowNat, LagNat,
     KnownAfterNat DEF Reconcile, TypeOK, Statuses
<1>1. /\ mode'[i] = "up" /\ status'[i].role = Decision(i).role
      /\ status'[i].cand = Decision(i).cand
  BY <1>0, ReconcileDecides
<1>2. \/ Decision(i).role = "leader"
      \/ /\ ~ContinuousLeader(status[i], LocalNow(i))
         /\ ~Served(status[i], LocalNow(i))
         /\ Decision(i).cand = IF status[i].cand > 0 THEN status[i].cand ELSE LocalNow(i)
  BY UnblockedDecision DEF Decision
<1>3. CASE Decision(i).role = "leader"
  BY <1>1, <1>3 DEF Holds
<1>4. CASE /\ ~ContinuousLeader(status[i], LocalNow(i))
           /\ ~Served(status[i], LocalNow(i))
           /\ Decision(i).cand = IF status[i].cand > 0 THEN status[i].cand ELSE LocalNow(i)
  <2> DEFINE c == status'[i].cand
  <2>1. c \in Nat /\ c > 0 /\ now + Skew[i] < c + HysteresisWindow
    <3>1. CASE status[i].cand > 0
      <4>1. c = status[i].cand /\ ~(LocalNow(i) - status[i].cand >= HysteresisWindow)
        BY <1>1, <1>4, <3>1 DEF Served
      <4> QED
        BY <1>0, <3>1, <4>1
    <3>2. CASE ~(status[i].cand > 0)
      <4>1. c = LocalNow(i)
        BY <1>1, <1>4, <3>2
      <4> QED
        BY <1>0, <4>1
    <3> QED
      BY <3>1, <3>2
  <2>2. \E t \in T : c <= t + Lag + ReconcilePeriod + Skew[i]
    <3>1. CASE \A t \in T : reconciledAt[i] > t + Lag
      <4>1. reconciledAt[i] > modeSince[i]
        BY <1>0, <3>1
      <4>2. ~Holds(i)
        BY <1>0, <1>4, <4>1, StaysContinuous
      <4>3. /\ status[i].cand > 0
            /\ \E t \in T : status[i].cand <= t + Lag + ReconcilePeriod + Skew[i]
        BY <3>1, <4>2 DEF OnItsWay, LeadsOrWaits
      <4>4. c = status[i].cand
        BY <1>1, <1>4, <4>3
      <4> QED
        BY <4>3, <4>4
    <3>2. ASSUME NEW t \in T, ~(reconciledAt[i] > t + Lag)
          PROVE  c <= t + Lag + ReconcilePeriod + Skew[i]
      <4>1. now <= reconciledAt[i] + ReconcilePeriod /\ status[i].cand <= now + Skew[i]
        BY <1>0, TakeoverFacts DEF ReconcileTimely, StatusOK
      <4>2. c <= now + Skew[i]
        BY <1>0, <1>1, <1>4, <4>1
      <4>3. t \in Nat
        OBVIOUS
      <4> QED
        BY <1>0, <2>1, <3>2, <4>1, <4>2, <4>3
    <3> QED
      BY <3>1, <3>2
  <2> QED
    BY <2>1, <2>2
<1> QED
  BY <1>2, <1>3, <1>4

\* While its times pass nothing but a reconcile of its own moves it.
LEMMA OtherStepsServe ==
  ASSUME Takeover, [Next]_vars, NEW i \in CP, ~Reconcile(i),
         NEW T \in SUBSET Nat, OnItsWay(i, T),
         modeSince'[i] = modeSince[i], mode'[i] = mode[i],
         \A t \in T : reconciledAt'[i] > t + Lag,
         reconciledAt'[i] = reconciledAt[i]
  PROVE  \/ Holds(i)'
         \/ /\ status'[i].cand > 0
            /\ reconciledAt'[i] + Skew[i] < status'[i].cand + HysteresisWindow
            /\ \E t \in T : status'[i].cand <= t + Lag + ReconcilePeriod + Skew[i]
<1>1. status'[i] = status[i]
  BY QuietStep, TakeoverFacts
<1>2. LeadsOrWaits(i, T)
  BY DEF OnItsWay
<1> QED
  BY <1>1, <1>2 DEF LeadsOrWaits, Holds

\* Only a signal of the GSLB changes the signal and its time.
LEMMA GslbStep ==
  ASSUME [Next]_vars
  PROVE  (gslb' = gslb /\ gslbSince' = gslbSince) \/ (gslbSince' = now /\ now' = now)
BY DEF Next, vars, history, Tick, Reconcile, Publish, Poll, Crash, Recover, Pause,
       Resume, GslbChange

\* Once Lag has passed since everyone above is lost, nothing blocks.
LEMMA GapUnblocks ==
  ASSUME Takeover, GapInv, TTLCovers, AlwaysEligible, NEW i \in CP, Gap(i),
         \A t \in GapTimes(i) : now > t + Lag
  PROVE  MayLead(i, gslb[i], Seen(i))
<1>0. /\ TypeOK /\ now \in Nat /\ mode[i] = "up" /\ i \in Nat
      /\ LocalNow(i) = now + Skew[i] /\ Skew[i] \in Nat
      /\ modeSince[i] \in Nat
  BY TakeoverFacts, NumberTypes, LocalNowNat, SetAssumption DEF Gap
<1>c. /\ ReconcilePeriod \in Nat /\ WriteLag \in Nat /\ PollPeriod \in Nat
      /\ KnownAfter = ReconcilePeriod + WriteLag + PollPeriod
      /\ ThrottleSlack \in Nat /\ TTL \in Nat /\ MaxSkew \in Nat
      /\ Lag = TTL + MaxSkew + PollPeriod
      /\ TTL >= ThrottleSlack + KnownAfter + MaxSkew
  BY KnownAfterNat, SlackNat, HeartbeatAssumption, SetAssumption, LagNat DEF TTLCovers
<1>1. SelfEligible(gslb[i]) /\ ~GslbActiveFailover(gslb[i])
  BY <1>0 DEF AlwaysEligible, TypeOK
<1>2. now > modeSince[i] + TTL + PollPeriod
  <2>1. modeSince[i] \in GapTimes(i)
    BY DEF GapTimes
  <2>2. now > modeSince[i] + Lag
    BY <2>1
  <2> QED
    BY <1>0, <1>c, <2>2
<1>3. Composed(i)
  <2> SUFFICES ASSUME ~Composed(i) PROVE FALSE
    OBVIOUS
  <2>1. now <= modeSince[i] + ReconcilePeriod
    BY <1>0, TakeoverFacts DEF NotYetComposed, ReconcileTimely
  <2> QED
    BY <1>0, <1>2, <1>c, <2>1
<1>4. ASSUME NEW j \in CP, j < i
      PROVE  /\ Seen(i)[j].readable
             /\ ~Seen(i)[j].fresh
  <2>0. /\ j \in Higher(i) /\ j \in Peers(i) /\ mode[j] = "down" /\ cloud[j].ts # Missing
        /\ modeSince[j] \in GapTimes(i)
    BY <1>0, <1>4 DEF Higher, Peers, Gap, GapTimes
  <2>n. /\ modeSince[j] \in Nat /\ polledAt[i][j] \in Nat
        /\ Skew[j] \in Nat /\ Skew[j] <= MaxSkew
    BY <1>0, <1>4, NumberTypes, LocalNowNat
  <2>1. now > modeSince[j] + Lag
    BY <2>0
  <2>2. now <= polledAt[i][j] + PollPeriod
    BY <1>0, <1>3, <1>4, TakeoverFacts DEF PollTimely
  <2>3. /\ polledAt[i][j] > modeSince[i] + ReconcilePeriod
        /\ polledAt[i][j] > modeSince[j]
    BY <1>0, <1>2, <1>c, <2>1, <2>2, <2>n
  <2>4. observed[i][j] = cloud[j]
    BY <1>0, <1>4, <2>0, <2>3, TakeoverFacts DEF Settled
  <2>5. cloud[j].ts \in Int /\ cloud[j].ts <= modeSince[j] + Skew[j]
    <3>1. cloud[j] \in TagsOf(j)
      BY DEF TagsOf
    <3>2. cloud[j].ts \in Int /\ cloud[j].ts <= LastUp(j) + Skew[j]
      BY <1>0, <1>4, <2>0, <3>1, TakeoverFacts, TagsOfTypes DEF Stamps
    <3> QED
      BY <2>0, <3>2 DEF LastUp
  <2>6. ~(LocalNow(i) - cloud[j].ts <= TTL)
    BY <1>0, <1>c, <2>1, <2>5, <2>n
  <2>7. /\ Seen(i)[j].readable = (observed[i][j].ts # Missing)
        /\ Seen(i)[j].fresh = (/\ observed[i][j].ts # Missing
                               /\ AsInt(observed[i][j].ts) > 0
                               /\ LocalNow(i) - AsInt(observed[i][j].ts) <= TTL)
    BY <2>0 DEF Seen, LivenessFromTags
  <2>8. observed[i][j].ts # Missing /\ AsInt(observed[i][j].ts) = cloud[j].ts
    BY <2>0, <2>4 DEF AsInt
  <2>9. ~(LocalNow(i) - AsInt(observed[i][j].ts) <= TTL)
    BY <2>6, <2>8
  <2> QED
    BY <2>7, <2>8, <2>9
<1>5. ASSUME NEW j \in CP, i < j PROVE Seen(i)[j].role # "leader"
  <2>1. observed[i][j].role # "leader"
    BY <1>0, <1>5 DEF GapInv, NoLowerLeads, TagsOf
  <2>2. j \in Peers(i)
    BY <1>0, <1>5 DEF Peers
  <2> QED
    BY <2>1, <2>2 DEF Seen, LivenessFromTags
<1>6. DOMAIN Seen(i) = Peers(i) /\ Peers(i) \subseteq CP
  BY DEF Seen, Peers
<1>7. HigherAllDown(i, gslb[i], Seen(i))
  BY <1>1, <1>4, <1>6 DEF HigherAllDown, HigherIn, Blocks
<1>8. ~LowerLeader(i, Seen(i))
  BY <1>5, <1>6 DEF LowerLeader
<1> QED
  BY <1>1, <1>7, <1>8 DEF MayLead

LEMMA GapTimesNat ==
  ASSUME TypeOK, NEW i \in CP
  PROVE  GapTimes(i) \in SUBSET Nat /\ modeSince[i] \in GapTimes(i)
BY NumberTypes DEF GapTimes, Higher

LEMMA StepGapServed ==
  ASSUME Takeover, GapInv, TTLCovers, AlwaysEligible, WindowCovers,
         [Next]_vars, NEW i \in CP, Gap(i) => OnItsWay(i, GapTimes(i))
  PROVE  Gap(i)' => OnItsWay(i, GapTimes(i))'
<1> SUFFICES ASSUME Gap(i)', \A t \in GapTimes(i)' : reconciledAt'[i] > t + Lag
             PROVE  LeadsOrWaits(i, GapTimes(i))'
  BY DEF OnItsWay
<1>0. /\ TypeOK /\ now > 0 /\ now \in Nat /\ TypeOK' /\ now' \in Nat
      /\ Lag \in Nat /\ reconciledAt'[i] \in Nat /\ reconciledAt'[i] <= now'
  <2>1. TypeOK /\ now > 0 /\ TypeOK' /\ Takeover'
    BY TakeoverFacts, StepTypeOK, StepTakeover
  <2>2. InPast(i)'
    BY <2>1 DEF Takeover, Travel, TimersOK
  <2> QED
    BY <2>1, <2>2, LagNat DEF TypeOK, InPast
\* No mode has changed, for a change would be one of the times.
<1>1. ASSUME NEW k \in Higher(i) \cup {i}
      PROVE  k \in CP /\ mode'[k] = mode[k] /\ modeSince'[k] = modeSince[k]
  <2>1. k \in CP /\ modeSince'[k] \in GapTimes(i)'
    BY DEF Higher, GapTimes
  <2>2. reconciledAt'[i] > modeSince'[k] + Lag
    BY <2>1
  <2>3. ~(now' = now /\ modeSince'[k] = now)
    BY <1>0, <2>2
  <2> QED
    BY <1>0, <2>1, <2>3, ModeStep
<1>2. GapTimes(i)' = GapTimes(i)
  BY <1>1 DEF GapTimes, Higher
<1>3. Gap(i)
  <2>1. ASSUME NEW j \in Higher(i) PROVE mode[j] = "down" /\ cloud[j].ts # Missing
    <3>1. j \in CP /\ mode[j] = "down" /\ cloud'[j].ts # Missing
      BY <1>1, <2>1 DEF Gap, Higher
    <3> QED
      BY <1>0, <3>1, CloudStep
  <2>2. mode[i] = "up"
    BY <1>1 DEF Gap
  <2> QED
    BY <2>1, <2>2 DEF Gap
<1>4. OnItsWay(i, GapTimes(i)) /\ GapTimes(i) \in SUBSET Nat /\ modeSince[i] \in GapTimes(i)
  BY <1>0, <1>3, GapTimesNat
<1>5. CASE Reconcile(i)
  <2>1. reconciledAt'[i] = now
    BY <1>0, <1>5, ReconcileDecides
  <2>2. MayLead(i, gslb[i], Seen(i))
    BY <1>2, <1>3, <2>1, GapUnblocks
  <2>3. \/ Holds(i)'
        \/ /\ status'[i].cand > 0
           /\ now + Skew[i] < status'[i].cand + HysteresisWindow
           /\ \E t \in GapTimes(i) :
                status'[i].cand <= t + Lag + ReconcilePeriod + Skew[i]
    BY <1>4, <1>5, <2>2, ReconcileServes
  <2> QED
    BY <1>2, <2>1, <2>3 DEF LeadsOrWaits
<1>6. CASE ~Reconcile(i)
  <2>1. reconciledAt'[i] = reconciledAt[i]
    <3>1. reconciledAt'[i] > modeSince'[i] + Lag
      BY <1>2, <1>4, <1>1
    <3>2. ~(reconciledAt'[i] = now /\ modeSince'[i] = now)
      BY <1>0, <3>1
    <3> QED
      BY <1>0, <1>6, <3>2, QuietStep
  <2>2. \/ Holds(i)'
        \/ /\ status'[i].cand > 0
           /\ reconciledAt'[i] + Skew[i] < status'[i].cand + HysteresisWindow
           /\ \E t \in GapTimes(i) :
                status'[i].cand <= t + Lag + ReconcilePeriod + Skew[i]
    BY <1>1, <1>2, <1>4, <1>6, <2>1, OtherStepsServe
  <2> QED
    BY <1>2, <2>2 DEF LeadsOrWaits
<1> QED
  BY <1>5, <1>6

\* A hysteresis that began in time has ended when FailoverTime is over.
LEMMA WaitIsOver ==
  ASSUME Takeover, NEW i \in CP, mode[i] = "up", NEW T \in SUBSET Nat,
         LeadsOrWaits(i, T), \A t \in T : now - t > FailoverTime
  PROVE  Holds(i)
<1>0. /\ TypeOK /\ now \in Nat /\ reconciledAt[i] \in Nat /\ status[i].cand \in Nat
      /\ Skew[i] \in Nat /\ HysteresisWindow \in Nat /\ ReconcilePeriod \in Nat
      /\ Lag = TTL + MaxSkew + PollPeriod /\ Lag \in Nat
      /\ TTL \in Nat /\ MaxSkew \in Nat /\ PollPeriod \in Nat
  BY TakeoverFacts, NumberTypes, LocalNowNat, HysteresisWindowNat, LagNat,
     KnownAfterNat, HeartbeatAssumption, SetAssumption DEF TypeOK, Statuses
<1> SUFFICES ASSUME ~Holds(i) PROVE FALSE
  OBVIOUS
<1>1. PICK t \in T : /\ reconciledAt[i] + Skew[i] < status[i].cand + HysteresisWindow
                     /\ status[i].cand <= t + Lag + ReconcilePeriod + Skew[i]
  BY DEF LeadsOrWaits
<1>2. now <= reconciledAt[i] + ReconcilePeriod
  BY TakeoverFacts DEF ReconcileTimely
<1>3. t \in Nat /\ now - t > Lag + HysteresisWindow + 2 * ReconcilePeriod
  <2>1. t \in Nat /\ now - t > FailoverTime
    OBVIOUS
  <2> QED
    BY <1>0, <2>1 DEF FailoverTime
<1> QED
  BY <1>0, <1>1, <1>2, <1>3

\* With FailoverTime over, the last reconcile came after the times by Lag.
LEMMA TimesPassed ==
  ASSUME Takeover, NEW i \in CP, mode[i] = "up", NEW t \in Nat, now - t > FailoverTime
  PROVE  reconciledAt[i] > t + Lag
<1>0. /\ TypeOK /\ now \in Nat /\ reconciledAt[i] \in Nat
      /\ HysteresisWindow \in Nat /\ ReconcilePeriod \in Nat
      /\ Lag = TTL + MaxSkew + PollPeriod /\ Lag \in Nat
      /\ TTL \in Nat /\ MaxSkew \in Nat /\ PollPeriod \in Nat
  BY TakeoverFacts, NumberTypes, HysteresisWindowNat, LagNat,
     KnownAfterNat, HeartbeatAssumption, SetAssumption
<1>1. now <= reconciledAt[i] + ReconcilePeriod
  BY TakeoverFacts DEF ReconcileTimely
<1>2. now - t > Lag + HysteresisWindow + 2 * ReconcilePeriod
  BY <1>0 DEF FailoverTime
<1> QED
  BY <1>0, <1>1, <1>2

\* In sets where nothing that is lost comes back and every signal makes
\* eligible, whoever is next leads once FailoverTime has passed since the loss of
\* everyone above it (election.py:114-115, 138-171). The TTL has to cover the way
\* of a heartbeat, or a lower control plane may lead past a live one and block
\* the next; the hysteresis window a reconcile period and the throttle, or a
\* leader with others above it steps down between its own reconciles.
THEOREM FailoverCompletes ==
  ASSUME TTLCovers, WindowCovers, AlwaysEligible, CrashStop
  PROVE  Spec => []FailoverBounded
<1> DEFINE I == Takeover /\ GapInv /\ GapServed
<1>1. NoArbitration
  BY DEF AlwaysEligible, NoArbitration
<1>2. Init => GapServed
  <2> SUFFICES ASSUME Init, NEW i \in CP PROVE OnItsWay(i, GapTimes(i))
    BY DEF GapServed
  <2>1. TypeOK /\ reconciledAt[i] = modeSince[i] /\ modeSince[i] \in Nat
    BY InitTypeOK, NumberTypes DEF Init
  <2>2. modeSince[i] \in GapTimes(i) /\ Lag \in Nat
    BY <2>1, GapTimesNat, LagNat
  <2> QED
    BY <2>1, <2>2 DEF OnItsWay
<1>3. (Takeover /\ GapInv) /\ GapServed /\ [Next]_vars => GapServed'
  <2> SUFFICES ASSUME Takeover, GapInv, GapServed, [Next]_vars, NEW i \in CP
               PROVE  Gap(i)' => OnItsWay(i, GapTimes(i))'
    BY DEF GapServed
  <2>1. Gap(i) => OnItsWay(i, GapTimes(i))
    BY DEF GapServed
  <2> QED
    BY <2>1, StepGapServed
<1>4. (Takeover /\ GapInv) /\ GapServed => FailoverBounded
  <2> SUFFICES ASSUME Takeover, GapInv, GapServed, NEW i \in CP,
                      mode[i] = "up", InModeFor(i) > FailoverTime,
                      \A j \in Higher(i) : /\ mode[j] = "down"
                                           /\ InModeFor(j) > FailoverTime
                                           /\ observed[i][j].ts # Missing
               PROVE  Holds(i)
    BY DEF FailoverBounded
  <2>0. TypeOK /\ GapTimes(i) \in SUBSET Nat /\ now \in Nat
    BY TakeoverFacts, GapTimesNat
  <2>1. ASSUME NEW t \in GapTimes(i) PROVE t \in Nat /\ now - t > FailoverTime
    BY <2>0, <2>1 DEF GapTimes, InModeFor
  <2>2. \A t \in GapTimes(i) : reconciledAt[i] > t + Lag
    BY <2>1, TimesPassed
  <2>3. Gap(i)
    <3> SUFFICES ASSUME NEW j \in Higher(i) PROVE cloud[j].ts # Missing
      BY DEF Gap
    <3>0. /\ j \in CP /\ modeSince[j] \in Nat /\ modeSince[i] \in Nat
          /\ polledAt[i][j] \in Nat /\ reconciledAt[i] \in Nat
          /\ modeSince[i] \in GapTimes(i) /\ modeSince[j] \in GapTimes(i)
      BY <2>0, NumberTypes DEF Higher, GapTimes
    <3>c. /\ ReconcilePeriod \in Nat /\ WriteLag \in Nat /\ PollPeriod \in Nat
          /\ KnownAfter = ReconcilePeriod + WriteLag + PollPeriod
          /\ ThrottleSlack \in Nat /\ TTL \in Nat /\ MaxSkew \in Nat
          /\ Lag = TTL + MaxSkew + PollPeriod
          /\ TTL >= ThrottleSlack + KnownAfter + MaxSkew
      BY KnownAfterNat, SlackNat, HeartbeatAssumption, SetAssumption, LagNat
      DEF TTLCovers
    <3>1. /\ now >= reconciledAt[i]
          /\ reconciledAt[i] > modeSince[i] + Lag /\ reconciledAt[i] > modeSince[j] + Lag
      BY <2>2, <3>0, TakeoverFacts DEF InPast
    <3>2. Composed(i)
      <4> SUFFICES ASSUME ~Composed(i) PROVE FALSE
        OBVIOUS
      <4>1. reconciledAt[i] = modeSince[i]
        BY TakeoverFacts DEF NotYetComposed
      <4> QED
        BY <3>0, <3>1, <3>c, <4>1
    <3>3. now <= polledAt[i][j] + PollPeriod
      BY <3>0, <3>2, TakeoverFacts DEF PollTimely
    <3>4. /\ polledAt[i][j] > modeSince[i] + ReconcilePeriod
          /\ polledAt[i][j] > modeSince[j]
      BY <2>0, <3>0, <3>1, <3>3, <3>c
    <3>5. observed[i][j] = cloud[j]
      BY <3>0, <3>4, TakeoverFacts DEF Settled
    <3> QED
      BY <3>5
  <2>4. LeadsOrWaits(i, GapTimes(i))
    BY <2>2, <2>3 DEF GapServed, OnItsWay
  <2> QED
    BY <2>0, <2>1, <2>4, WaitIsOver
<1>5. Spec => [](Takeover /\ GapInv)
  BY <1>1, GapInvariant
<1> QED
  BY <1>2, <1>3, <1>4, <1>5, PTL DEF Spec

-----------------------------------------------------------------------------
(* Under the arbitration of a GSLB. *)

LEMMA StepLeaderStamps ==
  ASSUME Takeover, LeaderStamps, [Next]_vars
  PROVE  LeaderStamps'
<1>0. /\ TypeOK /\ TypeOK' /\ Travel /\ Stamps /\ now > 0 /\ now \in Nat
      /\ now' \in Nat /\ now <= now' /\ gslbSince \in Nat /\ gslbSince' \in Nat
      /\ gslbSince <= now
  <2>1. TypeOK /\ now > 0 /\ Travel /\ Stamps /\ gslbSince <= now
    BY DEF Takeover, Travel, TimersOK, LeaderStamps
  <2>2. TypeOK'
    BY <2>1, StepTypeOK
  <2> QED
    BY <2>1, <2>2, ClockStep DEF TypeOK
<1>1. gslbSince' <= now'
  BY <1>0, GslbStep
<1>2. ASSUME NEW j \in CP, NEW t \in TagsOf(j)', t.role = "leader"
      PROVE  t.ts <= LastEligible(j)' + Skew[j]
  <2>0. Skew[j] \in Nat
    BY <1>0, LocalNowNat
  <2>1. CASE t \in TagsOf(j)
    <3>1. t.ts \in Int /\ t.ts <= LastEligible(j) + Skew[j]
      BY <1>0, <1>2, <2>1, TagsOfTypes DEF LeaderStamps
    <3>2. /\ LastEligible(j) \in Nat /\ LastEligible(j)' \in Nat
          /\ LastEligible(j) <= LastEligible(j)'
      BY <1>0, GslbStep DEF LastEligible
    <3> QED
      BY <2>0, <3>1, <3>2
  <2>2. CASE Reconcile(j) /\ t = OwnHeartbeat(j)
    <3>1. mode[j] = "up" /\ MayLead(j, gslb[j], Seen(j))
      BY <1>0, <1>2, <2>2, ReconcileDecides, OwnHeartbeatFacts
    <3>2. LastEligible(j)' = now
      BY <2>2, <3>1 DEF MayLead, LastEligible, Reconcile
    <3> QED
      BY <1>0, <2>2, <3>1, <3>2, OwnStamp
  <2> QED
    BY <1>0, <1>2, <2>1, <2>2, TagsStep
<1> QED
  BY <1>1, <1>2 DEF LeaderStamps

\* Once Lag has passed since the signals settled on it, nothing blocks.
LEMMA SoleUnblocks ==
  ASSUME Takeover, LeaderStamps, EligibleArbitrated, NEW i \in CP, SoleActive(i),
         now > gslbSince + Lag
  PROVE  MayLead(i, gslb[i], Seen(i))
<1>0. /\ TypeOK /\ now \in Nat /\ gslbSince \in Nat
      /\ LocalNow(i) = now + Skew[i] /\ Skew[i] \in Nat
      /\ Lag = TTL + MaxSkew + PollPeriod
      /\ TTL \in Nat /\ MaxSkew \in Nat /\ PollPeriod \in Nat
  BY TakeoverFacts, LocalNowNat, LagNat, HeartbeatAssumption, SetAssumption DEF TypeOK
<1>1. SelfEligible(gslb[i]) /\ GslbActiveFailover(gslb[i])
  BY <1>0 DEF SoleActive, EligibleArbitrated, TypeOK
<1>2. ASSUME NEW j \in Peers(i), Seen(i)[j].role = "leader"
      PROVE  ~Seen(i)[j].fresh
  <2>1. j \in CP /\ ~SelfEligible(gslb[j])
    BY DEF SoleActive, Peers
  <2>2. /\ Seen(i)[j].role = observed[i][j].role
        /\ Seen(i)[j].fresh = (/\ observed[i][j].ts # Missing
                               /\ AsInt(observed[i][j].ts) > 0
                               /\ LocalNow(i) - AsInt(observed[i][j].ts) <= TTL)
    BY DEF Seen, LivenessFromTags
  <2>3. observed[i][j] \in TagsOf(j)
    BY DEF TagsOf
  <2>4. /\ observed[i][j].ts \in Int
        /\ observed[i][j].ts <= gslbSince + Skew[j]
        /\ Skew[j] \in Nat /\ Skew[j] <= MaxSkew
    BY <1>0, <1>2, <2>1, <2>2, <2>3, TagsOfTypes, LocalNowNat
    DEF LeaderStamps, LastEligible
  <2>5. ~(LocalNow(i) - observed[i][j].ts <= TTL)
    BY <1>0, <2>4
  <2>6. observed[i][j].ts # Missing => AsInt(observed[i][j].ts) = observed[i][j].ts
    BY DEF AsInt
  <2> QED
    BY <2>2, <2>5, <2>6
<1>3. DOMAIN Seen(i) = Peers(i)
  BY DEF Seen
<1>4. HigherAllDown(i, gslb[i], Seen(i)) /\ ~LowerLeader(i, Seen(i))
  BY <1>1, <1>2, <1>3 DEF HigherAllDown, HigherIn, Blocks, LowerLeader
<1> QED
  BY <1>1, <1>4 DEF MayLead

LEMMA StepSoleServed ==
  ASSUME Takeover, LeaderStamps, EligibleArbitrated, WindowCovers,
         [Next]_vars, NEW i \in CP, SoleActive(i) => OnItsWay(i, SoleTimes(i))
  PROVE  SoleActive(i)' => OnItsWay(i, SoleTimes(i))'
<1> SUFFICES ASSUME SoleActive(i)', \A t \in SoleTimes(i)' : reconciledAt'[i] > t + Lag
             PROVE  LeadsOrWaits(i, SoleTimes(i))'
  BY DEF OnItsWay
<1>0. /\ TypeOK /\ now > 0 /\ now \in Nat /\ now' \in Nat
      /\ Lag \in Nat /\ reconciledAt'[i] \in Nat /\ reconciledAt'[i] <= now'
      /\ gslbSince \in Nat /\ modeSince[i] \in Nat
  <2>1. TypeOK /\ now > 0 /\ TypeOK' /\ Takeover'
    BY TakeoverFacts, StepTypeOK, StepTakeover
  <2>2. InPast(i)'
    BY <2>1 DEF Takeover, Travel, TimersOK
  <2> QED
    BY <2>1, <2>2, LagNat DEF TypeOK, InPast
<1>1. reconciledAt'[i] > modeSince'[i] + Lag /\ reconciledAt'[i] > gslbSince' + Lag
  BY DEF SoleTimes
\* Neither mode nor signal has changed, for a change would be one of the times.
<1>2. mode'[i] = mode[i] /\ modeSince'[i] = modeSince[i]
  <2>1. ~(now' = now /\ modeSince'[i] = now)
    BY <1>0, <1>1
  <2> QED
    BY <1>0, <2>1, ModeStep
<1>3. gslb' = gslb /\ gslbSince' = gslbSince
  <2>1. ~(now' = now /\ gslbSince' = now)
    BY <1>0, <1>1
  <2> QED
    BY <2>1, GslbStep
<1>4. SoleTimes(i)' = SoleTimes(i) /\ SoleActive(i)
  BY <1>2, <1>3 DEF SoleTimes, SoleActive
<1>5. /\ OnItsWay(i, SoleTimes(i)) /\ SoleTimes(i) \in SUBSET Nat
      /\ modeSince[i] \in SoleTimes(i)
  BY <1>0, <1>4 DEF SoleTimes
<1>6. CASE Reconcile(i)
  <2>1. reconciledAt'[i] = now
    BY <1>0, <1>6, ReconcileDecides
  <2>2. MayLead(i, gslb[i], Seen(i))
    BY <1>1, <1>3, <1>4, <2>1, SoleUnblocks
  <2>3. \/ Holds(i)'
        \/ /\ status'[i].cand > 0
           /\ now + Skew[i] < status'[i].cand + HysteresisWindow
           /\ \E t \in SoleTimes(i) :
                status'[i].cand <= t + Lag + ReconcilePeriod + Skew[i]
    BY <1>5, <1>6, <2>2, ReconcileServes
  <2> QED
    BY <1>4, <2>1, <2>3 DEF LeadsOrWaits
<1>7. CASE ~Reconcile(i)
  <2>1. reconciledAt'[i] = reconciledAt[i]
    <3>1. ~(reconciledAt'[i] = now /\ modeSince'[i] = now)
      BY <1>0, <1>1
    <3> QED
      BY <1>0, <1>7, <3>1, QuietStep
  <2>2. \/ Holds(i)'
        \/ /\ status'[i].cand > 0
           /\ reconciledAt'[i] + Skew[i] < status'[i].cand + HysteresisWindow
           /\ \E t \in SoleTimes(i) :
                status'[i].cand <= t + Lag + ReconcilePeriod + Skew[i]
    BY <1>2, <1>4, <1>5, <1>7, <2>1, OtherStepsServe
  <2> QED
    BY <1>4, <2>2 DEF LeadsOrWaits
<1> QED
  BY <1>6, <1>7

\* Where the GSLB arbitrates every eligible control plane, the one it settles on
\* leads within FailoverTime, whatever its rank, and whatever is lost, stopped
\* and recovered around it (election.py:118-119). It takes no TTL that covers the
\* way of a heartbeat: too short a TTL only forgets the others sooner.
THEOREM ArbitrationCompletes ==
  ASSUME EligibleArbitrated, WindowCovers
  PROVE  Spec => []SoleActiveLeads
<1>1. Init => LeaderStamps /\ SoleServed
  <2> SUFFICES ASSUME Init PROVE LeaderStamps /\ SoleServed
    OBVIOUS
  <2>1. /\ gslbSince = now /\ now \in Nat /\ Lag \in Nat
        /\ \A i \in CP : reconciledAt[i] = now
    BY LagNat, SetAssumption DEF Init
  <2>2. ASSUME NEW j \in CP, NEW t \in TagsOf(j) PROVE t.role # "leader"
    <3>1. /\ desired[j] = NoTags /\ cloud[j] = NoTags
          /\ \A k \in CP : observed[k][j] = NoTags
      BY DEF Init
    <3>2. t = NoTags
      BY <2>2, <3>1 DEF TagsOf
    <3> QED
      BY <3>2, TagsFacts
  <2>3. ASSUME NEW i \in CP PROVE ~(reconciledAt[i] > gslbSince + Lag)
    BY <2>1
  <2> QED
    BY <2>1, <2>2, <2>3 DEF LeaderStamps, SoleServed, OnItsWay, SoleTimes
<1>2. Takeover /\ LeaderStamps /\ SoleServed /\ [Next]_vars => (LeaderStamps /\ SoleServed)'
  <2> SUFFICES ASSUME Takeover, LeaderStamps, SoleServed, [Next]_vars
               PROVE  LeaderStamps' /\ SoleServed'
    OBVIOUS
  <2>1. ASSUME NEW i \in CP PROVE SoleActive(i)' => OnItsWay(i, SoleTimes(i))'
    <3>1. SoleActive(i) => OnItsWay(i, SoleTimes(i))
      BY DEF SoleServed
    <3> QED
      BY <3>1, StepSoleServed
  <2> QED
    BY <2>1, StepLeaderStamps DEF SoleServed
<1>3. Takeover /\ LeaderStamps /\ SoleServed => SoleActiveLeads
  <2> SUFFICES ASSUME Takeover, SoleServed, NEW i \in CP, SoleActive(i),
                      InModeFor(i) > FailoverTime, now - gslbSince > FailoverTime
               PROVE  Holds(i)
    BY DEF SoleActiveLeads, SoleActive
  <2>0. TypeOK /\ mode[i] = "up" /\ modeSince[i] \in Nat /\ gslbSince \in Nat
    BY TakeoverFacts DEF SoleActive, TypeOK
  <2>1. SoleTimes(i) \in SUBSET Nat /\ \A t \in SoleTimes(i) : now - t > FailoverTime
    BY <2>0 DEF SoleTimes, InModeFor
  <2>2. \A t \in SoleTimes(i) : reconciledAt[i] > t + Lag
    BY <2>0, <2>1, TimesPassed
  <2>3. LeadsOrWaits(i, SoleTimes(i))
    BY <2>2 DEF SoleServed, OnItsWay
  <2> QED
    BY <2>0, <2>1, <2>3, WaitIsOver
<1> QED
  BY <1>1, <1>2, <1>3, TakeoverInvariant, PTL DEF Spec
=============================================================================
