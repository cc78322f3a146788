------------------------ MODULE ResilienceSetProofs ------------------------
(***************************************************************************)
(* Proofs about ResilienceSet, for every set of control planes, every      *)
(* timing and every bounded skew: the type invariant, the inductive        *)
(* invariant of ResilienceSetInv, and the timing properties it implies.    *)
(***************************************************************************)
EXTENDS ResilienceSetInv, TLAPS

-----------------------------------------------------------------------------
(* The pure operators. *)

LEMMA AtLeastOneNat ==
  ASSUME NEW n \in Nat
  PROVE  AtLeastOne(n) \in Nat /\ AtLeastOne(n) >= 1 /\ AtLeastOne(n) >= n
BY DEF AtLeastOne

LEMMA SlackNat == ThrottleSlack \in Nat /\ ThrottleSlack >= Throttle - 1
BY AtLeastOneNat, HeartbeatAssumption DEF ThrottleSlack

LEMMA KnownAfterNat ==
  /\ ReconcilePeriod \in Nat /\ WriteLag \in Nat /\ PollPeriod \in Nat
  /\ KnownAfter = ReconcilePeriod + WriteLag + PollPeriod
  /\ KnownAfter \in Nat
BY SetAssumption DEF KnownAfter

\* What a reconcile writes is never older than the throttle allows
\* (main.py:213-216).
LEMMA EpochRecent ==
  ASSUME NEW prev \in Tags, NEW role, NEW t \in Nat, t > 0
  PROVE  /\ EpochToWrite(prev, role, t) \in Nat
         /\ EpochToWrite(prev, role, t) > 0
         /\ EpochToWrite(prev, role, t) >= t - ThrottleSlack
<1>1. prev.ts \in Nat \cup {Missing}
  BY DEF Tags
<1>2. CASE EpochToWrite(prev, role, t) = t
  BY <1>2, SlackNat
<1>3. CASE EpochToWrite(prev, role, t) # t
  <2>1. /\ EpochToWrite(prev, role, t) = prev.ts
        /\ AsInt(prev.ts) # 0
        /\ t - AsInt(prev.ts) < Throttle
    BY <1>3 DEF EpochToWrite
  <2>2. prev.ts # Missing /\ AsInt(prev.ts) = prev.ts
    BY <2>1 DEF AsInt
  <2>3. prev.ts \in Nat /\ prev.ts > 0 /\ t - prev.ts < Throttle
    BY <1>1, <2>1, <2>2
  <2> QED
    BY <2>1, <2>3, SlackNat, HeartbeatAssumption
<1> QED
  BY <1>2, <1>3

LEMMA DecideType ==
  ASSUME NEW me, NEW g, NEW peers, NEW prior \in Statuses, NEW t \in Nat
  PROVE  /\ Decide(me, g, peers, prior, t).role \in Roles
         /\ Decide(me, g, peers, prior, t).cand \in Nat
BY DEF Decide, Roles, Statuses

\* No decision leads past a peer that is seen alive and leading, whatever the
\* rank of the peer and the GSLB arbitration (election.py:104-120, 146-152).
LEMMA LeaderSeenYields ==
  ASSUME NEW me \in Nat, NEW g, NEW peers, NEW prior, NEW t,
         NEW j \in DOMAIN peers, j \in Nat, j # me,
         peers[j].readable, peers[j].fresh, peers[j].role = "leader"
  PROVE  Decide(me, g, peers, prior, t).role = "standby"
<1>1. ~MayLead(me, g, peers)
  <2>1. CASE j < me
    <3>1. j \in HigherIn(me, peers)
      BY <2>1 DEF HigherIn
    <3> QED
      BY <3>1 DEF MayLead, HigherAllDown, Blocks
  <2>2. CASE j > me
    BY <2>2 DEF MayLead, LowerLeader
  <2> QED
    BY <2>1, <2>2
<1> QED
  BY <1>1 DEF Decide

-----------------------------------------------------------------------------
(* Type correctness. *)

LEMMA TagsFacts ==
  /\ NoTags \in Tags /\ NoTags.role = "" /\ NoTags.ts = Missing
  /\ \A e \in Nat, r \in Roles : OwnTags(e, r) \in Tags
BY DEF NoTags, Tags, OwnTags, Roles, Missing

LEMMA LocalNowNat ==
  ASSUME TypeOK, NEW i \in CP
  PROVE  /\ LocalNow(i) \in Nat /\ LocalNow(i) >= now
         /\ LocalNow(i) = now + Skew[i]
         /\ Skew[i] \in Nat /\ Skew[i] <= MaxSkew
BY SetAssumption DEF TypeOK, LocalNow

\* The own heartbeat of a reconcile: well typed, recent, with the role decided.
LEMMA OwnHeartbeatFacts ==
  ASSUME TypeOK, now > 0, NEW i \in CP
  PROVE  /\ Decision(i).role \in Roles /\ Decision(i).cand \in Nat
         /\ OwnHeartbeat(i) \in Tags
         /\ OwnHeartbeat(i).role = Decision(i).role
         /\ OwnHeartbeat(i).ts \in Nat /\ OwnHeartbeat(i).ts > 0
         /\ OwnHeartbeat(i).ts >= LocalNow(i) - ThrottleSlack
<1>1. LocalNow(i) \in Nat /\ LocalNow(i) > 0
  BY LocalNowNat DEF TypeOK
<1>2. Decision(i).role \in Roles /\ Decision(i).cand \in Nat
  <2>1. status[i] \in Statuses
    BY DEF TypeOK
  <2> QED
    BY <1>1, <2>1, DecideType DEF Decision
<1>3. ThrottleTags(i) \in Tags
  BY TagsFacts DEF ThrottleTags, TypeOK
<1>4. /\ EpochToWrite(ThrottleTags(i), Decision(i).role, LocalNow(i)) \in Nat
      /\ EpochToWrite(ThrottleTags(i), Decision(i).role, LocalNow(i)) > 0
      /\ EpochToWrite(ThrottleTags(i), Decision(i).role, LocalNow(i))
           >= LocalNow(i) - ThrottleSlack
  BY <1>1, <1>3, EpochRecent
<1>5. OwnHeartbeat(i) =
        [ts |-> EpochToWrite(ThrottleTags(i), Decision(i).role, LocalNow(i)),
         role |-> Decision(i).role]
  BY DEF OwnHeartbeat, OwnTags
<1>6. OwnHeartbeat(i) \in Tags
  BY <1>2, <1>4, TagsFacts DEF OwnHeartbeat
<1> QED
  BY <1>2, <1>4, <1>5, <1>6

LEMMA InitTypeOK == Init => TypeOK /\ now > 0
<1> SUFFICES ASSUME Init PROVE TypeOK /\ now > 0
  OBVIOUS
<1>1. now \in Nat /\ now > 0
  BY SetAssumption DEF Init
<1>2. status \in [CP -> Statuses]
  BY DEF Init, NoStatus, Statuses, Roles
<1>3. desired \in [CP -> Tags] /\ cloud \in [CP -> Tags]
      /\ observed \in [CP -> [CP -> Tags]]
  BY TagsFacts DEF Init
<1> QED
  BY <1>1, <1>2, <1>3 DEF Init, TypeOK

LEMMA ReconcileTypeOK ==
  ASSUME TypeOK, now > 0, NEW i \in CP, Reconcile(i)
  PROVE  TypeOK'
<1>1. /\ Decision(i).role \in Roles /\ Decision(i).cand \in Nat
      /\ OwnHeartbeat(i) \in Tags /\ OwnHeartbeat(i).ts \in Nat
  BY OwnHeartbeatFacts
<1>2. [role |-> Decision(i).role, cand |-> Decision(i).cand,
       selfEpoch |-> OwnHeartbeat(i).ts] \in Statuses
  BY <1>1 DEF Statuses
<1>3. status' \in [CP -> Statuses]
  BY <1>2 DEF Reconcile, TypeOK
<1>4. desired' \in [CP -> Tags]
  BY <1>1 DEF Reconcile, TypeOK
<1>5. /\ reconciledAt' \in [CP -> Nat] /\ dirtyAt' \in [CP -> Nat]
      /\ polledAt' \in [CP -> [CP -> Nat]] /\ holdsSince' \in [CP -> Nat]
  BY DEF Reconcile, TypeOK
<1> QED
  BY <1>3, <1>4, <1>5 DEF Reconcile, TypeOK

LEMMA StepTypeOK == TypeOK /\ now > 0 /\ [Next]_vars => TypeOK'
<1> SUFFICES ASSUME TypeOK, now > 0, [Next]_vars PROVE TypeOK'
  OBVIOUS
<1>1. CASE UNCHANGED vars
  BY <1>1 DEF vars, state, timers, history, TypeOK
<1>2. CASE Tick
  BY <1>2 DEF Tick, state, timers, history, TypeOK
<1>3. ASSUME NEW i \in CP, Reconcile(i) PROVE TypeOK'
  BY <1>3, ReconcileTypeOK
<1>4. ASSUME NEW i \in CP, Publish(i) PROVE TypeOK'
  BY <1>4 DEF Publish, timers, history, TypeOK
<1>5. ASSUME NEW i \in CP, NEW j \in CP, Poll(i, j) PROVE TypeOK'
  BY <1>5 DEF Poll, history, TypeOK
<1>6. ASSUME NEW i \in CP, Crash(i) PROVE TypeOK'
  BY <1>6 DEF Crash, state, timers, TypeOK
<1>7. ASSUME NEW i \in CP, Recover(i) PROVE TypeOK'
  BY <1>7 DEF Recover, state, TypeOK
<1>8. ASSUME NEW i \in CP, Pause(i) PROVE TypeOK'
  BY <1>8 DEF Pause, state, timers, TypeOK
<1>9. ASSUME NEW i \in CP, Resume(i) PROVE TypeOK'
  BY <1>9 DEF Resume, state, TypeOK
<1>10. ASSUME NEW i \in CP, GslbChange(i) PROVE TypeOK'
  <2>1. gslb' \in [CP -> GslbStates]
    BY <1>10 DEF GslbChange, TypeOK
  <2> QED
    BY <1>10, <2>1 DEF GslbChange, state, timers, TypeOK
<1> QED
  BY <1>1, <1>2, <1>3, <1>4, <1>5, <1>6, <1>7, <1>8, <1>9, <1>10 DEF Next

\* The clock never leaves the positive numbers.
LEMMA StepClock == TypeOK /\ now > 0 /\ [Next]_vars => now' > 0
BY DEF TypeOK, Next, vars, Tick, Reconcile, Publish, Poll, Crash, Recover,
       Pause, Resume, GslbChange

\* Every reachable state is well typed, whatever the set and its timing.
THEOREM TypeCorrect == Spec => []TypeOK
<1>1. Init => TypeOK /\ now > 0
  BY InitTypeOK
<1>2. TypeOK /\ now > 0 /\ [Next]_vars => TypeOK' /\ now' > 0
  BY StepTypeOK, StepClock
<1>3. (TypeOK /\ now > 0)' <=> TypeOK' /\ now' > 0
  OBVIOUS
<1> QED
  BY <1>1, <1>2, <1>3, PTL DEF Spec

-----------------------------------------------------------------------------
(* The inductive invariant: one lemma per conjunct, one step per action. *)

(* What each action does to the control plane k, variable by variable. *)

LEMMA TickEffect ==
  ASSUME Tick
  PROVE  /\ now' = now + 1 /\ \A k \in CP : NotDue(k)
         /\ mode' = mode /\ gslb' = gslb /\ status' = status
         /\ desired' = desired /\ cloud' = cloud /\ observed' = observed
         /\ reconciledAt' = reconciledAt /\ dirtyAt' = dirtyAt
         /\ polledAt' = polledAt /\ modeSince' = modeSince
         /\ holdsSince' = holdsSince
BY DEF Tick, state, timers, history

LEMMA ReconcileEffect ==
  ASSUME TypeOK, now > 0, NEW a \in CP, Reconcile(a), NEW k \in CP
  PROVE  /\ now' = now /\ mode' = mode /\ cloud' = cloud /\ observed' = observed
         /\ modeSince' = modeSince /\ mode[a] = "up"
         /\ k # a =>
              /\ status'[k] = status[k] /\ desired'[k] = desired[k]
              /\ reconciledAt'[k] = reconciledAt[k] /\ dirtyAt'[k] = dirtyAt[k]
              /\ polledAt'[k] = polledAt[k] /\ holdsSince'[k] = holdsSince[k]
         /\ k = a =>
              /\ status'[k].role = Decision(k).role
              /\ status'[k].role \in Roles
              /\ desired'[k] = OwnHeartbeat(k)
              /\ reconciledAt'[k] = now
              /\ desired[k] = cloud[k] => dirtyAt'[k] = now
              /\ desired[k] # cloud[k] => dirtyAt'[k] = dirtyAt[k]
              /\ Composed(k) => polledAt'[k] = polledAt[k]
              /\ ~Composed(k) => \A j \in CP : polledAt'[k][j] = now
              /\ status[k].role = "leader" => holdsSince'[k] = holdsSince[k]
              /\ status[k].role # "leader" => holdsSince'[k] = now
<1>1. Decision(k).role \in Roles
  BY OwnHeartbeatFacts
<1> QED
  BY <1>1 DEF Reconcile, TypeOK

LEMMA PublishEffect ==
  ASSUME TypeOK, NEW a \in CP, Publish(a), NEW k \in CP
  PROVE  /\ now' = now /\ mode' = mode /\ status' = status
         /\ desired' = desired /\ observed' = observed
         /\ reconciledAt' = reconciledAt /\ dirtyAt' = dirtyAt
         /\ polledAt' = polledAt /\ modeSince' = modeSince
         /\ holdsSince' = holdsSince
         /\ mode[a] # "down"
         /\ cloud'[k] = IF k = a THEN desired[k] ELSE cloud[k]
BY DEF Publish, timers, history, TypeOK

LEMMA PollEffect ==
  ASSUME TypeOK, NEW a \in CP, NEW b \in CP, Poll(a, b), NEW k \in CP, NEW l \in CP
  PROVE  /\ now' = now /\ mode' = mode /\ status' = status
         /\ desired' = desired /\ cloud' = cloud
         /\ reconciledAt' = reconciledAt /\ dirtyAt' = dirtyAt
         /\ modeSince' = modeSince /\ holdsSince' = holdsSince
         /\ mode[a] # "down" /\ Composed(a)
         /\ k = a /\ l = b => observed'[k][l] = cloud[l] /\ polledAt'[k][l] = now
         /\ k # a \/ l # b => /\ observed'[k][l] = observed[k][l]
                              /\ polledAt'[k][l] = polledAt[k][l]
BY DEF Poll, history, TypeOK

LEMMA CrashEffect ==
  ASSUME TypeOK, NEW a \in CP, Crash(a), NEW k \in CP
  PROVE  /\ now' = now /\ status' = status
         /\ desired' = desired /\ cloud' = cloud /\ observed' = observed
         /\ reconciledAt' = reconciledAt /\ dirtyAt' = dirtyAt
         /\ polledAt' = polledAt /\ holdsSince' = holdsSince
         /\ k = a => mode'[k] = "down" /\ modeSince'[k] = now
         /\ k # a => mode'[k] = mode[k] /\ modeSince'[k] = modeSince[k]
BY DEF Crash, state, timers, TypeOK

LEMMA RecoverEffect ==
  ASSUME TypeOK, NEW a \in CP, Recover(a), NEW k \in CP
  PROVE  /\ now' = now /\ status' = status
         /\ desired' = desired /\ cloud' = cloud /\ observed' = observed
         /\ k = a =>
              /\ mode'[k] = "up" /\ modeSince'[k] = now
              /\ reconciledAt'[k] = now /\ dirtyAt'[k] = now
              /\ holdsSince'[k] = now /\ \A j \in CP : polledAt'[k][j] = now
         /\ k # a =>
              /\ mode'[k] = mode[k] /\ modeSince'[k] = modeSince[k]
              /\ reconciledAt'[k] = reconciledAt[k] /\ dirtyAt'[k] = dirtyAt[k]
              /\ holdsSince'[k] = holdsSince[k] /\ polledAt'[k] = polledAt[k]
BY DEF Recover, state, TypeOK

LEMMA PauseEffect ==
  ASSUME TypeOK, NEW a \in CP, Pause(a), NEW k \in CP
  PROVE  /\ now' = now /\ status' = status
         /\ desired' = desired /\ cloud' = cloud /\ observed' = observed
         /\ reconciledAt' = reconciledAt /\ dirtyAt' = dirtyAt
         /\ polledAt' = polledAt /\ holdsSince' = holdsSince
         /\ mode[a] = "up" /\ a \in MayPause
         /\ k = a => mode'[k] = "paused" /\ modeSince'[k] = now
         /\ k # a => mode'[k] = mode[k] /\ modeSince'[k] = modeSince[k]
BY DEF Pause, state, timers, TypeOK

LEMMA ResumeEffect ==
  ASSUME TypeOK, NEW a \in CP, Resume(a), NEW k \in CP
  PROVE  /\ now' = now /\ status' = status
         /\ desired' = desired /\ cloud' = cloud /\ observed' = observed
         /\ dirtyAt' = dirtyAt /\ polledAt' = polledAt /\ holdsSince' = holdsSince
         /\ mode[a] = "paused"
         /\ k = a => /\ mode'[k] = "up" /\ modeSince'[k] = now
                     /\ reconciledAt'[k] = now
         /\ k # a => /\ mode'[k] = mode[k] /\ modeSince'[k] = modeSince[k]
                     /\ reconciledAt'[k] = reconciledAt[k]
BY DEF Resume, state, TypeOK

\* Every variable the invariant reads.
core == <<now, mode, status, desired, cloud, observed, reconciledAt, dirtyAt,
          polledAt, modeSince, holdsSince>>

LEMMA GslbChangeEffect == ASSUME NEW a \in CP, GslbChange(a) PROVE core' = core
BY DEF GslbChange, state, timers, core

LEMMA StutterEffect == ASSUME UNCHANGED vars PROVE core' = core
BY DEF vars, state, timers, history, core

LEMMA TagTypes ==
  ASSUME TypeOK, NEW k \in CP
  PROVE  /\ desired[k].ts \in Int /\ cloud[k].ts \in Int
         /\ \A j \in CP : observed[k][j] \in Tags /\ observed[k][j].ts \in Int
<1>1. desired[k] \in Tags /\ cloud[k] \in Tags /\ \A j \in CP : observed[k][j] \in Tags
  BY DEF TypeOK
<1>2. \A t \in Tags : t.ts \in Int
  <2> SUFFICES ASSUME NEW t \in Tags PROVE t.ts \in Int
    OBVIOUS
  <2>1. t.ts \in Nat \cup {Missing}
    BY DEF Tags
  <2> QED
    BY <2>1 DEF Missing
<1> QED
  BY <1>1, <1>2

LEMMA NumberTypes ==
  ASSUME TypeOK, NEW k \in CP
  PROVE  /\ modeSince[k] \in Nat /\ holdsSince[k] \in Nat /\ now \in Nat
         /\ reconciledAt[k] \in Nat /\ dirtyAt[k] \in Nat
         /\ \A j \in CP : polledAt[k][j] \in Nat
BY DEF TypeOK

LEMMA StepInPast ==
  ASSUME Travel, [Next]_vars, NEW k \in CP
  PROVE  InPast(k)'
<1>0. TypeOK /\ now > 0 /\ now \in Nat
  BY DEF Travel, TimersOK, TypeOK
<1>k. InPast(k)
  BY DEF Travel, TimersOK
<1>n. /\ modeSince[k] \in Nat /\ holdsSince[k] \in Nat
      /\ reconciledAt[k] \in Nat /\ dirtyAt[k] \in Nat
      /\ \A j \in CP : polledAt[k][j] \in Nat
  BY <1>0, NumberTypes
<1>1. CASE core' = core
  BY <1>1, <1>k DEF core, InPast
<1>2. CASE Tick
  BY <1>0, <1>2, <1>k, <1>n, TickEffect DEF InPast, NotDue
<1>3. ASSUME NEW a \in CP, Reconcile(a) PROVE InPast(k)'
  BY <1>0, <1>3, <1>k, <1>n, ReconcileEffect DEF InPast
<1>4. ASSUME NEW a \in CP, Publish(a) PROVE InPast(k)'
  BY <1>0, <1>4, <1>k, <1>n, PublishEffect DEF InPast
<1>5. ASSUME NEW a \in CP, NEW b \in CP, Poll(a, b) PROVE InPast(k)'
  BY <1>0, <1>5, <1>k, <1>n, PollEffect DEF InPast
<1>6. ASSUME NEW a \in CP, Crash(a) PROVE InPast(k)'
  BY <1>0, <1>6, <1>k, <1>n, CrashEffect DEF InPast
<1>7. ASSUME NEW a \in CP, Recover(a) PROVE InPast(k)'
  BY <1>0, <1>7, <1>k, <1>n, RecoverEffect DEF InPast
<1>8. ASSUME NEW a \in CP, Pause(a) PROVE InPast(k)'
  BY <1>0, <1>8, <1>k, <1>n, PauseEffect DEF InPast
<1>9. ASSUME NEW a \in CP, Resume(a) PROVE InPast(k)'
  BY <1>0, <1>9, <1>k, <1>n, ResumeEffect DEF InPast
<1> QED
  BY <1>1, <1>2, <1>3, <1>4, <1>5, <1>6, <1>7, <1>8, <1>9,
     GslbChangeEffect, StutterEffect DEF Next

LEMMA StepReconcileTimely ==
  ASSUME Travel, [Next]_vars, NEW k \in CP
  PROVE  ReconcileTimely(k)'
<1>0. TypeOK /\ now > 0 /\ now \in Nat
  BY DEF Travel, TimersOK, TypeOK
<1>k. ReconcileTimely(k) /\ InPast(k)
  BY DEF Travel, TimersOK
<1>n. modeSince[k] \in Nat /\ reconciledAt[k] \in Nat /\ ReconcilePeriod \in Nat
  BY <1>0, NumberTypes, KnownAfterNat
<1>1. CASE core' = core
  BY <1>1, <1>k DEF core, ReconcileTimely
<1>2. CASE Tick
  BY <1>0, <1>2, <1>k, <1>n, TickEffect DEF ReconcileTimely, NotDue
<1>3. ASSUME NEW a \in CP, Reconcile(a) PROVE ReconcileTimely(k)'
  BY <1>0, <1>3, <1>k, <1>n, ReconcileEffect DEF ReconcileTimely, InPast
<1>4. ASSUME NEW a \in CP, Publish(a) PROVE ReconcileTimely(k)'
  BY <1>0, <1>4, <1>k, <1>n, PublishEffect DEF ReconcileTimely
<1>5. ASSUME NEW a \in CP, NEW b \in CP, Poll(a, b) PROVE ReconcileTimely(k)'
  BY <1>0, <1>5, <1>k, <1>n, PollEffect DEF ReconcileTimely
<1>6. ASSUME NEW a \in CP, Crash(a) PROVE ReconcileTimely(k)'
  BY <1>0, <1>6, <1>k, <1>n, CrashEffect DEF ReconcileTimely
<1>7. ASSUME NEW a \in CP, Recover(a) PROVE ReconcileTimely(k)'
  BY <1>0, <1>7, <1>k, <1>n, RecoverEffect DEF ReconcileTimely
<1>8. ASSUME NEW a \in CP, Pause(a) PROVE ReconcileTimely(k)'
  BY <1>0, <1>8, <1>k, <1>n, PauseEffect DEF ReconcileTimely
<1>9. ASSUME NEW a \in CP, Resume(a) PROVE ReconcileTimely(k)'
  BY <1>0, <1>9, <1>k, <1>n, ResumeEffect DEF ReconcileTimely
<1> QED
  BY <1>1, <1>2, <1>3, <1>4, <1>5, <1>6, <1>7, <1>8, <1>9,
     GslbChangeEffect, StutterEffect DEF Next

LEMMA StepNotYetComposed ==
  ASSUME Travel, [Next]_vars, NEW k \in CP
  PROVE  NotYetComposed(k)'
<1>0. TypeOK /\ now > 0 /\ now \in Nat
  BY DEF Travel, TimersOK, TypeOK
<1>k. NotYetComposed(k)
  BY DEF Travel, TimersOK
<1>n. modeSince[k] \in Nat
  BY <1>0, NumberTypes
<1>1. CASE core' = core
  BY <1>1, <1>k DEF core, NotYetComposed, Composed
<1>2. CASE Tick
  BY <1>0, <1>2, <1>k, TickEffect DEF NotYetComposed, Composed, NotDue
<1>3. ASSUME NEW a \in CP, Reconcile(a) PROVE NotYetComposed(k)'
  BY <1>0, <1>3, <1>k, ReconcileEffect DEF NotYetComposed, Composed, Roles
<1>4. ASSUME NEW a \in CP, Publish(a) PROVE NotYetComposed(k)'
  BY <1>0, <1>4, <1>k, PublishEffect DEF NotYetComposed, Composed
<1>5. ASSUME NEW a \in CP, NEW b \in CP, Poll(a, b) PROVE NotYetComposed(k)'
  BY <1>0, <1>5, <1>k, PollEffect DEF NotYetComposed, Composed
<1>6. ASSUME NEW a \in CP, Crash(a) PROVE NotYetComposed(k)'
  BY <1>0, <1>6, <1>k, CrashEffect DEF NotYetComposed, Composed
<1>7. ASSUME NEW a \in CP, Recover(a) PROVE NotYetComposed(k)'
  BY <1>0, <1>7, <1>k, RecoverEffect DEF NotYetComposed, Composed
<1>8. ASSUME NEW a \in CP, Pause(a) PROVE NotYetComposed(k)'
  BY <1>0, <1>8, <1>k, PauseEffect DEF NotYetComposed, Composed
<1>9. ASSUME NEW a \in CP, Resume(a) PROVE NotYetComposed(k)'
  BY <1>0, <1>9, <1>k, ResumeEffect DEF NotYetComposed, Composed
<1> QED
  BY <1>1, <1>2, <1>3, <1>4, <1>5, <1>6, <1>7, <1>8, <1>9,
     GslbChangeEffect, StutterEffect DEF Next

LEMMA StepPublishTimely ==
  ASSUME Travel, [Next]_vars, NEW k \in CP
  PROVE  PublishTimely(k)'
<1>0. TypeOK /\ now > 0 /\ now \in Nat
  BY DEF Travel, TimersOK, TypeOK
<1>k. PublishTimely(k)
  BY DEF Travel, TimersOK
<1>n. dirtyAt[k] \in Nat /\ WriteLag \in Nat
  BY <1>0, NumberTypes, KnownAfterNat
<1>1. CASE core' = core
  BY <1>1, <1>k DEF core, PublishTimely
<1>2. CASE Tick
  BY <1>0, <1>2, <1>k, <1>n, TickEffect DEF PublishTimely, NotDue
<1>3. ASSUME NEW a \in CP, Reconcile(a) PROVE PublishTimely(k)'
  BY <1>0, <1>3, <1>k, <1>n, ReconcileEffect DEF PublishTimely
<1>4. ASSUME NEW a \in CP, Publish(a) PROVE PublishTimely(k)'
  BY <1>0, <1>4, <1>k, <1>n, PublishEffect DEF PublishTimely
<1>5. ASSUME NEW a \in CP, NEW b \in CP, Poll(a, b) PROVE PublishTimely(k)'
  BY <1>0, <1>5, <1>k, <1>n, PollEffect DEF PublishTimely
<1>6. ASSUME NEW a \in CP, Crash(a) PROVE PublishTimely(k)'
  BY <1>0, <1>6, <1>k, <1>n, CrashEffect DEF PublishTimely
<1>7. ASSUME NEW a \in CP, Recover(a) PROVE PublishTimely(k)'
  BY <1>0, <1>7, <1>k, <1>n, RecoverEffect DEF PublishTimely
<1>8. ASSUME NEW a \in CP, Pause(a) PROVE PublishTimely(k)'
  BY <1>0, <1>8, <1>k, <1>n, PauseEffect DEF PublishTimely
<1>9. ASSUME NEW a \in CP, Resume(a) PROVE PublishTimely(k)'
  BY <1>0, <1>9, <1>k, <1>n, ResumeEffect DEF PublishTimely
<1> QED
  BY <1>1, <1>2, <1>3, <1>4, <1>5, <1>6, <1>7, <1>8, <1>9,
     GslbChangeEffect, StutterEffect DEF Next

LEMMA StepPollTimely ==
  ASSUME Travel, [Next]_vars, NEW k \in CP, NEW l \in CP
  PROVE  PollTimely(k, l)'
<1>0. TypeOK /\ now > 0 /\ now \in Nat
  BY DEF Travel, TimersOK, TypeOK
<1>k. PollTimely(k, l)
  BY DEF Travel, TimersOK
<1>n. polledAt[k][l] \in Nat /\ PollPeriod \in Nat
  BY <1>0, NumberTypes, KnownAfterNat
<1>1. CASE core' = core
  BY <1>1, <1>k DEF core, PollTimely, Composed
<1>2. CASE Tick
  <2>1. mode[k] # "down" /\ Composed(k) => now < polledAt[k][l] + PollPeriod
    BY <1>2, TickEffect DEF NotDue
  <2>2. /\ now' = now + 1 /\ mode' = mode /\ polledAt' = polledAt
        /\ Composed(k)' <=> Composed(k)
    BY <1>2, TickEffect DEF Composed
  <2> QED
    BY <1>0, <1>n, <2>1, <2>2 DEF PollTimely
<1>3. ASSUME NEW a \in CP, Reconcile(a) PROVE PollTimely(k, l)'
  <2>1. CASE k # a
    BY <1>0, <1>3, <1>k, <2>1, ReconcileEffect DEF PollTimely, Composed
  <2>2. CASE k = a /\ Composed(k)
    BY <1>0, <1>3, <1>k, <2>2, ReconcileEffect DEF PollTimely
  <2>3. CASE k = a /\ ~Composed(k)
    <3>1. now' = now /\ polledAt'[k][l] = now
      BY <1>0, <1>3, <2>3, ReconcileEffect
    <3> QED
      BY <1>0, <1>n, <3>1 DEF PollTimely
  <2> QED
    BY <2>1, <2>2, <2>3
<1>4. ASSUME NEW a \in CP, Publish(a) PROVE PollTimely(k, l)'
  BY <1>0, <1>4, <1>k, <1>n, PublishEffect DEF PollTimely, Composed
<1>5. ASSUME NEW a \in CP, NEW b \in CP, Poll(a, b) PROVE PollTimely(k, l)'
  <2>1. /\ now' = now /\ mode' = mode
        /\ Composed(k)' <=> Composed(k)
        /\ polledAt'[k][l] = now \/ polledAt'[k][l] = polledAt[k][l]
    BY <1>0, <1>5, PollEffect DEF Composed
  <2> QED
    BY <1>0, <1>k, <1>n, <2>1 DEF PollTimely
<1>6. ASSUME NEW a \in CP, Crash(a) PROVE PollTimely(k, l)'
  BY <1>0, <1>6, <1>k, <1>n, CrashEffect DEF PollTimely, Composed
<1>7. ASSUME NEW a \in CP, Recover(a) PROVE PollTimely(k, l)'
  <2>1. CASE k # a
    BY <1>0, <1>7, <1>k, <2>1, RecoverEffect DEF PollTimely, Composed
  <2>2. CASE k = a
    <3>1. now' = now /\ polledAt'[k][l] = now
      BY <1>0, <1>7, <2>2, RecoverEffect
    <3> QED
      BY <1>0, <1>n, <3>1 DEF PollTimely
  <2> QED
    BY <2>1, <2>2
<1>8. ASSUME NEW a \in CP, Pause(a) PROVE PollTimely(k, l)'
  BY <1>0, <1>8, <1>k, <1>n, PauseEffect DEF PollTimely, Composed
<1>9. ASSUME NEW a \in CP, Resume(a) PROVE PollTimely(k, l)'
  BY <1>0, <1>9, <1>k, <1>n, ResumeEffect DEF PollTimely, Composed
<1> QED
  BY <1>1, <1>2, <1>3, <1>4, <1>5, <1>6, <1>7, <1>8, <1>9,
     GslbChangeEffect, StutterEffect DEF Next

LEMMA StepTimersOK == Travel /\ [Next]_vars => TimersOK'
<1>1. Travel => TypeOK /\ now > 0
  BY DEF Travel, TimersOK
<1> QED
  BY <1>1, StepClock, StepInPast, StepReconcileTimely, StepNotYetComposed,
     StepPublishTimely, StepPollTimely DEF TimersOK

LEMMA StepOwnTagsOK ==
  ASSUME Travel, [Next]_vars, NEW k \in CP
  PROVE  OwnTagsOK(k)'
<1>0. TypeOK /\ now > 0 /\ now \in Nat
  BY DEF Travel, TimersOK, TypeOK
<1>k. OwnTagsOK(k)
  BY DEF Travel, TimersOK
<1>1. CASE core' = core
  BY <1>1, <1>k DEF core, OwnTagsOK
<1>2. CASE Tick
  BY <1>0, <1>2, <1>k, TickEffect DEF OwnTagsOK, NotDue
<1>3. ASSUME NEW a \in CP, Reconcile(a) PROVE OwnTagsOK(k)'
  <2>1. CASE k # a
    BY <1>0, <1>3, <1>k, <2>1, ReconcileEffect DEF OwnTagsOK
  <2>2. CASE k = a
    <3>1. /\ desired'[k] = OwnHeartbeat(k) /\ status'[k].role = Decision(k).role
      BY <1>0, <1>3, <2>2, ReconcileEffect
    <3>2. OwnHeartbeat(k).role = Decision(k).role
      BY <1>0, OwnHeartbeatFacts
    <3> QED
      BY <3>1, <3>2 DEF OwnTagsOK
  <2> QED
    BY <2>1, <2>2
<1>4. ASSUME NEW a \in CP, Publish(a) PROVE OwnTagsOK(k)'
  BY <1>0, <1>4, <1>k, PublishEffect DEF OwnTagsOK
<1>5. ASSUME NEW a \in CP, NEW b \in CP, Poll(a, b) PROVE OwnTagsOK(k)'
  BY <1>0, <1>5, <1>k, PollEffect DEF OwnTagsOK
<1>6. ASSUME NEW a \in CP, Crash(a) PROVE OwnTagsOK(k)'
  BY <1>0, <1>6, <1>k, CrashEffect DEF OwnTagsOK
<1>7. ASSUME NEW a \in CP, Recover(a) PROVE OwnTagsOK(k)'
  BY <1>0, <1>7, <1>k, RecoverEffect DEF OwnTagsOK
<1>8. ASSUME NEW a \in CP, Pause(a) PROVE OwnTagsOK(k)'
  BY <1>0, <1>8, <1>k, PauseEffect DEF OwnTagsOK
<1>9. ASSUME NEW a \in CP, Resume(a) PROVE OwnTagsOK(k)'
  BY <1>0, <1>9, <1>k, ResumeEffect DEF OwnTagsOK
<1> QED
  BY <1>1, <1>2, <1>3, <1>4, <1>5, <1>6, <1>7, <1>8, <1>9,
     GslbChangeEffect, StutterEffect DEF Next

LEMMA StepDesiredFresh ==
  ASSUME Travel, [Next]_vars, NEW k \in CP
  PROVE  DesiredFresh(k)'
<1>0. TypeOK /\ now > 0 /\ now \in Nat
  BY DEF Travel, TimersOK, TypeOK
<1>k. DesiredFresh(k) /\ InPast(k)
  BY DEF Travel, TimersOK
<1>n. modeSince[k] \in Nat /\ reconciledAt[k] \in Nat
  BY <1>0, NumberTypes
<1>1. CASE core' = core
  BY <1>1, <1>k DEF core, DesiredFresh
<1>2. CASE Tick
  BY <1>0, <1>2, <1>k, <1>n, TickEffect DEF DesiredFresh, NotDue
<1>3. ASSUME NEW a \in CP, Reconcile(a) PROVE DesiredFresh(k)'
  <2>1. CASE k # a
    BY <1>0, <1>3, <1>k, <2>1, ReconcileEffect DEF DesiredFresh
  <2>2. CASE k = a
    <3>1. desired'[k] = OwnHeartbeat(k) /\ reconciledAt'[k] = now
      BY <1>0, <1>3, <2>2, ReconcileEffect
    <3>2. WrittenSince(OwnHeartbeat(k), now + Skew[k] - ThrottleSlack)
      <4>1. /\ OwnHeartbeat(k).ts \in Nat
            /\ OwnHeartbeat(k).ts > 0
            /\ OwnHeartbeat(k).ts >= LocalNow(k) - ThrottleSlack
            /\ LocalNow(k) = now + Skew[k] /\ Skew[k] \in Nat
            /\ ThrottleSlack \in Nat
        BY <1>0, OwnHeartbeatFacts, LocalNowNat, SlackNat
      <4> QED
        BY <1>0, <4>1 DEF WrittenSince
    <3> QED
      BY <3>1, <3>2 DEF DesiredFresh
  <2> QED
    BY <2>1, <2>2
<1>4. ASSUME NEW a \in CP, Publish(a) PROVE DesiredFresh(k)'
  BY <1>0, <1>4, <1>k, <1>n, PublishEffect DEF DesiredFresh
<1>5. ASSUME NEW a \in CP, NEW b \in CP, Poll(a, b) PROVE DesiredFresh(k)'
  BY <1>0, <1>5, <1>k, <1>n, PollEffect DEF DesiredFresh
<1>6. ASSUME NEW a \in CP, Crash(a) PROVE DesiredFresh(k)'
  BY <1>0, <1>6, <1>k, <1>n, CrashEffect DEF DesiredFresh
<1>7. ASSUME NEW a \in CP, Recover(a) PROVE DesiredFresh(k)'
  BY <1>0, <1>7, <1>k, <1>n, RecoverEffect DEF DesiredFresh
<1>8. ASSUME NEW a \in CP, Pause(a) PROVE DesiredFresh(k)'
  BY <1>0, <1>8, <1>k, <1>n, PauseEffect DEF DesiredFresh
<1>9. ASSUME NEW a \in CP, Resume(a) PROVE DesiredFresh(k)'
  BY <1>0, <1>9, <1>k, <1>n, ResumeEffect DEF DesiredFresh
<1> QED
  BY <1>1, <1>2, <1>3, <1>4, <1>5, <1>6, <1>7, <1>8, <1>9,
     GslbChangeEffect, StutterEffect DEF Next

\* What the cloud holds of a control plane that has been up for a while: the
\* last desired heartbeat, or the one before it.
LEMMA CloudFreshNow ==
  ASSUME Travel, NEW k \in CP, mode[k] = "up",
         now > modeSince[k] + ReconcilePeriod + WriteLag
  PROVE  WrittenSince(cloud[k],
           now + Skew[k] - ThrottleSlack - ReconcilePeriod - WriteLag)
<1>0. /\ TypeOK /\ now \in Nat /\ Skew[k] \in Nat /\ ThrottleSlack \in Nat
      /\ ReconcilePeriod \in Nat /\ WriteLag \in Nat
      /\ modeSince[k] \in Nat /\ reconciledAt[k] \in Nat /\ dirtyAt[k] \in Nat
  BY NumberTypes, LocalNowNat, SlackNat, KnownAfterNat DEF Travel
<1>1. /\ ReconcileTimely(k) /\ PublishTimely(k)
      /\ DesiredFresh(k) /\ CloudFresh(k)
  BY DEF Travel, TimersOK
<1>2. now <= reconciledAt[k] + ReconcilePeriod
  BY <1>1 DEF ReconcileTimely
<1>ts. cloud[k].ts \in Int /\ desired[k].ts \in Int
  BY <1>0, TagTypes
<1>3. CASE desired[k] = cloud[k]
  <2>1. reconciledAt[k] > modeSince[k]
    BY <1>0, <1>2
  <2>2. WrittenSince(desired[k], reconciledAt[k] + Skew[k] - ThrottleSlack)
    BY <1>1, <2>1 DEF DesiredFresh
  <2> QED
    BY <1>0, <1>2, <1>3, <1>ts, <2>2 DEF WrittenSince
<1>4. CASE desired[k] # cloud[k]
  <2>1. now <= dirtyAt[k] + WriteLag
    BY <1>1, <1>4 DEF PublishTimely
  <2>2. dirtyAt[k] > modeSince[k] + ReconcilePeriod
    BY <1>0, <2>1
  <2>3. WrittenSince(cloud[k],
          dirtyAt[k] + Skew[k] - ThrottleSlack - ReconcilePeriod)
    BY <1>1, <1>4, <2>2 DEF CloudFresh
  <2> QED
    BY <1>0, <1>ts, <2>1, <2>3 DEF WrittenSince
<1> QED
  BY <1>3, <1>4

\* And its role, once it has held ["*"] for the write lag.
LEMMA CloudRoleNow ==
  ASSUME Travel, NEW k \in CP, Holds(k), now > holdsSince[k] + WriteLag
  PROVE  cloud[k].role = "leader"
<1>0. /\ TypeOK /\ now \in Nat /\ WriteLag \in Nat
      /\ holdsSince[k] \in Nat /\ dirtyAt[k] \in Nat
  BY NumberTypes, KnownAfterNat DEF Travel
<1>1. PublishTimely(k) /\ CloudRole(k) /\ OwnTagsOK(k)
  BY DEF Travel, TimersOK
<1>2. CASE desired[k] = cloud[k]
  BY <1>1, <1>2 DEF OwnTagsOK, Holds
<1>3. CASE desired[k] # cloud[k]
  <2>1. now <= dirtyAt[k] + WriteLag
    BY <1>1, <1>3 DEF PublishTimely, Holds
  <2>2. dirtyAt[k] > holdsSince[k]
    BY <1>0, <2>1
  <2> QED
    BY <1>1, <1>3, <2>2 DEF CloudRole
<1> QED
  BY <1>2, <1>3

LEMMA StepCloudFresh ==
  ASSUME Travel, [Next]_vars, NEW k \in CP
  PROVE  CloudFresh(k)'
<1>0. TypeOK /\ now > 0 /\ now \in Nat
  BY DEF Travel, TimersOK, TypeOK
<1>k. CloudFresh(k) /\ DesiredFresh(k) /\ InPast(k) /\ ReconcileTimely(k)
  BY DEF Travel, TimersOK
<1>n. /\ modeSince[k] \in Nat /\ reconciledAt[k] \in Nat /\ dirtyAt[k] \in Nat
      /\ ReconcilePeriod \in Nat /\ Skew[k] \in Nat /\ ThrottleSlack \in Nat
      /\ cloud[k].ts \in Int
  BY <1>0, NumberTypes, LocalNowNat, SlackNat, KnownAfterNat, TagTypes
<1>1. CASE core' = core
  BY <1>1, <1>k DEF core, CloudFresh
<1>2. CASE Tick
  BY <1>0, <1>2, <1>k, <1>n, TickEffect DEF CloudFresh, NotDue
<1>3. ASSUME NEW a \in CP, Reconcile(a) PROVE CloudFresh(k)'
  <2>1. CASE k # a
    BY <1>0, <1>3, <1>k, <2>1, ReconcileEffect DEF CloudFresh
  <2>2. CASE k = a /\ desired[k] # cloud[k]
    BY <1>0, <1>3, <1>k, <2>2, ReconcileEffect DEF CloudFresh
  <2>3. CASE k = a /\ desired[k] = cloud[k]
    <3>1. /\ dirtyAt'[k] = now /\ cloud' = cloud /\ modeSince' = modeSince
          /\ mode[k] = "up"
      BY <1>0, <1>3, <2>3, ReconcileEffect
    <3>2. now <= reconciledAt[k] + ReconcilePeriod
      BY <1>k, <3>1 DEF ReconcileTimely
    <3>3. ASSUME now > modeSince[k] + ReconcilePeriod
          PROVE  WrittenSince(cloud[k],
                   now + Skew[k] - ThrottleSlack - ReconcilePeriod)
      <4>1. reconciledAt[k] > modeSince[k]
        BY <1>0, <1>n, <3>2, <3>3
      <4>2. WrittenSince(cloud[k], reconciledAt[k] + Skew[k] - ThrottleSlack)
        BY <1>k, <2>3, <3>1, <4>1 DEF DesiredFresh
      <4> QED
        BY <1>0, <1>n, <3>2, <4>2 DEF WrittenSince
    <3> QED
      BY <3>1, <3>3 DEF CloudFresh
  <2> QED
    BY <2>1, <2>2, <2>3
<1>4. ASSUME NEW a \in CP, Publish(a) PROVE CloudFresh(k)'
  BY <1>0, <1>4, <1>k, PublishEffect DEF CloudFresh
<1>5. ASSUME NEW a \in CP, NEW b \in CP, Poll(a, b) PROVE CloudFresh(k)'
  BY <1>0, <1>5, <1>k, <1>n, PollEffect DEF CloudFresh
<1>6. ASSUME NEW a \in CP, Crash(a) PROVE CloudFresh(k)'
  BY <1>0, <1>6, <1>k, <1>n, CrashEffect DEF CloudFresh
<1>7. ASSUME NEW a \in CP, Recover(a) PROVE CloudFresh(k)'
  <2>1. CASE k # a
    BY <1>0, <1>7, <1>k, <2>1, RecoverEffect DEF CloudFresh
  <2>2. CASE k = a
    <3>1. dirtyAt'[k] = now /\ modeSince'[k] = now
      BY <1>0, <1>7, <2>2, RecoverEffect
    <3> QED
      BY <1>0, <1>n, <3>1 DEF CloudFresh
  <2> QED
    BY <2>1, <2>2
<1>8. ASSUME NEW a \in CP, Pause(a) PROVE CloudFresh(k)'
  BY <1>0, <1>8, <1>k, <1>n, PauseEffect DEF CloudFresh
<1>9. ASSUME NEW a \in CP, Resume(a) PROVE CloudFresh(k)'
  <2>1. CASE k # a
    BY <1>0, <1>9, <1>k, <2>1, ResumeEffect DEF CloudFresh
  <2>2. CASE k = a
    <3>1. dirtyAt'[k] = dirtyAt[k] /\ modeSince'[k] = now
      BY <1>0, <1>9, <2>2, ResumeEffect
    <3>2. dirtyAt[k] <= now
      BY <1>k DEF InPast
    <3> QED
      BY <1>0, <1>n, <3>1, <3>2 DEF CloudFresh
  <2> QED
    BY <2>1, <2>2
<1> QED
  BY <1>1, <1>2, <1>3, <1>4, <1>5, <1>6, <1>7, <1>8, <1>9,
     GslbChangeEffect, StutterEffect DEF Next

LEMMA StepCloudRole ==
  ASSUME Travel, [Next]_vars, NEW k \in CP
  PROVE  CloudRole(k)'
<1>0. TypeOK /\ now > 0 /\ now \in Nat
  BY DEF Travel, TimersOK, TypeOK
<1>k. CloudRole(k) /\ InPast(k) /\ OwnTagsOK(k)
  BY DEF Travel, TimersOK
<1>n. holdsSince[k] \in Nat /\ dirtyAt[k] \in Nat
  BY <1>0, NumberTypes
<1>1. CASE core' = core
  BY <1>1, <1>k DEF core, CloudRole, Holds
<1>2. CASE Tick
  BY <1>0, <1>2, <1>k, <1>n, TickEffect DEF CloudRole, Holds, NotDue
<1>3. ASSUME NEW a \in CP, Reconcile(a) PROVE CloudRole(k)'
  <2>1. CASE k # a
    BY <1>0, <1>3, <1>k, <2>1, ReconcileEffect DEF CloudRole, Holds
  <2>2. CASE k = a /\ status[k].role # "leader"
    <3>1. holdsSince'[k] = now /\ (dirtyAt'[k] = now \/ dirtyAt'[k] = dirtyAt[k])
      BY <1>0, <1>3, <2>2, ReconcileEffect
    <3> QED
      BY <1>0, <1>k, <1>n, <3>1 DEF CloudRole, InPast
  <2>3. CASE k = a /\ status[k].role = "leader" /\ desired[k] # cloud[k]
    <3>1. /\ holdsSince'[k] = holdsSince[k] /\ dirtyAt'[k] = dirtyAt[k]
          /\ cloud' = cloud /\ mode[k] = "up"
      BY <1>0, <1>3, <2>3, ReconcileEffect
    <3> QED
      BY <1>k, <2>3, <3>1 DEF CloudRole, Holds
  <2>4. CASE k = a /\ status[k].role = "leader" /\ desired[k] = cloud[k]
    <3>1. cloud'[k].role = "leader"
      BY <1>0, <1>3, <1>k, <2>4, ReconcileEffect DEF OwnTagsOK
    <3> QED
      BY <3>1 DEF CloudRole
  <2> QED
    BY <2>1, <2>2, <2>3, <2>4
<1>4. ASSUME NEW a \in CP, Publish(a) PROVE CloudRole(k)'
  BY <1>0, <1>4, <1>k, PublishEffect DEF CloudRole, Holds
<1>5. ASSUME NEW a \in CP, NEW b \in CP, Poll(a, b) PROVE CloudRole(k)'
  BY <1>0, <1>5, <1>k, <1>n, PollEffect DEF CloudRole, Holds
<1>6. ASSUME NEW a \in CP, Crash(a) PROVE CloudRole(k)'
  BY <1>0, <1>6, <1>k, <1>n, CrashEffect DEF CloudRole, Holds
<1>7. ASSUME NEW a \in CP, Recover(a) PROVE CloudRole(k)'
  <2>1. CASE k # a
    BY <1>0, <1>7, <1>k, <2>1, RecoverEffect DEF CloudRole, Holds
  <2>2. CASE k = a
    <3>1. dirtyAt'[k] = now /\ holdsSince'[k] = now
      BY <1>0, <1>7, <2>2, RecoverEffect
    <3> QED
      BY <1>0, <3>1 DEF CloudRole
  <2> QED
    BY <2>1, <2>2
<1>8. ASSUME NEW a \in CP, Pause(a) PROVE CloudRole(k)'
  BY <1>0, <1>8, <1>k, <1>n, PauseEffect DEF CloudRole, Holds
<1>9. ASSUME NEW a \in CP, Resume(a) PROVE CloudRole(k)'
  BY <1>0, <1>9, <1>k, <1>n, ResumeEffect DEF CloudRole, Holds
<1> QED
  BY <1>1, <1>2, <1>3, <1>4, <1>5, <1>6, <1>7, <1>8, <1>9,
     GslbChangeEffect, StutterEffect DEF Next

LEMMA StepObservedFresh ==
  ASSUME Travel, [Next]_vars, NEW k \in CP, NEW l \in CP
  PROVE  ObservedFresh(k, l)'
<1>0. TypeOK /\ now > 0 /\ now \in Nat
  BY DEF Travel, TimersOK, TypeOK
<1>k. /\ ObservedFresh(k, l) /\ InPast(k)
      /\ NotYetComposed(k) /\ ReconcileTimely(k)
  BY DEF Travel, TimersOK
<1>n. /\ modeSince[k] \in Nat /\ modeSince[l] \in Nat /\ holdsSince[l] \in Nat
      /\ polledAt[k][l] \in Nat /\ reconciledAt[k] \in Nat
      /\ ReconcilePeriod \in Nat /\ WriteLag \in Nat /\ PollPeriod \in Nat
      /\ KnownAfter \in Nat
  BY <1>0, NumberTypes, KnownAfterNat
<1>1. CASE core' = core
  BY <1>1, <1>k DEF core, ObservedFresh
<1>2. CASE Tick
  BY <1>0, <1>2, <1>k, TickEffect DEF ObservedFresh, NotDue
<1>3. ASSUME NEW a \in CP, Reconcile(a) PROVE ObservedFresh(k, l)'
  <2>1. CASE k # a \/ Composed(k)
    BY <1>0, <1>3, <1>k, <2>1, ReconcileEffect DEF ObservedFresh
  <2>2. CASE k = a /\ ~Composed(k)
    <3>1. polledAt'[k][l] = now /\ modeSince'[k] = modeSince[k] /\ mode[k] = "up"
      BY <1>0, <1>3, <2>2, ReconcileEffect
    <3>2. now <= modeSince[k] + ReconcilePeriod
      BY <1>k, <2>2, <3>1 DEF NotYetComposed, ReconcileTimely
    <3> QED
      BY <1>0, <1>n, <3>1, <3>2 DEF ObservedFresh
  <2> QED
    BY <2>1, <2>2
<1>4. ASSUME NEW a \in CP, Publish(a) PROVE ObservedFresh(k, l)'
  BY <1>0, <1>4, <1>k, PublishEffect DEF ObservedFresh
<1>5. ASSUME NEW a \in CP, NEW b \in CP, Poll(a, b) PROVE ObservedFresh(k, l)'
  <2>1. CASE k # a \/ l # b
    BY <1>0, <1>5, <1>k, <2>1, PollEffect DEF ObservedFresh
  <2>2. CASE k = a /\ l = b
    <3>1. /\ observed'[k][l] = cloud[l] /\ polledAt'[k][l] = now
          /\ mode' = mode /\ modeSince' = modeSince
      BY <1>0, <1>5, <2>2, PollEffect
    <3> QED
      BY <3>1, CloudFreshNow DEF ObservedFresh
  <2> QED
    BY <2>1, <2>2
<1>6. ASSUME NEW a \in CP, Crash(a) PROVE ObservedFresh(k, l)'
  <2>1. CASE k # a /\ l # a
    BY <1>0, <1>6, <1>k, <2>1, CrashEffect DEF ObservedFresh
  <2>2. CASE k = a \/ l = a
    <3>1. mode'[a] = "down"
      BY <1>0, <1>6, CrashEffect
    <3> QED
      BY <2>2, <3>1 DEF ObservedFresh
  <2> QED
    BY <2>1, <2>2
<1>7. ASSUME NEW a \in CP, Recover(a) PROVE ObservedFresh(k, l)'
  <2>1. CASE k # a /\ l # a
    BY <1>0, <1>7, <1>k, <2>1, RecoverEffect DEF ObservedFresh
  <2>2. CASE k = a
    <3>1. polledAt'[k][l] = now /\ modeSince'[k] = now
      BY <1>0, <1>7, <2>2, RecoverEffect
    <3> QED
      BY <1>0, <1>n, <3>1 DEF ObservedFresh
  <2>3. CASE k # a /\ l = a
    <3>1. polledAt'[k][l] = polledAt[k][l] /\ modeSince'[l] = now
      BY <1>0, <1>7, <2>3, RecoverEffect
    <3> QED
      BY <1>0, <1>n, <1>k, <3>1 DEF ObservedFresh, InPast
  <2> QED
    BY <2>1, <2>2, <2>3
<1>8. ASSUME NEW a \in CP, Pause(a) PROVE ObservedFresh(k, l)'
  <2>1. CASE k # a /\ l # a
    BY <1>0, <1>8, <1>k, <2>1, PauseEffect DEF ObservedFresh
  <2>2. CASE k = a \/ l = a
    <3>1. mode'[a] = "paused"
      BY <1>0, <1>8, PauseEffect
    <3> QED
      BY <2>2, <3>1 DEF ObservedFresh
  <2> QED
    BY <2>1, <2>2
<1>9. ASSUME NEW a \in CP, Resume(a) PROVE ObservedFresh(k, l)'
  <2>1. CASE k # a /\ l # a
    BY <1>0, <1>9, <1>k, <2>1, ResumeEffect DEF ObservedFresh
  <2>2. CASE k = a
    <3>1. polledAt'[k][l] = polledAt[k][l] /\ modeSince'[k] = now
      BY <1>0, <1>9, <2>2, ResumeEffect
    <3> QED
      BY <1>0, <1>n, <1>k, <3>1 DEF ObservedFresh, InPast
  <2>3. CASE k # a /\ l = a
    <3>1. polledAt'[k][l] = polledAt[k][l] /\ modeSince'[l] = now
      BY <1>0, <1>9, <2>3, ResumeEffect
    <3> QED
      BY <1>0, <1>n, <1>k, <3>1 DEF ObservedFresh, InPast
  <2> QED
    BY <2>1, <2>2, <2>3
<1> QED
  BY <1>1, <1>2, <1>3, <1>4, <1>5, <1>6, <1>7, <1>8, <1>9,
     GslbChangeEffect, StutterEffect DEF Next

LEMMA StepObservedRole ==
  ASSUME Travel, [Next]_vars, NEW k \in CP, NEW l \in CP
  PROVE  ObservedRole(k, l)'
<1>0. TypeOK /\ now > 0 /\ now \in Nat
  BY DEF Travel, TimersOK, TypeOK
<1>k. /\ ObservedRole(k, l) /\ InPast(k)
      /\ NotYetComposed(k) /\ ReconcileTimely(k)
  BY DEF Travel, TimersOK
<1>n. /\ modeSince[k] \in Nat /\ modeSince[l] \in Nat /\ holdsSince[l] \in Nat
      /\ polledAt[k][l] \in Nat /\ reconciledAt[k] \in Nat
      /\ ReconcilePeriod \in Nat /\ WriteLag \in Nat /\ PollPeriod \in Nat
      /\ KnownAfter \in Nat
  BY <1>0, NumberTypes, KnownAfterNat
<1>1. CASE core' = core
  BY <1>1, <1>k DEF core, ObservedRole, Holds
<1>2. CASE Tick
  BY <1>0, <1>2, <1>k, TickEffect DEF ObservedRole, Holds, NotDue
<1>3. ASSUME NEW a \in CP, Reconcile(a) PROVE ObservedRole(k, l)'
  <2>1. CASE (k # a \/ Composed(k)) /\ (l # a \/ status[l].role = "leader")
    <3>1. /\ polledAt'[k][l] = polledAt[k][l] /\ holdsSince'[l] = holdsSince[l]
          /\ mode' = mode /\ modeSince' = modeSince /\ observed' = observed
          /\ Holds(l)' => Holds(l)
      BY <1>0, <1>3, <2>1, ReconcileEffect DEF Holds
    <3> QED
      BY <1>k, <3>1 DEF ObservedRole
  <2>2. CASE k = a /\ ~Composed(k)
    <3>1. polledAt'[k][l] = now /\ modeSince'[k] = modeSince[k] /\ mode[k] = "up"
      BY <1>0, <1>3, <2>2, ReconcileEffect
    <3>2. now <= modeSince[k] + ReconcilePeriod
      BY <1>k, <2>2, <3>1 DEF NotYetComposed, ReconcileTimely
    <3> QED
      BY <1>0, <1>n, <3>1, <3>2 DEF ObservedRole
  <2>3. CASE (k # a \/ Composed(k)) /\ l = a /\ status[l].role # "leader"
    <3>1. polledAt'[k][l] = polledAt[k][l] /\ holdsSince'[l] = now
      BY <1>0, <1>3, <2>3, ReconcileEffect
    <3> QED
      BY <1>0, <1>k, <1>n, <3>1 DEF ObservedRole, InPast
  <2> QED
    BY <2>1, <2>2, <2>3
<1>4. ASSUME NEW a \in CP, Publish(a) PROVE ObservedRole(k, l)'
  BY <1>0, <1>4, <1>k, PublishEffect DEF ObservedRole, Holds
<1>5. ASSUME NEW a \in CP, NEW b \in CP, Poll(a, b) PROVE ObservedRole(k, l)'
  <2>1. CASE k # a \/ l # b
    BY <1>0, <1>5, <1>k, <2>1, PollEffect DEF ObservedRole, Holds
  <2>2. CASE k = a /\ l = b
    <3>1. /\ observed'[k][l] = cloud[l] /\ polledAt'[k][l] = now
          /\ holdsSince' = holdsSince /\ (Holds(l)' <=> Holds(l))
      BY <1>0, <1>5, <2>2, PollEffect DEF Holds
    <3> QED
      BY <3>1, CloudRoleNow DEF ObservedRole
  <2> QED
    BY <2>1, <2>2
<1>6. ASSUME NEW a \in CP, Crash(a) PROVE ObservedRole(k, l)'
  <2>1. CASE k # a /\ l # a
    BY <1>0, <1>6, <1>k, <2>1, CrashEffect DEF ObservedRole, Holds
  <2>2. CASE k = a \/ l = a
    <3>1. mode'[a] = "down"
      BY <1>0, <1>6, CrashEffect
    <3> QED
      BY <2>2, <3>1 DEF ObservedRole, Holds
  <2> QED
    BY <2>1, <2>2
<1>7. ASSUME NEW a \in CP, Recover(a) PROVE ObservedRole(k, l)'
  <2>1. CASE k # a /\ l # a
    BY <1>0, <1>7, <1>k, <2>1, RecoverEffect DEF ObservedRole, Holds
  <2>2. CASE k = a
    <3>1. polledAt'[k][l] = now /\ modeSince'[k] = now
      BY <1>0, <1>7, <2>2, RecoverEffect
    <3> QED
      BY <1>0, <1>n, <3>1 DEF ObservedRole
  <2>3. CASE k # a /\ l = a
    <3>1. polledAt'[k][l] = polledAt[k][l] /\ holdsSince'[l] = now
      BY <1>0, <1>7, <2>3, RecoverEffect
    <3> QED
      BY <1>0, <1>n, <1>k, <3>1 DEF ObservedRole, InPast
  <2> QED
    BY <2>1, <2>2, <2>3
<1>8. ASSUME NEW a \in CP, Pause(a) PROVE ObservedRole(k, l)'
  <2>1. CASE k # a
    <3>1. /\ mode'[k] = mode[k] /\ modeSince'[k] = modeSince[k]
          /\ polledAt' = polledAt /\ holdsSince' = holdsSince
          /\ observed' = observed /\ (Holds(l)' => Holds(l))
      BY <1>0, <1>8, <2>1, PauseEffect DEF Holds
    <3> QED
      BY <1>k, <3>1 DEF ObservedRole
  <2>2. CASE k = a
    BY <1>0, <1>8, <2>2, PauseEffect DEF ObservedRole
  <2> QED
    BY <2>1, <2>2
<1>9. ASSUME NEW a \in CP, Resume(a) PROVE ObservedRole(k, l)'
  <2>1. CASE k = a
    <3>1. polledAt'[k][l] = polledAt[k][l] /\ modeSince'[k] = now
      BY <1>0, <1>9, <2>1, ResumeEffect
    <3> QED
      BY <1>0, <1>n, <1>k, <3>1 DEF ObservedRole, InPast
  <2>2. CASE k # a
    <3>1. /\ mode'[k] = mode[k] /\ modeSince'[k] = modeSince[k]
          /\ polledAt' = polledAt /\ holdsSince' = holdsSince
          /\ observed' = observed /\ (Holds(l)' => Holds(l))
      BY <1>0, <1>9, <2>2, ResumeEffect DEF Holds
    <3> QED
      BY <1>k, <3>1 DEF ObservedRole
  <2> QED
    BY <2>1, <2>2
<1> QED
  BY <1>1, <1>2, <1>3, <1>4, <1>5, <1>6, <1>7, <1>8, <1>9,
     GslbChangeEffect, StutterEffect DEF Next

\* A control plane that is up long enough is read as fresh by every control
\* plane that is, when the TTL covers the way of a heartbeat.
LEMMA LiveSeenFresh ==
  ASSUME Travel, TTLCovers, NEW k \in CP, NEW l \in CP,
         mode[k] = "up", mode[l] = "up",
         now > modeSince[k] + ReconcilePeriod + PollPeriod,
         now > modeSince[l] + KnownAfter
  PROVE  /\ polledAt[k][l] > modeSince[k] + ReconcilePeriod
         /\ now <= polledAt[k][l] + PollPeriod
         /\ LivenessFromTags(observed[k][l], LocalNow(k)).readable
         /\ LivenessFromTags(observed[k][l], LocalNow(k)).fresh
<1>0. /\ TypeOK /\ now \in Nat /\ modeSince[k] \in Nat /\ modeSince[l] \in Nat
      /\ polledAt[k][l] \in Nat /\ reconciledAt[k] \in Nat
  BY NumberTypes DEF Travel
<1>c. /\ ReconcilePeriod \in Nat /\ WriteLag \in Nat /\ PollPeriod \in Nat
      /\ KnownAfter = ReconcilePeriod + WriteLag + PollPeriod
      /\ ThrottleSlack \in Nat /\ TTL \in Nat
  BY KnownAfterNat, SlackNat, HeartbeatAssumption
<1>s. /\ LocalNow(k) = now + Skew[k] /\ Skew[k] \in Nat /\ Skew[k] <= MaxSkew
      /\ Skew[l] \in Nat /\ MaxSkew \in Nat
  BY <1>0, LocalNowNat, SetAssumption
<1>k. /\ ReconcileTimely(k) /\ NotYetComposed(k) /\ PollTimely(k, l)
      /\ ObservedFresh(k, l)
  BY DEF Travel, TimersOK
<1>1. Composed(k)
  <2> SUFFICES ASSUME ~Composed(k) PROVE FALSE
    OBVIOUS
  <2>1. now <= modeSince[k] + ReconcilePeriod
    BY <1>k DEF NotYetComposed, ReconcileTimely
  <2> QED
    BY <1>0, <1>c, <2>1
<1>2. now <= polledAt[k][l] + PollPeriod
  BY <1>1, <1>k DEF PollTimely
<1>3. /\ polledAt[k][l] > modeSince[k] + ReconcilePeriod
      /\ polledAt[k][l] > modeSince[l] + ReconcilePeriod + WriteLag
  BY <1>0, <1>2, <1>c
<1>4. WrittenSince(observed[k][l],
        polledAt[k][l] + Skew[l] - ThrottleSlack - ReconcilePeriod - WriteLag)
  BY <1>3, <1>k DEF ObservedFresh
<1>5. /\ observed[k][l].ts \in Int /\ observed[k][l].ts > 0
      /\ LocalNow(k) - observed[k][l].ts <= TTL
  <2>1. observed[k][l].ts \in Int
    BY <1>0, TagTypes
  <2> DEFINE ts == observed[k][l].ts
             polled == polledAt[k][l]
             sk == Skew[k]
             sl == Skew[l]
  <2>2. ts > 0 /\ ts >= polled + sl - ThrottleSlack - ReconcilePeriod - WriteLag
    BY <1>4 DEF WrittenSince
  <2>3. TTL >= ThrottleSlack + KnownAfter + MaxSkew
    BY DEF TTLCovers
  <2>4. /\ ts \in Int /\ polled \in Nat /\ sk \in Nat /\ sl \in Nat
        /\ now <= polled + PollPeriod /\ sk <= MaxSkew
    BY <1>0, <1>2, <1>s, <2>1
  <2>5. now + sk - ts <= TTL
    <3> HIDE DEF ts, polled, sk, sl
    <3> QED
      BY <1>0, <1>c, <1>s, <2>2, <2>3, <2>4
  <2>6. LocalNow(k) = now + sk
    BY <1>s
  <2>7. LocalNow(k) - ts <= TTL
    <3> HIDE DEF ts, sk
    <3> QED
      BY <1>0, <2>4, <2>5, <2>6
  <2> QED
    BY <2>1, <2>2, <2>7
<1>6. observed[k][l].ts # Missing /\ AsInt(observed[k][l].ts) = observed[k][l].ts
  BY <1>5 DEF Missing, AsInt
<1> QED
  BY <1>2, <1>3, <1>5, <1>6 DEF LivenessFromTags

\* A leader that has been up and leading for long enough is obeyed.
LEMMA KnownLeaderYields ==
  ASSUME Travel, TTLCovers, NEW k \in CP, NEW l \in CP, k # l,
         mode[k] = "up", mode[l] = "up", Holds(l),
         now > modeSince[k] + ReconcilePeriod + PollPeriod,
         now > modeSince[l] + KnownAfter,
         now > holdsSince[l] + KnownAfter
  PROVE  Decision(k).role = "standby"
<1>0. /\ now \in Nat /\ holdsSince[l] \in Nat /\ polledAt[k][l] \in Nat
      /\ ReconcilePeriod \in Nat /\ WriteLag \in Nat /\ PollPeriod \in Nat
      /\ KnownAfter = ReconcilePeriod + WriteLag + PollPeriod
  BY NumberTypes, KnownAfterNat DEF Travel
<1>1. /\ polledAt[k][l] > modeSince[k] + ReconcilePeriod
      /\ now <= polledAt[k][l] + PollPeriod
      /\ LivenessFromTags(observed[k][l], LocalNow(k)).readable
      /\ LivenessFromTags(observed[k][l], LocalNow(k)).fresh
  BY LiveSeenFresh
<1>2. polledAt[k][l] > holdsSince[l] + WriteLag
  BY <1>0, <1>1
<1>3. observed[k][l].role = "leader"
  <2>1. ObservedRole(k, l)
    BY DEF Travel
  <2> QED
    BY <1>1, <1>2, <2>1 DEF ObservedRole
<1>4. LivenessFromTags(observed[k][l], LocalNow(k)).role = "leader"
  BY <1>3 DEF LivenessFromTags
<1>5. /\ l \in DOMAIN Seen(k) /\ k \in Nat /\ l \in Nat
      /\ Seen(k)[l] = LivenessFromTags(observed[k][l], LocalNow(k))
  BY SetAssumption DEF Seen, Peers
<1> QED
  BY <1>1, <1>4, <1>5, LeaderSeenYields DEF Decision

LEMMA StepDecidedKnowing ==
  ASSUME IInv, TTLCovers, [Next]_vars, NEW k \in CP, NEW l \in CP
  PROVE  DecidedKnowing(k, l)'
<1>0. TypeOK /\ now > 0 /\ now \in Nat
  BY DEF IInv, Travel, TimersOK, TypeOK
<1>k. Travel /\ DecidedKnowing(k, l) /\ InPast(k)
  BY DEF IInv, Travel, TimersOK
<1>n. /\ modeSince[k] \in Nat /\ modeSince[l] \in Nat /\ holdsSince[l] \in Nat
      /\ reconciledAt[k] \in Nat
      /\ ReconcilePeriod \in Nat /\ PollPeriod \in Nat /\ KnownAfter \in Nat
  BY <1>0, NumberTypes, KnownAfterNat
<1>1. CASE core' = core
  BY <1>1, <1>k DEF core, DecidedKnowing, Holds
<1>2. CASE Tick
  BY <1>0, <1>2, <1>k, TickEffect DEF DecidedKnowing, Holds
<1>3. ASSUME NEW a \in CP, Reconcile(a) PROVE DecidedKnowing(k, l)'
  <2>1. CASE k # a /\ (l # a \/ status[l].role = "leader")
    <3>1. /\ reconciledAt'[k] = reconciledAt[k] /\ holdsSince'[l] = holdsSince[l]
          /\ mode' = mode /\ modeSince' = modeSince
          /\ (Holds(k)' => Holds(k)) /\ (Holds(l)' => Holds(l))
      BY <1>0, <1>3, <2>1, ReconcileEffect DEF Holds
    <3> QED
      BY <1>k, <3>1 DEF DecidedKnowing
  <2>2. CASE k # a /\ l = a /\ status[l].role # "leader"
    <3>1. reconciledAt'[k] = reconciledAt[k] /\ holdsSince'[l] = now
      BY <1>0, <1>3, <2>2, ReconcileEffect
    <3> QED
      BY <1>0, <1>k, <1>n, <3>1 DEF DecidedKnowing, InPast
  <2>3. CASE k = a
    <3> SUFFICES ASSUME k # l, mode'[l] = "up", Holds(k)', Holds(l)',
                        reconciledAt'[k] > modeSince'[k] + ReconcilePeriod + PollPeriod,
                        reconciledAt'[k] > modeSince'[l] + KnownAfter
                 PROVE  reconciledAt'[k] <= holdsSince'[l] + KnownAfter
      BY DEF DecidedKnowing
    <3>1. /\ now' = now /\ mode' = mode /\ modeSince' = modeSince
          /\ mode[k] = "up" /\ reconciledAt'[k] = now
          /\ status'[k].role = Decision(k).role
          /\ status'[l] = status[l] /\ holdsSince'[l] = holdsSince[l]
      BY <1>0, <1>3, <2>3, ReconcileEffect
    <3>2. Decision(k).role = "leader" /\ Holds(l)
      BY <3>1 DEF Holds
    <3>3. ~(now > holdsSince[l] + KnownAfter)
      BY <1>k, <3>1, <3>2, KnownLeaderYields
    <3> QED
      BY <1>0, <1>n, <3>1, <3>3
  <2> QED
    BY <2>1, <2>2, <2>3
<1>4. ASSUME NEW a \in CP, Publish(a) PROVE DecidedKnowing(k, l)'
  BY <1>0, <1>4, <1>k, PublishEffect DEF DecidedKnowing, Holds
<1>5. ASSUME NEW a \in CP, NEW b \in CP, Poll(a, b) PROVE DecidedKnowing(k, l)'
  BY <1>0, <1>5, <1>k, PollEffect DEF DecidedKnowing, Holds
<1>6. ASSUME NEW a \in CP, Crash(a) PROVE DecidedKnowing(k, l)'
  <2>1. CASE k # a /\ l # a
    BY <1>0, <1>6, <1>k, <2>1, CrashEffect DEF DecidedKnowing, Holds
  <2>2. CASE k = a \/ l = a
    BY <1>0, <1>6, <2>2, CrashEffect DEF DecidedKnowing
  <2> QED
    BY <2>1, <2>2
<1>7. ASSUME NEW a \in CP, Recover(a) PROVE DecidedKnowing(k, l)'
  <2>1. CASE k # a /\ l # a
    BY <1>0, <1>7, <1>k, <2>1, RecoverEffect DEF DecidedKnowing, Holds
  <2>2. CASE k = a
    <3>1. reconciledAt'[k] = now /\ modeSince'[k] = now
      BY <1>0, <1>7, <2>2, RecoverEffect
    <3> QED
      BY <1>0, <1>n, <3>1 DEF DecidedKnowing
  <2>3. CASE k # a /\ l = a
    <3>1. reconciledAt'[k] = reconciledAt[k] /\ modeSince'[l] = now
      BY <1>0, <1>7, <2>3, RecoverEffect
    <3> QED
      BY <1>0, <1>n, <1>k, <3>1 DEF DecidedKnowing, InPast
  <2> QED
    BY <2>1, <2>2, <2>3
<1>8. ASSUME NEW a \in CP, Pause(a) PROVE DecidedKnowing(k, l)'
  <2>1. CASE k # a /\ l # a
    BY <1>0, <1>8, <1>k, <2>1, PauseEffect DEF DecidedKnowing, Holds
  <2>2. CASE k = a \/ l = a
    BY <1>0, <1>8, <2>2, PauseEffect DEF DecidedKnowing
  <2> QED
    BY <2>1, <2>2
<1>9. ASSUME NEW a \in CP, Resume(a) PROVE DecidedKnowing(k, l)'
  <2>1. CASE k # a /\ l # a
    BY <1>0, <1>9, <1>k, <2>1, ResumeEffect DEF DecidedKnowing, Holds
  <2>2. CASE k = a
    <3>1. reconciledAt'[k] = now /\ modeSince'[k] = now
      BY <1>0, <1>9, <2>2, ResumeEffect
    <3> QED
      BY <1>0, <1>n, <3>1 DEF DecidedKnowing
  <2>3. CASE k # a /\ l = a
    <3>1. reconciledAt'[k] = reconciledAt[k] /\ modeSince'[l] = now
      BY <1>0, <1>9, <2>3, ResumeEffect
    <3> QED
      BY <1>0, <1>n, <1>k, <3>1 DEF DecidedKnowing, InPast
  <2> QED
    BY <2>1, <2>2, <2>3
<1> QED
  BY <1>1, <1>2, <1>3, <1>4, <1>5, <1>6, <1>7, <1>8, <1>9,
     GslbChangeEffect, StutterEffect DEF Next

LEMMA InitIInv == Init => IInv
<1> SUFFICES ASSUME Init PROVE IInv
  OBVIOUS
<1>1. TypeOK /\ now > 0 /\ now \in Nat
  BY InitTypeOK DEF TypeOK
<1>2. ASSUME NEW i \in CP
      PROVE  /\ mode[i] = "up" /\ ~Composed(i) /\ ~Holds(i)
             /\ desired[i] = cloud[i] /\ desired[i].role = status[i].role
             /\ reconciledAt[i] = now /\ dirtyAt[i] = now
             /\ modeSince[i] = now /\ holdsSince[i] = now
             /\ \A j \in CP : polledAt[i][j] = now
  BY TagsFacts DEF Init, Composed, Holds, NoStatus
<1>3. TimersOK
  <2> SUFFICES ASSUME NEW i \in CP
               PROVE  /\ InPast(i) /\ ReconcileTimely(i)
                      /\ NotYetComposed(i) /\ PublishTimely(i)
                      /\ \A j \in CP : PollTimely(i, j)
    BY <1>1 DEF TimersOK
  <2> QED
    BY <1>1, <1>2, KnownAfterNat
    DEF InPast, ReconcileTimely, NotYetComposed, PublishTimely, PollTimely
<1>4. ASSUME NEW i \in CP
      PROVE  OwnTagsOK(i) /\ DesiredFresh(i) /\ CloudFresh(i) /\ CloudRole(i)
  BY <1>1, <1>2 DEF OwnTagsOK, DesiredFresh, CloudFresh, CloudRole
<1>5. ASSUME NEW i \in CP, NEW j \in CP
      PROVE  ObservedFresh(i, j) /\ ObservedRole(i, j) /\ DecidedKnowing(i, j)
  <2>1. polledAt[i][j] = now /\ modeSince[i] = now /\ ~Holds(i)
    BY <1>2
  <2> QED
    BY <1>1, <2>1, KnownAfterNat DEF ObservedFresh, ObservedRole, DecidedKnowing
<1> QED
  BY <1>1, <1>3, <1>4, <1>5 DEF IInv, Travel

\* A heartbeat travels in time whatever the TTL.
LEMMA StepTravel == ASSUME Travel, [Next]_vars PROVE Travel'
<1>1. TypeOK'
  BY StepTypeOK DEF Travel, TimersOK
<1>2. TimersOK'
  BY StepTimersOK
<1>3. ASSUME NEW i \in CP
      PROVE  (OwnTagsOK(i) /\ DesiredFresh(i) /\ CloudFresh(i) /\ CloudRole(i))'
  BY StepOwnTagsOK, StepDesiredFresh, StepCloudFresh, StepCloudRole
<1>4. ASSUME NEW i \in CP, NEW j \in CP
      PROVE  (ObservedFresh(i, j) /\ ObservedRole(i, j))'
  BY StepObservedFresh, StepObservedRole
<1> QED
  BY <1>1, <1>2, <1>3, <1>4 DEF Travel

LEMMA TravelInvariant == Spec => []Travel
<1>1. Init => Travel
  BY InitIInv DEF IInv
<1>2. Travel /\ [Next]_vars => Travel'
  BY StepTravel
<1> QED
  BY <1>1, <1>2, PTL DEF Spec

\* The invariant is inductive once the TTL covers the way of a heartbeat.
LEMMA StepIInv == ASSUME TTLCovers, IInv, [Next]_vars PROVE IInv'
<1>1. Travel'
  BY StepTravel DEF IInv
<1>2. ASSUME NEW i \in CP, NEW j \in CP PROVE DecidedKnowing(i, j)'
  BY StepDecidedKnowing
<1> QED
  BY <1>1, <1>2 DEF IInv

\* The stages of a heartbeat hold in every reachable state of every set whose
\* TTL covers them, crashes, recoveries and pauses included.
THEOREM HeartbeatStages == ASSUME TTLCovers PROVE Spec => []IInv
<1>1. TTLCovers
  OBVIOUS
<1>2. Init => IInv
  BY InitIInv
<1>3. IInv /\ [Next]_vars => IInv'
  BY <1>1, StepIInv
<1> QED
  BY <1>2, <1>3, PTL DEF Spec

-----------------------------------------------------------------------------
(* The timing properties. *)

\* No control plane that has been up long enough is taken for dead, in every
\* set whose TTL covers throttle, reconcile, write, poll and skew
\* (heartbeat.py:229, main.py:205-216).
THEOREM NoFalseDeath == ASSUME TTLCovers PROVE Spec => []LivePeerSeenFresh
<1>1. Travel => LivePeerSeenFresh
  <2> SUFFICES ASSUME Travel, NEW i \in CP, NEW j \in CP,
                      mode[i] = "up", InModeFor(i) > KnownAfter + ReconcilePeriod,
                      mode[j] = "up", InModeFor(j) > KnownAfter + ReconcilePeriod
               PROVE  LivenessFromTags(observed[i][j], LocalNow(i)).fresh
    BY DEF LivePeerSeenFresh
  <2>1. /\ now \in Nat /\ modeSince[i] \in Nat /\ modeSince[j] \in Nat
        /\ ReconcilePeriod \in Nat /\ WriteLag \in Nat /\ PollPeriod \in Nat
        /\ KnownAfter = ReconcilePeriod + WriteLag + PollPeriod
    BY NumberTypes, KnownAfterNat DEF Travel
  <2>2. /\ now > modeSince[i] + ReconcilePeriod + PollPeriod
        /\ now > modeSince[j] + KnownAfter
    BY <2>1 DEF InModeFor
  <2> QED
    BY <2>2, LiveSeenFresh
<1>2. Spec => []Travel
  BY TravelInvariant
<1> QED
  BY <1>1, <1>2, PTL

\* Where no reconciler stops on its own, a leader was up when it began to lead.
LEMMA StepHoldsSinceUp ==
  ASSUME Travel, HoldsSinceUp, MayPause = {}, [Next]_vars
  PROVE  HoldsSinceUp'
<1>0. TypeOK /\ now > 0 /\ now \in Nat
  BY DEF Travel, TimersOK, TypeOK
<1> SUFFICES ASSUME NEW k \in CP
             PROVE  /\ mode'[k] # "paused"
                    /\ Holds(k)' => modeSince'[k] <= holdsSince'[k]
  BY DEF HoldsSinceUp
<1>k. /\ mode[k] # "paused" /\ (Holds(k) => modeSince[k] <= holdsSince[k])
      /\ modeSince[k] <= now
      /\ modeSince[k] \in Nat /\ holdsSince[k] \in Nat
  BY <1>0, NumberTypes DEF HoldsSinceUp, Travel, TimersOK, InPast
<1> DEFINE Goal == /\ mode'[k] # "paused"
                   /\ Holds(k)' => modeSince'[k] <= holdsSince'[k]
<1>1. CASE core' = core
  BY <1>1, <1>k DEF core, Holds
<1>2. CASE Tick
  BY <1>2, <1>k, TickEffect DEF Holds
<1>3. ASSUME NEW a \in CP, Reconcile(a) PROVE Goal
  <2>1. CASE k # a \/ status[k].role = "leader"
    <3>1. /\ mode' = mode /\ modeSince' = modeSince
          /\ holdsSince'[k] = holdsSince[k] /\ (Holds(k)' => Holds(k))
      BY <1>0, <1>3, <2>1, ReconcileEffect DEF Holds
    <3> QED
      BY <1>k, <3>1
  <2>2. CASE k = a /\ status[k].role # "leader"
    <3>1. mode' = mode /\ modeSince' = modeSince /\ holdsSince'[k] = now
      BY <1>0, <1>3, <2>2, ReconcileEffect
    <3> QED
      BY <1>k, <3>1
  <2> QED
    BY <2>1, <2>2
<1>4. ASSUME NEW a \in CP, Publish(a) PROVE Goal
  BY <1>0, <1>4, <1>k, PublishEffect DEF Holds
<1>5. ASSUME NEW a \in CP, NEW b \in CP, Poll(a, b) PROVE Goal
  BY <1>0, <1>5, <1>k, PollEffect DEF Holds
<1>6. ASSUME NEW a \in CP, Crash(a) PROVE Goal
  BY <1>0, <1>6, <1>k, CrashEffect DEF Holds
<1>7. ASSUME NEW a \in CP, Recover(a) PROVE Goal
  <2>1. CASE k # a
    BY <1>0, <1>7, <1>k, <2>1, RecoverEffect DEF Holds
  <2>2. CASE k = a
    BY <1>0, <1>7, <2>2, RecoverEffect
  <2> QED
    BY <2>1, <2>2
<1>8. ASSUME NEW a \in CP, Pause(a) PROVE Goal
  BY <1>8 DEF Pause
<1>9. ASSUME NEW a \in CP, Resume(a) PROVE Goal
  BY <1>0, <1>9, ResumeEffect DEF HoldsSinceUp
<1> QED
  BY <1>1, <1>2, <1>3, <1>4, <1>5, <1>6, <1>7, <1>8, <1>9,
     GslbChangeEffect, StutterEffect DEF Next

\* Two control planes hold ["*"] together no longer than a heartbeat takes to
\* reach the other and be obeyed, in every set whose TTL covers that way and
\* whose reconcilers run whenever their control plane does
\* (election.py:104-120, 142-152).
THEOREM SplitBrain ==
  ASSUME TTLCovers, MayPause = {}
  PROVE  Spec => []SplitBrainBounded
<1>1. IInv /\ HoldsSinceUp => SplitBrainBounded
  <2> SUFFICES ASSUME IInv, HoldsSinceUp, NEW i \in CP, NEW j \in CP,
                      i # j, Holds(i), Holds(j),
                      HeldFor(i) > KnownAfter + ReconcilePeriod,
                      HeldFor(j) > KnownAfter + ReconcilePeriod
               PROVE  FALSE
    <3>1. ASSUME IInv, NEW k \in CP PROVE HeldFor(k) \in Int
      <4>1. now \in Nat /\ holdsSince[k] \in Nat
        BY <3>1, NumberTypes DEF IInv, Travel
      <4> QED
        BY <4>1 DEF HeldFor
    <3> QED
      BY <3>1, KnownAfterNat DEF SplitBrainBounded
  <2>1. /\ now \in Nat /\ reconciledAt[i] \in Nat
        /\ modeSince[i] \in Nat /\ modeSince[j] \in Nat
        /\ holdsSince[i] \in Nat /\ holdsSince[j] \in Nat
        /\ ReconcilePeriod \in Nat /\ WriteLag \in Nat /\ PollPeriod \in Nat
        /\ KnownAfter = ReconcilePeriod + WriteLag + PollPeriod
    BY NumberTypes, KnownAfterNat DEF IInv, Travel
  <2>2. mode[i] = "up" /\ mode[j] = "up"
    BY DEF HoldsSinceUp, Holds, IInv, Travel, TypeOK
  <2>3. modeSince[i] <= holdsSince[i] /\ modeSince[j] <= holdsSince[j]
    BY DEF HoldsSinceUp
  <2>4. now <= reconciledAt[i] + ReconcilePeriod
    BY <2>2 DEF IInv, Travel, TimersOK, ReconcileTimely
  <2>5. /\ reconciledAt[i] > holdsSince[j] + KnownAfter
        /\ reconciledAt[i] > modeSince[j] + KnownAfter
        /\ reconciledAt[i] > modeSince[i] + ReconcilePeriod + PollPeriod
    BY <2>1, <2>3, <2>4 DEF HeldFor
  <2>6. reconciledAt[i] <= holdsSince[j] + KnownAfter
    BY <2>2, <2>5 DEF IInv, Travel, DecidedKnowing
  <2> QED
    BY <2>1, <2>5, <2>6
<1>2. Init => HoldsSinceUp
  <2> SUFFICES ASSUME Init, NEW i \in CP PROVE mode[i] # "paused" /\ ~Holds(i)
    BY DEF HoldsSinceUp
  <2> QED
    BY DEF Init, Holds, NoStatus
<1>3. IInv /\ HoldsSinceUp /\ [Next]_vars => HoldsSinceUp'
  BY StepHoldsSinceUp DEF IInv
<1>4. Spec => []IInv
  BY HeartbeatStages
<1> QED
  BY <1>1, <1>2, <1>3, <1>4, PTL DEF Spec

\* Without GSLB arbitration no decision leads past a live peer above
\* (election.py:120).
LEMMA AliveHigherYields ==
  ASSUME NEW me \in Nat, NEW g, ~GslbActiveFailover(g), NEW peers, NEW prior,
         NEW t, NEW j \in DOMAIN peers, j < me,
         peers[j].readable, peers[j].fresh
  PROVE  Decide(me, g, peers, prior, t).role = "standby"
<1>1. j \in HigherIn(me, peers) /\ Blocks(peers[j], g)
  BY DEF HigherIn, Blocks
<1>2. ~MayLead(me, g, peers)
  BY <1>1 DEF MayLead, HigherAllDown
<1> QED
  BY <1>2 DEF Decide

LEMMA StepDecidedUnderLive ==
  ASSUME Travel, TTLCovers, NoArbitration, [Next]_vars, NEW k \in CP, NEW l \in CP,
         DecidedUnderLive(k, l)
  PROVE  DecidedUnderLive(k, l)'
<1>0. TypeOK /\ now > 0 /\ now \in Nat
  BY DEF Travel, TimersOK, TypeOK
<1>k. DecidedUnderLive(k, l) /\ InPast(k)
  BY DEF Travel, TimersOK
<1>n. /\ modeSince[k] \in Nat /\ modeSince[l] \in Nat /\ reconciledAt[k] \in Nat
      /\ ReconcilePeriod \in Nat /\ PollPeriod \in Nat /\ KnownAfter \in Nat
  BY <1>0, NumberTypes, KnownAfterNat
<1>1. CASE core' = core
  BY <1>1, <1>k DEF core, DecidedUnderLive, Holds
<1>2. CASE Tick
  BY <1>0, <1>2, <1>k, TickEffect DEF DecidedUnderLive, Holds
<1>3. ASSUME NEW a \in CP, Reconcile(a) PROVE DecidedUnderLive(k, l)'
  <2>1. CASE k # a
    <3>1. /\ reconciledAt'[k] = reconciledAt[k]
          /\ mode' = mode /\ modeSince' = modeSince /\ (Holds(k)' => Holds(k))
      BY <1>0, <1>3, <2>1, ReconcileEffect DEF Holds
    <3> QED
      BY <1>k, <3>1 DEF DecidedUnderLive
  <2>2. CASE k = a
    <3> SUFFICES ASSUME l < k, mode'[l] = "up", Holds(k)',
                        reconciledAt'[k] > modeSince'[k] + ReconcilePeriod + PollPeriod
                 PROVE  reconciledAt'[k] <= modeSince'[l] + KnownAfter
      BY DEF DecidedUnderLive
    <3>1. /\ mode' = mode /\ modeSince' = modeSince
          /\ mode[k] = "up" /\ reconciledAt'[k] = now
          /\ status'[k].role = Decision(k).role
      BY <1>0, <1>3, <2>2, ReconcileEffect
    <3>2. Decision(k).role = "leader"
      BY <3>1 DEF Holds
    <3>3. ASSUME now > modeSince[l] + KnownAfter PROVE FALSE
      <4>1. /\ LivenessFromTags(observed[k][l], LocalNow(k)).readable
            /\ LivenessFromTags(observed[k][l], LocalNow(k)).fresh
        BY <3>1, <3>3, LiveSeenFresh
      <4>2. /\ l \in DOMAIN Seen(k) /\ k \in Nat
            /\ Seen(k)[l] = LivenessFromTags(observed[k][l], LocalNow(k))
        BY SetAssumption DEF Seen, Peers
      <4>3. ~GslbActiveFailover(gslb[k])
        BY <1>0 DEF NoArbitration, TypeOK
      <4>4. Decision(k).role = "standby"
        BY <4>1, <4>2, <4>3, AliveHigherYields DEF Decision
      <4> QED
        BY <3>2, <4>4
    <3> QED
      BY <1>0, <1>n, <3>1, <3>3
  <2> QED
    BY <2>1, <2>2
<1>4. ASSUME NEW a \in CP, Publish(a) PROVE DecidedUnderLive(k, l)'
  BY <1>0, <1>4, <1>k, PublishEffect DEF DecidedUnderLive, Holds
<1>5. ASSUME NEW a \in CP, NEW b \in CP, Poll(a, b) PROVE DecidedUnderLive(k, l)'
  BY <1>0, <1>5, <1>k, PollEffect DEF DecidedUnderLive, Holds
<1>6. ASSUME NEW a \in CP, Crash(a) PROVE DecidedUnderLive(k, l)'
  <2>1. CASE k # a /\ l # a
    BY <1>0, <1>6, <1>k, <2>1, CrashEffect DEF DecidedUnderLive, Holds
  <2>2. CASE k = a \/ l = a
    BY <1>0, <1>6, <2>2, CrashEffect DEF DecidedUnderLive
  <2> QED
    BY <2>1, <2>2
<1>7. ASSUME NEW a \in CP, Recover(a) PROVE DecidedUnderLive(k, l)'
  <2>1. CASE k # a /\ l # a
    BY <1>0, <1>7, <1>k, <2>1, RecoverEffect DEF DecidedUnderLive, Holds
  <2>2. CASE k = a
    <3>1. reconciledAt'[k] = now /\ modeSince'[k] = now
      BY <1>0, <1>7, <2>2, RecoverEffect
    <3> QED
      BY <1>0, <1>n, <3>1 DEF DecidedUnderLive
  <2>3. CASE k # a /\ l = a
    <3>1. reconciledAt'[k] = reconciledAt[k] /\ modeSince'[l] = now
      BY <1>0, <1>7, <2>3, RecoverEffect
    <3> QED
      BY <1>0, <1>n, <1>k, <3>1 DEF DecidedUnderLive, InPast
  <2> QED
    BY <2>1, <2>2, <2>3
<1>8. ASSUME NEW a \in CP, Pause(a) PROVE DecidedUnderLive(k, l)'
  <2>1. CASE k # a /\ l # a
    BY <1>0, <1>8, <1>k, <2>1, PauseEffect DEF DecidedUnderLive, Holds
  <2>2. CASE k = a \/ l = a
    BY <1>0, <1>8, <2>2, PauseEffect DEF DecidedUnderLive
  <2> QED
    BY <2>1, <2>2
<1>9. ASSUME NEW a \in CP, Resume(a) PROVE DecidedUnderLive(k, l)'
  <2>1. CASE k # a /\ l # a
    BY <1>0, <1>9, <1>k, <2>1, ResumeEffect DEF DecidedUnderLive, Holds
  <2>2. CASE k = a
    <3>1. reconciledAt'[k] = now /\ modeSince'[k] = now
      BY <1>0, <1>9, <2>2, ResumeEffect
    <3> QED
      BY <1>0, <1>n, <3>1 DEF DecidedUnderLive
  <2>3. CASE k # a /\ l = a
    <3>1. reconciledAt'[k] = reconciledAt[k] /\ modeSince'[l] = now
      BY <1>0, <1>9, <2>3, ResumeEffect
    <3> QED
      BY <1>0, <1>n, <1>k, <3>1 DEF DecidedUnderLive, InPast
  <2> QED
    BY <2>1, <2>2, <2>3
<1> QED
  BY <1>1, <1>2, <1>3, <1>4, <1>5, <1>6, <1>7, <1>8, <1>9,
     GslbChangeEffect, StutterEffect DEF Next

\* Without GSLB arbitration a leader makes way for whoever outranks it, within
\* the time it takes to hear of it, in every set whose TTL covers that way
\* (election.py:120).
THEOREM HandoffStarts ==
  ASSUME TTLCovers, NoArbitration
  PROVE  Spec => []YieldsToHigher
<1>1. Travel /\ LeadersUnderLive => YieldsToHigher
  <2> SUFFICES ASSUME Travel, LeadersUnderLive, NEW i \in CP, NEW j \in Higher(i),
                      Holds(i), mode[i] = "up", mode[j] = "up",
                      InModeFor(i) > KnownAfter + ReconcilePeriod,
                      InModeFor(j) > KnownAfter + ReconcilePeriod
               PROVE  FALSE
    <3>1. ASSUME Travel, NEW k \in CP PROVE InModeFor(k) \in Int
      <4>1. now \in Nat /\ modeSince[k] \in Nat
        BY <3>1, NumberTypes DEF Travel
      <4> QED
        BY <4>1 DEF InModeFor
    <3> QED
      BY <3>1, KnownAfterNat DEF YieldsToHigher, Higher
  <2>0. j \in CP /\ j < i
    BY DEF Higher
  <2>1. /\ now \in Nat /\ reconciledAt[i] \in Nat
        /\ modeSince[i] \in Nat /\ modeSince[j] \in Nat
        /\ ReconcilePeriod \in Nat /\ WriteLag \in Nat /\ PollPeriod \in Nat
        /\ KnownAfter = ReconcilePeriod + WriteLag + PollPeriod
    BY <2>0, NumberTypes, KnownAfterNat DEF Travel
  <2>2. now <= reconciledAt[i] + ReconcilePeriod
    BY DEF Travel, TimersOK, ReconcileTimely
  <2>3. /\ reconciledAt[i] > modeSince[j] + KnownAfter
        /\ reconciledAt[i] > modeSince[i] + ReconcilePeriod + PollPeriod
    BY <2>1, <2>2 DEF InModeFor
  <2>4. reconciledAt[i] <= modeSince[j] + KnownAfter
    BY <2>0, <2>3 DEF LeadersUnderLive, DecidedUnderLive
  <2> QED
    BY <2>1, <2>3, <2>4
<1>2. Init => LeadersUnderLive
  <2> SUFFICES ASSUME Init, NEW i \in CP PROVE ~Holds(i)
    BY DEF LeadersUnderLive, DecidedUnderLive
  <2> QED
    BY DEF Init, Holds, NoStatus
<1>3. Travel /\ LeadersUnderLive /\ [Next]_vars => LeadersUnderLive'
  BY StepDecidedUnderLive DEF LeadersUnderLive
<1>4. Spec => []Travel
  BY TravelInvariant
<1> QED
  BY <1>1, <1>2, <1>3, <1>4, PTL DEF Spec

=============================================================================
