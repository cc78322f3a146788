-------------------------- MODULE DirectSetProofs --------------------------
(***************************************************************************)
(* Proofs about DirectSet, for any number of control planes, any timing    *)
(* and any reads that fail: types, that nobody promotes without having     *)
(* read everybody above it, the inductive invariant of DirectSetInv, and   *)
(* the timing properties it implies.                                       *)
(***************************************************************************)
EXTENDS DirectSetInv, TLAPS

LEMMA NoTagsType == NoTags \in Tags
BY DEF NoTags, Tags, Missing

LEMMA DecisionType ==
  ASSUME NEW i, NEW g, NEW seen, NEW prior \in Statuses, NEW t \in Nat
  PROVE  /\ Decide(i, g, seen, prior, t).role \in Roles
         /\ Decide(i, g, seen, prior, t).cand \in Nat
BY DEF Decide, Roles, Statuses

\* A reconcile that ends as the leader has all its higher peers unblocked.
LEMMA LeaderUnblocked ==
  ASSUME NEW i, NEW g, NEW seen, NEW prior, NEW t,
         Decide(i, g, seen, prior, t).role = "leader"
  PROVE  \A j \in HigherIn(i, seen) : ~Blocks(seen[j], g)
BY DEF Decide, MayLead, HigherAllDown

LEMMA InitType == Init => TypeOK
<1>. SUFFICES ASSUME Init PROVE TypeOK OBVIOUS
<1>1. NoStatus \in Statuses
  BY DEF Statuses, NoStatus
<1>2. now \in Nat
  BY DirectAssumption DEF Init
<1>3. /\ DOMAIN run = CP /\ \A i \in CP : run[i] = {}
      /\ written \in [CP -> SUBSET Both]
  BY DEF Init
<1>4. /\ mode \in [CP -> {"up", "down"}]
      /\ status \in [CP -> Statuses]
      /\ desired \in [CP -> Tags] /\ cloud \in [CP -> Tags]
  BY <1>1, NoTagsType DEF Init
<1>5. /\ reconciledAt \in [CP -> Nat] /\ dirtyAt \in [CP -> Nat]
      /\ modeSince \in [CP -> Nat] /\ holdsSince \in [CP -> Nat]
  BY <1>2 DEF Init
<1>. QED BY <1>2, <1>3, <1>4, <1>5 DEF TypeOK

LEMMA StepType ==
  ASSUME TypeOK, [Next]_vars
  PROVE  TypeOK'
<1>. USE DirectAssumption DEF TypeOK
<1>1. CASE Tick
  BY <1>1 DEF Tick, stored, doing, timers, history, UnderWay
<1>2. ASSUME NEW i \in CP, Begin(i) PROVE TypeOK'
  <2>. DEFINE begun == [at |-> now, read |-> <<>>]
  <2>1. run' = [run EXCEPT ![i] = {begun}]
        /\ UNCHANGED <<now, mode, stored, written, timers, history>>
    BY <1>2 DEF Begin
  <2>2. UnderWay(i, begun)
    BY DEF UnderWay
  <2>3. \A k \in CP : (\A r \in run'[k] : UnderWay(k, r)') /\ (\A q, r \in run'[k] : q = r)
    <3>. TAKE k \in CP
    <3>. HIDE DEF begun
    <3>. QED BY <2>1, <2>2 DEF UnderWay
  <2>. QED BY <2>1, <2>3 DEF stored, timers, history
<1>3. ASSUME NEW i \in CP, NEW j \in Peers(i), Read(i, j) PROVE TypeOK'
  <2>1. PICK r \in run[i] :
          /\ \/ run' = [run EXCEPT ![i] = {With(r, j, cloud[j])}]
             \/ run' = [run EXCEPT ![i] = {With(r, j, NoTags)}]
          /\ UNCHANGED <<now, mode, stored, written, timers, history>>
    BY <1>3 DEF Read, Missed
  <2>2. PICK tags \in Tags : run' = [run EXCEPT ![i] = {With(r, j, tags)}]
    BY <2>1, NoTagsType DEF Peers
  <2>3. UnderWay(i, r)
    BY <2>1
  <2>4. UnderWay(i, With(r, j, tags))
    <3>. DEFINE read == [k \in DOMAIN r.read \cup {j} |-> IF k = j THEN tags ELSE r.read[k]]
    <3>1. DOMAIN read \subseteq Peers(i) /\ read \in [DOMAIN read -> Tags]
      BY <2>3 DEF UnderWay
    <3>2. With(r, j, tags) = [at |-> r.at, read |-> read]
      BY DEF With
    <3>. HIDE DEF read
    <3>. QED BY <2>3, <3>1, <3>2 DEF UnderWay
  <2>5. DOMAIN run' = CP
    BY <2>2
  <2>6. \A k \in CP : run'[k] = IF k = i THEN {With(r, j, tags)} ELSE run[k]
    BY <2>2
  <2>7. \A k \in CP : (\A q \in run'[k] : UnderWay(k, q)) /\ (\A q, s \in run'[k] : q = s)
    BY <2>4, <2>6
  <2>8. \A k \in CP : \A q \in run'[k] : UnderWay(k, q)'
    BY <2>1, <2>7 DEF UnderWay
  <2>. QED BY <2>1, <2>5, <2>7, <2>8 DEF stored, timers, history
<1>4. ASSUME NEW i \in CP, Write(i) PROVE TypeOK'
  <2>1. PICK r \in run[i], W \in Writes(i) :
          /\ IF "status" \in W THEN WriteStatus(i, r) ELSE UNCHANGED <<status, holdsSince>>
          /\ IF "heartbeat" \in W THEN WriteHeartbeat(i, r)
             ELSE UNCHANGED <<desired, dirtyAt>>
          /\ IF written[i] \cup W = Both
             THEN /\ written' = [written EXCEPT ![i] = {}]
                  /\ run' = [run EXCEPT ![i] = {}]
                  /\ reconciledAt' = [reconciledAt EXCEPT ![i] = now]
             ELSE /\ written' = [written EXCEPT ![i] = W]
                  /\ UNCHANGED <<run, reconciledAt>>
          /\ UNCHANGED <<now, mode, cloud, modeSince>>
    BY <1>4 DEF Write
  <2>2. r.at \in Nat
    BY <2>1 DEF UnderWay
  <2>3. Verdict(i, r).role \in Roles /\ Verdict(i, r).cand \in Nat
    BY <2>2, DecisionType DEF Verdict
  <2>4. /\ status' \in [CP -> Statuses]
        /\ holdsSince' \in [CP -> Nat]
    <3>1. CASE "status" \in W
      <4>. DEFINE st == [role |-> Verdict(i, r).role, cand |-> Verdict(i, r).cand,
                         selfEpoch |-> r.at]
      <4>1. st \in Statuses
        BY <2>2, <2>3 DEF Statuses
      <4>2. status' = [status EXCEPT ![i] = st]
        BY <2>1, <3>1 DEF WriteStatus
      <4>3. holdsSince' \in [CP -> Nat]
        BY <2>1, <3>1 DEF WriteStatus
      <4>. HIDE DEF st
      <4>. QED BY <4>1, <4>2, <4>3
    <3>2. CASE "status" \notin W
      BY <2>1, <3>2
    <3>. QED BY <3>1, <3>2
  <2>5. /\ desired' \in [CP -> Tags]
        /\ dirtyAt' \in [CP -> Nat]
    <3>1. CASE "heartbeat" \in W
      <4>. DEFINE role == RoleOf(i, r)
      <4>1. role \in Roles \cup {""}
        BY <2>3 DEF RoleOf, Statuses
      <4>2. EpochToWrite(NoTags, role, r.at) = r.at
        BY DEF EpochToWrite, NoTags, AsInt, Missing
      <4>. HIDE DEF role
      <4>3. OwnTags(EpochToWrite(NoTags, role, r.at), role) \in Tags
        BY <2>2, <4>1, <4>2 DEF OwnTags, Tags
      <4>. QED BY <2>1, <3>1, <4>3 DEF WriteHeartbeat, role
    <3>2. CASE "heartbeat" \notin W
      BY <2>1, <3>2
    <3>. QED BY <3>1, <3>2
  <2>6. written' \in [CP -> SUBSET Both]
    BY <2>1 DEF Writes, Both
  <2>7. /\ DOMAIN run' = CP
        /\ \A k \in CP : run'[k] \subseteq run[k]
        /\ reconciledAt' \in [CP -> Nat]
    BY <2>1
  <2>. QED BY <2>1, <2>4, <2>5, <2>6, <2>7 DEF UnderWay
<1>5. ASSUME NEW i \in CP, Publish(i) PROVE TypeOK'
  BY <1>5 DEF Publish, doing, timers, history, UnderWay
<1>6. ASSUME NEW i \in CP, Crash(i) PROVE TypeOK'
  BY <1>6 DEF Crash, stored, timers, UnderWay
<1>7. ASSUME NEW i \in CP, Recover(i) PROVE TypeOK'
  BY <1>7 DEF Recover, stored, doing, UnderWay
<1>8. CASE UNCHANGED vars
  BY <1>8 DEF vars, stored, doing, timers, history, UnderWay
<1>. QED BY <1>1, <1>2, <1>3, <1>4, <1>5, <1>6, <1>7, <1>8 DEF Next

\* The types of DirectSet (TypeOK).
THEOREM DirectTypeCorrect == Spec => []TypeOK
<1>. QED BY InitType, StepType, PTL DEF Spec

\* Without GSLB arbitration nobody promotes on blindness (NeverPromotesBlind),
\* whichever reads fail and whatever happens while they are made.
THEOREM NoBlindPromotion ==
  ASSUME NoArbitration
  PROVE  Spec => NeverPromotesBlind
<1>1. ASSUME TypeOK, [Next]_vars, NEW i \in CP, Promotes(i)
      PROVE  \A r \in run[i] : \A j \in Higher(i) : r.read[j].ts # Missing
  <2>1. Write(i)
    <3>1. CASE Tick BY <1>1, <3>1 DEF Tick, stored, Promotes
    <3>2. ASSUME NEW k \in CP,
                 Begin(k) \/ (\E j \in Peers(k) : Read(k, j)) \/ Publish(k) \/ Crash(k)
                   \/ Recover(k)
          PROVE  FALSE
      BY <1>1, <3>2 DEF Begin, Read, Publish, Crash, Recover, stored, Promotes
    <3>3. ASSUME NEW k \in CP, Write(k), k # i PROVE FALSE
      BY <1>1, <3>3 DEF Write, WriteStatus, Promotes, TypeOK
    <3>4. CASE UNCHANGED vars BY <1>1, <3>4 DEF vars, stored, Promotes
    <3>. QED BY <1>1, <3>1, <3>2, <3>3, <3>4 DEF Next
  <2>2. PICK r \in run[i] : Unread(i, r) = {} /\ status'[i].role = Verdict(i, r).role
    BY <1>1, <2>1 DEF Write, WriteStatus, Promotes, TypeOK
  <2>3. \A q \in run[i] : q = r
    BY <1>1 DEF TypeOK
  <2>4. ASSUME NEW j \in Higher(i) PROVE r.read[j].ts # Missing
    <3>1. j \in DOMAIN r.read
      BY <2>2, <2>4, DirectAssumption DEF Unread, Peers, Higher
    <3>2. j \in HigherIn(i, Seen(r))
      BY <2>4, <3>1 DEF HigherIn, Seen, Higher
    <3>3. ~Blocks(Seen(r)[j], Signal[i])
      BY <1>1, <2>2, <3>2, LeaderUnblocked DEF Promotes, Verdict
    <3>4. Seen(r)[j].readable
      BY <3>3 DEF Blocks, NoArbitration
    <3>. QED BY <3>1, <3>4 DEF Seen, LivenessFromTags
  <2>. QED BY <2>3, <2>4
<1>2. TypeOK /\ [Next]_vars =>
        [\A i \in CP : Promotes(i) =>
           \A r \in run[i] : \A j \in Higher(i) : r.read[j].ts # Missing]_vars
  BY <1>1
<1>. QED BY <1>2, DirectTypeCorrect, PTL DEF Spec, NeverPromotesBlind

-----------------------------------------------------------------------------
(* What any step does to one control plane. *)

\* All that an invariant of one control plane reads, but for the clock.
Own(k) == <<mode[k], status[k], desired[k], cloud[k], run[k], written[k],
            reconciledAt[k], dirtyAt[k], modeSince[k], holdsSince[k]>>

LEMMA TickEffect ==
  ASSUME Tick, NEW k \in CP
  PROVE  now' = now + 1 /\ Own(k)' = Own(k) /\ NotDue(k)
BY DEF Tick, stored, doing, timers, history, Own

LEMMA Elsewhere ==
  ASSUME TypeOK, NEW a \in CP,
         \/ Begin(a) \/ (\E b \in Peers(a) : Read(a, b)) \/ Write(a)
         \/ Publish(a) \/ Crash(a) \/ Recover(a),
         NEW k \in CP, k # a
  PROVE  now' = now /\ Own(k)' = Own(k)
<1>1. CASE Begin(a)
  BY <1>1 DEF Begin, stored, timers, history, TypeOK, Own
<1>2. CASE \E b \in Peers(a) : Read(a, b)
  BY <1>2 DEF Read, stored, timers, history, TypeOK, Own
<1>3. CASE Write(a)
  BY <1>3 DEF Write, WriteStatus, WriteHeartbeat, TypeOK, Own
<1>4. CASE Publish(a)
  BY <1>4 DEF Publish, doing, timers, history, TypeOK, Own
<1>5. CASE Crash(a)
  BY <1>5 DEF Crash, stored, timers, TypeOK, Own
<1>6. CASE Recover(a)
  BY <1>6 DEF Recover, stored, doing, TypeOK, Own
<1> QED
  BY <1>1, <1>2, <1>3, <1>4, <1>5, <1>6

\* A step leaves k alone, is the clock's or is of k.
LEMMA StepCases ==
  ASSUME TypeOK, [Next]_vars, NEW k \in CP
  PROVE  \/ now' = now /\ Own(k)' = Own(k)
         \/ Tick
         \/ Begin(k) \/ (\E b \in Peers(k) : Read(k, b)) \/ Write(k)
         \/ Publish(k) \/ Crash(k) \/ Recover(k)
<1>1. CASE UNCHANGED vars
  BY <1>1 DEF vars, stored, doing, timers, history, Own
<1>2. CASE Next
  BY <1>2, Elsewhere DEF Next
<1> QED
  BY <1>1, <1>2

LEMMA BeginEffect ==
  ASSUME TypeOK, NEW k \in CP, Begin(k)
  PROVE  /\ now' = now /\ mode' = mode /\ status' = status /\ desired' = desired
         /\ cloud' = cloud /\ written' = written /\ reconciledAt' = reconciledAt
         /\ dirtyAt' = dirtyAt /\ modeSince' = modeSince /\ holdsSince' = holdsSince
         /\ mode[k] = "up" /\ run[k] = {}
         /\ run'[k] # {} /\ \A r \in run'[k] : r.at = now /\ DOMAIN r.read = {}
<1> DEFINE begun == [at |-> now, read |-> <<>>]
<1>1. begun.at = now /\ DOMAIN begun.read = {}
  OBVIOUS
<1>2. run' = [run EXCEPT ![k] = {begun}]
  BY DEF Begin
<1>3. run'[k] = {begun}
  BY <1>2 DEF TypeOK
<1> HIDE DEF begun
<1>4. run'[k] # {} /\ \A r \in run'[k] : r.at = now /\ DOMAIN r.read = {}
  BY <1>1, <1>3
<1> QED
  BY <1>4 DEF Begin, stored, timers, history, TypeOK

LEMMA ReadEffect ==
  ASSUME TypeOK, NEW k \in CP, NEW b \in Peers(k), Read(k, b)
  PROVE  /\ now' = now /\ mode' = mode /\ status' = status /\ desired' = desired
         /\ cloud' = cloud /\ written' = written /\ reconciledAt' = reconciledAt
         /\ dirtyAt' = dirtyAt /\ modeSince' = modeSince /\ holdsSince' = holdsSince
         /\ \E r \in run[k], t \in {cloud[b], Missed} :
              run[k] = {r} /\ run'[k] = {With(r, b, t)}
<1>1. PICK r \in run[k] :
        /\ \E t \in {cloud[b], Missed} : run' = [run EXCEPT ![k] = {With(r, b, t)}]
        /\ UNCHANGED <<now, mode, stored, written, timers, history>>
  BY DEF Read
<1>2. run[k] = {r}
  BY DEF TypeOK
<1> QED
  BY <1>1, <1>2 DEF stored, timers, history, TypeOK

LEMMA WriteEffect ==
  ASSUME TypeOK, NEW k \in CP, written[k] # Both, Write(k)
  PROVE  /\ now' = now /\ mode' = mode /\ cloud' = cloud /\ modeSince' = modeSince
         /\ \E r \in run[k], W \in SUBSET Both :
              /\ run[k] = {r} /\ Unread(k, r) = {}
              /\ IF "status" \in W
                 THEN /\ status'[k].role = Verdict(k, r).role
                      /\ holdsSince'[k] = IF status[k].role = "leader"
                                          THEN holdsSince[k] ELSE now
                 ELSE status'[k] = status[k] /\ holdsSince'[k] = holdsSince[k]
              /\ IF "heartbeat" \in W
                 THEN /\ desired'[k].ts = r.at /\ "heartbeat" \notin written[k]
                      /\ dirtyAt'[k] = IF desired[k] = cloud[k] THEN now ELSE dirtyAt[k]
                 ELSE desired'[k] = desired[k] /\ dirtyAt'[k] = dirtyAt[k]
              /\ \/ /\ "status" \in W \cup written[k] /\ "heartbeat" \in W \cup written[k]
                    /\ written'[k] = {} /\ run'[k] = {} /\ reconciledAt'[k] = now
                 \/ /\ written[k] = {} /\ W # Both /\ written'[k] = W
                    /\ run'[k] = run[k] /\ reconciledAt'[k] = reconciledAt[k]
<1>1. PICK r \in run[k], W \in Writes(k) :
        /\ Unread(k, r) = {}
        /\ W \cap written[k] = {}
        /\ IF "status" \in W THEN WriteStatus(k, r) ELSE UNCHANGED <<status, holdsSince>>
        /\ IF "heartbeat" \in W THEN WriteHeartbeat(k, r)
           ELSE UNCHANGED <<desired, dirtyAt>>
        /\ IF written[k] \cup W = Both
           THEN /\ written' = [written EXCEPT ![k] = {}]
                /\ run' = [run EXCEPT ![k] = {}]
                /\ reconciledAt' = [reconciledAt EXCEPT ![k] = now]
           ELSE /\ written' = [written EXCEPT ![k] = W]
                /\ UNCHANGED <<run, reconciledAt>>
        /\ UNCHANGED <<now, mode, cloud, modeSince>>
  BY DEF Write
<1>2. run[k] = {r}
  BY DEF TypeOK
<1>3. W \in SUBSET Both /\ (W = {"status"} \/ W = {"heartbeat"} \/ W = Both)
  BY DEF Writes, Both
<1>4. IF "status" \in W
      THEN /\ status'[k].role = Verdict(k, r).role
           /\ holdsSince'[k] = IF status[k].role = "leader" THEN holdsSince[k] ELSE now
      ELSE status'[k] = status[k] /\ holdsSince'[k] = holdsSince[k]
  BY <1>1 DEF WriteStatus, TypeOK
<1>5. IF "heartbeat" \in W
      THEN /\ desired'[k].ts = r.at /\ "heartbeat" \notin written[k]
           /\ dirtyAt'[k] = IF desired[k] = cloud[k] THEN now ELSE dirtyAt[k]
      ELSE desired'[k] = desired[k] /\ dirtyAt'[k] = dirtyAt[k]
  <2>1. CASE "heartbeat" \in W
    <3>1. desired'[k].ts = r.at
      <4>1. EpochToWrite(NoTags, RoleOf(k, r), r.at) = r.at
        BY DEF EpochToWrite, NoTags, AsInt, Missing
      <4> QED
        BY <1>1, <2>1, <4>1 DEF WriteHeartbeat, OwnTags, TypeOK
    <3> QED
      BY <1>1, <2>1, <3>1 DEF WriteHeartbeat, TypeOK
  <2>2. CASE "heartbeat" \notin W
    BY <1>1, <2>2
  <2> QED
    BY <2>1, <2>2
<1>6. CASE written[k] \cup W = Both
  <2>1. "status" \in W \cup written[k] /\ "heartbeat" \in W \cup written[k]
    BY <1>6 DEF Both
  <2>2. written'[k] = {} /\ run'[k] = {} /\ reconciledAt'[k] = now
    BY <1>1, <1>6 DEF TypeOK
  <2> QED
    BY <1>1, <1>2, <1>3, <1>4, <1>5, <2>1, <2>2
<1>7. CASE written[k] \cup W # Both
  <2>1. written[k] = {} /\ W # Both
    BY <1>1, <1>3, <1>7 DEF TypeOK, Both
  <2>2. written'[k] = W /\ run'[k] = run[k] /\ reconciledAt'[k] = reconciledAt[k]
    BY <1>1, <1>7 DEF TypeOK
  <2> QED
    BY <1>1, <1>2, <1>3, <1>4, <1>5, <2>1, <2>2
<1> QED
  BY <1>6, <1>7

LEMMA PublishEffect ==
  ASSUME TypeOK, NEW k \in CP, Publish(k)
  PROVE  /\ now' = now /\ mode' = mode /\ status' = status /\ desired' = desired
         /\ run' = run /\ written' = written /\ reconciledAt' = reconciledAt
         /\ dirtyAt' = dirtyAt /\ modeSince' = modeSince /\ holdsSince' = holdsSince
         /\ cloud'[k] = desired[k]
BY DEF Publish, doing, timers, history, TypeOK

LEMMA CrashEffect ==
  ASSUME TypeOK, NEW k \in CP, Crash(k)
  PROVE  /\ now' = now /\ mode'[k] = "down" /\ modeSince'[k] = now
         /\ run'[k] = {} /\ written'[k] = {}
         /\ desired' = desired /\ reconciledAt' = reconciledAt
         /\ dirtyAt' = dirtyAt /\ holdsSince' = holdsSince
BY DEF Crash, stored, timers, TypeOK

LEMMA RecoverEffect ==
  ASSUME TypeOK, NEW k \in CP, Recover(k)
  PROVE  /\ now' = now /\ mode[k] = "down" /\ mode'[k] = "up" /\ modeSince'[k] = now
         /\ run' = run /\ written' = written /\ desired' = desired /\ cloud' = cloud
         /\ reconciledAt'[k] = now /\ dirtyAt'[k] = now /\ holdsSince'[k] = now
BY DEF Recover, stored, doing, TypeOK

-----------------------------------------------------------------------------
(* The inductive invariant: one lemma per conjunct, one step per action. *)

LEMMA PeriodTypes ==
  /\ ReconcilePeriod \in Nat /\ PhaseBound \in Nat /\ WriteLag \in Nat /\ TTL \in Nat
  /\ HeardOf = ReconcilePeriod + PhaseBound + WriteLag
BY DirectAssumption, HeartbeatAssumption DEF HeardOf

LEMMA NumberTypes ==
  ASSUME TypeOK, NEW k \in CP
  PROVE  /\ now \in Nat /\ modeSince[k] \in Nat /\ holdsSince[k] \in Nat
         /\ reconciledAt[k] \in Nat /\ dirtyAt[k] \in Nat
         /\ desired[k].ts \in Int /\ cloud[k].ts \in Int
         /\ \A r \in run[k] : r.at \in Nat /\ r.at <= now
<1>1. desired[k] \in Tags /\ cloud[k] \in Tags
  BY DEF TypeOK
<1>2. \A t \in Tags : t.ts \in Int
  <2> SUFFICES ASSUME NEW t \in Tags PROVE t.ts \in Int
    OBVIOUS
  <2>1. t.ts \in Nat \cup {Missing}
    BY DEF Tags
  <2> QED
    BY <2>1 DEF Missing
<1>3. \A r \in run[k] : r.at \in Nat /\ r.at <= now
  BY DEF TypeOK, UnderWay
<1> QED
  BY <1>1, <1>2, <1>3 DEF TypeOK

LEMMA TravelFacts ==
  ASSUME Travel, NEW k \in CP
  PROVE  /\ TypeOK /\ InPast(k) /\ Timely(k) /\ Doing(k)
         /\ DesiredTimely(k) /\ CloudTimely(k) /\ \A l \in CP : ReadTimely(k, l)
         /\ written[k] # Both
BY DEF Travel, Doing

LEMMA StepInPast ==
  ASSUME Travel, [Next]_vars, NEW k \in CP
  PROVE  InPast(k)'
<1>k. TypeOK /\ InPast(k) /\ written[k] # Both
  BY TravelFacts
<1>n. /\ now \in Nat /\ modeSince[k] \in Nat /\ holdsSince[k] \in Nat
      /\ reconciledAt[k] \in Nat /\ dirtyAt[k] \in Nat
  BY <1>k, NumberTypes
<1>p. modeSince[k] > 0 /\ now > 0
  BY <1>k, <1>n DEF InPast
<1>1. CASE now' = now /\ Own(k)' = Own(k)
  BY <1>1, <1>k DEF InPast, Own
<1>2. CASE Tick
  BY <1>2, <1>k, <1>n, TickEffect DEF InPast, Own
<1>3. CASE Begin(k) \/ Publish(k)
  BY <1>3, <1>k, BeginEffect, PublishEffect DEF InPast
<1>4. ASSUME NEW b \in Peers(k), Read(k, b) PROVE InPast(k)'
  BY <1>4, <1>k, ReadEffect DEF InPast
<1>5. CASE Write(k)
  BY <1>5, <1>k, <1>n, WriteEffect DEF InPast
<1>6. CASE Crash(k)
  BY <1>6, <1>k, <1>n, <1>p, CrashEffect DEF InPast
<1>7. CASE Recover(k)
  BY <1>7, <1>k, <1>n, <1>p, RecoverEffect DEF InPast
<1> QED
  BY <1>k, <1>1, <1>2, <1>3, <1>4, <1>5, <1>6, <1>7, StepCases

LEMMA StepTimely ==
  ASSUME Travel, [Next]_vars, NEW k \in CP
  PROVE  Timely(k)'
<1>k. TypeOK /\ InPast(k) /\ Timely(k) /\ Doing(k) /\ written[k] # Both
  BY TravelFacts
<1>n. /\ now \in Nat /\ modeSince[k] \in Nat /\ holdsSince[k] \in Nat
      /\ reconciledAt[k] \in Nat /\ dirtyAt[k] \in Nat
      /\ \A r \in run[k] : r.at \in Nat /\ r.at <= now
      /\ ReconcilePeriod \in Nat /\ PhaseBound \in Nat /\ WriteLag \in Nat
  BY <1>k, NumberTypes, PeriodTypes
<1>1. CASE now' = now /\ Own(k)' = Own(k)
  BY <1>1, <1>k DEF Timely, Own
<1>2. CASE Tick
  <2>1. now' = now + 1 /\ Own(k)' = Own(k) /\ NotDue(k)
    BY <1>2, TickEffect
  <2> QED
    BY <2>1, <1>k, <1>n DEF Timely, Own, NotDue
<1>3. CASE Begin(k)
  <2>1. /\ now' = now /\ mode[k] = "up" /\ run[k] = {}
        /\ \A r \in run'[k] : r.at = now
        /\ run'[k] # {}
        /\ modeSince' = modeSince /\ holdsSince' = holdsSince
        /\ reconciledAt' = reconciledAt /\ dirtyAt' = dirtyAt
        /\ desired' = desired /\ cloud' = cloud
    BY <1>3, <1>k, BeginEffect
  <2>2. /\ modeSince[k] <= reconciledAt[k] /\ modeSince[k] <= holdsSince[k]
        /\ now <= reconciledAt[k] + ReconcilePeriod /\ reconciledAt[k] <= now
        /\ desired[k] # cloud[k] => now <= dirtyAt[k] + WriteLag
    BY <1>k, <2>1 DEF Timely, InPast
  <2> QED
    BY <1>n, <2>1, <2>2 DEF Timely
<1>4. ASSUME NEW b \in Peers(k), Read(k, b) PROVE Timely(k)'
  <2>1. PICK r \in run[k], t \in {cloud[b], Missed} : run'[k] = {With(r, b, t)}
    BY <1>4, <1>k, ReadEffect
  <2>2. run'[k] # {} /\ run[k] # {} /\ \A q \in run'[k] : q.at = r.at
    BY <2>1 DEF With
  <2> QED
    BY <1>4, <1>k, <2>1, <2>2, ReadEffect DEF Timely
<1>5. CASE Write(k)
  <2>1. PICK r \in run[k], W \in SUBSET Both :
          /\ run[k] = {r}
          /\ holdsSince'[k] = holdsSince[k] \/ holdsSince'[k] = now
          /\ \/ dirtyAt'[k] = now
             \/ dirtyAt'[k] = dirtyAt[k] /\ desired[k] # cloud[k]
             \/ dirtyAt'[k] = dirtyAt[k] /\ desired'[k] = desired[k]
          /\ \/ run'[k] = {} /\ reconciledAt'[k] = now
             \/ run'[k] = run[k] /\ reconciledAt'[k] = reconciledAt[k]
    BY <1>5, <1>k, WriteEffect
  <2>2. /\ now' = now /\ mode' = mode /\ cloud' = cloud /\ modeSince' = modeSince
    BY <1>5, <1>k, WriteEffect
  <2>3. mode[k] = "up" /\ modeSince[k] <= now
    BY <1>k, <2>1 DEF Doing, TypeOK, InPast
  <2>4. /\ modeSince[k] <= reconciledAt[k] /\ modeSince[k] <= holdsSince[k]
        /\ reconciledAt[k] <= r.at /\ r.at <= reconciledAt[k] + ReconcilePeriod
        /\ now <= r.at + PhaseBound
        /\ desired[k] # cloud[k] => now <= dirtyAt[k] + WriteLag
    BY <1>k, <2>1, <2>3 DEF Timely
  <2>5. modeSince[k] <= reconciledAt'[k] /\ modeSince[k] <= holdsSince'[k]
    BY <2>1, <2>3, <2>4
  <2>6. desired'[k] # cloud[k] => now <= dirtyAt'[k] + WriteLag
    BY <1>n, <2>1, <2>4
  <2>7. /\ run'[k] = {} => now <= reconciledAt'[k] + ReconcilePeriod
        /\ \A q \in run'[k] :
             /\ reconciledAt'[k] <= q.at /\ q.at <= reconciledAt'[k] + ReconcilePeriod
             /\ now <= q.at + PhaseBound
    BY <1>n, <2>1, <2>4
  <2> QED
    BY <2>2, <2>5, <2>6, <2>7 DEF Timely
<1>6. CASE Publish(k)
  BY <1>6, <1>k, PublishEffect DEF Timely
<1>7. CASE Crash(k)
  BY <1>7, <1>k, CrashEffect DEF Timely
<1>8. CASE Recover(k)
  <2>1. run[k] = {}
    BY <1>8, <1>k, RecoverEffect DEF Doing
  <2> QED
    BY <1>8, <1>k, <1>n, <2>1, RecoverEffect DEF Timely
<1> QED
  BY <1>k, <1>1, <1>2, <1>3, <1>4, <1>5, <1>6, <1>7, <1>8, StepCases

LEMMA StepDoing ==
  ASSUME Travel, [Next]_vars, NEW k \in CP
  PROVE  Doing(k)'
<1>k. TypeOK /\ Doing(k) /\ written[k] # Both
  BY TravelFacts
<1>1. CASE now' = now /\ Own(k)' = Own(k)
  BY <1>1, <1>k DEF Doing, Own
<1>2. CASE Tick
  BY <1>2, <1>k, TickEffect DEF Doing, Own
<1>3. CASE Begin(k)
  BY <1>3, <1>k, BeginEffect DEF Doing
<1>4. ASSUME NEW b \in Peers(k), Read(k, b) PROVE Doing(k)'
  <2>1. PICK r \in run[k], t \in {cloud[b], Missed} : run'[k] = {With(r, b, t)}
    BY <1>4, <1>k, ReadEffect
  <2>2. run'[k] # {} /\ run[k] # {} /\ \A q \in run'[k] : q.at = r.at
    BY <2>1 DEF With
  <2> QED
    BY <1>4, <1>k, <2>1, <2>2, ReadEffect DEF Doing
<1>5. CASE Write(k)
  <2>1. PICK r \in run[k], W \in SUBSET Both :
          /\ run[k] = {r}
          /\ "heartbeat" \in W => desired'[k].ts = r.at
          /\ \/ written'[k] = {} /\ run'[k] = {}
             \/ W # Both /\ written'[k] = W /\ run'[k] = run[k]
    BY <1>5, <1>k, WriteEffect
  <2>2. mode' = mode /\ mode[k] = "up"
    BY <1>5, <1>k, <2>1, WriteEffect DEF Doing, TypeOK
  <2> QED
    BY <2>1, <2>2 DEF Doing, Both
<1>6. CASE Publish(k)
  BY <1>6, <1>k, PublishEffect DEF Doing
<1>7. CASE Crash(k)
  BY <1>7, <1>k, CrashEffect DEF Doing, Both
<1>8. CASE Recover(k)
  <2>1. run[k] = {} /\ written[k] = {}
    BY <1>8, <1>k, RecoverEffect DEF Doing
  <2> QED
    BY <1>8, <1>k, <2>1, RecoverEffect DEF Doing, Both
<1> QED
  BY <1>k, <1>1, <1>2, <1>3, <1>4, <1>5, <1>6, <1>7, <1>8, StepCases

\* A reconcile is over, or the next one will be, in a period and a phase.
LEMMA NextReconcile ==
  ASSUME Travel, NEW k \in CP, mode[k] = "up"
  PROVE  now <= reconciledAt[k] + ReconcilePeriod + PhaseBound
<1>k. TypeOK /\ Timely(k)
  BY TravelFacts
<1>n. /\ now \in Nat /\ reconciledAt[k] \in Nat
      /\ \A r \in run[k] : r.at \in Nat
      /\ ReconcilePeriod \in Nat /\ PhaseBound \in Nat
  BY <1>k, NumberTypes, PeriodTypes
<1>1. CASE run[k] = {}
  BY <1>1, <1>k, <1>n DEF Timely
<1>2. ASSUME NEW r \in run[k] PROVE now <= reconciledAt[k] + ReconcilePeriod + PhaseBound
  BY <1>2, <1>k, <1>n DEF Timely
<1> QED
  BY <1>1, <1>2

LEMMA StepDesiredTimely ==
  ASSUME Travel, [Next]_vars, NEW k \in CP
  PROVE  DesiredTimely(k)'
<1>k. TypeOK /\ Timely(k) /\ Doing(k) /\ DesiredTimely(k) /\ written[k] # Both
  BY TravelFacts
<1>n. /\ now \in Nat /\ modeSince[k] \in Nat /\ reconciledAt[k] \in Nat
      /\ desired[k].ts \in Int /\ \A r \in run[k] : r.at \in Nat
      /\ ReconcilePeriod \in Nat /\ PhaseBound \in Nat
  BY <1>k, NumberTypes, PeriodTypes
<1>1. CASE now' = now /\ Own(k)' = Own(k)
  BY <1>1, <1>k DEF DesiredTimely, Current, Own
<1>2. CASE Tick
  BY <1>2, <1>k, TickEffect DEF DesiredTimely, Current, Own
<1>3. CASE Begin(k)
  BY <1>3, <1>k, BeginEffect DEF DesiredTimely, Current
<1>4. ASSUME NEW b \in Peers(k), Read(k, b) PROVE DesiredTimely(k)'
  BY <1>4, <1>k, ReadEffect DEF DesiredTimely, Current
<1>5. CASE Write(k)
  <2>0. mode' = mode /\ modeSince' = modeSince
    BY <1>5, <1>k, WriteEffect
  <2>1. PICK r \in run[k], W \in SUBSET Both :
          /\ "heartbeat" \in W => desired'[k].ts = r.at
          /\ "heartbeat" \notin W => desired'[k] = desired[k]
          /\ \/ "heartbeat" \in W \cup written[k] /\ reconciledAt'[k] = now
             \/ reconciledAt'[k] = reconciledAt[k]
    BY <1>5, <1>k, WriteEffect
  <2>2. mode[k] = "up"
    BY <1>k, <2>1 DEF Doing, TypeOK
  <2>3. /\ modeSince[k] <= reconciledAt[k]
        /\ reconciledAt[k] <= r.at /\ now <= r.at + PhaseBound
    BY <1>k, <2>1, <2>2 DEF Timely
  <2>4. CASE desired'[k].ts = r.at
    BY <1>n, <2>0, <2>1, <2>3, <2>4 DEF DesiredTimely, Current
  <2>5. CASE desired'[k] = desired[k] /\ desired[k].ts # r.at
    <3>1. reconciledAt'[k] = reconciledAt[k]
      BY <1>k, <2>1, <2>5 DEF Doing
    <3> QED
      BY <1>k, <2>0, <2>5, <3>1 DEF DesiredTimely, Current
  <2> QED
    BY <2>1, <2>4, <2>5
<1>6. CASE Publish(k)
  BY <1>6, <1>k, PublishEffect DEF DesiredTimely, Current
<1>7. CASE Crash(k)
  BY <1>7, <1>k, CrashEffect DEF DesiredTimely
<1>8. CASE Recover(k)
  <2>1. desired' = desired /\ reconciledAt'[k] = now /\ modeSince'[k] = now
    BY <1>8, <1>k, RecoverEffect
  <2> QED
    BY <1>n, <2>1 DEF DesiredTimely, Current
<1> QED
  BY <1>k, <1>1, <1>2, <1>3, <1>4, <1>5, <1>6, <1>7, <1>8, StepCases

LEMMA StepCloudTimely ==
  ASSUME Travel, [Next]_vars, NEW k \in CP
  PROVE  CloudTimely(k)'
<1>k. /\ TypeOK /\ Timely(k) /\ Doing(k) /\ DesiredTimely(k) /\ CloudTimely(k)
      /\ written[k] # Both
  BY TravelFacts
<1>n. /\ now \in Nat /\ modeSince[k] \in Nat /\ reconciledAt[k] \in Nat
      /\ desired[k].ts \in Int /\ cloud[k].ts \in Int
      /\ ReconcilePeriod \in Nat /\ PhaseBound \in Nat
  BY <1>k, NumberTypes, PeriodTypes
<1>1. CASE now' = now /\ Own(k)' = Own(k)
  BY <1>1, <1>k DEF CloudTimely, Current, Own
<1>2. CASE Tick
  BY <1>2, <1>k, TickEffect DEF CloudTimely, Current, Own
<1>3. CASE Begin(k)
  BY <1>3, <1>k, BeginEffect DEF CloudTimely, Current
<1>4. ASSUME NEW b \in Peers(k), Read(k, b) PROVE CloudTimely(k)'
  BY <1>4, <1>k, ReadEffect DEF CloudTimely, Current
<1>5. CASE Write(k)
  <2>0. mode' = mode /\ modeSince' = modeSince /\ cloud' = cloud
    BY <1>5, <1>k, WriteEffect
  <2>1. /\ run[k] # {}
        /\ \/ desired[k] = cloud[k] /\ dirtyAt'[k] = now
           \/ desired[k] # cloud[k] /\ dirtyAt'[k] = dirtyAt[k]
           \/ desired'[k] = desired[k] /\ dirtyAt'[k] = dirtyAt[k]
    BY <1>5, <1>k, WriteEffect
  <2>2. CASE desired[k] = cloud[k] /\ dirtyAt'[k] = now
    <3>1. mode[k] = "up"
      BY <1>k, <2>1 DEF Doing, TypeOK
    <3>2. now <= reconciledAt[k] + ReconcilePeriod + PhaseBound
      BY <3>1, NextReconcile
    <3>3. IF Current(cloud[k], k) THEN reconciledAt[k] <= cloud[k].ts + PhaseBound
          ELSE reconciledAt[k] = modeSince[k]
      BY <1>k, <2>2, <3>1 DEF DesiredTimely
    <3>4. IF Current(cloud[k], k)
          THEN now <= cloud[k].ts + ReconcilePeriod + 2 * PhaseBound
          ELSE now <= modeSince[k] + ReconcilePeriod + PhaseBound
      BY <1>n, <3>2, <3>3
    <3> QED
      BY <2>0, <2>2, <3>4 DEF CloudTimely, Current
  <2>3. CASE desired[k] # cloud[k] /\ dirtyAt'[k] = dirtyAt[k]
    BY <1>k, <2>0, <2>3 DEF CloudTimely, Current
  <2>4. CASE desired'[k] = desired[k] /\ dirtyAt'[k] = dirtyAt[k]
    BY <1>k, <2>0, <2>4 DEF CloudTimely, Current
  <2> QED
    BY <2>1, <2>2, <2>3, <2>4
<1>6. CASE Publish(k)
  BY <1>6, <1>k, PublishEffect DEF CloudTimely
<1>7. CASE Crash(k)
  BY <1>7, <1>k, CrashEffect DEF CloudTimely
<1>8. CASE Recover(k)
  <2>1. cloud' = cloud /\ dirtyAt'[k] = now /\ modeSince'[k] = now
    BY <1>8, <1>k, RecoverEffect
  <2> QED
    BY <1>n, <2>1 DEF CloudTimely, Current
<1> QED
  BY <1>k, <1>1, <1>2, <1>3, <1>4, <1>5, <1>6, <1>7, <1>8, StepCases

\* What the cloud has at any moment of a control plane that is up.
LEMMA CloudNow ==
  ASSUME Travel, NEW l \in CP, mode[l] = "up"
  PROVE  IF Current(cloud[l], l)
         THEN now <= cloud[l].ts + ReconcilePeriod + WriteLag + 2 * PhaseBound
         ELSE now <= modeSince[l] + HeardOf
<1>k. TypeOK /\ Timely(l) /\ DesiredTimely(l) /\ CloudTimely(l)
  BY TravelFacts
<1>n. /\ now \in Nat /\ modeSince[l] \in Nat /\ reconciledAt[l] \in Nat
      /\ dirtyAt[l] \in Nat /\ cloud[l].ts \in Int
      /\ ReconcilePeriod \in Nat /\ PhaseBound \in Nat /\ WriteLag \in Nat
      /\ HeardOf = ReconcilePeriod + PhaseBound + WriteLag
  BY <1>k, NumberTypes, PeriodTypes
<1>1. CASE desired[l] = cloud[l]
  <2>1. now <= reconciledAt[l] + ReconcilePeriod + PhaseBound
    BY NextReconcile
  <2>2. IF Current(cloud[l], l) THEN reconciledAt[l] <= cloud[l].ts + PhaseBound
        ELSE reconciledAt[l] = modeSince[l]
    BY <1>1, <1>k DEF DesiredTimely
  <2> QED
    BY <1>n, <2>1, <2>2
<1>2. CASE desired[l] # cloud[l]
  <2>1. now <= dirtyAt[l] + WriteLag
    BY <1>2, <1>k DEF Timely
  <2>2. IF Current(cloud[l], l)
        THEN dirtyAt[l] <= cloud[l].ts + ReconcilePeriod + 2 * PhaseBound
        ELSE dirtyAt[l] <= modeSince[l] + ReconcilePeriod + PhaseBound
    BY <1>2, <1>k DEF CloudTimely
  <2> QED
    BY <1>n, <2>1, <2>2
<1> QED
  BY <1>1, <1>2

\* A control plane is as it was, is lost, or has come up now.
LEMMA ModeStep ==
  ASSUME TypeOK, [Next]_vars, NEW l \in CP
  PROVE  \/ mode'[l] = mode[l] /\ modeSince'[l] = modeSince[l]
         \/ mode'[l] = "down"
         \/ now' = now /\ modeSince'[l] = now
<1>1. CASE (now' = now /\ Own(l)' = Own(l)) \/ Tick
  BY <1>1, TickEffect DEF Own
<1>2. CASE \/ Begin(l) \/ (\E b \in Peers(l) : Read(l, b)) \/ Write(l) \/ Publish(l)
  BY <1>2 DEF Begin, Read, Write, Publish, history
<1>3. CASE Crash(l) \/ Recover(l)
  BY <1>3, CrashEffect, RecoverEffect
<1> QED
  BY <1>1, <1>2, <1>3, StepCases

\* A reconcile under way is as it was, has just begun, or has one more read.
LEMMA RunStep ==
  ASSUME Travel, [Next]_vars, NEW k \in CP, NEW q \in run'[k]
  PROVE  \/ q \in run[k]
         \/ DOMAIN q.read = {}
         \/ \E r \in run[k], b \in Peers(k) : \E t \in {cloud[b], Missed} :
              /\ q.at = r.at
              /\ q.read = [l \in DOMAIN r.read \cup {b} |-> IF l = b THEN t ELSE r.read[l]]
<1>0. TypeOK /\ Doing(k) /\ written[k] # Both
  BY TravelFacts
<1>1. CASE (now' = now /\ Own(k)' = Own(k)) \/ Tick
  BY <1>1, TickEffect DEF Own
<1>2. CASE Begin(k)
  BY <1>0, <1>2, BeginEffect
<1>3. ASSUME NEW b \in Peers(k), Read(k, b)
      PROVE  \E r \in run[k], t \in {cloud[b], Missed} :
               /\ q.at = r.at
               /\ q.read = [l \in DOMAIN r.read \cup {b} |-> IF l = b THEN t ELSE r.read[l]]
  <2>1. PICK r \in run[k], t \in {cloud[b], Missed} : run'[k] = {With(r, b, t)}
    BY <1>0, <1>3, ReadEffect
  <2>2. q = With(r, b, t)
    BY <2>1
  <2>3. /\ With(r, b, t).at = r.at
        /\ With(r, b, t).read =
             [l \in DOMAIN r.read \cup {b} |-> IF l = b THEN t ELSE r.read[l]]
    BY DEF With
  <2> QED
    BY <2>2, <2>3
<1>4. CASE Write(k)
  BY <1>0, <1>4, WriteEffect
<1>5. CASE Publish(k) \/ Crash(k) \/ Recover(k)
  <2>1. run'[k] = run[k] \/ run'[k] = {}
    BY <1>0, <1>5, PublishEffect, CrashEffect, RecoverEffect
  <2> QED
    BY <2>1
<1>6. CASE \E b \in Peers(k) : Read(k, b)
  BY <1>3, <1>6
<1> HIDE DEF Own
<1> QED
  BY <1>0, <1>1, <1>2, <1>4, <1>5, <1>6, StepCases

LEMMA StepReadTimely ==
  ASSUME Travel, [Next]_vars, NEW k \in CP, NEW l \in CP
  PROVE  ReadTimely(k, l)'
<1>k. TypeOK /\ ReadTimely(k, l) /\ TypeOK' /\ InPast(l)
  BY TravelFacts, StepType
<1>n. /\ now \in Nat /\ modeSince[l] \in Nat /\ cloud[l].ts \in Int
      /\ \A r \in run[k] : r.at \in Nat /\ r.at <= now
      /\ ReconcilePeriod \in Nat /\ PhaseBound \in Nat /\ WriteLag \in Nat
      /\ HeardOf = ReconcilePeriod + PhaseBound + WriteLag
  BY <1>k, NumberTypes, PeriodTypes
<1> SUFFICES ASSUME NEW q \in run'[k], l \in DOMAIN q.read, mode'[l] = "up"
             PROVE  IF Current(q.read[l], l)'
                    THEN q.at <= q.read[l].ts + ReconcilePeriod + WriteLag + 2 * PhaseBound
                    ELSE q.read[l] = Missed \/ q.at <= modeSince'[l] + HeardOf
  BY DEF ReadTimely
<1>q. q.at \in Nat /\ q.at <= now' /\ q.read[l].ts \in Int
  <2>1. UnderWay(k, q)'
    BY <1>k DEF TypeOK
  <2>2. q.read[l] \in Tags
    BY <2>1 DEF UnderWay
  <2>3. q.read[l].ts \in Nat \cup {Missing}
    BY <2>2 DEF Tags
  <2> QED
    BY <1>k, <2>1, <2>3 DEF UnderWay, TypeOK, Missing
<1>1. CASE now' = now /\ modeSince'[l] = now
  BY <1>1, <1>n, <1>q DEF Current
<1>2. CASE mode[l] = "up" /\ modeSince'[l] = modeSince[l]
  <2>2. ASSUME NEW r \in run[k], NEW b \in Peers(k), NEW t \in {cloud[b], Missed},
               q.at = r.at,
               q.read = [j \in DOMAIN r.read \cup {b} |-> IF j = b THEN t ELSE r.read[j]]
        PROVE  IF Current(q.read[l], l)
               THEN q.at <= q.read[l].ts + ReconcilePeriod + WriteLag + 2 * PhaseBound
               ELSE q.read[l] = Missed \/ q.at <= modeSince[l] + HeardOf
    <3>1. CASE l # b
      <4>1. l \in DOMAIN r.read /\ q.read[l] = r.read[l]
        BY <2>2, <3>1
      <4> QED
        BY <1>2, <1>k, <2>2, <4>1 DEF ReadTimely
    <3>2. CASE l = b /\ t = Missed
      <4>1. q.read[l] = Missed /\ Missed.ts = -1
        BY <2>2, <3>2 DEF Missed, NoTags, Missing
      <4>2. ~Current(q.read[l], l)
        BY <1>n, <4>1 DEF Current
      <4> QED
        BY <4>1, <4>2
    <3>3. CASE l = b /\ t = cloud[l]
      <4>1. q.read[l] = cloud[l] /\ q.at <= now
        BY <1>n, <2>2, <3>3
      <4>2. IF Current(cloud[l], l)
            THEN now <= cloud[l].ts + ReconcilePeriod + WriteLag + 2 * PhaseBound
            ELSE now <= modeSince[l] + HeardOf
        BY <1>2, CloudNow
      <4>3. IF Current(cloud[l], l)
            THEN q.at <= cloud[l].ts + ReconcilePeriod + WriteLag + 2 * PhaseBound
            ELSE q.at <= modeSince[l] + HeardOf
        BY <1>n, <1>q, <4>1, <4>2
      <4> QED
        BY <4>1, <4>3
    <3> QED
      BY <3>1, <3>2, <3>3
  <2>3. DOMAIN q.read # {}
    OBVIOUS
  <2>4. IF Current(q.read[l], l)
        THEN q.at <= q.read[l].ts + ReconcilePeriod + WriteLag + 2 * PhaseBound
        ELSE q.read[l] = Missed \/ q.at <= modeSince[l] + HeardOf
    <3>1. CASE q \in run[k]
      BY <1>2, <1>k, <3>1 DEF ReadTimely
    <3>2. CASE \E r \in run[k], b \in Peers(k) : \E t \in {cloud[b], Missed} :
                 /\ q.at = r.at
                 /\ q.read = [j \in DOMAIN r.read \cup {b} |-> IF j = b THEN t ELSE r.read[j]]
      BY <2>2, <3>2
    <3> QED
      BY <2>3, <3>1, <3>2, RunStep
  <2> QED
    BY <1>2, <2>4 DEF Current
<1> QED
  BY <1>1, <1>2, <1>k, ModeStep

LEMMA StepTravel == ASSUME Travel, [Next]_vars PROVE Travel'
<1>1. TypeOK'
  BY StepType DEF Travel
<1>2. ASSUME NEW i \in CP
      PROVE  (InPast(i) /\ Timely(i) /\ Doing(i) /\ DesiredTimely(i) /\ CloudTimely(i))'
  BY StepInPast, StepTimely, StepDoing, StepDesiredTimely, StepCloudTimely
<1>3. ASSUME NEW i \in CP, NEW j \in CP PROVE ReadTimely(i, j)'
  BY StepReadTimely
<1> QED
  BY <1>1, <1>2, <1>3 DEF Travel

LEMMA InitIInv == Init => IInv
<1> SUFFICES ASSUME Init PROVE IInv
  OBVIOUS
<1>1. TypeOK
  BY InitType
<1>2. ASSUME NEW i \in CP
      PROVE  /\ mode[i] = "up" /\ run[i] = {} /\ written[i] = {}
             /\ desired[i] = cloud[i] /\ desired[i].ts = -1
             /\ modeSince[i] = now /\ holdsSince[i] = now
             /\ reconciledAt[i] = now /\ dirtyAt[i] = now
  BY DEF Init, NoTags, Missing
<1>3. now \in Nat /\ now > 0
  BY DirectAssumption DEF Init
<1>4. ASSUME NEW i \in CP
      PROVE  InPast(i) /\ Timely(i) /\ Doing(i) /\ DesiredTimely(i) /\ CloudTimely(i)
  <2>1. InPast(i) /\ Timely(i)
    BY <1>2, <1>3, PeriodTypes DEF InPast, Timely
  <2>2. Doing(i)
    BY <1>2 DEF Doing, Both
  <2>3. DesiredTimely(i) /\ CloudTimely(i)
    BY <1>2, <1>3 DEF DesiredTimely, CloudTimely, Current
  <2> QED
    BY <2>1, <2>2, <2>3
<1>5. ASSUME NEW i \in CP, NEW j \in CP PROVE ReadTimely(i, j) /\ DecidedUnder(j, i)
  BY <1>2 DEF ReadTimely, DecidedUnder
<1> QED
  BY <1>1, <1>4, <1>5 DEF IInv, Travel

LEMMA TravelInvariant == Spec => []Travel
<1>1. Init => Travel
  BY InitIInv DEF IInv
<1>2. Travel /\ [Next]_vars => Travel'
  BY StepTravel
<1> QED
  BY <1>1, <1>2, PTL DEF Spec

\* What is read of a control plane since it came up is fresh.
LEMMA CurrentIsFresh ==
  ASSUME Travel, TTLCovers, NEW k \in CP, NEW r \in run[k], NEW l \in DOMAIN r.read,
         mode[l] = "up", Current(r.read[l], l)
  PROVE  Seen(r)[l].readable /\ Seen(r)[l].fresh
<1>0. TypeOK /\ UnderWay(k, r) /\ l \in CP
  BY TravelFacts DEF TypeOK, UnderWay, Peers
<1>1. r.at \in Nat /\ r.read[l].ts \in Int /\ modeSince[l] \in Nat /\ modeSince[l] > 0
  <2>1. r.read[l] \in Tags
    BY <1>0 DEF UnderWay
  <2>2. r.read[l].ts \in Nat \cup {Missing}
    BY <2>1 DEF Tags
  <2>3. InPast(l)
    BY <1>0, TravelFacts
  <2> QED
    BY <1>0, <2>2, <2>3, NumberTypes DEF Missing, InPast
<1>2. r.at <= r.read[l].ts + ReconcilePeriod + WriteLag + 2 * PhaseBound
  <2>1. ReadTimely(k, l)
    BY <1>0, TravelFacts
  <2> QED
    BY <2>1 DEF ReadTimely
<1>3. r.read[l].ts > 0 /\ r.at - r.read[l].ts <= TTL
  BY <1>1, <1>2, PeriodTypes DEF Current, TTLCovers
<1>4. r.read[l].ts # Missing /\ AsInt(r.read[l].ts) = r.read[l].ts
  BY <1>1, <1>3 DEF Missing, AsInt
<1> QED
  BY <1>3, <1>4 DEF Seen, LivenessFromTags

\* As long as a control plane is up, no stamp it has taken since it came up is read
\* as stale, in every set whose TTL covers a reconcile period, a write lag and two
\* phases, whatever is lost, recovered and missed (main.py:118, 205-216,
\* heartbeat.py:228-229).
THEOREM NeverStale == ASSUME TTLCovers PROVE Spec => []LivePeerNeverStale
<1>1. Travel => LivePeerNeverStale
  <2> SUFFICES ASSUME Travel, NEW i \in CP, NEW r \in run[i], NEW j \in DOMAIN r.read,
                      mode[j] = "up", r.read[j].ts >= modeSince[j]
               PROVE  Seen(r)[j].fresh
    BY DEF LivePeerNeverStale
  <2> QED
    BY CurrentIsFresh DEF Current
<1> QED
  BY <1>1, TravelInvariant, PTL

-----------------------------------------------------------------------------
(* Two leaders. *)

\* A reconcile that began when a control plane above had been heard of does not
\* lead: it has read a fresh stamp, or nothing at all.
LEMMA HeardOfBlocks ==
  ASSUME Travel, TTLCovers, NoArbitration, NEW k \in CP, NEW l \in CP, l < k,
         mode[l] = "up", NEW r \in run[k], Unread(k, r) = {},
         r.at > modeSince[l] + HeardOf
  PROVE  Verdict(k, r).role # "leader"
<1> SUFFICES ASSUME Verdict(k, r).role = "leader" PROVE FALSE
  OBVIOUS
<1>0. k \in Nat /\ l \in Nat /\ TypeOK
  BY DirectAssumption, TravelFacts
<1>1. l \in DOMAIN r.read
  BY <1>0 DEF Unread, Peers
<1>2. l \in HigherIn(k, Seen(r))
  BY <1>1 DEF HigherIn, Seen
<1>3. ~Blocks(Seen(r)[l], Signal[k])
  BY <1>2, LeaderUnblocked DEF Verdict
<1>4. Seen(r)[l].readable /\ ~Seen(r)[l].fresh
  BY <1>3 DEF Blocks, NoArbitration
<1>5. ~Current(r.read[l], l)
  BY <1>1, <1>4, CurrentIsFresh
<1>6. r.read[l] = Missed
  <2>1. ReadTimely(k, l)
    BY TravelFacts
  <2>2. ~(r.at <= modeSince[l] + HeardOf)
    <3>1. r.at \in Nat /\ modeSince[l] \in Nat /\ HeardOf \in Nat
      BY <1>0, NumberTypes, PeriodTypes
    <3> QED
      BY <3>1
  <2> QED
    BY <1>1, <1>5, <2>1, <2>2 DEF ReadTimely
<1>7. Seen(r)[l].readable = (r.read[l].ts # Missing)
  BY <1>1 DEF Seen, LivenessFromTags
<1>8. r.read[l].ts = Missing
  <2>1. Missed.ts = Missing
    BY DEF Missed, NoTags
  <2> QED
    BY <1>6, <2>1, Zenon
<1> QED
  BY <1>4, <1>7, <1>8

LEMMA StepDecidedUnder ==
  ASSUME Travel, TTLCovers, NoArbitration, [Next]_vars, NEW k \in CP, NEW l \in CP,
         DecidedUnder(k, l)
  PROVE  DecidedUnder(k, l)'
<1>k. /\ TypeOK /\ Timely(k) /\ Doing(k) /\ InPast(k) /\ written[k] # Both
      /\ TypeOK' /\ InPast(k)'
  BY TravelFacts, StepType, StepInPast
<1>n. /\ now \in Nat /\ modeSince[k] \in Nat /\ modeSince[l] \in Nat
      /\ reconciledAt[k] \in Nat /\ reconciledAt'[k] \in Nat /\ reconciledAt'[k] <= now'
      /\ \A r \in run[k] : r.at \in Nat
      /\ \A r \in run'[k] : r.at \in Nat /\ r.at <= now'
      /\ PhaseBound \in Nat /\ HeardOf \in Nat
  BY <1>k, NumberTypes, PeriodTypes DEF TypeOK, UnderWay, InPast
<1> SUFFICES ASSUME mode'[l] = "up", mode'[k] = "up", l < k, Holds(k)'
             PROVE  IF "status" \in written'[k]
                    THEN \A r \in run'[k] : r.at <= modeSince'[l] + HeardOf
                    ELSE \/ reconciledAt'[k] = modeSince'[k]
                         \/ reconciledAt'[k] <= modeSince'[l] + HeardOf + PhaseBound
  BY DEF DecidedUnder
<1> DEFINE Goal == IF "status" \in written'[k]
                   THEN \A r \in run'[k] : r.at <= modeSince'[l] + HeardOf
                   ELSE \/ reconciledAt'[k] = modeSince'[k]
                        \/ reconciledAt'[k] <= modeSince'[l] + HeardOf + PhaseBound
<1>a. CASE now' = now /\ modeSince'[l] = now
  BY <1>a, <1>n
<1>b. CASE mode[l] = "up" /\ modeSince'[l] = modeSince[l]
  <2>1. CASE (now' = now /\ Own(k)' = Own(k)) \/ Tick
    <3>1. Own(k)' = Own(k)
      BY <2>1, TickEffect
    <3> QED
      BY <1>b, <3>1 DEF Own, DecidedUnder, Holds
  <2>2. CASE Begin(k)
    <3>1. written[k] = {} /\ written'[k] = {} /\ reconciledAt' = reconciledAt
          /\ modeSince' = modeSince /\ status' = status /\ mode' = mode
      BY <1>k, <2>2, BeginEffect DEF Doing
    <3> QED
      BY <1>b, <3>1 DEF DecidedUnder, Holds
  <2>3. ASSUME NEW b \in Peers(k), Read(k, b) PROVE Goal
    <3>1. PICK r \in run[k], t \in {cloud[b], Missed} : run'[k] = {With(r, b, t)}
      BY <1>k, <2>3, ReadEffect
    <3>2. \A q \in run'[k] : q.at = r.at
      BY <3>1 DEF With
    <3>3. /\ written' = written /\ reconciledAt' = reconciledAt
          /\ modeSince' = modeSince /\ status' = status /\ mode' = mode
      BY <1>k, <2>3, ReadEffect
    <3> QED
      BY <1>b, <3>1, <3>2, <3>3 DEF DecidedUnder, Holds
  <2>4. CASE Write(k)
    <3>1. mode' = mode /\ modeSince' = modeSince /\ now' = now
      BY <1>k, <2>4, WriteEffect
    <3>2. PICK r \in run[k], W \in SUBSET Both :
            /\ run[k] = {r} /\ Unread(k, r) = {}
            /\ IF "status" \in W THEN status'[k].role = Verdict(k, r).role
               ELSE status'[k] = status[k]
            /\ \/ /\ "status" \in W \cup written[k]
                  /\ written'[k] = {} /\ run'[k] = {} /\ reconciledAt'[k] = now
               \/ /\ written[k] = {} /\ written'[k] = W
                  /\ run'[k] = run[k] /\ reconciledAt'[k] = reconciledAt[k]
      BY <1>k, <2>4, WriteEffect
    <3>3. "status" \in W \cup written[k] => r.at <= modeSince[l] + HeardOf
      <4>1. CASE "status" \in W
        <5>1. Verdict(k, r).role = "leader"
          BY <3>2, <4>1 DEF Holds
        <5>2. ~(r.at > modeSince[l] + HeardOf)
          BY <1>b, <3>2, <5>1, HeardOfBlocks
        <5> QED
          BY <1>n, <5>2
      <4>2. CASE "status" \notin W /\ "status" \in written[k]
        BY <1>b, <3>1, <3>2, <4>2 DEF DecidedUnder, Holds
      <4> QED
        BY <4>1, <4>2
    <3>4. CASE /\ "status" \in W \cup written[k]
               /\ written'[k] = {} /\ run'[k] = {} /\ reconciledAt'[k] = now
      <4>1. now <= r.at + PhaseBound
        BY <1>k, <3>1 DEF Timely
      <4> QED
        BY <1>b, <1>n, <3>3, <3>4, <4>1
    <3>5. CASE /\ written[k] = {} /\ written'[k] = W
               /\ run'[k] = run[k] /\ reconciledAt'[k] = reconciledAt[k]
      <4>1. CASE "status" \in W
        BY <1>b, <3>2, <3>3, <3>5, <4>1
      <4>2. CASE "status" \notin W
        BY <1>b, <3>1, <3>2, <3>5, <4>2 DEF DecidedUnder, Holds
      <4> QED
        BY <4>1, <4>2
    <3> QED
      BY <3>2, <3>4, <3>5
  <2>5. CASE Publish(k)
    BY <1>b, <1>k, <2>5, PublishEffect DEF DecidedUnder, Holds
  <2>6. CASE Crash(k)
    BY <1>k, <2>6, CrashEffect
  <2>7. CASE Recover(k)
    <3>1. reconciledAt'[k] = now /\ modeSince'[k] = now /\ written'[k] = {}
      BY <1>k, <2>7, RecoverEffect DEF Doing
    <3> QED
      BY <3>1
  <2> QED
    BY <1>k, <2>1, <2>2, <2>3, <2>4, <2>5, <2>6, <2>7, StepCases
<1> QED
  BY <1>a, <1>b, <1>k, ModeStep

\* Without GSLB arbitration two control planes hold ["*"] together for HeardAfter
\* at most, whatever is lost, recovered, missed and torn, in every set whose TTL
\* covers a stamp on its way (main.py:118, 168-179, 222, 273, election.py:113).
THEOREM OverlapEnds ==
  ASSUME TTLCovers, NoArbitration
  PROVE  Spec => []OverlapBounded
<1>1. ASSUME IInv, NEW i \in CP, NEW j \in CP, i < j, Holds(i), Holds(j)
      PROVE  HeldFor(i) <= HeardAfter \/ HeldFor(j) <= HeardAfter
  <2>0. /\ Travel /\ TypeOK /\ mode[i] = "up" /\ mode[j] = "up"
        /\ modeSince[i] <= holdsSince[i] /\ modeSince[j] <= holdsSince[j]
    BY <1>1, TravelFacts DEF IInv, Holds, Timely, TypeOK
  <2>n. /\ now \in Nat /\ reconciledAt[j] \in Nat
        /\ modeSince[i] \in Nat /\ modeSince[j] \in Nat
        /\ holdsSince[i] \in Nat /\ holdsSince[j] \in Nat
        /\ \A r \in run[j] : r.at \in Nat
        /\ ReconcilePeriod \in Nat /\ PhaseBound \in Nat /\ WriteLag \in Nat
        /\ HeardOf = ReconcilePeriod + PhaseBound + WriteLag
        /\ HeardAfter = HeardOf + ReconcilePeriod + 2 * PhaseBound
    BY <2>0, NumberTypes, PeriodTypes DEF HeardAfter
  <2>1. \/ now <= modeSince[i] + HeardOf + ReconcilePeriod + 2 * PhaseBound
        \/ now <= modeSince[j] + ReconcilePeriod + PhaseBound
    <3>0. Doing(j) /\ Timely(j) /\ DecidedUnder(j, i)
      BY <1>1, TravelFacts DEF IInv
    <3>1. CASE "status" \in written[j]
      <4>1. PICK r \in run[j] : TRUE
        BY <3>0, <3>1 DEF Doing
      <4>2. r.at <= modeSince[i] + HeardOf /\ now <= r.at + PhaseBound
        BY <1>1, <2>0, <3>0, <3>1 DEF DecidedUnder, Timely
      <4> QED
        BY <2>n, <4>2
    <3>2. CASE "status" \notin written[j]
      <4>1. \/ reconciledAt[j] = modeSince[j]
            \/ reconciledAt[j] <= modeSince[i] + HeardOf + PhaseBound
        BY <1>1, <2>0, <3>0, <3>2 DEF DecidedUnder
      <4>2. now <= reconciledAt[j] + ReconcilePeriod + PhaseBound
        BY <2>0, NextReconcile
      <4> QED
        BY <2>n, <4>1, <4>2
    <3> QED
      BY <3>1, <3>2
  <2> QED
    BY <2>0, <2>1, <2>n DEF HeldFor
<1>2. IInv => OverlapBounded
  <2> SUFFICES ASSUME IInv, NEW i \in CP, NEW j \in CP, i # j, Holds(i), Holds(j)
               PROVE  HeldFor(i) <= HeardAfter \/ HeldFor(j) <= HeardAfter
    BY DEF OverlapBounded
  <2>1. i < j \/ j < i
    BY DirectAssumption
  <2> QED
    BY <1>1, <2>1
<1>3. Init => IInv
  BY InitIInv
<1>4. IInv /\ [Next]_vars => IInv'
  <2> SUFFICES ASSUME IInv, [Next]_vars PROVE IInv'
    OBVIOUS
  <2>1. Travel'
    BY StepTravel DEF IInv
  <2>2. ASSUME NEW i \in CP, NEW j \in CP PROVE DecidedUnder(j, i)'
    BY StepDecidedUnder DEF IInv
  <2> QED
    BY <2>1, <2>2 DEF IInv
<1> QED
  BY <1>2, <1>3, <1>4, PTL DEF Spec
=============================================================================
