----------------------------- MODULE DirectSet -----------------------------
(***************************************************************************)
(* The control planes of one resilience set under heartbeat.read =         *)
(* directApi.  A reconcile is not one step here: it takes the time (Begin), *)
(* reads each peer's heartbeat in the cloud (Read, which may fail), and    *)
(* decides as of the time it took and on what it read; what it decides is  *)
(* applied (Write) in one write or in two, the status and the heartbeat    *)
(* resource in either order.  The others and the clock move on meanwhile,  *)
(* and a crash may fall between any two steps.  DirectReads looks into one *)
(* read phase; here PhaseBound bounds the whole reconcile.                 *)
(*                                                                         *)
(* Left to ResilienceSet: GSLB signals that change, skew, and the write    *)
(* throttle.  A heartbeat is stamped anew by each reconcile, as it is when *)
(* it cannot be read back.                                                 *)
(***************************************************************************)
EXTENDS Election

CONSTANTS
  CP,               \* control planes, each named by its (unique) priority
  Signal,           \* the signal of the local GSLB
  MayCrash,         \* control planes that may lose their region
  MayRecover,       \* those that may come back, with the state they had
  MayMiss,          \* control planes whose reads may fail or be late
  MayTear,          \* control planes whose two writes come apart
  ReconcilePeriod,  \* a running reconciler begins again within this time
  PhaseBound,       \* a reconcile is over within this time
  WriteLag,         \* a changed heartbeat reaches the cloud within this time
  StartTime,        \* the clock at installation
  MaxTime           \* the clock stops here (a bound of the model)

ASSUME DirectAssumption ==
  /\ CP \subseteq Nat \ {0}
  /\ MayCrash \subseteq CP /\ MayRecover \subseteq CP /\ MayMiss \subseteq CP
  /\ MayTear \subseteq CP
  /\ ReconcilePeriod \in Nat \ {0} /\ PhaseBound \in Nat \ {0}
  /\ WriteLag \in Nat \ {0}
  /\ StartTime \in Nat \ {0} /\ MaxTime \in Nat
  /\ Signal \in [CP -> [found : BOOLEAN, healthy : BOOLEAN, active : BOOLEAN]]

VARIABLES
  now,           \* the clock
  mode,          \* "up" or "down" (region lost)
  status,        \* the XR status the last reconcile wrote
  desired,       \* tags of the own heartbeat resource in the control plane
  cloud,         \* tags of the heartbeat resource in the cloud
  run,           \* the reconcile under way, a set of at most one
  written,       \* of its two writes those that are made
  reconciledAt,  \* when the last reconcile was over
  dirtyAt,       \* when desired and cloud last became different
  modeSince,     \* (history) when mode[i] last changed
  holdsSince     \* (history) when i last began to hold ["*"]

stored == <<status, desired, cloud>>
timers == <<reconciledAt, dirtyAt>>
history == <<modeSince, holdsSince>>
doing == <<run, written>>
vars == <<now, mode, stored, doing, timers, history>>

Peers(i) == CP \ {i}
Higher(i) == {j \in CP : j < i}
Holds(i) == mode[i] # "down" /\ status[i].role = "leader"

Init ==
  /\ now = StartTime
  /\ mode = [i \in CP |-> "up"]
  /\ status = [i \in CP |-> NoStatus]
  /\ desired = [i \in CP |-> NoTags]
  /\ cloud = [i \in CP |-> NoTags]
  /\ run = [i \in CP |-> {}]
  /\ written = [i \in CP |-> {}]
  /\ reconciledAt = [i \in CP |-> now]
  /\ dirtyAt = [i \in CP |-> now]
  /\ modeSince = [i \in CP |-> now]
  /\ holdsSince = [i \in CP |-> now]

-----------------------------------------------------------------------------

Begin(i) ==
  /\ mode[i] = "up" /\ run[i] = {}
  /\ run' = [run EXCEPT ![i] = {[at |-> now, read |-> <<>>]}]
  /\ UNCHANGED <<now, mode, stored, written, timers, history>>

\* Faulty variant: a decision does not wait for the reads.
Unread_None(i, r) == {}

Unread(i, r) == Peers(i) \ DOMAIN r.read

\* What is known of a peer that was not read, or not in time.
Missed == NoTags

With(r, j, tags) ==
  [at   |-> r.at,
   read |-> [k \in DOMAIN r.read \cup {j} |-> IF k = j THEN tags ELSE r.read[k]]]

\* A peer's heartbeat arrives, or it is given up.
Read(i, j) ==
  \E r \in run[i] :
    /\ j \in Unread(i, r)
    /\ \/ run' = [run EXCEPT ![i] = {With(r, j, cloud[j])}]
       \/ i \in MayMiss /\ run' = [run EXCEPT ![i] = {With(r, j, Missed)}]
    /\ UNCHANGED <<now, mode, stored, written, timers, history>>

Seen(r) == [j \in DOMAIN r.read |-> LivenessFromTags(r.read[j], r.at)]

\* The decision of a reconcile, as of the time taken at its beginning.
Verdict(i, r) == Decide(i, Signal[i], Seen(r), status[i], r.at)

\* The role decided, also when the status has it already.
RoleOf(i, r) == IF "status" \in written[i] THEN status[i].role ELSE Verdict(i, r).role

WriteStatus(i, r) ==
  /\ status' = [status EXCEPT ![i] = [role |-> Verdict(i, r).role,
                                      cand |-> Verdict(i, r).cand,
                                      selfEpoch |-> r.at]]
  /\ holdsSince' = [holdsSince EXCEPT ![i] =
       IF status[i].role = "leader" THEN @ ELSE now]

WriteHeartbeat(i, r) ==
  /\ LET role == RoleOf(i, r)
     IN  desired' = [desired EXCEPT ![i] = OwnTags(EpochToWrite(NoTags, role, r.at), role)]
  /\ dirtyAt' = [dirtyAt EXCEPT ![i] = IF desired[i] = cloud[i] THEN now ELSE @]

Both == {"status", "heartbeat"}

Writes(i) == IF i \in MayTear THEN {{"status"}, {"heartbeat"}} ELSE {Both}

\* What was decided is written, or a part of it. With the rest of it the reconcile
\* is over.
Write(i) ==
  \E r \in run[i], W \in Writes(i) :
    /\ Unread(i, r) = {}
    /\ W \cap written[i] = {}
    /\ IF "status" \in W THEN WriteStatus(i, r) ELSE UNCHANGED <<status, holdsSince>>
    /\ IF "heartbeat" \in W THEN WriteHeartbeat(i, r) ELSE UNCHANGED <<desired, dirtyAt>>
    /\ IF written[i] \cup W = Both
       THEN /\ written' = [written EXCEPT ![i] = {}]
            /\ run' = [run EXCEPT ![i] = {}]
            /\ reconciledAt' = [reconciledAt EXCEPT ![i] = now]
       ELSE /\ written' = [written EXCEPT ![i] = W]
            /\ UNCHANGED <<run, reconciledAt>>
    /\ UNCHANGED <<now, mode, cloud, modeSince>>

Publish(i) ==
  /\ mode[i] # "down"
  /\ desired[i] # cloud[i]
  /\ cloud' = [cloud EXCEPT ![i] = desired[i]]
  /\ UNCHANGED <<now, mode, status, desired, doing, timers, history>>

\* The region of i is lost, and with it the reconcile under way and what of it is
\* not written.
Crash(i) ==
  /\ i \in MayCrash
  /\ mode[i] = "up"
  /\ mode' = [mode EXCEPT ![i] = "down"]
  /\ modeSince' = [modeSince EXCEPT ![i] = now]
  /\ run' = [run EXCEPT ![i] = {}]
  /\ written' = [written EXCEPT ![i] = {}]
  /\ UNCHANGED <<now, stored, timers, holdsSince>>

Recover(i) ==
  /\ i \in MayRecover
  /\ mode[i] = "down"
  /\ mode' = [mode EXCEPT ![i] = "up"]
  /\ modeSince' = [modeSince EXCEPT ![i] = now]
  /\ holdsSince' = [holdsSince EXCEPT ![i] = now]
  /\ reconciledAt' = [reconciledAt EXCEPT ![i] = now]
  /\ dirtyAt' = [dirtyAt EXCEPT ![i] = now]
  /\ UNCHANGED <<now, stored, doing>>

\* Nothing running at i is due.
NotDue(i) ==
  mode[i] = "up" =>
    /\ run[i] = {} => now < reconciledAt[i] + ReconcilePeriod
    /\ \A r \in run[i] : now < r.at + PhaseBound
    /\ desired[i] # cloud[i] => now < dirtyAt[i] + WriteLag

Tick ==
  /\ now < MaxTime
  /\ \A i \in CP : NotDue(i)
  /\ now' = now + 1
  /\ UNCHANGED <<mode, stored, doing, timers, history>>

Next ==
  \/ Tick
  \/ \E i \in CP :
       \/ Begin(i) \/ (\E j \in Peers(i) : Read(i, j)) \/ Write(i)
       \/ Publish(i) \/ Crash(i) \/ Recover(i)

Spec == Init /\ [][Next]_vars

-----------------------------------------------------------------------------

Statuses == [role : Roles \cup {""}, cand : Nat, selfEpoch : Nat]

\* A reconcile under way at i began in the past and reads peers only.
UnderWay(i, r) ==
  /\ r = [at |-> r.at, read |-> r.read]
  /\ r.at \in 0..now
  /\ DOMAIN r.read \subseteq Peers(i)
  /\ r.read \in [DOMAIN r.read -> Tags]

\* The types, and that at most one reconcile is under way at each control plane.
TypeOK ==
  /\ now \in Nat
  /\ mode \in [CP -> {"up", "down"}]
  /\ status \in [CP -> Statuses]
  /\ desired \in [CP -> Tags]
  /\ cloud \in [CP -> Tags]
  /\ DOMAIN run = CP
  /\ \A i \in CP :
       /\ \A r \in run[i] : UnderWay(i, r)
       /\ \A q, r \in run[i] : q = r
  /\ written \in [CP -> SUBSET Both]
  /\ reconciledAt \in [CP -> Nat] /\ dirtyAt \in [CP -> Nat]
  /\ modeSince \in [CP -> Nat] /\ holdsSince \in [CP -> Nat]

HeldFor(i) == now - holdsSince[i]

\* The others have decided on a role this long after its control plane came up, or
\* took it: one reconcile and one publication there, the reconcile of theirs that
\* just missed it and the next.
HeardAfter ==
  (ReconcilePeriod + PhaseBound + WriteLag) + PhaseBound + (ReconcilePeriod + PhaseBound)

\* Without GSLB arbitration two leaders at once are bounded in time, though a
\* decision is about the moment its reconcile began, its reads are of different
\* moments, any of them may be missing, or their two writes cut short
\* by a crash (main.py:118, 168-179, 222, 273, election.py:113).
OverlapBounded ==
  \A i, j \in CP :
    i # j /\ Holds(i) /\ Holds(j) =>
      HeldFor(i) <= HeardAfter \/ HeldFor(j) <= HeardAfter

\* No false death: as long as a control plane is up, no stamp it has written since
\* it came up is read as stale, though it is taken before its own read phase and
\* compared with the time before the reader's (main.py:118, 205-216,
\* heartbeat.py:228-229).
LivePeerNeverStale ==
  \A i \in CP : \A r \in run[i] : \A j \in DOMAIN r.read :
    mode[j] = "up" /\ r.read[j].ts >= modeSince[j] => Seen(r)[j].fresh

Promotes(i) == status[i].role # "leader" /\ status'[i].role = "leader"

\* Never promote on blindness: whoever promotes has read the heartbeat of every
\* control plane above it in that very reconcile (cloud_read.py:22-24).
NeverPromotesBlind ==
  [][\A i \in CP : Promotes(i) =>
       \A r \in run[i] : \A j \in Higher(i) : r.read[j].ts # Missing]_vars
=============================================================================
