----------------------------- MODULE Heartbeat -----------------------------
(***************************************************************************)
(* The cloud heartbeat of one control plane: what a reconcile writes into  *)
(* the tags of its heartbeat resource, and what a peer concludes from      *)
(* tags it has read (heartbeat.py and step 4a of main.py).                 *)
(*                                                                         *)
(* A timestamp tag is an integer, 0 when its text is not an integer        *)
(* (prelude.as_int), and Missing when the resource carries no such tag or  *)
(* could not be read at all.                                               *)
(***************************************************************************)
EXTENDS Integers

CONSTANTS
  TTL,       \* heartbeat.freshnessTTLSeconds
  Throttle   \* heartbeat.writeThrottleSeconds

ASSUME HeartbeatAssumption == TTL \in Nat /\ Throttle \in Nat

Missing == -1

Roles == {"leader", "standby"}

Tags == [ts : Nat \cup {Missing}, role : Roles \cup {""}]

NoTags == [ts |-> Missing, role |-> ""]

\* Faulty variant: the management policy is written in place of the role.
OwnTags_Policy(epoch, role) ==
  [ts |-> epoch, role |-> IF role = "leader" THEN "*" ELSE "Observe"]

\* The tags build_own puts on the writable resource.
OwnTags(epoch, role) == [ts |-> epoch, role |-> role]

AsInt(ts) == IF ts = Missing THEN 0 ELSE ts

\* Faulty variant: a heartbeat exactly as old as the TTL is stale.
LivenessFromTags_StrictTTL(tags, now) ==
  [readable |-> tags.ts # Missing,
   fresh    |-> AsInt(tags.ts) > 0 /\ now - AsInt(tags.ts) < TTL,
   role     |-> tags.role]

\* Faulty variant: the role is looked up under a key the writer does not use.
LivenessFromTags_NoRole(tags, now) ==
  [readable |-> tags.ts # Missing,
   fresh    |-> AsInt(tags.ts) > 0 /\ now - AsInt(tags.ts) <= TTL,
   role     |-> ""]

\* What a peer's tags say of the peer at local time now.
LivenessFromTags(tags, now) ==
  [readable |-> tags.ts # Missing,
   fresh    |-> /\ tags.ts # Missing
                /\ AsInt(tags.ts) > 0
                /\ now - AsInt(tags.ts) <= TTL,
   role     |-> tags.role]

\* The epoch a reconcile writes: the previous one is kept while it is younger
\* than the throttle and the role it was written with has not changed.
EpochToWrite(prev, role, now) ==
  IF /\ AsInt(prev.ts) # 0
     /\ now - AsInt(prev.ts) < Throttle
     /\ prev.role = role
  THEN prev.ts
  ELSE now
=============================================================================
