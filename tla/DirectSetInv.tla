---------------------------- MODULE DirectSetInv ----------------------------
(***************************************************************************)
(* The inductive invariant behind the timing properties of DirectSet.  It  *)
(* follows the stamps of a control plane since it came up: how late they   *)
(* reach the cloud, how old they are when a peer reads them, and how long  *)
(* a leader can go on that began before it could read them.                *)
(***************************************************************************)
EXTENDS DirectSet

\* No control plane counts as the sole active one under failover.
NoArbitration == \A i \in CP : ~GslbActiveFailover(Signal[i])

\* The TTL covers the age of a stamp that is taken before a read phase, published
\* and compared with the time before another (SPEC.md:418).
TTLCovers == TTL >= ReconcilePeriod + WriteLag + 2 * PhaseBound

InPast(i) ==
  /\ modeSince[i] > 0 /\ modeSince[i] <= now /\ holdsSince[i] <= now
  /\ reconciledAt[i] <= now /\ dirtyAt[i] <= now

\* Nothing that runs is overdue, and it began when it had to.
Timely(i) ==
  mode[i] = "up" =>
    /\ modeSince[i] <= reconciledAt[i] /\ modeSince[i] <= holdsSince[i]
    /\ run[i] = {} => now <= reconciledAt[i] + ReconcilePeriod
    /\ \A r \in run[i] :
         /\ reconciledAt[i] <= r.at /\ r.at <= reconciledAt[i] + ReconcilePeriod
         /\ now <= r.at + PhaseBound
    /\ desired[i] # cloud[i] => now <= dirtyAt[i] + WriteLag

\* What is written is of the reconcile under way, and there is none where the
\* region is lost.
Doing(i) ==
  /\ mode[i] = "down" => run[i] = {}
  /\ run[i] = {} => written[i] = {}
  /\ written[i] # Both
  /\ \A r \in run[i] : "heartbeat" \in written[i] => desired[i].ts = r.at

\* The stamp was taken since j came up.
Current(tags, j) == tags.ts >= modeSince[j]

\* Stage 1, in the control plane: the stamp is of the last reconcile or the one
\* under way, or there has been none since it came up.
DesiredTimely(j) ==
  mode[j] = "up" =>
    IF Current(desired[j], j) THEN reconciledAt[j] <= desired[j].ts + PhaseBound
    ELSE reconciledAt[j] = modeSince[j]

\* Stage 2, in the cloud while the provider has not caught up.
CloudTimely(j) ==
  mode[j] = "up" /\ desired[j] # cloud[j] =>
    IF Current(cloud[j], j)
    THEN dirtyAt[j] <= cloud[j].ts + ReconcilePeriod + 2 * PhaseBound
    ELSE dirtyAt[j] <= modeSince[j] + ReconcilePeriod + PhaseBound

\* From here on the cloud has a stamp of a control plane that came up.
HeardOf == ReconcilePeriod + PhaseBound + WriteLag

\* Stage 3, at the reader.
ReadTimely(i, j) ==
  \A r \in run[i] :
    j \in DOMAIN r.read /\ mode[j] = "up" =>
      IF Current(r.read[j], j)
      THEN r.at <= r.read[j].ts + ReconcilePeriod + WriteLag + 2 * PhaseBound
      ELSE r.read[j] = Missed \/ r.at <= modeSince[j] + HeardOf

\* A stamp on its way; this much holds for every TTL and every signal.
Travel ==
  /\ TypeOK
  /\ \A i \in CP :
       /\ InPast(i) /\ Timely(i) /\ Doing(i) /\ DesiredTimely(i) /\ CloudTimely(i)
       /\ \A j \in CP : ReadTimely(i, j)

\* Stage 4: a reconcile that began when a control plane above had been heard of did
\* not leave its own leading.
DecidedUnder(j, i) ==
  mode[i] = "up" /\ mode[j] = "up" /\ i < j /\ Holds(j) =>
    IF "status" \in written[j]
    THEN \A r \in run[j] : r.at <= modeSince[i] + HeardOf
    ELSE \/ reconciledAt[j] = modeSince[j]
         \/ reconciledAt[j] <= modeSince[i] + HeardOf + PhaseBound

IInv == Travel /\ \A i, j \in CP : DecidedUnder(j, i)
=============================================================================
