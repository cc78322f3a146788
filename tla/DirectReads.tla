---------------------------- MODULE DirectReads ----------------------------
(***************************************************************************)
(* The read phase of a reconcile under heartbeat.read = directApi:         *)
(* _read_peers_direct of main.py hands one read per peer to a pool of      *)
(* threads, waits for them under an overall budget, cancels what is left   *)
(* and leaves the pool.  Each read gets its client from the cache of       *)
(* ClientCache, which outlives the phase, and makes one cloud call.        *)
(*                                                                         *)
(* Time is counted within the phase.  A factory and a call take any time   *)
(* up to their bounds; the steps of the program take none, so time passes  *)
(* (Tick) only when every thread is inside one or has to wait.             *)
(***************************************************************************)
EXTENDS ClientCache, Heartbeat, FiniteSets

CONSTANTS
  MaxParallelPeerReads,   \* MAX_PARALLEL_PEER_READS
  ReadTimeout,            \* heartbeat.readTimeoutSeconds
  BuildBound,             \* a factory returns or raises within this time
  CallBound,              \* a cloud call is over within this time
  Now,                    \* now of the reconcile
  Answers                 \* tags a peer's heartbeat resource may carry

\* The peers are numbered in the order of members. Without any there is no phase
\* (main.py:325-326), and the schema wants a timeout of a second at least.
ASSUME PhaseAssumption ==
  /\ IsFiniteSet(Reads) /\ Reads # {} /\ Reads = 1..Cardinality(Reads)
  /\ MaxParallelPeerReads \in Nat \ {0}
  /\ ReadTimeout \in Nat \ {0} /\ BuildBound \in Nat /\ CallBound \in Nat
  /\ Now \in Nat /\ Answers \subseteq Tags

VARIABLES
  phase,       \* the caller is "idle", "waiting" for the reads, or "leaving" the pool
  elapsed,     \* time since the reads were submitted
  future,      \* the state of each read's future
  startedAt,   \* when a thread took the read
  since,       \* when the read entered its factory or call
  answer,      \* what a finished read returned
  peers,       \* the PeerLiveness collected for each peer
  late         \* (history) reads that took longer than ReadTimeout

phaseVars == <<phase, elapsed, future, startedAt, since, answer, peers, late>>
vars == <<cacheVars, phaseVars>>

Smaller(m, n) == IF m < n THEN m ELSE n

Workers == Smaller(Cardinality(Reads), MaxParallelPeerReads)

Waves == (Cardinality(Reads) + Workers - 1) \div Workers

\* Faulty variant: one wave, however many it takes.
OverallBudget_OneWave == ReadTimeout * 2

OverallBudget == ReadTimeout * (Waves + 1)

In(state) == {r \in Reads : future[r] = state}

Uncollected == [readable |-> FALSE, fresh |-> FALSE, role |-> "uncollected"]

\* Faulty variant: a peer that was not read counts as one without a heartbeat.
Unreadable_Readable == [readable |-> TRUE, fresh |-> FALSE, role |-> ""]

\* _unreadable_peer: what is concluded of a peer without tags.
Unreadable == LivenessFromTags(NoTags, Now)

Init ==
  /\ CacheInit
  /\ phase = "idle"
  /\ elapsed = 0
  /\ future = [r \in Reads |-> "none"]
  /\ startedAt = [r \in Reads |-> 0]
  /\ since = [r \in Reads |-> 0]
  /\ answer = [r \in Reads |-> NoTags]
  /\ peers = [r \in Reads |-> Uncollected]
  /\ late = {}

-----------------------------------------------------------------------------

Submit ==
  /\ phase = "idle"
  /\ phase' = "waiting"
  /\ elapsed' = 0
  /\ future' = [r \in Reads |-> "pending"]
  /\ startedAt' = [r \in Reads |-> 0]
  /\ since' = [r \in Reads |-> 0]
  /\ answer' = [r \in Reads |-> NoTags]
  /\ peers' = [r \in Reads |-> Uncollected]
  /\ late' = {}
  /\ UNCHANGED cacheVars

CanStart(r) ==
  /\ future[r] = "pending"
  /\ \A q \in In("pending") : r <= q
  /\ Cardinality(In("running")) < Workers

\* A thread of the pool takes the next read from the queue.
Start(r) ==
  /\ CanStart(r)
  /\ Begin(r)
  /\ future' = [future EXCEPT ![r] = "running"]
  /\ startedAt' = [startedAt EXCEPT ![r] = elapsed]
  /\ since' = [since EXCEPT ![r] = elapsed]
  /\ UNCHANGED <<phase, elapsed, answer, peers, late>>

\* The thread gets its client.
GetClient(r) ==
  /\ Lookup(r) \/ Acquire(r) \/ Recheck(r) \/ Build(r) \/ Store(r) \/ Release(r)
     \/ BuildFails(r)
  /\ since' = [since EXCEPT ![r] = elapsed]
  /\ UNCHANGED <<phase, elapsed, future, startedAt, answer, peers, late>>

\* The call returns the tags of the resource, or there was no client or no answer,
\* which read_peer_direct makes into no tags at all.
Answer(r) ==
  /\ Finish(r)
  /\ answer' \in {[answer EXCEPT ![r] = a] :
                    a \in IF pc[r] = "failed" THEN {NoTags} ELSE Answers \cup {NoTags}}
  /\ future' = [future EXCEPT ![r] = "finished"]
  /\ UNCHANGED <<phase, elapsed, startedAt, since, peers, late>>

AllDone == In("finished") = Reads

\* wait() returns, and the results of the reads that are done are collected.
Collect ==
  /\ phase = "waiting"
  /\ AllDone \/ elapsed >= OverallBudget
  /\ phase' = "leaving"
  /\ peers' = [r \in Reads |-> IF future[r] = "finished"
                               THEN LivenessFromTags(answer[r], Now) ELSE Uncollected]
  /\ UNCHANGED <<cacheVars, elapsed, future, startedAt, since, answer, late>>

\* Faulty variant: the reads still queued are left to run.
Cancel_Nothing(r) ==
  /\ phase = "leaving"
  /\ peers[r] = Uncollected
  /\ peers' = [peers EXCEPT ![r] = Unreadable]
  /\ UNCHANGED <<cacheVars, phase, elapsed, future, startedAt, since, answer, late>>

\* Faulty variant: a read that runs is thought to be stopped.
Cancel_Running(r) ==
  /\ phase = "leaving"
  /\ peers[r] = Uncollected
  /\ future' = [future EXCEPT ![r] = IF @ = "finished" THEN @ ELSE "cancelled"]
  /\ peers' = [peers EXCEPT ![r] = Unreadable]
  /\ UNCHANGED <<cacheVars, phase, elapsed, startedAt, since, answer, late>>

\* A read that was not done is cancelled, which stops it only if it is queued still.
Cancel(r) ==
  /\ phase = "leaving"
  /\ peers[r] = Uncollected
  /\ future' = [future EXCEPT ![r] = IF @ = "pending" THEN "cancelled" ELSE @]
  /\ peers' = [peers EXCEPT ![r] = Unreadable]
  /\ UNCHANGED <<cacheVars, phase, elapsed, startedAt, since, answer, late>>

\* Leaving the pool waits for the reads that run.
Leave ==
  /\ phase = "leaving"
  /\ \A r \in Reads : peers[r] # Uncollected
  /\ In("pending") \cup In("running") = {}
  /\ phase' = "idle"
  /\ UNCHANGED <<cacheVars, elapsed, future, startedAt, since, answer, peers, late>>

\* The thread is in its factory or call, which may go on.
Busy(r) ==
  \/ pc[r] = "build" /\ elapsed - since[r] < BuildBound
  \/ pc[r] = "call" /\ elapsed - since[r] < CallBound

\* Time counts while the budget runs, then while the reads that run go on.
Tick ==
  /\ \/ phase = "waiting" /\ ~AllDone /\ elapsed < OverallBudget
     \/ /\ phase = "leaving" /\ \A r \in Reads : peers[r] # Uncollected
        /\ \E r \in Reads : Busy(r)
  /\ \A r \in Reads : ~CanStart(r)
  /\ \A r \in In("running") : Busy(r) \/ (pc[r] = "acquire" /\ lock # Free)
  /\ elapsed' = elapsed + 1
  /\ late' = late \cup {r \in In("running") : elapsed' - startedAt[r] > ReadTimeout}
  /\ UNCHANGED <<cacheVars, phase, future, startedAt, since, answer, peers>>

Thread(r) == Start(r) \/ GetClient(r) \/ Answer(r)
Caller == Collect \/ Leave \/ \E r \in Reads : Cancel(r)

Next == Submit \/ Caller \/ Tick \/ \E r \in Reads : Thread(r)

\* Threads are scheduled, factories and calls end within their bounds, and time
\* goes by. No reconcile has to follow.
Fairness ==
  /\ WF_vars(Caller) /\ WF_vars(Tick)
  /\ \A r \in Reads : WF_vars(Thread(r))

Spec == Init /\ [][Next]_vars /\ Fairness

-----------------------------------------------------------------------------

TypeOK ==
  /\ cache \in [Scopes -> Clients \cup {NoClient}]
  /\ lock \in Reads \cup {Free}
  /\ pc \in [Reads -> Places]
  /\ client \in [Reads -> Clients \cup {NoClient}]
  /\ built \subseteq Clients
  /\ phase \in {"idle", "waiting", "leaving"}
  /\ elapsed \in Nat
  /\ future \in [Reads -> {"none", "pending", "running", "finished", "cancelled"}]
  /\ startedAt \in [Reads -> 0..elapsed] /\ since \in [Reads -> 0..elapsed]
  /\ answer \in [Reads -> Answers \cup {NoTags}]
  /\ peers \in [Reads -> {LivenessFromTags(t, Now) : t \in Answers \cup {NoTags}}
                           \cup {Uncollected}]
  /\ late \subseteq Reads
  /\ \A r \in Reads : pc[r] # "idle" <=> future[r] = "running"

\* Blindness is never death: when the phase is over there is a verdict on every
\* peer, and a peer counts as down or as leading only if its cloud said so in
\* time; failed, late and cancelled reads leave it unreadable (main.py:322-323,
\* heartbeat.py:255-259).
BlindnessIsNotDeath ==
  /\ phase = "idle" => \A r \in Reads : future[r] = "none" \/ peers[r] # Uncollected
  /\ \A r \in Reads : peers[r].readable =>
       future[r] = "finished" /\ peers[r] = LivenessFromTags(answer[r], Now)

\* The budget is enough: when every read that has a thread is done within
\* readTimeoutSeconds, no peer is given up, whatever the number of waves
\* (main.py:328-331).
PunctualReadsCollected ==
  phase = "leaving" /\ late = {} => AllDone

\* However slow factories and calls are, leaving the pool adds to the budget at
\* most one read per thread: nothing that is queued still gets to run
\* (main.py:333, 349-350).
OverrunBounded ==
  elapsed <= OverallBudget + Workers * BuildBound + CallBound

\* The read phase keeps within its overall wall-clock budget (main.py:320-322,
\* 328-329).
WithinBudget == elapsed <= OverallBudget

\* Every read phase ends: no thread is stuck on the lock, no future is waited
\* for in vain (main.py:333-353, cloud_read.py:70-75).
PhaseEnds == phase = "waiting" ~> phase = "idle"
=============================================================================
