--------------------------- MODULE DirectReadsInv ---------------------------
(***************************************************************************)
(* The inductive invariants behind the properties of DirectReads: of the   *)
(* cache of clients, of the verdicts on the peers, and of the time a read  *)
(* phase takes.                                                            *)
(***************************************************************************)
EXTENDS DirectReads

\* The types of the cache.
CacheTypeOK ==
  /\ cache \in [Scopes -> Clients \cup {NoClient}]
  /\ lock \in Reads \cup {Free}
  /\ pc \in [Reads -> Places]
  /\ client \in [Reads -> Clients \cup {NoClient}]
  /\ built \subseteq Clients

\* The lock is held by the thread inside the critical section.
Exclusion == \A r \in Reads : pc[r] \in Locked <=> lock = r

\* What a thread has in hand, and knows of the cache, at each of its places.
Holding ==
  \A r \in Reads :
    /\ pc[r] \in Places \ {"store", "release", "call"} => client[r] = NoClient
    /\ pc[r] \in {"build", "store"} => cache[ScopeOf[r]] = NoClient
    /\ pc[r] \in {"release", "call"} => client[r] = cache[ScopeOf[r]]
    /\ pc[r] \in {"store", "release", "call"} => client[r] # NoClient
    /\ pc[r] = "store" => client[r] \in built /\ \A s \in Scopes : cache[s] # client[r]

\* Every client was built, and is in the cache or about to be put there.
Accounted ==
  /\ \A s \in Scopes : cache[s] \in built \cup {NoClient}
  /\ \A c \in built :
       (\E s \in Scopes : cache[s] = c) \/ (\E r \in Reads : pc[r] = "store" /\ client[r] = c)

CacheInv == CacheTypeOK /\ Exclusion /\ Holding /\ Accounted

-----------------------------------------------------------------------------

Liveness == {LivenessFromTags(t, Now) : t \in Answers \cup {NoTags}}

\* The types of the read phase, and how futures and threads correspond.
PhaseTypeOK ==
  /\ phase \in {"idle", "waiting", "leaving"}
  /\ elapsed \in Nat
  /\ future \in [Reads -> {"none", "pending", "running", "finished", "cancelled"}]
  /\ startedAt \in [Reads -> 0..elapsed] /\ since \in [Reads -> 0..elapsed]
  /\ answer \in [Reads -> Answers \cup {NoTags}]
  /\ peers \in [Reads -> Liveness \cup {Uncollected}]
  /\ late \subseteq Reads
  /\ \A r \in Reads : pc[r] # "idle" <=> future[r] = "running"

\* When the caller has left the pool, no future is open.
Quiet == phase = "idle" => \A r \in Reads : future[r] \notin {"pending", "running"}

PhaseInv == CacheTypeOK /\ PhaseTypeOK /\ Quiet /\ BlindnessIsNotDeath

-----------------------------------------------------------------------------
(* Time. *)

\* There are no more threads than the pool has.
Pooled == Cardinality(In("running")) <= Workers

\* A read whose peer was concluded upon is not queued any more, and none has been
\* concluded upon while the caller waits.
Queued ==
  /\ phase = "waiting" =>
       \A r \in Reads : future[r] \in {"pending", "running", "finished"}
  /\ phase = "leaving" =>
       \A r \in Reads : future[r] = "pending" => peers[r] = Uncollected

\* The caller has not concluded yet.
Undecided ==
  \/ phase = "waiting"
  \/ phase = "leaving" /\ (\E r \in Reads : peers[r] = Uncollected)

\* Threads that may yet run a factory, or are running it.
Seeking == {r \in Reads : pc[r] \in {"lookup", "acquire", "recheck", "build"}}

\* The time by which all but n of the threads are past their factories.
AllBut(n) == OverallBudget + (Workers - n) * BuildBound

\* Factories run one at a time, calls side by side.
InBounds(r) ==
  /\ pc[r] = "build" =>
       elapsed <= since[r] + BuildBound /\ since[r] <= AllBut(Cardinality(Seeking))
  /\ pc[r] = "call" => elapsed <= since[r] + CallBound /\ since[r] <= AllBut(0)
  /\ pc[r] \notin {"idle", "call"} => elapsed <= AllBut(0)

Overrun ==
  /\ Undecided => elapsed <= OverallBudget
  /\ \A r \in Reads : InBounds(r)
  /\ Seeking # {} /\ (\A r \in Reads : pc[r] # "build") =>
       elapsed <= AllBut(Cardinality(Seeking))
  /\ OverrunBounded

\* Reads are taken from the queue in order.
InOrder ==
  phase = "waiting" =>
    \A q, r \in Reads : q < r /\ future[q] = "pending" => future[r] = "pending"

\* As long as no read is late, the reads of wave k have threads when the waves
\* before it have had their time.
InWaves ==
  phase = "waiting" /\ late = {} =>
    /\ \A r \in In("running") : elapsed <= startedAt[r] + ReadTimeout
    /\ \A k \in 1..Waves : \A r \in Reads :
         r <= k * Workers =>
           IF future[r] = "pending" THEN elapsed <= (k - 1) * ReadTimeout
           ELSE startedAt[r] <= (k - 1) * ReadTimeout

\* What makes a read phase keep its time, from the budget it gives every wave to the
\* threads it waits for at the end (main.py:326-350): the invariant PunctualReadsCollected
\* and OverrunBounded rest on.
TimeInv == Pooled /\ Queued /\ Overrun /\ InOrder /\ InWaves /\ PunctualReadsCollected
=============================================================================
