------------------------- MODULE DirectReadsProofs -------------------------
(***************************************************************************)
(* Proofs about DirectReads, for any number of peers and threads: the      *)
(* cache of clients hands out one client per scope, and implements the     *)
(* atomic store of ClientStore; what was not read counts as unreadable;    *)
(* the budget is enough, and how far leaving the pool may overrun it.      *)
(***************************************************************************)
EXTENDS DirectReadsInv, FiniteSetTheorems, TLAPS

\* One step of the thread of r inside the cache.
CacheStep(r) ==
  \/ Begin(r) \/ Lookup(r) \/ Acquire(r) \/ Recheck(r)
  \/ Build(r) \/ Store(r) \/ Release(r) \/ BuildFails(r) \/ Finish(r)

-----------------------------------------------------------------------------

\* Every step of a read phase is a step of the cache or leaves the cache alone.
LEMMA StepOfCache ==
  ASSUME [Next]_vars
  PROVE  UNCHANGED cacheVars \/ \E r \in Reads : CacheStep(r)
<1>1. CASE Submit BY <1>1 DEF Submit, cacheVars
<1>2. CASE Caller BY <1>2 DEF Caller, Collect, Cancel, Leave, cacheVars
<1>3. CASE Tick BY <1>3 DEF Tick, cacheVars
<1>4. CASE \E r \in Reads : Thread(r)
  BY <1>4 DEF Thread, Start, GetClient, Answer, CacheStep
<1>5. CASE UNCHANGED vars BY <1>5 DEF vars, cacheVars
<1>. QED BY <1>1, <1>2, <1>3, <1>4, <1>5 DEF Next

LEMMA NewClientIsNew ==
  ASSUME Clients # built, built \subseteq Clients
  PROVE  NewClient \in Clients \ built
BY DEF NewClient

LEMMA CacheInitInv == Init => CacheInv
BY CacheAssumption DEF Init, CacheInit, CacheInv, CacheTypeOK, Exclusion, Holding, Accounted,
  Places, Locked

\* Each step of a thread keeps the invariant of the cache.
LEMMA CacheStepInv ==
  ASSUME CacheInv, NEW r \in Reads, CacheStep(r)
  PROVE  CacheInv'
<1>. USE CacheAssumption DEF CacheInv, Goto, Found
<1>0. pc[r] \in Places /\ ScopeOf[r] \in Scopes /\ pc \in [Reads -> Places]
  BY DEF CacheTypeOK
<1>1. CASE Begin(r)
  BY <1>0, <1>1 DEF Begin, CacheTypeOK, Exclusion, Holding, Accounted, Places, Locked
<1>2. CASE Lookup(r)
  BY <1>0, <1>2 DEF Lookup, CacheTypeOK, Exclusion, Holding, Accounted, Places, Locked
<1>3. CASE Acquire(r)
  BY <1>0, <1>3 DEF Acquire, CacheTypeOK, Exclusion, Holding, Accounted, Places, Locked
<1>4. CASE Recheck(r)
  BY <1>0, <1>4 DEF Recheck, CacheTypeOK, Exclusion, Holding, Accounted, Places, Locked
<1>5. CASE Build(r)
  <2>. DEFINE c == NewClient
  <2>1. c \in Clients \ built
    BY <1>5, NewClientIsNew DEF Build, CacheTypeOK
  <2>2. /\ pc[r] = "build" /\ pc' = [pc EXCEPT ![r] = "store"]
        /\ built' = built \cup {c} /\ client' = [client EXCEPT ![r] = c]
        /\ UNCHANGED <<cache, lock>>
    BY <1>5 DEF Build
  <2>. HIDE DEF c
  <2>3. CacheTypeOK' BY <1>0, <2>1, <2>2 DEF CacheTypeOK, Places, Locked
  <2>4. Exclusion' BY <1>0, <2>2 DEF Exclusion, Locked, Places
  <2>5. Holding'
    BY <1>0, <2>1, <2>2 DEF Holding, Exclusion, Accounted, CacheTypeOK, Places, Locked
  <2>6. Accounted'
    BY <1>0, <2>1, <2>2 DEF Accounted, CacheTypeOK, Places, Locked
  <2>. QED BY <2>3, <2>4, <2>5, <2>6
<1>6. CASE Store(r)
  <2>1. \A q \in Reads : q # r => pc[q] \notin Locked
    BY <1>0, <1>6 DEF Store, Exclusion, Locked
  <2>2. CacheTypeOK' BY <1>0, <1>6 DEF Store, CacheTypeOK, Places, Locked
  <2>3. Exclusion' BY <1>0, <1>6 DEF Store, Exclusion, Places, Locked
  <2>4. Holding'
    BY <1>0, <1>6, <2>1 DEF Store, Holding, CacheTypeOK, Places, Locked
  <2>5. Accounted'
    BY <1>0, <1>6, <2>1 DEF Store, Accounted, Holding, CacheTypeOK, Places, Locked
  <2>. QED BY <2>2, <2>3, <2>4, <2>5
<1>7. CASE Release(r)
  BY <1>0, <1>7 DEF Release, CacheTypeOK, Exclusion, Holding, Accounted, Places, Locked
<1>8. CASE BuildFails(r)
  BY <1>0, <1>8 DEF BuildFails, CacheTypeOK, Exclusion, Holding, Accounted, Places, Locked
<1>9. CASE Finish(r)
  BY <1>0, <1>9 DEF Finish, CacheTypeOK, Exclusion, Holding, Accounted, Places, Locked
<1>. QED BY <1>1, <1>2, <1>3, <1>4, <1>5, <1>6, <1>7, <1>8, <1>9 DEF CacheStep

LEMMA CacheInvariant == Spec => []CacheInv
<1>1. CacheInv /\ [Next]_vars => CacheInv'
  <2>1. SUFFICES ASSUME CacheInv, [Next]_vars PROVE CacheInv'
    OBVIOUS
  <2>2. CASE UNCHANGED cacheVars
    BY <2>1, <2>2 DEF cacheVars, CacheInv, CacheTypeOK, Exclusion, Holding, Accounted, Found
  <2>3. CASE \E r \in Reads : CacheStep(r)
    BY <2>1, <2>3, CacheStepInv
  <2>. QED BY <2>1, <2>2, <2>3, StepOfCache
<1>. QED BY <1>1, CacheInitInv, PTL DEF Spec

\* At most one client is ever built for a scope (OneClientPerScope), for any number
\* of threads that read any number of peers, in any interleaving.
THEOREM OneClient == Spec => []OneClientPerScope
<1>1. CacheInv => OneClientPerScope
  <2>1. SUFFICES ASSUME CacheInv PROVE OneClientPerScope
    OBVIOUS
  <2>2. \A c \in built :
          (\E s \in Scopes : cache[s] = c) \/ (\E r \in Reads : pc[r] = "store" /\ client[r] = c)
    BY <2>1 DEF CacheInv, Accounted
  <2>3. ASSUME NEW q \in Reads, NEW r \in Reads, ScopeOf[q] = ScopeOf[r],
               client[q] # NoClient, client[r] # NoClient
        PROVE  client[q] = client[r]
    <3>1. pc[q] \in {"store", "release", "call"} /\ pc[r] \in {"store", "release", "call"}
      BY <2>1, <2>3 DEF CacheInv, CacheTypeOK, Holding
    <3>2. CASE pc[q] = "store" /\ pc[r] = "store"
      BY <2>1, <3>2 DEF CacheInv, Exclusion, Locked
    <3>3. CASE pc[q] # "store" \/ pc[r] # "store"
      BY <2>1, <2>3, <3>1, <3>3 DEF CacheInv, Holding
    <3>. QED BY <3>2, <3>3
  <2>. QED BY <2>2, <2>3 DEF OneClientPerScope
<1>. QED BY <1>1, CacheInvariant, PTL

-----------------------------------------------------------------------------

\* A step of a thread is a step of the store, or a stutter: the store is created at
\* Store, read at a Lookup or a Recheck that finds a client.
LEMMA StoreStep ==
  ASSUME CacheInv, CacheInv', NEW r \in Reads, CacheStep(r)
  PROVE  Abstract!StoreNext \/ UNCHANGED <<cache, Given>>
<1>. USE CacheAssumption DEF Goto, Found
<1>0. /\ pc \in [Reads -> Places] /\ client \in [Reads -> Clients \cup {NoClient}]
      /\ cache \in [Scopes -> Clients \cup {NoClient}] /\ ScopeOf[r] \in Scopes
      /\ pc' \in [Reads -> Places] /\ client' \in [Reads -> Clients \cup {NoClient}]
  BY DEF CacheInv, CacheTypeOK
<1>1. CASE Begin(r)
  BY <1>0, <1>1 DEF Begin, Given
<1>2. CASE Lookup(r)
  <2>1. pc[r] = "lookup" /\ Given[r] = NoClient
    BY <1>0, <1>2 DEF Lookup, Given, CacheInv, Holding, Places, Locked
  <2>2. Given' = [Given EXCEPT ![r] = cache[ScopeOf[r]]]
    BY <1>0, <1>2 DEF Lookup, Given
  <2>3. CASE cache[ScopeOf[r]] = NoClient
    BY <1>0, <1>2, <2>1, <2>2, <2>3 DEF Lookup, Given
  <2>4. CASE cache[ScopeOf[r]] # NoClient
    BY <1>2, <2>1, <2>2, <2>4 DEF Lookup, Abstract!StoreNext, Abstract!GetOrCreate
  <2>. QED BY <2>3, <2>4
<1>3. CASE Acquire(r)
  BY <1>0, <1>3 DEF Acquire, Given
<1>4. CASE Recheck(r)
  <2>1. pc[r] = "recheck" /\ Given[r] = NoClient
    BY <1>0, <1>4 DEF Recheck, Given, CacheInv, Holding, Places, Locked
  <2>2. Given' = [Given EXCEPT ![r] = cache[ScopeOf[r]]]
    BY <1>0, <1>4 DEF Recheck, Given
  <2>3. CASE cache[ScopeOf[r]] = NoClient
    BY <1>0, <1>4, <2>1, <2>2, <2>3 DEF Recheck, Given
  <2>4. CASE cache[ScopeOf[r]] # NoClient
    BY <1>4, <2>1, <2>2, <2>4 DEF Recheck, Abstract!StoreNext, Abstract!GetOrCreate
  <2>. QED BY <2>3, <2>4
<1>5. CASE Build(r)
  <2>1. pc[r] = "build" /\ client[r] = NoClient
    BY <1>0, <1>5 DEF Build, CacheInv, Holding, Places, Locked
  <2>2. pc' = [pc EXCEPT ![r] = "store"] /\ UNCHANGED cache
        /\ \A q \in Reads : q # r => client'[q] = client[q]
    BY <1>0, <1>5 DEF Build
  <2>. QED BY <1>0, <2>1, <2>2 DEF Given
<1>6. CASE Store(r)
  <2>1. /\ pc[r] = "store" /\ Given[r] = NoClient /\ cache[ScopeOf[r]] = NoClient
        /\ client[r] \in Clients \ {cache[t] : t \in Scopes}
    BY <1>0, <1>6 DEF Store, Given, CacheInv, Holding
  <2>2. Given' = [Given EXCEPT ![r] = client[r]]
    BY <1>0, <1>6 DEF Store, Given
  <2>3. cache' = [cache EXCEPT ![ScopeOf[r]] = client[r]]
    BY <1>6 DEF Store
  <2>4. Abstract!GetOrCreate(r)
    BY <2>1, <2>2, <2>3 DEF Abstract!GetOrCreate
  <2>. QED BY <2>4 DEF Abstract!StoreNext
<1>7. CASE Release(r)
  BY <1>0, <1>7 DEF Release, Given
<1>8. CASE BuildFails(r)
  BY <1>0, <1>8 DEF BuildFails, Given
<1>9. CASE Finish(r)
  <2>1. Given' = [Given EXCEPT ![r] = NoClient] /\ UNCHANGED cache /\ Given[r] = client[r]
    BY <1>0, <1>9 DEF Finish, Given
  <2>2. CASE client[r] = NoClient
    BY <2>1, <2>2 DEF Given
  <2>3. CASE client[r] # NoClient
    BY <2>1, <2>3 DEF Abstract!StoreNext, Abstract!Return
  <2>. QED BY <2>2, <2>3
<1>. QED BY <1>1, <1>2, <1>3, <1>4, <1>5, <1>6, <1>7, <1>8, <1>9 DEF CacheStep

\* The cache, under any number of threads, amounts to the atomic get-or-create of
\* ClientStore (ImplementsStore).
THEOREM CacheRefinesStore == Spec => ImplementsStore
<1>1. Init => Abstract!StoreInit
  BY DEF Init, CacheInit, Abstract!StoreInit, Given
<1>2. CacheInv /\ CacheInv' /\ [Next]_vars => [Abstract!StoreNext]_<<cache, Given>>
  <2>1. SUFFICES ASSUME CacheInv, CacheInv', [Next]_vars
                 PROVE  Abstract!StoreNext \/ UNCHANGED <<cache, Given>>
    OBVIOUS
  <2>2. CASE UNCHANGED cacheVars
    BY <2>2 DEF cacheVars, Given
  <2>3. CASE \E r \in Reads : CacheStep(r)
    BY <2>1, <2>3, StoreStep
  <2>. QED BY <2>1, <2>2, <2>3, StepOfCache
<1>. QED
  BY <1>1, <1>2, CacheInvariant, PTL DEF Spec, ImplementsStore, Abstract!StoreSpec

-----------------------------------------------------------------------------

LEMMA UnreadableType == Unreadable \in Liveness /\ ~Unreadable.readable
BY DEF Unreadable, Liveness, LivenessFromTags, NoTags, Missing

LEMMA PhaseInitInv == Init => PhaseInv
BY CacheInitInv
   DEF Init, CacheInv, CacheInit, PhaseInv, PhaseTypeOK, Quiet, BlindnessIsNotDeath, Uncollected

\* Each step of a thread keeps the invariant of the phase.
LEMMA ThreadInv ==
  ASSUME PhaseInv, CacheTypeOK', NEW r \in Reads, Thread(r)
  PROVE  PhaseInv'
<1>. USE DEF PhaseInv
<1>0. pc \in [Reads -> Places] BY DEF CacheTypeOK
<1>1. CASE Start(r)
  <2>1. /\ future[r] = "pending" /\ future' = [future EXCEPT ![r] = "running"]
        /\ pc' = [pc EXCEPT ![r] = "lookup"]
        /\ startedAt' = [startedAt EXCEPT ![r] = elapsed]
        /\ since' = [since EXCEPT ![r] = elapsed]
        /\ UNCHANGED <<phase, elapsed, answer, peers, late>>
    BY <1>1 DEF Start, CanStart, Begin, Goto
  <2>2. PhaseTypeOK' BY <1>0, <2>1 DEF PhaseTypeOK
  <2>3. Quiet' BY <2>1 DEF Quiet
  <2>4. BlindnessIsNotDeath' BY <2>1 DEF PhaseTypeOK, Quiet, BlindnessIsNotDeath
  <2>. QED BY <2>2, <2>3, <2>4
<1>2. CASE GetClient(r)
  <2>1. /\ pc[r] # "idle" /\ \E to \in Places \ {"idle"} : pc' = [pc EXCEPT ![r] = to]
        /\ since' = [since EXCEPT ![r] = elapsed]
        /\ UNCHANGED <<phase, elapsed, future, startedAt, answer, peers, late>>
    BY <1>2 DEF GetClient, Lookup, Acquire, Recheck, Build, Store, Release, BuildFails, Goto,
      Places, Locked
  <2>2. PhaseTypeOK' BY <1>0, <2>1 DEF PhaseTypeOK
  <2>3. Quiet' /\ BlindnessIsNotDeath' BY <2>1 DEF Quiet, BlindnessIsNotDeath
  <2>. QED BY <2>2, <2>3
<1>3. CASE Answer(r)
  <2>1. /\ pc[r] # "idle" /\ pc' = [pc EXCEPT ![r] = "idle"]
        /\ \E a \in Answers \cup {NoTags} : answer' = [answer EXCEPT ![r] = a]
        /\ future' = [future EXCEPT ![r] = "finished"]
        /\ UNCHANGED <<phase, elapsed, startedAt, since, peers, late>>
    BY <1>3 DEF Answer, Finish
  <2>2. PhaseTypeOK' BY <1>0, <2>1 DEF PhaseTypeOK
  <2>3. Quiet' BY <2>1 DEF PhaseTypeOK, Quiet
  <2>4. BlindnessIsNotDeath' BY <1>0, <2>1 DEF PhaseTypeOK, BlindnessIsNotDeath
  <2>. QED BY <2>2, <2>3, <2>4
<1>. QED BY <1>1, <1>2, <1>3 DEF Thread

LEMMA CallerInv ==
  ASSUME PhaseInv, CacheTypeOK', Caller
  PROVE  PhaseInv'
<1>. USE DEF PhaseInv
<1>1. CASE Collect
  <2>1. PhaseTypeOK' BY <1>1 DEF Collect, PhaseTypeOK, Liveness, cacheVars
  <2>2. Quiet' BY <1>1 DEF Collect, Quiet
  <2>3. BlindnessIsNotDeath'
    BY <1>1 DEF Collect, BlindnessIsNotDeath, Uncollected, PhaseTypeOK
  <2>. QED BY <2>1, <2>2, <2>3
<1>2. ASSUME NEW r \in Reads, Cancel(r) PROVE PhaseInv'
  <2>1. PhaseTypeOK'
    BY <1>2, UnreadableType DEF Cancel, PhaseTypeOK, cacheVars
  <2>2. Quiet' BY <1>2 DEF Cancel, Quiet
  <2>3. BlindnessIsNotDeath'
    BY <1>2, UnreadableType DEF Cancel, BlindnessIsNotDeath, PhaseTypeOK
  <2>. QED BY <2>1, <2>2, <2>3
<1>3. CASE Leave
  <2>1. PhaseTypeOK' BY <1>3 DEF Leave, PhaseTypeOK, cacheVars
  <2>2. Quiet' BY <1>3 DEF Leave, Quiet, In
  <2>3. BlindnessIsNotDeath' BY <1>3 DEF Leave, BlindnessIsNotDeath
  <2>. QED BY <2>1, <2>2, <2>3
<1>. QED BY <1>1, <1>2, <1>3 DEF Caller

LEMMA PhaseInvariant == Spec => []PhaseInv
<1>1. PhaseInv /\ CacheTypeOK' /\ [Next]_vars => PhaseInv'
  <2>1. SUFFICES ASSUME PhaseInv, CacheTypeOK', [Next]_vars PROVE PhaseInv'
    OBVIOUS
  <2>2. CASE Submit
    BY <2>1, <2>2 DEF Submit, PhaseInv, PhaseTypeOK, Quiet, BlindnessIsNotDeath, Uncollected,
      cacheVars
  <2>3. CASE Caller BY <2>1, <2>3, CallerInv
  <2>4. CASE Tick
    BY <2>1, <2>4 DEF Tick, In, PhaseInv, PhaseTypeOK, Quiet, BlindnessIsNotDeath, cacheVars
  <2>5. CASE \E r \in Reads : Thread(r) BY <2>1, <2>5, ThreadInv
  <2>6. CASE UNCHANGED vars
    BY <2>1, <2>6 DEF vars, phaseVars, cacheVars, PhaseInv, PhaseTypeOK, Quiet,
      BlindnessIsNotDeath
  <2>. QED BY <2>1, <2>2, <2>3, <2>4, <2>5, <2>6 DEF Next
<1>2. CacheInv => CacheTypeOK BY DEF CacheInv
<1>. QED BY <1>1, <1>2, PhaseInitInv, CacheInvariant, PTL DEF Spec

\* The types of the read phase (TypeOK).
THEOREM ReadsTypeCorrect == Spec => []TypeOK
<1>1. PhaseInv => TypeOK
  BY DEF PhaseInv, CacheTypeOK, PhaseTypeOK, Liveness, TypeOK
<1>. QED BY <1>1, PhaseInvariant, PTL

\* A peer counts as down or leading only if its cloud said so in time, and no peer
\* is left without a verdict (BlindnessIsNotDeath), for any number of peers, threads
\* and waves, whatever fails, is late or is cancelled.
THEOREM Blindness == Spec => []BlindnessIsNotDeath
<1>1. PhaseInv => BlindnessIsNotDeath BY DEF PhaseInv
<1>. QED BY <1>1, PhaseInvariant, PTL

-----------------------------------------------------------------------------
(* How long a read phase takes. *)

LEMMA SizeOfPool ==
  /\ IsFiniteSet(Reads) /\ Cardinality(Reads) \in Nat \ {0}
  /\ Workers \in Nat \ {0} /\ Workers <= Cardinality(Reads)
<1>1. IsFiniteSet(Reads) /\ Reads # {}
  BY PhaseAssumption
<1>2. Cardinality(Reads) \in Nat /\ Cardinality(Reads) # 0
  BY <1>1, FS_CardinalityType, FS_EmptySet
<1> QED
  BY <1>1, <1>2, PhaseAssumption DEF Workers, Smaller

\* The waves are enough for all reads.
LEMMA WavesCover ==
  /\ Waves \in Nat \ {0} /\ Cardinality(Reads) <= Waves * Workers
  /\ OverallBudget \in Nat /\ OverallBudget = (Waves - 1) * ReadTimeout + 2 * ReadTimeout
<1> DEFINE n == Cardinality(Reads)
           w == Workers
<1>1. n \in Nat \ {0} /\ w \in Nat \ {0}
  BY SizeOfPool
<1>2. Waves = (n + w - 1) \div w
  BY DEF Waves
<1> HIDE DEF n, w
<1>3. Waves \in Int /\ w * Waves <= n + w - 1 /\ n + w - 1 < w * Waves + w
  BY <1>1, <1>2
<1>4. n <= w * Waves
  BY <1>1, <1>3
<1>5. Waves > 0
  BY <1>1, <1>3
<1>6. Waves \in Nat \ {0} /\ n <= Waves * w
  BY <1>1, <1>3, <1>4, <1>5
<1>7. ReadTimeout \in Nat \ {0}
  BY PhaseAssumption
<1>8. /\ ReadTimeout * (Waves + 1) \in Nat
      /\ ReadTimeout * (Waves + 1) = (Waves - 1) * ReadTimeout + 2 * ReadTimeout
  BY <1>6, <1>7
<1> QED
  BY <1>6, <1>8 DEF OverallBudget, n, w

LEMMA Subsets ==
  ASSUME NEW S \in SUBSET Reads
  PROVE  IsFiniteSet(S) /\ Cardinality(S) \in Nat
BY SizeOfPool, FS_Subset, FS_CardinalityType

\* What is left of the budget shrinks by one factory with each thread.
LEMMA BudgetLeft ==
  ASSUME NEW m \in Nat, m <= Workers
  PROVE  /\ AllBut(m) \in Nat /\ OverallBudget <= AllBut(m) /\ AllBut(m) <= AllBut(0)
         /\ m > 0 => AllBut(m - 1) = AllBut(m) + BuildBound /\ m - 1 \in Nat
         /\ AllBut(0) = OverallBudget + Workers * BuildBound
<1> DEFINE w == Workers
           b == BuildBound
           o == OverallBudget
<1>1. w \in Nat /\ m <= w /\ b \in Nat /\ o \in Nat
  BY SizeOfPool, WavesCover, PhaseAssumption
<1>2. AllBut(m) = o + (w - m) * b /\ AllBut(m - 1) = o + (w - (m - 1)) * b
      /\ AllBut(0) = o + (w - 0) * b
  BY DEF AllBut
<1> HIDE DEF w, b, o
<1>3. (w - m) * b \in Nat /\ (w - m) * b <= w * b
  BY <1>1
<1>4. (w - (m - 1)) * b = (w - m) * b + b /\ (w - 0) * b = w * b /\ w * b \in Nat
  BY <1>1
<1>5. /\ AllBut(m) \in Nat /\ o <= AllBut(m) /\ AllBut(m) <= AllBut(0)
      /\ AllBut(m - 1) = AllBut(m) + b /\ AllBut(0) = o + w * b
  BY <1>1, <1>2, <1>3, <1>4
<1>6. m > 0 => m - 1 \in Nat
  OBVIOUS
<1> QED
  BY <1>5, <1>6 DEF w, b, o

LEMMA Fit ==
  ASSUME NEW R \in SUBSET Reads, Cardinality(R) <= Workers, NEW S \in SUBSET R
  PROVE  /\ IsFiniteSet(S) /\ Cardinality(S) \in Nat /\ Cardinality(S) <= Workers
         /\ S # {} => Cardinality(S) > 0
<1>1. IsFiniteSet(R) /\ Cardinality(R) \in Nat
  BY Subsets
<1>2. IsFiniteSet(S) /\ Cardinality(S) <= Cardinality(R)
  BY <1>1, FS_Subset
<1>3. Cardinality(S) \in Nat /\ (S # {} => Cardinality(S) # 0)
  BY <1>2, FS_CardinalityType, FS_EmptySet
<1> QED
  BY <1>1, <1>2, <1>3, SizeOfPool

LEMMA SeekersRun ==
  PhaseInv => Seeking \in SUBSET In("running") /\ In("running") \in SUBSET Reads
BY DEF Seeking, In, PhaseInv, PhaseTypeOK

LEMMA StartEffect ==
  ASSUME NEW r \in Reads, Start(r), PhaseInv
  PROVE  /\ pc[r] = "idle" /\ future[r] = "pending"
         /\ pc' = [pc EXCEPT ![r] = "lookup"]
         /\ future' = [future EXCEPT ![r] = "running"]
         /\ startedAt' = [startedAt EXCEPT ![r] = elapsed]
         /\ since' = [since EXCEPT ![r] = elapsed]
         /\ phase' = phase /\ elapsed' = elapsed /\ peers' = peers /\ late' = late
         /\ \A q \in In("pending") : r <= q
         /\ Cardinality(In("running")) < Workers
BY DEF Start, CanStart, Begin, Goto

\* A thread goes on to its client, past the factory or up to it.
GoesOn(r, from, to) ==
  /\ pc[r] \in from /\ pc' = [pc EXCEPT ![r] = to]
  /\ since' = [since EXCEPT ![r] = elapsed]

LEMMA GetClientEffect ==
  ASSUME NEW r \in Reads, GetClient(r), PhaseInv
  PROVE  /\ \/ GoesOn(r, {"lookup"}, "acquire") \/ GoesOn(r, {"acquire"}, "recheck")
            \/ GoesOn(r, {"recheck"}, "build")
            \/ GoesOn(r, {"lookup"}, "call") \/ GoesOn(r, {"recheck"}, "release")
            \/ GoesOn(r, {"build"}, "store") \/ GoesOn(r, {"build"}, "failed")
            \/ GoesOn(r, {"store"}, "release") \/ GoesOn(r, {"release"}, "call")
         /\ future' = future /\ startedAt' = startedAt
         /\ phase' = phase /\ elapsed' = elapsed /\ peers' = peers /\ late' = late
<1>1. /\ since' = [since EXCEPT ![r] = elapsed]
      /\ future' = future /\ startedAt' = startedAt
      /\ phase' = phase /\ elapsed' = elapsed /\ peers' = peers /\ late' = late
  BY DEF GetClient
<1>2. CASE Lookup(r)
  <2>1. CASE Found(r) = NoClient
    BY <1>1, <1>2, <2>1 DEF Lookup, Goto, GoesOn
  <2>2. CASE Found(r) # NoClient
    BY <1>1, <1>2, <2>2 DEF Lookup, Goto, GoesOn
  <2> QED
    BY <2>1, <2>2
<1>3. CASE Recheck(r)
  <2>1. CASE Found(r) = NoClient
    BY <1>1, <1>3, <2>1 DEF Recheck, Goto, GoesOn
  <2>2. CASE Found(r) # NoClient
    BY <1>1, <1>3, <2>2 DEF Recheck, Goto, GoesOn
  <2> QED
    BY <2>1, <2>2
<1>4. CASE Acquire(r) \/ Build(r) \/ Store(r) \/ Release(r) \/ BuildFails(r)
  BY <1>1, <1>4 DEF Acquire, Build, Store, Release, BuildFails, Goto, GoesOn
<1> QED
  BY <1>1, <1>2, <1>3, <1>4 DEF GetClient

LEMMA AnswerEffect ==
  ASSUME NEW r \in Reads, Answer(r), PhaseInv
  PROVE  /\ pc[r] \in {"call", "failed"} /\ future[r] = "running"
         /\ pc' = [pc EXCEPT ![r] = "idle"]
         /\ future' = [future EXCEPT ![r] = "finished"]
         /\ startedAt' = startedAt /\ since' = since
         /\ phase' = phase /\ elapsed' = elapsed /\ peers' = peers /\ late' = late
BY DEF Answer, Finish, PhaseInv, PhaseTypeOK

LEMMA TickEffect ==
  ASSUME Tick, PhaseInv
  PROVE  /\ elapsed' = elapsed + 1
         /\ late \subseteq late'
         /\ \A r \in In("running") : elapsed + 1 > startedAt[r] + ReadTimeout => r \in late'
         /\ pc' = pc /\ phase' = phase /\ future' = future /\ startedAt' = startedAt
         /\ since' = since /\ peers' = peers /\ lock' = lock
         /\ \/ phase = "waiting" /\ elapsed < OverallBudget
            \/ /\ phase = "leaving" /\ \A r \in Reads : peers[r] # Uncollected
               /\ \E r \in Reads : Busy(r)
         /\ \A r \in Reads : ~CanStart(r)
         /\ \A r \in In("running") : Busy(r) \/ (pc[r] = "acquire" /\ lock # Free)
<1>1. elapsed' = elapsed + 1
      /\ late' = late \cup {r \in In("running") : elapsed' - startedAt[r] > ReadTimeout}
  BY DEF Tick
<1>2. late \subseteq late'
  BY <1>1
<1>3. ASSUME NEW r \in In("running"), elapsed + 1 > startedAt[r] + ReadTimeout
      PROVE  r \in late'
  <2>1. elapsed' - startedAt[r] > ReadTimeout
    <3>1. elapsed \in Nat /\ startedAt[r] \in Nat /\ elapsed' = elapsed + 1 /\ ReadTimeout \in Nat
      BY <1>1, PhaseAssumption DEF In, PhaseInv, PhaseTypeOK
    <3> QED
      BY <1>3, <3>1
  <2> QED
    BY <1>1, <2>1
<1> QED
  BY <1>1, <1>2, <1>3 DEF Tick, cacheVars

\* Steps in which no thread takes part and no time goes by.
LEMMA CallerEffect ==
  ASSUME Caller \/ Submit \/ UNCHANGED vars, PhaseInv
  PROVE  /\ pc' = pc /\ lock' = lock
         /\ \/ UNCHANGED <<phase, elapsed, future, startedAt, since, peers, late>>
            \/ /\ phase = "waiting" /\ phase' = "leaving"
               /\ AllDone \/ elapsed >= OverallBudget
               /\ UNCHANGED <<elapsed, future, startedAt, since, late>>
               /\ \A r \in Reads : future[r] # "finished" => peers'[r] = Uncollected
            \/ /\ phase = "leaving" /\ phase' = phase
               /\ \E r \in Reads :
                    /\ peers[r] = Uncollected
                    /\ future' = [future EXCEPT ![r] = IF @ = "pending" THEN "cancelled" ELSE @]
                    /\ peers' = [peers EXCEPT ![r] = Unreadable]
               /\ UNCHANGED <<elapsed, startedAt, since, late>>
            \/ /\ phase = "leaving" /\ phase' = "idle"
               /\ In("pending") \cup In("running") = {}
               /\ UNCHANGED <<elapsed, future, startedAt, since, peers, late>>
            \/ /\ phase = "idle" /\ phase' = "waiting" /\ elapsed' = 0 /\ late' = {}
               /\ future' = [r \in Reads |-> "pending"]
               /\ startedAt' = [r \in Reads |-> 0] /\ since' = [r \in Reads |-> 0]
<1>1. CASE UNCHANGED vars
  BY <1>1 DEF vars, phaseVars, cacheVars
<1>2. CASE Submit
  BY <1>2 DEF Submit, cacheVars
<1>3. CASE Collect
  BY <1>3 DEF Collect, cacheVars, PhaseInv, PhaseTypeOK
<1>4. ASSUME NEW r \in Reads, Cancel(r)
      PROVE  /\ pc' = pc /\ lock' = lock /\ phase = "leaving" /\ phase' = phase
             /\ peers[r] = Uncollected
             /\ future' = [future EXCEPT ![r] = IF @ = "pending" THEN "cancelled" ELSE @]
             /\ peers' = [peers EXCEPT ![r] = Unreadable]
             /\ UNCHANGED <<elapsed, startedAt, since, late>>
  BY <1>4 DEF Cancel, cacheVars
<1>5. CASE Leave
  BY <1>5 DEF Leave, cacheVars
<1> QED
  BY <1>1, <1>2, <1>3, <1>4, <1>5 DEF Caller

LEMMA PhaseSteps ==
  ASSUME [Next]_vars
  PROVE  \/ Caller \/ Submit \/ UNCHANGED vars
         \/ Tick
         \/ \E r \in Reads : Start(r) \/ GetClient(r) \/ Answer(r)
BY DEF Next, Thread

LEMMA StepPooled == ASSUME PhaseInv, Pooled, [Next]_vars PROVE Pooled'
<1>0. /\ In("running") \in SUBSET Reads /\ In("running")' \in SUBSET Reads
      /\ Cardinality(In("running")) \in Nat /\ IsFiniteSet(In("running"))
  BY Subsets DEF In
<1>1. CASE In("running")' \subseteq In("running")
  <2>1. Cardinality(In("running")') <= Cardinality(In("running"))
    BY <1>0, <1>1, FS_Subset
  <2>2. Cardinality(In("running")') \in Nat
    BY <1>0, Subsets
  <2> QED
    BY <1>0, <2>1, <2>2, SizeOfPool DEF Pooled
<1>2. ASSUME NEW r \in Reads, Start(r) PROVE Pooled'
  <2>1. future' = [future EXCEPT ![r] = "running"] /\ future[r] = "pending"
        /\ Cardinality(In("running")) < Workers
    BY <1>2, StartEffect
  <2>2. In("running")' = In("running") \cup {r}
    BY <2>1 DEF In, PhaseInv, PhaseTypeOK
  <2>3. Cardinality(In("running")') <= Cardinality(In("running")) + 1
    <3>1. Cardinality(In("running") \cup {r})
            = IF r \in In("running") THEN Cardinality(In("running"))
              ELSE Cardinality(In("running")) + 1
      BY <1>0, FS_AddElement
    <3> QED
      BY <1>0, <2>2, <3>1
  <2>4. Cardinality(In("running")') \in Nat
    BY <1>0, Subsets
  <2> QED
    BY <1>0, <2>1, <2>3, <2>4, SizeOfPool DEF Pooled
<1>3. ASSUME NEW r \in Reads, GetClient(r) \/ Answer(r)
      PROVE  In("running")' \subseteq In("running")
  <2>1. future' = future \/ future' = [future EXCEPT ![r] = "finished"]
    BY <1>3, GetClientEffect, AnswerEffect
  <2> QED
    BY <2>1 DEF In, PhaseInv, PhaseTypeOK
<1>4. CASE Tick
  BY <1>1, <1>4, TickEffect DEF In
<1>5. CASE Caller \/ Submit \/ UNCHANGED vars
  <2>1. \/ future' = future \/ future' = [q \in Reads |-> "pending"]
        \/ \E r \in Reads :
             future' = [future EXCEPT ![r] = IF @ = "pending" THEN "cancelled" ELSE @]
    BY <1>5, CallerEffect
  <2>2. In("running")' \subseteq In("running")
    BY <2>1 DEF In, PhaseInv, PhaseTypeOK
  <2> QED
    BY <1>1, <2>2
<1> QED
  BY <1>1, <1>2, <1>3, <1>4, <1>5, PhaseSteps

LEMMA StepQueued == ASSUME PhaseInv, Queued, [Next]_vars PROVE Queued'
<1> USE DEF Queued, PhaseInv, PhaseTypeOK
<1>1. ASSUME NEW r \in Reads, Start(r) PROVE Queued'
  BY <1>1, StartEffect
<1>2. ASSUME NEW r \in Reads, GetClient(r) PROVE Queued'
  BY <1>2, GetClientEffect
<1>3. ASSUME NEW r \in Reads, Answer(r) PROVE Queued'
  BY <1>3, AnswerEffect
<1>4. CASE Tick
  BY <1>4, TickEffect
<1>5. CASE Caller \/ Submit \/ UNCHANGED vars
  <2>1. \A r \in Reads : Unreadable # Uncollected
    BY UnreadableType DEF Uncollected, Unreadable, LivenessFromTags, NoTags, Missing
  <2> QED
    BY <1>5, <2>1, CallerEffect
<1> QED
  BY <1>1, <1>2, <1>3, <1>4, <1>5, PhaseSteps

LEMMA StepInOrder == ASSUME PhaseInv, InOrder, [Next]_vars PROVE InOrder'
<1> USE DEF InOrder, PhaseInv, PhaseTypeOK
<1>0. \A q \in Reads : q \in Nat
  BY PhaseAssumption, SizeOfPool
<1>1. ASSUME NEW r \in Reads, Start(r) PROVE InOrder'
  <2>1. /\ future[r] = "pending" /\ future' = [future EXCEPT ![r] = "running"]
        /\ phase' = phase /\ \A q \in Reads : future[q] = "pending" => r <= q
    BY <1>1, StartEffect DEF In
  <2> QED
    BY <1>0, <2>1
<1>2. ASSUME NEW r \in Reads, GetClient(r) PROVE InOrder'
  BY <1>2, GetClientEffect
<1>3. ASSUME NEW r \in Reads, Answer(r) PROVE InOrder'
  BY <1>3, AnswerEffect
<1>4. CASE Tick
  BY <1>4, TickEffect
<1>5. CASE Caller \/ Submit \/ UNCHANGED vars
  BY <1>5, CallerEffect
<1> QED
  BY <1>1, <1>2, <1>3, <1>4, <1>5, PhaseSteps

LEMMA TimesAreNumbers ==
  PhaseInv => /\ elapsed \in Nat
              /\ \A q \in Reads : /\ since[q] \in Nat /\ since[q] <= elapsed
                                  /\ startedAt[q] \in Nat /\ startedAt[q] <= elapsed
BY DEF PhaseInv, PhaseTypeOK

\* The thread of r has moved and no time has gone by.
LEMMA MoveKeepsOverrun ==
  ASSUME PhaseInv, Overrun, NEW r \in Reads, NEW to,
         pc' = [pc EXCEPT ![r] = to], pc \in [Reads -> Places],
         IF to = "idle" THEN since' = since ELSE since' = [since EXCEPT ![r] = elapsed],
         elapsed' = elapsed, phase' = phase, peers' = peers,
         to # "idle" => elapsed <= AllBut(0),
         \A q \in Reads : pc'[q] = "build" => since'[q] <= AllBut(Cardinality(Seeking')),
         Seeking' # {} /\ (\A q \in Reads : pc'[q] # "build") =>
           elapsed <= AllBut(Cardinality(Seeking'))
  PROVE  Overrun'
<1>1. (Undecided => elapsed <= OverallBudget)' /\ OverrunBounded'
  BY DEF Overrun, Undecided, OverrunBounded
<1>2. ASSUME NEW q \in Reads PROVE InBounds(q)'
  <2>0. elapsed \in Nat /\ since[q] \in Nat /\ BuildBound \in Nat /\ CallBound \in Nat
    BY TimesAreNumbers, PhaseAssumption
  <2>1. CASE q # r
    <3>1. pc'[q] = pc[q] /\ since'[q] = since[q]
      BY <2>1 DEF PhaseInv, PhaseTypeOK
    <3>2. InBounds(q)
      BY DEF Overrun
    <3> QED
      BY <3>1, <3>2 DEF InBounds
  <2>2. CASE q = r
    <3>1. pc'[q] = to /\ (to # "idle" => since'[q] = elapsed)
      BY <2>2 DEF PhaseInv, PhaseTypeOK
    <3> QED
      BY <2>0, <3>1 DEF InBounds
  <2> QED
    BY <2>1, <2>2
<1>3. (Seeking # {} /\ (\A q \in Reads : pc[q] # "build") =>
         elapsed <= AllBut(Cardinality(Seeking)))'
  OBVIOUS
<1> QED
  BY <1>1, <1>2, <1>3 DEF Overrun

LEMMA StartOverrun ==
  ASSUME PhaseInv, PhaseInv', Pooled', Queued, Overrun, NEW r \in Reads, Start(r)
  PROVE  Overrun'
<1>1. /\ future[r] = "pending" /\ pc' = [pc EXCEPT ![r] = "lookup"]
      /\ since' = [since EXCEPT ![r] = elapsed]
      /\ phase' = phase /\ elapsed' = elapsed /\ peers' = peers
  BY StartEffect
<1>2. elapsed <= OverallBudget
  BY <1>1 DEF PhaseInv, PhaseTypeOK, Quiet, Queued, Undecided, Overrun
<1>3. Cardinality(Seeking') \in Nat /\ Cardinality(Seeking') <= Workers
  <2>1. Seeking' \in SUBSET In("running")' /\ In("running")' \in SUBSET Reads
    BY DEF Seeking, In, PhaseInv, PhaseTypeOK
  <2> QED
    BY <2>1, Fit DEF Pooled
<1>4. elapsed \in Nat /\ OverallBudget \in Nat
  BY TimesAreNumbers, WavesCover
<1>5. elapsed <= AllBut(Cardinality(Seeking'))
  <2>1. AllBut(Cardinality(Seeking')) \in Nat /\ OverallBudget <= AllBut(Cardinality(Seeking'))
    BY <1>3, BudgetLeft
  <2> QED
    BY <1>2, <1>4, <2>1
<1>6. elapsed <= AllBut(0)
  <2>1. AllBut(0) \in Nat /\ OverallBudget <= AllBut(0)
    BY BudgetLeft, SizeOfPool
  <2> QED
    BY <1>2, <1>4, <2>1
<1>7. ASSUME NEW q \in Reads PROVE since'[q] <= AllBut(Cardinality(Seeking'))
  <2>1. since'[q] \in Nat /\ since'[q] <= elapsed
    BY <1>1 DEF PhaseInv, PhaseTypeOK
  <2>2. AllBut(Cardinality(Seeking')) \in Nat
    BY <1>3, BudgetLeft
  <2> QED
    BY <1>4, <1>5, <2>1, <2>2
<1> QED
  BY <1>1, <1>5, <1>6, <1>7, MoveKeepsOverrun DEF PhaseInv, CacheTypeOK

\* What the moves of a thread make of the threads that may yet run a factory.
LEMMA SeekersLeft ==
  ASSUME PhaseInv, Pooled, NEW r \in Reads, NEW to, pc' = [pc EXCEPT ![r] = to]
  PROVE  LET Seekers == {"lookup", "acquire", "recheck", "build"}
         IN  /\ (pc[r] \in Seekers <=> to \in Seekers) => Seeking' = Seeking
             /\ pc[r] \in Seekers /\ to \notin Seekers =>
                  /\ Cardinality(Seeking) \in Nat /\ Cardinality(Seeking) > 0
                  /\ Cardinality(Seeking) <= Workers
                  /\ Cardinality(Seeking') = Cardinality(Seeking) - 1
<1> DEFINE Seekers == {"lookup", "acquire", "recheck", "build"}
<1>0. pc \in [Reads -> Places]
  BY DEF PhaseInv, CacheTypeOK
<1>1. ASSUME pc[r] \in Seekers <=> to \in Seekers PROVE Seeking' = Seeking
  BY <1>0, <1>1 DEF Seeking
<1>2. ASSUME pc[r] \in Seekers, to \notin Seekers
      PROVE  /\ Cardinality(Seeking) \in Nat /\ Cardinality(Seeking) > 0
             /\ Cardinality(Seeking) <= Workers
             /\ Cardinality(Seeking') = Cardinality(Seeking) - 1
  <2>1. Seeking' = Seeking \ {r} /\ r \in Seeking
    BY <1>0, <1>2 DEF Seeking
  <2>2. /\ IsFiniteSet(Seeking) /\ Cardinality(Seeking) \in Nat
        /\ Cardinality(Seeking) <= Workers /\ Cardinality(Seeking) > 0
    BY <2>1, SeekersRun, Fit DEF Pooled
  <2>3. Cardinality(Seeking \ {r})
          = IF r \in Seeking THEN Cardinality(Seeking) - 1 ELSE Cardinality(Seeking)
    BY <2>2, FS_RemoveElement
  <2> QED
    BY <2>1, <2>2, <2>3
<1> QED
  BY <1>1, <1>2

LEMMA GetClientOverrun ==
  ASSUME CacheInv, PhaseInv, Pooled, Overrun, NEW r \in Reads, GetClient(r)
  PROVE  Overrun'
<1> DEFINE m == Cardinality(Seeking)
<1>0. /\ elapsed' = elapsed /\ phase' = phase /\ peers' = peers
      /\ pc \in [Reads -> Places] /\ InBounds(r)
      /\ elapsed \in Nat /\ BuildBound \in Nat /\ OverallBudget \in Nat
      /\ \A q \in Reads : since[q] \in Nat
  BY GetClientEffect, TimesAreNumbers, WavesCover, PhaseAssumption
     DEF Overrun, PhaseInv, CacheTypeOK
<1>1. ASSUME NEW to, GoesOn(r, {"lookup", "acquire", "store", "release"}, to),
             to \in {"acquire", "recheck", "release", "call"},
             pc[r] \in {"lookup", "acquire"} <=> to \in {"acquire", "recheck"}
      PROVE  Overrun'
  <2>1. /\ pc' = [pc EXCEPT ![r] = to] /\ since' = [since EXCEPT ![r] = elapsed]
        /\ pc[r] \in {"lookup", "acquire", "store", "release"}
    BY <1>1 DEF GoesOn
  <2>2. Seeking' = Seeking
    BY <1>1, <2>1, SeekersLeft
  <2>3. elapsed <= AllBut(0)
    BY <1>0, <2>1 DEF InBounds
  <2>4. ASSUME NEW q \in Reads, pc'[q] = "build" PROVE since'[q] <= AllBut(m)
    BY <1>0, <1>1, <2>1, <2>4 DEF Overrun, InBounds
  <2>5. Seeking # {} /\ (\A q \in Reads : pc'[q] # "build") => elapsed <= AllBut(m)
    BY <1>0, <1>1, <2>1 DEF Overrun
  <2> QED
    BY <1>0, <1>1, <2>1, <2>2, <2>3, <2>4, <2>5, MoveKeepsOverrun
<1>2. CASE GoesOn(r, {"recheck"}, "build")
  <2>1. /\ pc' = [pc EXCEPT ![r] = "build"] /\ since' = [since EXCEPT ![r] = elapsed]
        /\ pc[r] = "recheck"
    BY <1>2 DEF GoesOn
  <2>2. Seeking' = Seeking /\ Seeking # {}
    BY <2>1, SeekersLeft DEF Seeking
  <2>3. elapsed <= AllBut(0)
    BY <1>0, <2>1 DEF InBounds
  <2>4. \A q \in Reads : pc[q] # "build"
    BY <2>1 DEF CacheInv, Exclusion, Locked
  <2>5. elapsed <= AllBut(m)
    BY <2>2, <2>4 DEF Overrun
  <2>6. ASSUME NEW q \in Reads, pc'[q] = "build" PROVE since'[q] <= AllBut(m)
    BY <1>0, <2>1, <2>4, <2>5, <2>6 DEF PhaseInv, PhaseTypeOK
  <2> QED
    BY <1>0, <2>1, <2>2, <2>3, <2>5, <2>6, MoveKeepsOverrun
<1>3. ASSUME NEW to, GoesOn(r, {"lookup", "recheck", "build"}, to),
             to \in {"call", "release", "store", "failed"}
      PROVE  Overrun'
  <2>1. /\ pc' = [pc EXCEPT ![r] = to] /\ since' = [since EXCEPT ![r] = elapsed]
        /\ pc[r] \in {"lookup", "recheck", "build"}
    BY <1>3 DEF GoesOn
  <2>2. /\ m \in Nat /\ m > 0 /\ m <= Workers /\ Cardinality(Seeking') = m - 1
        /\ r \in Seeking
    BY <1>3, <2>1, SeekersLeft DEF Seeking
  <2>3. /\ AllBut(m) \in Nat /\ AllBut(m - 1) = AllBut(m) + BuildBound /\ m - 1 \in Nat
        /\ AllBut(m - 1) <= AllBut(0)
    <3>1. m - 1 \in Nat /\ m - 1 <= Workers
      BY <2>2, SizeOfPool
    <3> QED
      BY <2>2, <3>1, BudgetLeft
  <2> HIDE DEF m
  <2>4. elapsed <= AllBut(0)
    BY <1>0, <2>1 DEF InBounds
  <2>5. ASSUME NEW q \in Reads, pc'[q] = "build" PROVE since'[q] <= AllBut(m - 1)
    <3>1. pc[q] = "build" /\ since'[q] = since[q]
      BY <1>0, <1>3, <2>1, <2>5 DEF PhaseInv, PhaseTypeOK
    <3>2. since[q] <= AllBut(m)
      BY <3>1 DEF Overrun, InBounds, m
    <3> QED
      BY <1>0, <2>3, <3>1, <3>2
  <2>6. ASSUME \A q \in Reads : pc'[q] # "build" PROVE elapsed <= AllBut(m - 1)
    <3>1. CASE pc[r] = "build"
      <4>1. elapsed <= since[r] + BuildBound /\ since[r] <= AllBut(m)
        BY <1>0, <3>1 DEF InBounds, m
      <4> QED
        BY <1>0, <2>3, <4>1
    <3>2. CASE pc[r] # "build"
      <4>1. \A q \in Reads : pc[q] # "build"
        BY <1>0, <2>1, <2>6, <3>2
      <4>2. elapsed <= AllBut(m)
        BY <2>2, <4>1 DEF Overrun, m
      <4> QED
        BY <1>0, <2>3, <4>2
    <3> QED
      BY <3>1, <3>2
  <2> QED
    BY <1>0, <1>3, <2>1, <2>2, <2>4, <2>5, <2>6, MoveKeepsOverrun
<1> QED
  <2>1. \/ \E to \in {"acquire", "recheck", "release", "call"} :
             /\ GoesOn(r, {"lookup", "acquire", "store", "release"}, to)
             /\ pc[r] \in {"lookup", "acquire"} <=> to \in {"acquire", "recheck"}
        \/ GoesOn(r, {"recheck"}, "build")
        \/ \E to \in {"call", "release", "store", "failed"} :
             GoesOn(r, {"lookup", "recheck", "build"}, to)
    BY GetClientEffect DEF GoesOn
  <2> QED
    BY <1>1, <1>2, <1>3, <2>1

LEMMA AnswerOverrun ==
  ASSUME PhaseInv, Pooled, Overrun, NEW r \in Reads, Answer(r)
  PROVE  Overrun'
<1>1. /\ pc[r] \in {"call", "failed"} /\ pc' = [pc EXCEPT ![r] = "idle"] /\ since' = since
      /\ phase' = phase /\ elapsed' = elapsed /\ peers' = peers /\ pc \in [Reads -> Places]
  BY AnswerEffect DEF PhaseInv, CacheTypeOK
<1>2. Seeking' = Seeking
  BY <1>1 DEF Seeking
<1>3. \A q \in Reads : pc'[q] = "build" => since'[q] <= AllBut(Cardinality(Seeking))
  BY <1>1 DEF Overrun, InBounds
<1>4. Seeking # {} /\ (\A q \in Reads : pc'[q] # "build") =>
        elapsed <= AllBut(Cardinality(Seeking))
  BY <1>1 DEF Overrun
<1> QED
  BY <1>1, <1>2, <1>3, <1>4, MoveKeepsOverrun

LEMMA TickOverrun ==
  ASSUME CacheInv, PhaseInv, Pooled, Overrun, Tick
  PROVE  Overrun'
<1> DEFINE m == Cardinality(Seeking)
<1>0. /\ elapsed \in Nat /\ BuildBound \in Nat /\ CallBound \in Nat /\ OverallBudget \in Nat
      /\ \A q \in Reads : since[q] \in Nat
      /\ elapsed' = elapsed + 1 /\ pc' = pc /\ since' = since /\ Seeking' = Seeking
  BY TickEffect, TimesAreNumbers, WavesCover, PhaseAssumption DEF Seeking
<1>m. m \in Nat /\ m <= Workers /\ (Seeking # {} => m > 0)
  BY SeekersRun, Fit DEF Pooled
<1>b. /\ AllBut(m) \in Nat /\ AllBut(0) \in Nat /\ OverallBudget <= AllBut(m)
      /\ AllBut(m) <= AllBut(0) /\ OverallBudget <= AllBut(0)
      /\ AllBut(0) = OverallBudget + Workers * BuildBound
  <2>1. 0 \in Nat /\ 0 <= Workers
    BY SizeOfPool
  <2> HIDE DEF m
  <2> QED
    BY <1>m, <2>1, BudgetLeft
<1>1. ASSUME NEW q \in Reads
      PROVE  /\ pc[q] = "idle" \/ Busy(q) \/ (pc[q] = "acquire" /\ lock # Free)
             /\ InBounds(q)
  BY TickEffect DEF PhaseInv, PhaseTypeOK, In, Overrun
<1>2. ASSUME NEW q \in Reads, Busy(q)
      PROVE  /\ pc[q] = "build" =>
                  elapsed + 1 <= since[q] + BuildBound /\ elapsed + 1 <= AllBut(0)
             /\ pc[q] = "call" => elapsed + 1 <= since[q] + CallBound
             /\ elapsed + 1 <= AllBut(0) + CallBound
  <2>0. since[q] \in Nat
    BY <1>0
  <2>1. CASE pc[q] = "build"
    <3>1. elapsed + 1 <= since[q] + BuildBound /\ since[q] <= AllBut(m)
      BY <1>0, <1>1, <1>2, <2>1 DEF Busy, InBounds
    <3>2. q \in Seeking
      BY <2>1 DEF Seeking
    <3>3. m - 1 \in Nat /\ AllBut(m - 1) = AllBut(m) + BuildBound /\ AllBut(m - 1) <= AllBut(0)
      <4>1. m > 0 /\ m - 1 \in Nat /\ m - 1 <= Workers
        BY <1>m, <3>2, SizeOfPool
      <4> HIDE DEF m
      <4> QED
        BY <1>m, <4>1, BudgetLeft
    <3> HIDE DEF m
    <3>4. elapsed + 1 <= AllBut(0)
      BY <1>0, <1>b, <3>1, <3>3
    <3> QED
      BY <1>0, <1>b, <2>1, <3>1, <3>4
  <2>2. CASE pc[q] = "call"
    <3>1. elapsed + 1 <= since[q] + CallBound /\ since[q] <= AllBut(0)
      BY <1>0, <1>1, <1>2, <2>2 DEF Busy, InBounds
    <3> HIDE DEF m
    <3> QED
      BY <1>0, <1>b, <2>0, <2>2, <3>1
  <2> QED
    BY <1>2, <2>1, <2>2 DEF Busy
\* Whoever waits for the lock waits for a factory.
<1>3. ASSUME NEW q \in Reads, pc[q] = "acquire", lock # Free
      PROVE  \E b \in Reads : pc[b] = "build" /\ Busy(b)
  <2>1. lock \in Reads /\ pc[lock] \in Locked
    BY <1>3 DEF CacheInv, CacheTypeOK, Exclusion
  <2>2. Busy(lock)
    BY <1>1, <2>1 DEF Locked
  <2> QED
    BY <2>1, <2>2 DEF Busy, Locked
<1>4. ASSUME NEW q \in Reads, pc[q] \notin {"idle", "call"} PROVE elapsed + 1 <= AllBut(0)
  <2>1. CASE Busy(q)
    BY <1>2, <1>4, <2>1 DEF Busy
  <2>2. CASE pc[q] = "acquire" /\ lock # Free
    <3>1. PICK b \in Reads : pc[b] = "build" /\ Busy(b)
      BY <1>3, <2>2
    <3> QED
      BY <1>2, <3>1
  <2> QED
    BY <1>1, <1>4, <2>1, <2>2
<1>5. ASSUME NEW q \in Reads PROVE InBounds(q)'
  <2>1. pc[q] = "build" => elapsed + 1 <= since[q] + BuildBound /\ since[q] <= AllBut(m)
    BY <1>1, <1>2 DEF InBounds
  <2>2. pc[q] = "call" => elapsed + 1 <= since[q] + CallBound /\ since[q] <= AllBut(0)
    BY <1>1, <1>2 DEF InBounds
  <2> QED
    BY <1>0, <1>4, <2>1, <2>2 DEF InBounds
<1>6. (Undecided => elapsed <= OverallBudget)'
  <2>1. Undecided' => phase = "waiting" /\ elapsed < OverallBudget
    BY TickEffect DEF Undecided
  <2> QED
    BY <1>0, <2>1
<1>7. (Seeking # {} /\ (\A r \in Reads : pc[r] # "build") =>
         elapsed <= AllBut(Cardinality(Seeking)))'
  <2>1. ASSUME \A r \in Reads : pc[r] # "build" PROVE Seeking = {}
    BY <1>1, <1>3, <2>1 DEF Seeking, Busy
  <2> QED
    BY <1>0, <2>1
<1>8. OverrunBounded'
  <2>1. elapsed + 1 <= AllBut(0) + CallBound
    <3>1. CASE elapsed < OverallBudget
      <4> HIDE DEF m
      <4> QED
        BY <1>0, <1>b, <3>1
    <3>2. CASE \E q \in Reads : Busy(q)
      BY <1>2, <3>2
    <3> QED
      BY <3>1, <3>2, TickEffect
  <2> HIDE DEF m
  <2> QED
    BY <1>0, <1>b, <2>1 DEF OverrunBounded
<1> QED
  BY <1>5, <1>6, <1>7, <1>8 DEF Overrun

LEMMA CallerOverrun ==
  ASSUME PhaseInv, Queued, Overrun, Caller \/ Submit \/ UNCHANGED vars
  PROVE  Overrun'
<1>1. CASE /\ UNCHANGED <<elapsed, since>> /\ pc' = pc
           /\ Undecided' => Undecided
  BY <1>1 DEF Overrun, OverrunBounded, InBounds, Seeking
<1>2. CASE phase = "idle" /\ elapsed' = 0
  <2>1. \A q \in Reads : pc'[q] = "idle"
    BY <1>2, CallerEffect DEF PhaseInv, PhaseTypeOK, Quiet
  <2>2. Seeking' = {} /\ \A q \in Reads : InBounds(q)'
    BY <2>1 DEF Seeking, InBounds
  <2>3. 0 <= OverallBudget /\ 0 <= OverallBudget + Workers * BuildBound + CallBound
    <3>1. Workers * BuildBound \in Nat /\ CallBound \in Nat /\ OverallBudget \in Nat
      BY SizeOfPool, WavesCover, PhaseAssumption
    <3> QED
      BY <3>1
  <2> QED
    BY <1>2, <2>2, <2>3 DEF Overrun, OverrunBounded
<1>3. \/ UNCHANGED <<elapsed, since>> /\ pc' = pc /\ (Undecided' => Undecided)
      \/ phase = "idle" /\ elapsed' = 0
  BY CallerEffect DEF Undecided
<1> QED
  BY <1>1, <1>2, <1>3

LEMMA StepOverrun ==
  ASSUME CacheInv, PhaseInv, PhaseInv', Pooled, Pooled', Queued, Overrun, [Next]_vars
  PROVE  Overrun'
BY PhaseSteps, CallerOverrun, TickOverrun, StartOverrun, GetClientOverrun, AnswerOverrun

-----------------------------------------------------------------------------
(* Why the budget is enough. *)

\* Of the reads in the queue one is the first.
LEMMA FirstQueued ==
  ASSUME InOrder, phase = "waiting", In("pending") # {}
  PROVE  \E p \in In("pending") : \A q \in In("pending") : p <= q
<1> DEFINE P == In("pending")
           n == Cardinality(Reads)
           c == Cardinality(P)
           p == n - c + 1
<1>0. /\ n \in Nat \ {0} /\ Reads = 1..n /\ IsFiniteSet(Reads)
      /\ P \in SUBSET Reads
  BY SizeOfPool, PhaseAssumption DEF In
<1>1. /\ c \in Nat /\ IsFiniteSet(P) /\ c > 0 /\ c <= n
  <2>1. c \in Nat /\ IsFiniteSet(P) /\ c <= n
    BY <1>0, Subsets, FS_Subset
  <2>2. c # 0
    BY <2>1, FS_EmptySet
  <2> QED
    BY <2>1, <2>2
<1>2. \A q \in P, r \in Reads : q < r => r \in P
  BY DEF InOrder, In
<1> HIDE DEF P, n, c
<1>3. p \in 1..n
  BY <1>0, <1>1
<1>4. ASSUME NEW q \in P, q < p PROVE FALSE
  <2>1. q \in 1..n
    BY <1>0
  <2>2. q..n \subseteq P
    BY <1>0, <1>2, <2>1
  <2>3. Cardinality(q..n) <= c
    BY <1>1, <2>2, FS_Subset DEF c
  <2>4. Cardinality(q..n) = n - q + 1
    BY <1>0, <2>1, FS_Interval
  <2> QED
    BY <1>0, <1>1, <1>4, <2>1, <2>3, <2>4
<1>5. p \in P
  <2>1. SUFFICES ASSUME p \notin P PROVE FALSE
    OBVIOUS
  <2>2. P \subseteq (p + 1)..n
    BY <1>0, <1>1, <1>2, <1>3, <1>4, <2>1
  <2>3. IsFiniteSet((p + 1)..n) /\ Cardinality((p + 1)..n) = c - 1
    <3>1. p + 1 \in Int /\ n \in Int /\ n - (p + 1) + 1 = c - 1 /\ (p + 1 > n => c - 1 = 0)
      BY <1>0, <1>1
    <3> HIDE DEF p
    <3> QED
      BY <3>1, FS_Interval
  <2>4. c <= c - 1
    BY <2>2, <2>3, FS_Subset DEF c
  <2> QED
    BY <1>1, <2>4
<1>6. \A q \in P : p <= q
  BY <1>0, <1>1, <1>4
<1> QED
  BY <1>5, <1>6 DEF P

\* While reads are queued and no thread has a step to take, every thread has a read.
LEMMA PoolIsFull ==
  ASSUME PhaseInv, Pooled, InOrder, phase = "waiting", In("pending") # {},
         \A r \in Reads : ~CanStart(r)
  PROVE  Cardinality(In("running")) = Workers
<1>1. Cardinality(In("running")) \in Nat
  BY Subsets DEF In
<1>2. ~(Cardinality(In("running")) < Workers)
  BY FirstQueued DEF CanStart, In
<1> QED
  BY <1>1, <1>2, SizeOfPool DEF Pooled

\* Where a wave lies in the queue and in time.
LEMMA WaveBounds ==
  ASSUME NEW k \in 1..Waves
  PROVE  /\ k \in Nat /\ (k - 1) * Workers \in Nat /\ (k - 1) * ReadTimeout \in Nat
         /\ k * Workers = (k - 1) * Workers + Workers
         /\ k > 1 => /\ k - 1 \in 1..Waves
                     /\ ((k - 1) - 1) * ReadTimeout + ReadTimeout = (k - 1) * ReadTimeout
         /\ k = 1 => (k - 1) * Workers = 0
<1> DEFINE w == Workers
           v == Waves
<1>1. w \in Nat /\ v \in Nat /\ ReadTimeout \in Nat
  BY SizeOfPool, WavesCover, PhaseAssumption
<1> HIDE DEF w, v
<1>2. k \in 1..v
  BY DEF v
<1>3. /\ k \in Nat /\ (k - 1) * w \in Nat /\ (k - 1) * ReadTimeout \in Nat
      /\ k * w = (k - 1) * w + w
  BY <1>1, <1>2
<1>4. k > 1 => /\ k - 1 \in 1..v
               /\ ((k - 1) - 1) * ReadTimeout + ReadTimeout = (k - 1) * ReadTimeout
  BY <1>1, <1>2
<1>5. k = 1 => (k - 1) * w = 0
  BY <1>1
<1> QED
  BY <1>3, <1>4, <1>5 DEF w, v

LEMMA TickInWaves ==
  ASSUME PhaseInv, Pooled, InOrder, InWaves, Tick
  PROVE  InWaves'
<1> SUFFICES ASSUME phase = "waiting", late' = {}
             PROVE  /\ \A q \in In("running") : elapsed + 1 <= startedAt[q] + ReadTimeout
                    /\ \A k \in 1..Waves : \A r \in Reads :
                         r <= k * Workers =>
                           IF future[r] = "pending" THEN elapsed + 1 <= (k - 1) * ReadTimeout
                           ELSE startedAt[r] <= (k - 1) * ReadTimeout
  <2>1. /\ elapsed' = elapsed + 1 /\ future' = future /\ startedAt' = startedAt
        /\ phase' = phase /\ In("running")' = In("running")
    BY TickEffect DEF In
  <2> QED
    BY <2>1 DEF InWaves
<1>0. /\ elapsed \in Nat /\ ReadTimeout \in Nat /\ \A q \in Reads : q \in Nat
      /\ \A q \in Reads : startedAt[q] \in Nat
  BY TimesAreNumbers, SizeOfPool, PhaseAssumption
<1>1. late = {}
  BY TickEffect
<1>2. ASSUME NEW q \in In("running") PROVE elapsed + 1 <= startedAt[q] + ReadTimeout
  <2>1. ~(elapsed + 1 > startedAt[q] + ReadTimeout)
    BY TickEffect
  <2> QED
    BY <1>0, <2>1 DEF In
<1>3. ASSUME NEW k \in 1..Waves, NEW r \in Reads, r <= k * Workers, future[r] = "pending"
      PROVE  elapsed + 1 <= (k - 1) * ReadTimeout
  <2> DEFINE first == (k - 1) * Workers
             due == (k - 1) * ReadTimeout
  <2>0. first \in Nat /\ due \in Nat /\ k * Workers = first + Workers /\ Workers \in Nat \ {0}
    BY WaveBounds, SizeOfPool
  <2>1. SUFFICES ASSUME ~(elapsed + 1 <= due) PROVE FALSE
    OBVIOUS
\* The threads have none of the reads of earlier waves, which have had their time,
  <2>2. ASSUME NEW q \in In("running"), q <= first PROVE FALSE
    <3>1. q \in Reads /\ q \in Nat \ {0} /\ future[q] # "pending"
      BY SizeOfPool, PhaseAssumption DEF In
    <3>2. k # 1
      BY <2>0, <2>2, <3>1, WaveBounds
    <3>3. /\ k - 1 \in 1..Waves
          /\ ((k - 1) - 1) * ReadTimeout + ReadTimeout = due
          /\ ((k - 1) - 1) * ReadTimeout \in Nat
      <4>1. k \in Nat /\ k > 1
        BY <3>2, WaveBounds
      <4>2. k - 1 \in 1..Waves /\ ((k - 1) - 1) * ReadTimeout + ReadTimeout = due
        BY <4>1, WaveBounds
      <4>3. ((k - 1) - 1) * ReadTimeout \in Nat
        BY <4>2, WaveBounds
      <4> QED
        BY <4>2, <4>3
    <3>4. startedAt[q] <= ((k - 1) - 1) * ReadTimeout
      BY <1>1, <2>2, <3>1, <3>3 DEF InWaves
    <3> HIDE DEF first, due
    <3>5. elapsed + 1 <= startedAt[q] + ReadTimeout /\ startedAt[q] \in Nat
      BY <1>0, <1>2, <3>1
    <3> QED
      BY <1>0, <2>0, <2>1, <3>3, <3>4, <3>5
\* nor one behind r in the queue.
  <2>3. ASSUME NEW q \in In("running") PROVE q \in (first + 1)..(r - 1)
    <3>1. q \in Reads /\ q \in Nat /\ future[q] = "running" /\ r \in Nat
      BY <1>0 DEF In
    <3>2. ~(r < q) /\ r # q
      BY <1>3, <3>1 DEF InOrder
    <3> HIDE DEF first
    <3> QED
      BY <2>0, <2>2, <3>1, <3>2
  <2>4. Cardinality(In("running")) = Workers
    BY <1>3, PoolIsFull, TickEffect DEF In
  <2> HIDE DEF first, due
  <2>5. /\ IsFiniteSet((first + 1)..(r - 1))
        /\ Cardinality((first + 1)..(r - 1)) = IF first + 1 > r - 1 THEN 0
                                               ELSE (r - 1) - (first + 1) + 1
    <3>1. first + 1 \in Int /\ r - 1 \in Int
      BY <1>0, <2>0
    <3> QED
      BY <3>1, FS_Interval
  <2>6. Workers <= Cardinality((first + 1)..(r - 1))
    <3>1. In("running") \in SUBSET ((first + 1)..(r - 1))
      BY <2>3
    <3> QED
      BY <2>4, <2>5, <3>1, FS_Subset
  <2>7. r <= first + Workers /\ r \in Nat
    BY <1>0, <1>3, <2>0
  <2> QED
    BY <2>0, <2>5, <2>6, <2>7
<1>4. ASSUME NEW k \in 1..Waves, NEW r \in Reads, r <= k * Workers, future[r] # "pending"
      PROVE  startedAt[r] <= (k - 1) * ReadTimeout
  BY <1>1, <1>4 DEF InWaves
<1> QED
  BY <1>2, <1>3, <1>4

LEMMA StepInWaves ==
  ASSUME PhaseInv, Pooled, InOrder, InWaves, [Next]_vars
  PROVE  InWaves'
<1>0. elapsed \in Nat /\ ReadTimeout \in Nat
  BY TimesAreNumbers, PhaseAssumption
<1>1. ASSUME NEW r \in Reads, Start(r) PROVE InWaves'
  <2>1. /\ future[r] = "pending" /\ future' = [future EXCEPT ![r] = "running"]
        /\ startedAt' = [startedAt EXCEPT ![r] = elapsed]
        /\ phase' = phase /\ elapsed' = elapsed /\ late' = late
    BY <1>1, StartEffect
  <2>2. /\ future \in [Reads -> {"none", "pending", "running", "finished", "cancelled"}]
        /\ DOMAIN startedAt = Reads
    BY DEF PhaseInv, PhaseTypeOK
  <2>3. ASSUME phase = "waiting", late = {}, NEW q \in In("running")'
        PROVE  elapsed <= startedAt'[q] + ReadTimeout
    <3>1. q \in Reads /\ (q = r \/ q \in In("running"))
      BY <2>1, <2>2 DEF In
    <3> QED
      BY <1>0, <2>1, <2>2, <2>3, <3>1 DEF InWaves
  <2>4. ASSUME phase = "waiting", late = {}, NEW k \in 1..Waves, NEW q \in Reads,
               q <= k * Workers
        PROVE  IF future'[q] = "pending" THEN elapsed <= (k - 1) * ReadTimeout
               ELSE startedAt'[q] <= (k - 1) * ReadTimeout
    <3>1. IF future[q] = "pending" THEN elapsed <= (k - 1) * ReadTimeout
          ELSE startedAt[q] <= (k - 1) * ReadTimeout
      BY <2>4 DEF InWaves
    <3> QED
      BY <2>1, <2>2, <3>1
  <2> QED
    BY <2>1, <2>3, <2>4 DEF InWaves
<1>2. ASSUME NEW r \in Reads, GetClient(r) PROVE InWaves'
  BY <1>2, GetClientEffect DEF InWaves, In
<1>3. ASSUME NEW r \in Reads, Answer(r) PROVE InWaves'
  <2>1. /\ future[r] = "running" /\ future' = [future EXCEPT ![r] = "finished"]
        /\ startedAt' = startedAt /\ phase' = phase /\ elapsed' = elapsed /\ late' = late
    BY <1>3, AnswerEffect
  <2>2. In("running")' \subseteq In("running")
        /\ \A q \in Reads : future'[q] = "pending" <=> future[q] = "pending"
    BY <2>1 DEF In, PhaseInv, PhaseTypeOK
  <2> QED
    BY <2>1, <2>2 DEF InWaves
<1>4. CASE Tick
  BY <1>4, TickInWaves
<1>5. CASE Caller \/ Submit \/ UNCHANGED vars
  <2>1. \/ UNCHANGED <<phase, elapsed, future, startedAt, late>>
        \/ phase' # "waiting"
        \/ elapsed' = 0 /\ future' = [r \in Reads |-> "pending"]
    BY <1>5, CallerEffect
  <2>2. CASE elapsed' = 0 /\ future' = [r \in Reads |-> "pending"]
    <3>1. In("running")' = {} /\ \A r \in Reads : future'[r] = "pending"
      BY <2>2 DEF In
    <3>2. \A k \in 1..Waves : 0 <= (k - 1) * ReadTimeout
      BY WaveBounds
    <3> QED
      BY <2>2, <3>1, <3>2 DEF InWaves
  <2>3. CASE UNCHANGED <<phase, elapsed, future, startedAt, late>> \/ phase' # "waiting"
    BY <2>3 DEF InWaves, In
  <2> QED
    BY <2>1, <2>2, <2>3
<1> QED
  BY <1>1, <1>2, <1>3, <1>4, <1>5, PhaseSteps

LEMMA StepPunctual ==
  ASSUME PhaseInv, Queued, InWaves, PunctualReadsCollected, [Next]_vars
  PROVE  PunctualReadsCollected'
<1> USE DEF PunctualReadsCollected
<1>1. CASE /\ late \subseteq late' /\ phase' = phase
           /\ \A r \in Reads : future[r] = "finished" => future'[r] = "finished"
  BY <1>1 DEF AllDone, In
<1>2. CASE phase' # "leaving"
  BY <1>2
<1>3. CASE phase = "waiting" /\ UNCHANGED <<future, late>> /\ elapsed >= OverallBudget
  <2> SUFFICES ASSUME late = {}, NEW r \in Reads, future[r] # "finished" PROVE FALSE
    BY <1>3 DEF AllDone, In
  <2>1. future[r] = "pending" \/ r \in In("running")
    BY <1>3 DEF Queued, In
  <2> DEFINE due == (Waves - 1) * ReadTimeout
  <2>2. due \in Nat /\ OverallBudget = due + 2 * ReadTimeout /\ r <= Waves * Workers
    <3>1. Waves \in 1..Waves
      BY WavesCover
    <3>2. due \in Nat
      BY <3>1, WaveBounds
    <3>3. r <= Cardinality(Reads) /\ Cardinality(Reads) <= Waves * Workers
      BY SizeOfPool, WavesCover, PhaseAssumption
    <3>4. r \in Nat /\ Cardinality(Reads) \in Nat /\ Waves * Workers \in Nat
      BY SizeOfPool, WavesCover, PhaseAssumption
    <3> QED
      BY <3>2, <3>3, <3>4, WavesCover
  <2>3. IF future[r] = "pending" THEN elapsed <= due ELSE startedAt[r] <= due
    <3>1. Waves \in 1..Waves
      BY WavesCover
    <3> QED
      BY <1>3, <2>2, <3>1 DEF InWaves
  <2>4. r \in In("running") => elapsed <= startedAt[r] + ReadTimeout
    BY <1>3 DEF InWaves
  <2>5. elapsed \in Nat /\ startedAt[r] \in Nat /\ ReadTimeout \in Nat \ {0}
    BY TimesAreNumbers, PhaseAssumption
  <2> HIDE DEF due
  <2>6. elapsed < OverallBudget
    <3>1. CASE future[r] = "pending"
      BY <2>2, <2>3, <2>5, <3>1
    <3>2. CASE future[r] # "pending"
      BY <2>1, <2>2, <2>3, <2>4, <2>5, <3>2
    <3> QED
      BY <3>1, <3>2
  <2> QED
    BY <1>3, <2>2, <2>5, <2>6
<1>4. CASE phase = "waiting" /\ UNCHANGED <<future, late>> /\ AllDone
  BY <1>4 DEF AllDone, In
<1>5. CASE Caller \/ Submit \/ UNCHANGED vars
  <2>1. \/ phase' = phase /\ UNCHANGED late
           /\ \A r \in Reads : future[r] = "finished" => future'[r] = "finished"
        \/ phase' # "leaving"
        \/ phase = "waiting" /\ UNCHANGED <<future, late>> /\ (AllDone \/ elapsed >= OverallBudget)
    BY <1>5, CallerEffect DEF PhaseInv, PhaseTypeOK
  <2> QED
    BY <1>1, <1>2, <1>3, <1>4, <2>1
<1>6. CASE Tick
  BY <1>1, <1>6, TickEffect
<1>7. ASSUME NEW r \in Reads, Start(r) \/ GetClient(r) \/ Answer(r)
      PROVE  /\ late \subseteq late' /\ phase' = phase
             /\ \A q \in Reads : future[q] = "finished" => future'[q] = "finished"
  BY <1>7, StartEffect, GetClientEffect, AnswerEffect DEF PhaseInv, PhaseTypeOK
<1> QED
  BY <1>1, <1>5, <1>6, <1>7, PhaseSteps

LEMMA InitTimeInv == Init => TimeInv
<1> SUFFICES ASSUME Init PROVE TimeInv
  OBVIOUS
<1>1. /\ phase = "idle" /\ elapsed = 0 /\ late = {}
      /\ \A r \in Reads : pc[r] = "idle" /\ future[r] = "none"
  BY DEF Init, CacheInit
<1>2. In("running") = {} /\ Seeking = {}
  BY <1>1 DEF In, Seeking
<1>3. Pooled
  BY <1>2, FS_EmptySet, SizeOfPool DEF Pooled
<1>4. Queued /\ InOrder /\ InWaves /\ PunctualReadsCollected
  BY <1>1 DEF Queued, InOrder, InWaves, PunctualReadsCollected
<1>5. Overrun
  <2>1. ~Undecided /\ \A r \in Reads : InBounds(r)
    BY <1>1 DEF Undecided, InBounds
  <2>2. OverrunBounded
    <3>1. Workers * BuildBound \in Nat /\ CallBound \in Nat /\ OverallBudget \in Nat
      BY SizeOfPool, WavesCover, PhaseAssumption
    <3> QED
      BY <1>1, <3>1 DEF OverrunBounded
  <2> QED
    BY <1>2, <2>1, <2>2 DEF Overrun
<1> QED
  BY <1>3, <1>4, <1>5 DEF TimeInv

\* A read phase keeps its time (TimeInv; main.py:326-350): the pool is full and takes reads
\* in order while one is queued, so every wave starts on time; what is left of the
\* factories past the budget fits in one per thread.
THEOREM TimeInvariant == Spec => []TimeInv
<1>1. CacheInv /\ PhaseInv /\ PhaseInv' /\ TimeInv /\ [Next]_vars => TimeInv'
  <2> SUFFICES ASSUME CacheInv, PhaseInv, PhaseInv', TimeInv, [Next]_vars PROVE TimeInv'
    OBVIOUS
  <2>1. Pooled' /\ Queued' /\ InOrder' /\ InWaves' /\ PunctualReadsCollected'
    BY StepPooled, StepQueued, StepInOrder, StepInWaves, StepPunctual DEF TimeInv
  <2>2. Overrun'
    BY <2>1, StepOverrun DEF TimeInv
  <2> QED
    BY <2>1, <2>2 DEF TimeInv
<1> QED
  BY <1>1, InitTimeInv, CacheInvariant, PhaseInvariant, PTL DEF Spec

\* When every read that has a thread is done within readTimeoutSeconds, no peer is
\* given up, for any number of peers, threads and waves (PunctualReadsCollected;
\* main.py:328-331).
THEOREM PunctualReads == Spec => []PunctualReadsCollected
<1>1. TimeInv => PunctualReadsCollected
  BY DEF TimeInv
<1> QED
  BY <1>1, TimeInvariant, PTL

\* However slow factories and calls are, leaving the pool adds to the budget at most
\* one factory per thread and one call (OverrunBounded; main.py:333, 349-350).
THEOREM Overruns == Spec => []OverrunBounded
<1>1. TimeInv => OverrunBounded
  BY DEF TimeInv, Overrun
<1> QED
  BY <1>1, TimeInvariant, PTL
=============================================================================
