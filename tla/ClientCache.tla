---------------------------- MODULE ClientCache ----------------------------
(***************************************************************************)
(* The process-wide cache of SDK clients: _cached_client of cloud_read.py, *)
(* one step per access to the cache or to the lock, run by the threads     *)
(* that read the peers.  A thread is named by the peer it reads.           *)
(*                                                                         *)
(* Dictionary accesses are atomic (the interpreter's lock), so a step of   *)
(* the thread is one of them.                                              *)
(***************************************************************************)
CONSTANTS
  Reads,     \* the peers that are read, each by a thread of its own
  Scopes,    \* cache keys: a provider with its region, subscription or project
  ScopeOf,   \* the cache key of each read
  Clients,   \* clients that factories may build
  NoClient,
  Free       \* the owner of a lock nobody holds

ASSUME CacheAssumption ==
  /\ ScopeOf \in [Reads -> Scopes]
  /\ NoClient \notin Clients
  /\ Free \notin Reads

VARIABLES
  cache,    \* _CLIENT_CACHE: the client under each key
  lock,     \* the thread that holds _CLIENT_LOCK
  pc,       \* where each thread is
  client,   \* the client a thread has in hand
  built     \* the clients built so far

cacheVars == <<cache, lock, pc, client, built>>

Locked == {"recheck", "build", "store", "release"}
Places == {"idle", "lookup", "acquire", "call", "failed"} \cup Locked

CacheInit ==
  /\ cache = [s \in Scopes |-> NoClient]
  /\ lock = Free
  /\ pc = [r \in Reads |-> "idle"]
  /\ client = [r \in Reads |-> NoClient]
  /\ built = {}

Goto(r, from, to) == pc[r] = from /\ pc' = [pc EXCEPT ![r] = to]

Found(r) == cache[ScopeOf[r]]

\* The read begins: it has a client to look up.
Begin(r) == Goto(r, "idle", "lookup") /\ UNCHANGED <<cache, lock, client, built>>

\* The lock-free path.
Lookup(r) ==
  /\ Goto(r, "lookup", IF Found(r) = NoClient THEN "acquire" ELSE "call")
  /\ client' = [client EXCEPT ![r] = Found(r)]
  /\ UNCHANGED <<cache, lock, built>>

Acquire(r) ==
  /\ lock = Free
  /\ Goto(r, "acquire", "recheck")
  /\ lock' = r
  /\ UNCHANGED <<cache, client, built>>

\* Faulty variant: the cache is not looked at again under the lock.
Recheck_Skipped(r) ==
  /\ Goto(r, "recheck", "build")
  /\ UNCHANGED <<cache, lock, client, built>>

Recheck(r) ==
  /\ Goto(r, "recheck", IF Found(r) = NoClient THEN "build" ELSE "release")
  /\ client' = [client EXCEPT ![r] = Found(r)]
  /\ UNCHANGED <<cache, lock, built>>

\* A client not built before; which name it bears does not matter.
NewClient == CHOOSE c \in Clients \ built : TRUE

\* The factory returns a client.
Build(r) ==
  /\ Goto(r, "build", "store")
  /\ Clients # built
  /\ built' = built \cup {NewClient}
  /\ client' = [client EXCEPT ![r] = NewClient]
  /\ UNCHANGED <<cache, lock>>

Store(r) ==
  /\ Goto(r, "store", "release")
  /\ cache' = [cache EXCEPT ![ScopeOf[r]] = client[r]]
  /\ UNCHANGED <<lock, client, built>>

Release(r) ==
  /\ Goto(r, "release", "call")
  /\ lock' = Free
  /\ UNCHANGED <<cache, client, built>>

\* Faulty variant: an exception leaves the lock held.
BuildFails_LockHeld(r) ==
  /\ Goto(r, "build", "failed")
  /\ UNCHANGED <<cache, lock, client, built>>

\* The factory raises: the lock is released on the way out.
BuildFails(r) ==
  /\ Goto(r, "build", "failed")
  /\ lock' = Free
  /\ UNCHANGED <<cache, client, built>>

\* The call on the client is over, or there was none to make.
Finish(r) ==
  /\ pc[r] \in {"call", "failed"}
  /\ pc' = [pc EXCEPT ![r] = "idle"]
  /\ client' = [client EXCEPT ![r] = NoClient]
  /\ UNCHANGED <<cache, lock, built>>

CacheNext ==
  \E r \in Reads :
    \/ Begin(r) \/ Lookup(r) \/ Acquire(r) \/ Recheck(r)
    \/ Build(r) \/ Store(r) \/ Release(r) \/ BuildFails(r) \/ Finish(r)

CacheSpec == CacheInit /\ [][CacheNext]_cacheVars

-----------------------------------------------------------------------------

\* At most one client is ever built for a scope, by whichever thread, and no
\* built client is lost: each is in the cache, or in the hand of the thread about
\* to put it there, and two threads never hold different clients of one scope
\* (cloud_read.py:55-56, 61-66).
OneClientPerScope ==
  /\ \A c \in built :
       (\E s \in Scopes : cache[s] = c) \/ (\E r \in Reads : pc[r] = "store" /\ client[r] = c)
  /\ \A q, r \in Reads :
       /\ ScopeOf[q] = ScopeOf[r]
       /\ client[q] # NoClient /\ client[r] # NoClient
       => client[q] = client[r]

\* A client that is built but not cached yet has not been given to its reader.
Given == [r \in Reads |-> IF pc[r] = "store" THEN NoClient ELSE client[r]]

Abstract == INSTANCE ClientStore WITH store <- cache, given <- Given

\* Steps of the threads, in any order, amount to an atomic get-or-create.
ImplementsStore == Abstract!StoreSpec
=============================================================================
