---------------------------- MODULE ClientStore ----------------------------
(***************************************************************************)
(* What the client cache of cloud_read.py promises: a get-or-create of a   *)
(* client per scope in one atomic step, that fails or hands out the only   *)
(* client its scope has ever had.                                          *)
(***************************************************************************)
CONSTANTS
  Reads,     \* the peers that are read, each by a thread of its own
  Scopes,    \* what a client is cached under
  ScopeOf,   \* the scope of each read
  Clients,   \* clients a factory may return
  NoClient

VARIABLES
  store,     \* the client of each scope
  given      \* the client each read was given

GetOrCreate(r) ==
  /\ given[r] = NoClient
  /\ LET s == ScopeOf[r]
     IN  IF store[s] # NoClient
         THEN /\ given' = [given EXCEPT ![r] = store[s]]
              /\ UNCHANGED store
         ELSE \E c \in Clients \ {store[t] : t \in Scopes} :
                /\ store' = [store EXCEPT ![s] = c]
                /\ given' = [given EXCEPT ![r] = c]

\* The read is over, and its client returned.
Return(r) ==
  /\ given[r] # NoClient
  /\ given' = [given EXCEPT ![r] = NoClient]
  /\ UNCHANGED store

StoreInit ==
  /\ store = [s \in Scopes |-> NoClient]
  /\ given = [r \in Reads |-> NoClient]

StoreNext == \E r \in Reads : GetOrCreate(r) \/ Return(r)

StoreSpec == StoreInit /\ [][StoreNext]_<<store, given>>
=============================================================================
