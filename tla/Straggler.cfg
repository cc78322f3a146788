SPECIFICATION Spec
CONSTANTS
  Reads = {1, 2, 3}
  Scopes = {"shared", "own"}
  ScopeOf <- TwoScopes
  Clients = {c1, c2, c3}
  NoClient = NoClient
  Free = Free
  TTL = 1
  Throttle = 1
  MaxParallelPeerReads = 2
  ReadTimeout = 1
  BuildBound = 1
  CallBound = 4
  Now = 3
  Answers <- AnyTags
INVARIANT WithinBudget
