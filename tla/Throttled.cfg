SPECIFICATION Spec
CONSTANTS
  CP = {1, 2}
  Gcp = {}
  Skew <- FirstAhead
  MaxSkew = 1
  GslbStates <- OnlyNoGslb
  MayCrash = {}
  MayRecover = {}
  MayPause = {2}
  TTL = 5
  Throttle = 2
  HysteresisPeriods = 2
  Strategy = "failover"
  ReconcilePeriod = 1
  WriteLag = 1
  PollPeriod = 1
  StartTime = 1
  MaxTime = 1000
VIEW ModesView
INVARIANTS LivePeerSeenFresh
