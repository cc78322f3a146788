SPECIFICATION Spec
CONSTANTS
  CP = {1, 2}
  Gcp = {}
  Skew <- FirstAhead
  MaxSkew = 1
  GslbStates <- OnlyNoGslb
  MayCrash = {1}
  MayRecover = {}
  MayPause = {}
  TTL = 5
  Throttle = 1
  HysteresisPeriods = 6
  Strategy = "failover"
  ReconcilePeriod = 2
  WriteLag = 1
  PollPeriod = 1
  StartTime = 1
  MaxTime = 1000
VIEW FailoverView
INVARIANTS LeaderOutranksLive FailoverBounded
PROPERTIES PromotesOnlyAfterGap
