SPECIFICATION Spec
CONSTANTS
  CP = {1, 2}
  Gcp = {}
  Skew <- NoSkew
  MaxSkew = 0
  GslbStates <- OnlyNoGslb
  MayCrash = {1}
  MayRecover = {1}
  MayPause = {}
  TTL = 3
  Throttle = 1
  HysteresisPeriods = 2
  Strategy = "failover"
  ReconcilePeriod = 1
  WriteLag = 1
  PollPeriod = 1
  StartTime = 1
  MaxTime = 1000
VIEW TravelView
INVARIANTS IInv YieldsToHigher
