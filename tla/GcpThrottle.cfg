SPECIFICATION Spec
CONSTANTS
  CP = {1, 2}
  Gcp = {1}
  Skew <- NoSkew
  MaxSkew = 0
  GslbStates <- OnlyServing
  MayCrash = {}
  MayRecover = {}
  MayPause = {}
  TTL = 6
  Throttle = 3
  HysteresisPeriods = 2
  Strategy = "failover"
  ReconcilePeriod = 1
  WriteLag = 1
  PollPeriod = 1
  StartTime = 1
  MaxTime = 1000
VIEW AgedView
PROPERTY ThrottledOnceObserved
