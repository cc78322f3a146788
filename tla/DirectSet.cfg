SPECIFICATION Spec
CONSTANTS
  CP = {1, 2}
  Signal <- NoGslb
  MayCrash = {1}
  MayRecover = {1}
  MayMiss = {1, 2}
  MayTear = {1}
  TTL = 4
  Throttle = 1
  HysteresisPeriods = 1
  Strategy = "failover"
  ReconcilePeriod = 1
  PhaseBound = 1
  WriteLag = 1
  StartTime = 1
  MaxTime = 1000
VIEW DirectView
INVARIANTS TypeOK OverlapBounded 
PROPERTY NeverPromotesBlind
