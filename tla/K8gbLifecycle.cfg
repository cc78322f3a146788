SPECIFICATION Spec
CONSTANTS
  Hostname = "app"
  Claims <- AllClaims
  Platforms = {TRUE, FALSE}
  Reports <- OwnStatuses
  OtherReports <- OtherStatuses
  AtOnce = 1
  MaxDisturbances = 3
INVARIANTS TypeOK NeverWithoutCrd
PROPERTIES StaysInstalled GslbKept VouchedWhenFound Converges
