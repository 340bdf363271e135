SPECIFICATION PlanFairSpec
CONSTANTS
  Users = {u1, u2}
  NoUser = NoUser
  Dates = {t1, t2}
  NoDate = NoDate
  WriteOutcomes = {TRUE, FALSE}
  RouteOutcomes = {TRUE, FALSE}
  MaxWrites = 3
  MaxAppearances = 2
  MaxEnds = 1
  MaxSignOuts = 1
INVARIANT PlanTypeOK
INVARIANT IndicatorCoversCalls
INVARIANT NavigatedRouteIsPublished
INVARIANT StartNowHasPlan
PROPERTY StoredPlanReachesTheScreen
PROPERTY PlanCallsEnd
CHECK_DEADLOCK FALSE
