SPECIFICATION RiderFairSpec
CONSTANTS
  Drivers = {d1}
  Riders = {r1}
  NoDriver = NoDriver
  NoRider = NoRider
  NoRoute = NoRoute
  Unbounded = Unbounded
  SearchDetails = {"complete"}
  SearchOutcomes = {TRUE}
  PlanOutcomes = {TRUE}
  WriteOutcomes = {TRUE, FALSE}
  PushStatuses <- AllPushes
  OtherAnswers = {}
  RiderLifecycle = {"launch"}
  MaxRequests = 2
  MaxWrites = 1
  MaxEvents = 1
PROPERTY RejectionEndsTheRide
PROPERTY CancellationEndsTheRide
CHECK_DEADLOCK FALSE
