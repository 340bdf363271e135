SPECIFICATION RiderSpec
CONSTANTS
  Drivers = {d1, d2}
  Riders = {r1}
  NoDriver = NoDriver
  NoRider = NoRider
  NoRoute = NoRoute
  Unbounded = Unbounded
  SearchDetails <- AllDetails
  SearchOutcomes = {TRUE, FALSE}
  PlanOutcomes = {TRUE, FALSE}
  WriteOutcomes = {TRUE, FALSE}
  PushStatuses = {}
  OtherAnswers <- AllAnswers
  RiderLifecycle = {"quit"}
  MaxRequests = 1
  MaxWrites = 1
  MaxEvents = 1
INVARIANT RiderTypeOK
INVARIANT AcceptedRideCanBeCancelled
INVARIANT SearchFillsItsOwnResult
CHECK_DEADLOCK FALSE
