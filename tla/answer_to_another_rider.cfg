SPECIFICATION CarpoolSpec
CONSTANTS
  Drivers = {d1}
  Riders = {r1, r2}
  NoDriver = NoDriver
  NoRider = NoRider
  NoRoute = NoRoute
  Unbounded = Unbounded
  DetailsOutcomes = {"complete"}
  RoutingOutcomes = {TRUE}
  DriverLifecycle = {}
  OtherStatuses = {}
  MaxStarts = 1
  MaxCalls = 1
  SearchDetails = {"complete"}
  SearchOutcomes = {TRUE}
  PlanOutcomes = {FALSE}
  WriteOutcomes = {TRUE}
  PushStatuses = {}
  OtherAnswers = {}
  RiderLifecycle = {}
  MaxRequests = 1
  MaxWrites = 1
  MaxEvents = 1
SYMMETRY Identities
INVARIANT ShownRiderIsAnswered
CHECK_DEADLOCK FALSE
