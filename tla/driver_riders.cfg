SPECIFICATION DriverFairSpec
CONSTANTS
  Drivers = {d1}
  Riders = {r1, r2}
  NoDriver = NoDriver
  NoRider = NoRider
  NoRoute = NoRoute
  Unbounded = Unbounded
  DetailsOutcomes = {"complete", "incomplete"}
  RoutingOutcomes = {TRUE}
  DriverLifecycle = {}
  OtherStatuses = {}
  MaxStarts = 1
  MaxCalls = 1
  MaxEvents = 1
INVARIANT OnlyAskersAreServed
INVARIANT NoPositionAfterNavigation
PROPERTY RequestReachesTheScreen
PROPERTY AcceptLeadsToAnAnswer
