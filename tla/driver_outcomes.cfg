SPECIFICATION DriverSpec
CONSTANTS
  Drivers = {d1}
  Riders = {r1}
  NoDriver = NoDriver
  NoRider = NoRider
  NoRoute = NoRoute
  Unbounded = Unbounded
  DetailsOutcomes <- AllDetails
  RoutingOutcomes = {TRUE, FALSE}
  DriverLifecycle <- QuitAndLaunch
  OtherStatuses <- AllStatuses
  MaxStarts = 2
  MaxCalls = 1
  MaxEvents = 2
INVARIANT DriverTypeOK
INVARIANT PublishedRouteIsDriven
INVARIANT LocatedDriverHasRoute
