SPECIFICATION Spec
CONSTANTS
  Keys = {k1, k2}
  WriteShapes <- OneOrAll
  MaxWrites = 2
  MaxForeign = 1
  MaxFaults = 1
SYMMETRY Children
INVARIANT DatabaseTypeOK
INVARIANT VisibleWritesAreLayered
INVARIANT EveryPendingWriteIsOnItsWay
INVARIANT WireCarriesOutstandingPuts
INVARIANT ViewIsServerUnderWrites
PROPERTY ViewIsConsistent
CHECK_DEADLOCK FALSE
