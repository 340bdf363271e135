SPECIFICATION FairSpec
CONSTANTS
  Keys = {k1, k2}
  WriteShapes <- SetAndChild
  MaxWrites = 2
  MaxForeign = 1
  MaxFaults = 1
PROPERTY WritesComplete
PROPERTY ObserversCatchUp
CHECK_DEADLOCK FALSE
