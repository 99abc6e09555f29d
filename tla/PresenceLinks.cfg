SPECIFICATION FairSpec
CONSTANTS
  MaxFaults = 1
  MaxCalls = 1
INVARIANTS
  TypeOK
  ClientSound
  ObjectSound
PROPERTIES
  Reconnects
  ZombiesGo
CHECK_DEADLOCK FALSE
