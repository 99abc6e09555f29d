SPECIFICATION FairSpec
CONSTANTS
  A = A
  B = B
  Devices = {A, B}
  MaxTroubles = 1
  None = None
INVARIANTS
  TypeOK
  StoredIsMutual
  LiveIsHeard
PROPERTIES
  NobodyStuck
  LeftRoomIsFreed
CHECK_DEADLOCK FALSE
