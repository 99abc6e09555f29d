SPECIFICATION FairSpec
CONSTANTS
  NParts = 2
  Attempts = 2
  MaxFaults = 3
  None = None
INVARIANTS
  TypeOK
  CountIsBacked
  SoundWithoutFaults
PROPERTIES
  OrphansGo
CHECK_DEADLOCK FALSE
