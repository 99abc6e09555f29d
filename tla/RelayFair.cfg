SPECIFICATION FairSpec
CONSTANTS
  f1 = f1
  f2 = f2
  Files = {f1, f2}
  Parts <- OneOneParts
  PartAttempts = 2
  MaxLosses = 0
  MaxCrashes = 1
  MaxFaults = 0
  NoFile = NoFile
PROPERTIES
  SentIsStored
  SendEnds
CHECK_DEADLOCK FALSE
