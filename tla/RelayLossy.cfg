SPECIFICATION Spec
CONSTANTS
  f1 = f1
  f2 = f2
  Files = {f1}
  Parts <- TwoParts
  PartAttempts = 2
  MaxLosses = 3
  MaxCrashes = 1
  MaxFaults = 1
  NoFile = NoFile
INVARIANTS
  TypeOK
  GoneIsStored
  SentIsKept
  CollectedOnce
PROPERTY ImplementsDelivery
CHECK_DEADLOCK FALSE
