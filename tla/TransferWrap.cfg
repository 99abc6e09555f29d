SPECIFICATION Spec
CONSTANTS
  A = A
  B = B
  f1 = f1
  f2 = f2
  Files = {f1, f2}
  Source <- SameSource
  Chunks <- TwoOneChunks
  MaxStreamId = 1
  MaxFaults = 1
  NoFile = NoFile
INVARIANTS
  TypeOK
  EntryIsPending
CHECK_DEADLOCK FALSE
