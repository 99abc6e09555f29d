SPECIFICATION FairSpec
CONSTANTS
  A = A
  B = B
  f1 = f1
  f2 = f2
  Files = {f1, f2}
  Source <- SameSource
  Chunks <- OneOneChunks
  MaxStreamId = 3
  MaxFaults = 1
  NoFile = NoFile
PROPERTIES
  SendSettles
  SinksEnd
CHECK_DEADLOCK FALSE
