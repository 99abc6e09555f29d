SPECIFICATION Spec
CONSTANTS
  A = A
  B = B
  f1 = f1
  f2 = f2
  Files = {f1, f2}
  Source <- CrossSource
  Chunks <- TwoOneChunks
  MaxStreamId = 3
  MaxFaults = 1
  NoFile = NoFile
INVARIANTS
  ResolvedMeansComplete
  DeclinedMeansRefused
  OnlyAcceptedBytesTravel
  NoSpuriousMismatch
  EndsOnce
  StoredUnlessFault
CHECK_DEADLOCK FALSE
