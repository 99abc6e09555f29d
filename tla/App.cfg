SPECIFICATION Spec
CONSTANTS
  Files = {f1, f2}
  Names = {n1, n2}
  Pressed = {f1}
  Slices = 2
  FileFaults = 2
  None = None
  Shares = {s1, s2}
  ShareFaults = 2
  MaxTokens = 3
  PushFaults = 2
  Sizes <- TwoSizes
  DownloadFaults = 3
  ChunkSize = 2
  FileSize = 7
  WriteBatch = 4
INVARIANTS
  ArrivedIsKept
  ShareIsKept
  RegisteredIsHeld
  BytesAreExact
CHECK_DEADLOCK FALSE
