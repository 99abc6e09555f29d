SPECIFICATION FairSpec
CONSTANTS
  A = A
  B = B
  s1 = s1
  s2 = s2
  s3 = s3
  Devices = {A, B}
  Lower = A
  Sends = {s1, s2}
  From <- OneEach
  MaxDrops = 1
  MaxBreaks = 1
  NoLink = NoLink
INVARIANTS
  TypeOK
  OneLink
  NobodyWaits
PROPERTIES
  SendEnds
  HalfOpenEnds
CHECK_DEADLOCK FALSE
