SPECIFICATION Spec
CONSTANTS
  Files = {f1, f2}
  Names = {n1}
  Pressed = {}
  Slices = 1
  FileFaults = 0
  None = None
INVARIANT SavedIsWhole
CHECK_DEADLOCK FALSE
