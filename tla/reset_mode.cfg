SPECIFICATION Spec
CONSTANTS
  FastPath = TRUE
  Uefi = TRUE
  MaxTsc = 1
  MaxEntries = 3
  MaxResumes = 0
  MaxBoots = 1
  Jumps = {}
INVARIANT ResetsToRealMode
CHECK_DEADLOCK FALSE
