SPECIFICATION Spec
CONSTANTS
  Platform = TRUE
  Ops = {"svr", "lvt", "cr8"}
  Counts = {1}
  Pics = {}
  Imrs = {}
  Redirs = {}
  Disks = {}
  MaxTime = 2
  Cap = 1
INVARIANT TprHonoured
CHECK_DEADLOCK FALSE
