SPECIFICATION Spec
CONSTANTS
  VCpus = {v1, v2}
  NoVcpu = NoVcpu
  KvmFails = FALSE
  MaxQueue = 2
  MaxRuns = 1
  MaxSwitches = 1
  MaxPending = 2
CHECK_DEADLOCK FALSE
INVARIANTS NoKickLeftBehind
