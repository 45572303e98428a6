SPECIFICATION FairSpec
CONSTANTS
  VCpus = {v1, v2}
  NoVcpu = NoVcpu
  KvmFails = TRUE
  MaxQueue = 3
  MaxRuns = 1
  MaxSwitches = 1
  MaxPending = 2
CHECK_DEADLOCK FALSE
INVARIANTS TypeOK NoStrandedKick 
PROPERTIES NoKickAfterUnmap RunTerminates DropCompletes
