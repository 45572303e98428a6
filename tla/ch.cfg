CONSTANTS
  Senders = {s1, s2, s3}
  First = s1
  Capacity = 2
  MaxCalls = 2
SPECIFICATION LiveSpec
INVARIANTS TypeOK NothingLost NoLostWakeup
PROPERTIES ActsAtomically SendReturnsOnClose RecvReturns
CHECK_DEADLOCK FALSE
