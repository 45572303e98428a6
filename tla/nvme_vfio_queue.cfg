SPECIFICATION Spec
CONSTANTS
  Variant = "vfio"
  IO_QUEUE_SIZE = 3
  CID_WRAP = 4
  MaxQid = 2
  Sectors = 2
  STAGING = 1
  Values = {1}
  MaxTimeouts = 1
INVARIANT QueueOneCreated
CHECK_DEADLOCK FALSE
