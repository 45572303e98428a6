SPECIFICATION MCSpec
CONSTANTS
  t1 = t1
  t2 = t2
  t3 = t3
  t4 = t4
  Threads = {t1, t2, t3, t4}
  NoThread = NoThread
  Prio <- DistinctPrio
  Logged = {1, 2, 3}
  Spare = {4, 5}
  NestedFrames = 1
  Paths = {"p", "q"}
  Kinds = {"usb2"}
  Guests = {"a", "b"}
  NoHub = "c"
  HubPorts = 2
  ADDRESS_LIMIT = 4
  Priorities = {1}
  MaxRules = 1
  MaxMoves = 2
  MaxEvents = 2
INVARIANTS TypeOK  NoGhostDonor WritesTracked DevicesInOnePlace
