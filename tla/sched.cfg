CONSTANTS
  t1 = t1
  t2 = t2
  t3 = t3
  t4 = t4
  t5 = t5
  a = a
  b = b
  k1 = k1
  k2 = k2
  NumCpus = 2
  Priorities = {0, 3}
  MaxTasks = 3
  Word = 8
  Tasks = {t1, t2, t3, t4, t5}
  NoTask = NoTask
  Outer = {t1, t3, t4}
  Prio <- MCPrio
  Affinity <- MCAffinity
  Spawns <- MCSpawns
  Futures = {a, b}
  NoFuture = NoFuture
  Tokens = {k1, k2}
  Sources <- MCSources
  Need <- MCNeed
  Backends = {"interrupt", "epoll"}
  Windows = {TRUE, FALSE}
  MaxEvents = 2
SPECIFICATION MCSpec
INVARIANTS TypeOK LenAccounts NoTaskLost NoMissedEvent 
PROPERTIES PriorityRespected AllRun  LoopReturns
CHECK_DEADLOCK FALSE
