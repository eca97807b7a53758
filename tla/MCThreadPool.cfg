SPECIFICATION FairSpec
INVARIANTS TypeOK StartedInOrder WithinMaxThreads
PROPERTIES KeepsPromise QueueDrains StopReturns
CONSTANTS
  a = a
  b = b
  t1 = t1
  t2 = t2
  t3 = t3
  Clients = {a, b}
  Threads = {t1, t2, t3}
  MaxThreads = 2
  MaxTasks = 4
CHECK_DEADLOCK FALSE
