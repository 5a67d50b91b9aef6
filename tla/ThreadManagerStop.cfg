CONSTANTS
  w1 = w1
  w2 = w2
  w3 = w3
  owner = owner
  other = other
  Owner = owner
  Worker <- TwoWorkers
  NameOf <- Heartbeats
  Client <- OneClient
  WorkerOps <- WorkersRequestStop
  Thread = {"t1", "t2"}
  Logger = {"runtime", "service"}
  Levels = {"Info", "Error"}
  Texts = {"info", "error", "verbose"}
  MaxLines = 2
  MaxTime = 1
  MaxSetBacks = 1
  None = "none"
SPECIFICATION MCSpec
CHECK_DEADLOCK FALSE
INVARIANT StopReachesEveryWorker
