CONSTANTS
  MaxRuns = 1
  Heartbeats <- TwoHeartbeats
  Collector = {"collector"}
  Name = {"n1", "n2"}
  State = {"Running", "Failed"}
  Root = {"/proc", "/tmp/proc"}
  Disk = {"/", "/data"}
  InitialRoot = "/proc"
  InitialDisk = "/"
  MaxChanges = 3
  None = "none"
  LineKey = {"MemTotal:", "MemAvailable:", "HugePages_Total:"}
  Value = {0, 3, 5}
  MaxLines = 3
  Modulus = 16
  Key = {"k1", "k2"}
  File = {"repeats", "drops", "broken", "nameless"}
  Content <- Contents
  NoFile = "none"
  NoText = "none"
SPECIFICATION MCSpec
CHECK_DEADLOCK FALSE
PROPERTY WorkersExitAtShutdown
