CONSTANTS
  c1 = c1
  c2 = c2
  NoClient = NoClient
  Client <- TwoClients
  Polite <- FirstClient
  Prefix <- OneByte
  HeaderSize = 2
  MaxSize = 1
  Capacity = 4
  MaxRuns = 2
SPECIFICATION MCSpec
CHECK_DEADLOCK FALSE
INVARIANTS RepliesTrue NoConnectionLeaks
  DeinitializedUnlessThrown ExitCodeNamesFirstFailure NoStaleShutdown
PROPERTIES ClientsComeBack StopCompletes ShutdownHonoured ImplementsContract
