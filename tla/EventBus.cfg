SPECIFICATION MCSpec
CONSTANTS
  Process = {p1, p2, p3}
  Name = {bus, region}
  Object = {o1, o2, o3}
  Regions = {region}
  NoName = NoName
  NoObject = NoObject
  MaxEvents = 2
  MaxNumber = 2
  MsPerSecond = 3
  NsPerMs = 2
  MaxTimeout = 7
  MaxSecond = 3
  LongMax = 12
  Caller = {"c1", "c2", "c3"}
  Text = {"event", "raw", "long"}
  Events = {"event"}
  TooLong = {"long"}
  Priority = {0, 1}
  MaxMessages = 2
  MaxTurns = 3
  NoMessage = "none"
  Copier = {"a", "b"}
  Backing = 2
  WordSize = 4
  MaxWrites = 3
SYMMETRY Symmetry
INVARIANTS NamesKept EventsInOrder WaitsExactly CopiesTrue
PROPERTY ImplementsChannel
CHECK_DEADLOCK FALSE
