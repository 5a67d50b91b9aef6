CONSTANTS
  s1 = s1
  s2 = s2
  s3 = s3
  i1 = i1
  i2 = i2
  i3 = i3
  NoInode = NoInode
  File = File
  Backlog = 0
  Server <- ThreeServers
  Inode <- ThreeInodes
  Client = {"sender"}
  HeaderSize = 2
  Capacity = 2
  MaxSize = 2
  PayloadSizes = {0, 2, 3}
  MaxMessages = 3
SPECIFICATION MCSpec
INVARIANTS NamesTrue SentTrue
PROPERTIES RefusedForCause CallsReturn
