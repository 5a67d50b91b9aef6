SPECIFICATION MCSpec
CONSTANTS
  Process = {p1, p2}
  Object = {o1, o2, o3}
  Number = {3, 4, 5}
  Name = {q1, q2}
  NoNumber = NoNumber
  NoName = NoName
  PinUser = {"writer", "other", "reader"}
  Direction <- Directions
  Writer = {"p1", "p2"}
  Size = 3
  MaxWrites = 2
  MaxInput = 2
  MaxRead = 2
INVARIANTS DevicesSound ExportsBalanced OpenPinsExist ReleasedOnce BytesTransferred
PROPERTIES PriorExportsKept LoneWritesTakeEffect
CHECK_DEADLOCK FALSE
