CONSTANTS
  Client = {"sender"}
  HeaderSize = 2
  Capacity = 2
  MaxSize = 2
  PayloadSizes = {0, 2, 3}
  MaxMessages = 3
SPECIFICATION SendSpec
CHECK_DEADLOCK FALSE
PROPERTY TimedSendReturns
