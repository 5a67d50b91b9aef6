SPECIFICATION MCSpec
CONSTANTS
  p1 = p1
  p2 = p2
  t1 = t1
  t2 = t2
  t3 = t3
  Process = {p1, p2}
  Thread = {t1, t2, t3}
  ProcessOf <- MCProcessOf
  Key = {k1, k2}
  Value = {v1}
  NoValue = NoValue
  NoProcess = NoProcess
  CallThread = {t1, t3}
  Name <- MCNames
  Text <- MCTexts
  Blob <- MCBlobs
  LengthLimit = 3
  BatchSize = 2
INVARIANTS
  NoTransactionLeftOpen
  TextsKept
PROPERTIES
  BatchesWhole
  LockReleased
  ImplementsAtomicStore
CHECK_DEADLOCK FALSE
