\* Limits that are raised.
SPECIFICATION LSpecCache
CONSTANTS
  Length = 2
  MaxPuts = 6
  CThread = {t1, t2}
  Id = {1, 2, 3}
  Ptr = {p1, p2, p3}
  NoPtr = NoPtr
  CLimits = {1, 3}
  Timeout = 1
  MaxTime = 1
  CacheUInt = 16
  MaxOffset = 7
  OffsetSize = 32
  MaxSend = 0
  MaxPosts = 1
  MaxMessages = 2
  MaxTrouble = 2
PROPERTIES EvictsExcessOnly
CHECK_DEADLOCK FALSE
