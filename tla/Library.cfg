\* A ring of two items; two threads on a cache; every set of the numbers 0 to 7;
\* a tube client with two messages from a server that fails once, or one message
\* from a server that fails twice.
SPECIFICATION LFairSpec
CONSTANTS
  Length = 2
  MaxPuts = 6
  CThread = {t1, t2}
  Id = {1, 2, 3}
  Ptr = {p1, p2, p3}
  NoPtr = NoPtr
  CLimits = {1, 3}
  Timeout = 1
  MaxTime = 1
  CacheUInt = 16
  MaxOffset = 7
  OffsetSize = 32
  MaxSend = 0
  MaxPosts = 1
  MaxMessages = 2
  MaxTrouble = 2
INVARIANTS Owns SizeBounded RangesExact OneOvertakes
PROPERTIES ImplementsFifo Recovers ShutdownStops
\* A ring with nothing left to put, a client that has been shut down.
CHECK_DEADLOCK FALSE
