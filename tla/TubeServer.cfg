\* Two connections from one address, another sender, a queue limit of zero.
SPECIFICATION FairSpec
CONSTANTS
  Conn = {c1, c2}
  Sender = {s1}
  EndPoint = {e1}
  None = None
  MaxQueue = 0
  MaxSends = 3
  MaxReads = 1
INVARIANTS SessionsLive
PROPERTIES ConnectionEnds
CHECK_DEADLOCK FALSE
