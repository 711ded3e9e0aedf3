\* One connection and another sender; does send() return?
SPECIFICATION FairSpec
CONSTANTS
  Conn = {c1}
  Sender = {s1}
  EndPoint = {e1}
  None = None
  MaxQueue = 0
  MaxSends = 3
  MaxReads = 1
PROPERTIES SendReturns
CHECK_DEADLOCK FALSE
