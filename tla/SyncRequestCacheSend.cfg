\* Two requests to one peer: the second finds the queue full.
SPECIFICATION FairSpec
CONSTANTS
  Requester = {r1, r2}
  EndPoint = {e1}
  IdSpace = 3
  MaxRequests = 2
  MaxSend = 0
  NoEntry = NoEntry
PROPERTIES RequestTimesOut
CHECK_DEADLOCK FALSE
