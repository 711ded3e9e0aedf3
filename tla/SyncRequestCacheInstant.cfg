\* One request is enough.
SPECIFICATION Spec
CONSTANTS
  Requester = {r1}
  EndPoint = {e1}
  IdSpace = 2
  MaxRequests = 1
  MaxSend = 0
  NoEntry = NoEntry
INVARIANTS InstantResponse
CHECK_DEADLOCK FALSE
