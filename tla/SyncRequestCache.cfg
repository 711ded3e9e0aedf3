\* Two requesters, enough requests for three ids to wrap round.
SPECIFICATION FairSpec
CONSTANTS
  Requester = {r1, r2}
  EndPoint = {e1}
  IdSpace = 3
  MaxRequests = 4
  MaxSend = 0
  NoEntry = NoEntry
INVARIANTS CacheExact ResponseMatches
PROPERTIES RequestReturns
CHECK_DEADLOCK FALSE
