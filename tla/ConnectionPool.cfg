\* Three clients on at most two connections.
SPECIFICATION FairSpec
CONSTANTS
  Client = {c1, c2, c3}
  Conn = {k1, k2, k3}
  NoConn = NoConn
  min_connections = 1
  max_connections = 2
INVARIANTS TypeOK ExclusiveUse NoneLost RequestsAnswered PoolBound
PROPERTIES KeepsMinimum ClaimReturns
