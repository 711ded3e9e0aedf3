\* Two clients on one connection.
SPECIFICATION Spec
CONSTANTS
  Client = {c1, c2}
  Conn = {k1, k2}
  NoConn = NoConn
  min_connections = 1
  max_connections = 1
PROPERTIES FailsOnlyWhenAllActive
