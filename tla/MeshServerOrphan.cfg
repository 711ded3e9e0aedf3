\* One client and one request that nobody handles.
SPECIFICATION PSpecMesh
CONSTANTS
  Peer = {a}
  Request = {r1}
  Kind = {"ask", "join", "leave", "refused", "illegal"}
  MaxForks = 3
  MaxFails = 1
  MaxEdits = 2
INVARIANTS RepliedOnce
CHECK_DEADLOCK FALSE
