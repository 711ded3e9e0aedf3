\* Three clients, any of them subscribed from before, and one message of any
\* kind; a watchdog with three children.
SPECIFICATION PFairSpec
CONSTANTS
  Peer = {a, b, c}
  Request = {r1}
  Kind = {"ask", "join", "leave", "refused", "illegal"}
  MaxForks = 3
  MaxFails = 1
  MaxEdits = 2
INVARIANTS OneAnswer
PROPERTIES RequestAnswered ShutdownEnds ReloadReaches
\* In the end everything has been answered and the clients have gone, or the
\* daemon has ended.
CHECK_DEADLOCK FALSE
