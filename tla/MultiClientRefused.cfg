\* One subscriber and one lost connection.
SPECIFICATION SCFairSpec
CONSTANTS
  User = {u1}
  Worker = {w1}
  Sub = {s1}
  Dispatcher = Dispatcher
  None = None
  MaxMessages = 0
  MaxDrops = 1
PROPERTIES ResubscribeEnds
CHECK_DEADLOCK FALSE
