\* One user, two workers; two subscribers, one message and two lost connections,
\* or one subscriber, four messages and one.
SPECIFICATION SCFairSpec
CONSTANTS
  User = {u1}
  Worker = {w1, w2}
  Sub = {s1, s2}
  Dispatcher = Dispatcher
  None = None
  MaxMessages = 4
  MaxDrops = 2
INVARIANTS PointersLive
PROPERTIES SubscriptionsRestored RequestsReturn PendingHandled
\* With nothing published and nobody registering, everybody waits.
CHECK_DEADLOCK FALSE
