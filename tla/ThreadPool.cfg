\* Up to two threads (and room for a third) and two clients, settings changed at any time.
SPECIFICATION FairSpec
CONSTANTS
  Worker = {1, 2, 3}
  Client = {c1, c2}
  Main = Main
  Nobody = Nobody
  MinChoices = {1, 2}
  MaxChoices = {1, 2}
  UIntSize = 16
INVARIANTS PlacedOnce HandedOutIdle OnlySparesKilled ThreadLimit
PROPERTIES SparesTrimmed WaitServed ReplaceEnds
\* A shutdown may hang, and after one the clients may stop.
CHECK_DEADLOCK FALSE
