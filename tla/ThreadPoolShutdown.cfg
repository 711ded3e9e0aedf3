\* One client, one or two threads, one shutdown.
SPECIFICATION FairSpec
CONSTANTS
  Worker = {1, 2}
  Client = {c1}
  Main = Main
  Nobody = Nobody
  MinChoices = {1}
  MaxChoices = {2}
  UIntSize = 16
PROPERTIES ShutdownReturns
CHECK_DEADLOCK FALSE
