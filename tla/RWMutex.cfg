\* Safety, lost wakeups and the implementation of the abstract lock: three
\* threads, scopes nested up to three deep.
SPECIFICATION FairSpec
CONSTANTS
  Thread = {t1, t2, t3}
  NoThread = NoThread
  MaxDepth = 3
INVARIANTS TypeOK Exclusion HoldersNeverBlock CountsExact
PROPERTIES LockHandedOn ImplementsRWLock
