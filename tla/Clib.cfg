\* Two host threads, two loads: the locks, the table they implement, and every
\* call returning.
CONSTANTS
  Threads = {t1, t2}
  None = None
  MaxLoads = 2
SPECIFICATION FairSpec
INVARIANTS
  MutualExclusion
  NoOrphanLock
PROPERTIES
  Linearizable
  EveryCallReturns
