CONSTANTS
  Threads = {t1, t2, t3}
  Versions = {1, 2}
  Runnable = {1}
SPECIFICATION FairSpec
INVARIANTS
  TypeOK
  InitExactlyOnce
  UsersSeeReadyDevice
  RefusalJustified
PROPERTY MutexReleased
