SPECIFICATION FairSpec
CONSTANTS
  t1 = t1
  t2 = t2
  t3 = t3
  m1 = m1
  m2 = m2
  m3 = m3
  NoMutex = NoMutex
  NoTask = NoTask
  Task <- Tasks
  Mutex <- Mutexes
  KeyCount = 3
  KeySets <- SomeSets
INVARIANTS
  TypeOK
  MutualExclusion
  OneMutexPerKey
  SomeoneCanMove
PROPERTIES
  ReclaimsExpired
  ImplementsAtomicLocks
  EveryLockReturns
