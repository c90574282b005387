SPECIFICATION HSpec
CONSTANTS
  Task <- TwoTasks
  KeyCount = 3
  Audio <- Keys
  Content <- Contents
  Field <- TwoFields
  Broken <- Unreadable
  Tagless <- OnlyB
  Initial <- TwoTracks
  MaxId = 4
  Kinds <- AllKinds
  MaxFaults = 2
  LostPuts = TRUE
  MaxScans = 0
  LaggyList = FALSE
  LikePrefix <- Own
  ListPrefix <- Own
  MaxCrashes = 0
  NoObj = NoObj
  NoRow = NoRow
  NoEtag = NoEtag
  Nobody = Nobody
  t1 = t1
  t2 = t2
  cA = cA
  cB = cB
  cX = cX
  f1 = f1
  f2 = f2
SYMMETRY Symm
INVARIANTS
  TypeOK
  Consistent
PROPERTIES
  WritersHoldTheLock
  FailureRestores
  EditsReachTheFile
