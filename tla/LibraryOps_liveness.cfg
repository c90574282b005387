SPECIFICATION FairSpec
CONSTANTS
  Task <- TwoTasks
  KeyCount = 2
  Audio <- Keys
  Content <- OneContent
  Field <- OneField
  Broken <- None
  Tagless <- None
  Initial <- OneTrack
  MaxId = 4
  Kinds <- AllKinds
  MaxFaults = 1
  LostPuts = FALSE
  MaxScans = 1
  LaggyList = TRUE
  LikePrefix <- Own
  ListPrefix <- Own
  MaxCrashes = 1
  NoObj = NoObj
  NoRow = NoRow
  NoEtag = NoEtag
  Nobody = Nobody
  t1 = t1
  t2 = t2
  cA = cA
  cB = cB
  cX = cX
  f1 = f1
  f2 = f2
PROPERTIES
  OperationsReturn
