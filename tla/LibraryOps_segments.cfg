SPECIFICATION Spec
CONSTANTS
  Task <- OneTask
  KeyCount = 2
  Audio <- Keys
  Content <- Contents
  Field <- OneField
  Broken <- Unreadable
  Tagless <- None
  Initial <- OneTrack
  MaxId = 4
  Kinds <- Edits
  MaxFaults = 0
  LostPuts = FALSE
  MaxScans = 0
  LaggyList = FALSE
  LikePrefix <- Own
  ListPrefix <- Nothing
  MaxCrashes = 0
  NoObj = NoObj
  NoRow = NoRow
  NoEtag = NoEtag
  Nobody = Nobody
  t1 = t1
  t2 = t2
  cA = cA
  cB = cB
  cX = cX
  f1 = f1
  f2 = f2
PROPERTIES
  ScanPrunesOnlyVanished
