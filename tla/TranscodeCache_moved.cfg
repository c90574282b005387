SPECIFICATION Spec
CONSTANTS
  Request <- OneRequest
  Track <- TwoTracks
  Path <- TwoPaths
  Homes <- Roomy
  Shard <- Apart
  Ranged <- NoneRanged
  Permits = 1
  MaxFaults = 0
  MaxChanges = 2
  MaxCrashes = 0
  Unborn = Unborn
  Deleted = Deleted
  Nothing = Nothing
  r1 = r1
  r2 = r2
  ta = ta
  tb = tb
  pa = pa
  pb = pb
INVARIANTS
  ProductIsOfItsTrack
