SPECIFICATION FairSpec
CONSTANTS
  Request <- TwoRequests
  Track <- TwoTracks
  Path <- TwoPaths
  Homes <- FullOrRoomy
  Shard <- Apart
  Ranged <- LastRanged
  Permits = 1
  MaxFaults = 1
  MaxChanges = 1
  MaxCrashes = 1
  Unborn = Unborn
  Deleted = Deleted
  Nothing = Nothing
  r1 = r1
  r2 = r2
  ta = ta
  tb = tb
  pa = pa
  pb = pb
INVARIANTS
  TypeOK
  RegisteredIsWhole
  OnlyServedIsKept
  RunsAreLimited
PROPERTIES
  NoSecondTranscode
  HitsAreServed
  RequestsEnd
