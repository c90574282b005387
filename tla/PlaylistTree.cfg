SPECIFICATION FairSpec
CONSTANTS
  User <- TwoUsers
  Folder <- ThreeFolders
  Playlist <- TwoPlaylists
  Track <- TwoTracks
  Request <- TwoRequests
  Kinds <- Tasks
  Lists <- NewLists
  Edits <- SomeEdits
  Starts <- SomeTrees
  MaxLength = 4
  Root = Root
  Nothing = Nothing
  u1 = u1
  u2 = u2
  f1 = f1
  f2 = f2
  f3 = f3
  l1 = l1
  l2 = l2
  ta = ta
  tb = tb
  q1 = q1
  q2 = q2
INVARIANTS
  TypeOK
  PrivateTrees
  NothingDangles
  TracksExist
  ForestUnlessMovesOverlap
PROPERTIES
  UpdateEditsWhatItRead
  RequestsReturn
