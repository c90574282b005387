SPECIFICATION Spec
CONSTANTS
  User <- TwoUsers
  Folder <- ThreeFolders
  Playlist <- TwoPlaylists
  Track <- TwoTracks
  Request <- TwoRequests
  Kinds <- Moves
  Lists <- NewLists
  Edits <- OneEdit
  Starts <- SomeTrees
  MaxLength = 4
  Root = Root
  Nothing = Nothing
  u1 = u1
  u2 = u2
  f1 = f1
  f2 = f2
  f3 = f3
  l1 = l1
  l2 = l2
  ta = ta
  tb = tb
  q1 = q1
  q2 = q2
INVARIANTS
  Forest
