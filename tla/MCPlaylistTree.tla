--------------------------- MODULE MCPlaylistTree ---------------------------
EXTENDS PlaylistTree

CONSTANTS u1, u2, f1, f2, f3, l1, l2, ta, tb, q1, q2

TwoUsers == {u1, u2}
ThreeFolders == {f1, f2, f3}
TwoPlaylists == {l1, l2}
TwoTracks == {ta, tb}
TwoRequests == {q1, q2}
Moves == {"moveFolder"}

NewLists == {<<ta, tb>>}
\* Nothing, and an addition with two positions and one that is out of range.
SomeEdits == {[add |-> <<>>, remove |-> <<>>], [add |-> <<tb>>, remove |-> <<0, 7, 1>>]}
OneEdit == {[add |-> <<>>, remove |-> <<>>]}

\* Folders of the first user, one inside the other or side by side; one of the
\* second user's may still be created.
At1(p) == [owner |-> u1, parent |-> p]
FullList == [owner |-> u1, folder |-> f2, tracks |-> <<ta, tb, ta>>]
SomeTrees ==
  {[folders |-> [f \in Folder |-> CASE f = f1 -> At1(Root) [] f = f2 -> At1(p) [] OTHER -> Unborn],
    playlists |-> [l \in Playlist |-> IF l = l1 THEN FullList ELSE Unborn]] : p \in {Root, f1}}
=============================================================================
