------------------------- MODULE PlaylistTreeProofs -------------------------
(***************************************************************************)
(* Proofs about PlaylistTree for every set of users, ids and requests.     *)
(*                                                                         *)
(* A handler writes on the strength of queries it made before.  That the   *)
(* trees stay private and whole nevertheless rests on ids that are never   *)
(* handed out again: a row that a check has found to be the user's own is  *)
(* still the user's own or gone (ChecksHold), and what is gone the         *)
(* references of the tables refuse.  That the trees stay a forest rests on *)
(* the walk of the one move that has read them; what an update writes, on  *)
(* a proof of its removal loop for every list.                             *)
(***************************************************************************)
EXTENDS PlaylistTree, SequenceTheorems, WellFoundedInduction, TLAPS

TableTypes ==
  /\ folders \in [Folder -> FolderRow \cup {Unborn, Gone}]
  /\ DOMAIN playlists = Playlist
  /\ \A p \in Live(playlists) : DOMAIN playlists[p] = {"owner", "folder", "tracks"}

Typed(q) ==
  /\ DOMAIN q = DOMAIN Idle
  /\ q.to \in Folder \cup {Root}
  /\ q.pc \notin {"idle", "done"} =>
       /\ q.user \in User /\ q.kind \in Tasks
       /\ q.kind \in {"moveFolder", "deleteFolder"} => q.id \in Folder
       /\ q.kind = "movePlaylist" => q.id \in Playlist
       /\ q.to # Root => q.kind \in Parented
       /\ q.pc = "check" => q.kind # "createFolder"
RequestTypes == DOMAIN req = Request /\ \A r \in Request : Typed(req[r])

\* What a check has established lasts: the row is the user's or gone.
Claim(table, i, u) == table[i] = Gone \/ Mine(table, i, u)
ClaimsLast ==
  \A u \in User :
    /\ \A f \in Folder : Claim(folders, f, u) => Claim(folders', f, u)
    /\ \A p \in Playlist : Claim(playlists, p, u) => Claim(playlists', p, u)

Checked(q) ==
  /\ q.pc \in {"checkTo", "read", "walk", "write"} =>
       /\ q.id \in Folder => Claim(folders, q.id, q.user)
       /\ q.id \in Playlist => Claim(playlists, q.id, q.user)
  /\ q.pc \in {"read", "walk", "write"} /\ q.to # Root => Claim(folders, q.to, q.user)
ChecksHold == \A r \in Request : Checked(req[r])

OwnersExist ==
  /\ \A f \in Live(folders) : folders[f].owner \in users
  /\ \A p \in Live(playlists) : playlists[p].owner \in users

TreesStand == TableTypes /\ OwnersExist /\ OwnTrees(folders, playlists)
IInv == RequestTypes /\ ChecksHold /\ TreesStand
-----------------------------------------------------------------------------
\* A row of a table is no id without one.
LEMMA RowsAreLive ==
  /\ Unborn # Gone
  /\ \A row : DOMAIN row \in {{"owner", "parent"}, {"owner", "folder", "tracks"}} =>
       row \notin {Unborn, Gone}
<1>1. DOMAIN Unborn = {"row"} /\ DOMAIN Gone = {"row"} /\ Unborn.row # Gone.row
  BY DEF Unborn, Gone
<1> QED
  BY <1>1

\* The statement of createFolder: a fresh folder under a parent that is the
\* user's own or, by then, refused.
LEMMA CreateFolderStands ==
  ASSUME IInv, NEW r \in Request, CreateFolder(r)
  PROVE  TreesStand' /\ ClaimsLast
<1> USE DEF TreesStand, IInv, CreateFolder, Writes, At
<1>1. CASE ~(req[r].user \in users /\ Referable(req[r].to))
  BY <1>1 DEF TableTypes, OwnersExist, OwnTrees, ClaimsLast, Live, Mine, Claim
<1>2. CASE req[r].user \in users /\ Referable(req[r].to)
  <2> DEFINE row == [owner |-> req[r].user, parent |-> req[r].to]
  <2>1. PICK f \in Folder : folders[f] = Unborn /\ folders' = [folders EXCEPT ![f] = row]
    BY <1>2
  <2>2. row \in FolderRow
    BY DEF RequestTypes, Typed, FolderRow
  <2>3. req[r].to # Root => Mine(folders, req[r].to, req[r].user)
    BY <1>2 DEF Referable, ChecksHold, Checked, Claim, Live, RequestTypes, Typed
  <2>4. Live(folders') = Live(folders) \cup {f} /\ f \notin Live(folders)
    BY <2>1, <2>2, RowsAreLive DEF TableTypes, Live, FolderRow
  <2>5. TableTypes' /\ ClaimsLast
    BY <2>1, <2>2, RowsAreLive DEF TableTypes, ClaimsLast, Claim, Mine, Live
  <2>6. OwnersExist'
    BY <1>2, <2>1, <2>4 DEF TableTypes, OwnersExist, Live
  <2>7. OwnTrees(folders, playlists)'
    <3>1. \A g \in Folder, u \in User : Mine(folders, g, u) => Mine(folders', g, u)
      BY <2>1, <2>4 DEF TableTypes, Mine, Live
    <3> QED
      BY <2>1, <2>2, <2>3, <2>4, <3>1 DEF TableTypes, OwnTrees, Mine, FolderRow, Live
  <2> QED
    BY <2>5, <2>6, <2>7
<1> QED
  BY <1>1, <1>2

\* A move keeps the owner; its parent is the user's own or refused.
LEMMA MoveFolderStands ==
  ASSUME IInv, NEW r \in Request, MoveFolder(r)
  PROVE  TreesStand' /\ ClaimsLast
<1> USE DEF TreesStand, IInv, MoveFolder, Writes, At
<1> DEFINE f == req[r].id
           row == [folders[f] EXCEPT !.parent = req[r].to]
<1>1. CASE ~(f \in Live(folders) /\ Referable(req[r].to))
  BY <1>1 DEF TableTypes, OwnersExist, OwnTrees, ClaimsLast, Live, Mine, Claim
<1>2. CASE f \in Live(folders) /\ Referable(req[r].to)
  <2>1. /\ folders' = [folders EXCEPT ![f] = row]
        /\ f \in Folder /\ folders[f] \in FolderRow
        /\ row \in FolderRow /\ row.owner = folders[f].owner /\ row.parent = req[r].to
    BY <1>2 DEF TableTypes, RequestTypes, Typed, Live, FolderRow
  <2>2. Live(folders') = Live(folders)
    BY <1>2, <2>1, RowsAreLive DEF TableTypes, Live, FolderRow
  <2>3. folders[f].owner = req[r].user
    BY <1>2, <2>1 DEF ChecksHold, Checked, Claim, Mine, Live
  <2>4. req[r].to # Root => Mine(folders, req[r].to, folders[f].owner)
    BY <1>2, <2>3 DEF Referable, ChecksHold, Checked, Claim, Live
  <2>5. \A g, u : Mine(folders', g, u) <=> Mine(folders, g, u)
    BY <2>1, <2>2 DEF TableTypes, Mine, Live
  <2>6. TableTypes' /\ ClaimsLast
    BY <2>1, <2>2, <2>5 DEF TableTypes, ClaimsLast, Claim, Mine, Live
  <2>7. \A g \in Live(folders) :
          /\ folders'[g].owner = folders[g].owner
          /\ folders'[g].parent = IF g = f THEN req[r].to ELSE folders[g].parent
    BY <2>1 DEF TableTypes, Live
  <2>8. OwnersExist'
    BY <2>2, <2>7 DEF OwnersExist
  <2>9. OwnTrees(folders, playlists)'
    <3>1. \A g \in Live(folders) : folders[g].parent = Root
                                   \/ Mine(folders, folders[g].parent, folders[g].owner)
      BY DEF OwnTrees
    <3>2. \A g \in Live(folders') : folders'[g].parent = Root
                                    \/ Mine(folders', folders'[g].parent, folders'[g].owner)
      <4>1. SUFFICES ASSUME NEW g \in Live(folders)
                     PROVE  \/ folders'[g].parent = Root
                            \/ Mine(folders, folders'[g].parent, folders'[g].owner)
        BY <2>2, <2>5
      <4>2. CASE g = f
        BY <2>4, <2>7, <4>2
      <4> QED
        BY <2>7, <3>1, <4>2
    <3>3. playlists' = playlists
      OBVIOUS
    <3> QED
      BY <2>5, <3>2, <3>3 DEF OwnTrees
  <2> QED
    BY <2>6, <2>8, <2>9
<1> QED
  BY <1>1, <1>2

\* The cascade of deleteFolder takes everything below along, so that no parent
\* is missing afterwards; playlists come out of the folders it takes.
LEMMA DeleteFolderStands ==
  ASSUME IInv, NEW r \in Request, DeleteFolder(r)
  PROVE  TreesStand' /\ ClaimsLast
<1> USE DEF TreesStand, IInv, DeleteFolder, Writes, At
<1> DEFINE f == req[r].id
           S == Subtree(f)
<1>1. CASE f \notin Live(folders)
  BY <1>1 DEF TableTypes, OwnersExist, OwnTrees, ClaimsLast, Live, Mine, Claim
<1>2. CASE f \in Live(folders)
  <2>1. /\ folders' = [g \in Folder |-> IF g \in S THEN Gone ELSE folders[g]]
        /\ playlists' = [p \in Playlist |->
             IF p \in Live(playlists) THEN Unfiled(playlists[p], S) ELSE playlists[p]]
    BY <1>2 DEF DropFolder
  <2>2. S \subseteq Live(folders)
    BY DEF Subtree
  <2>3. \A g \in Live(folders) : folders[g].parent \in S => g \in S
    BY DEF Subtree, Closed
  <2> HIDE DEF S
  <2>4. Live(folders') = Live(folders) \ S
    BY <2>1, <2>2 DEF TableTypes, Live
  <2>5. \A g \in Live(folders') : folders'[g] = folders[g]
    BY <2>1, <2>4 DEF TableTypes, Live
  <2>6. ASSUME NEW p \in Live(playlists)
        PROVE  /\ DOMAIN playlists'[p] = {"owner", "folder", "tracks"}
               /\ playlists'[p].owner = playlists[p].owner
               /\ playlists'[p].folder =
                    IF playlists[p].folder \in S THEN Root ELSE playlists[p].folder
    BY <2>1 DEF TableTypes, Live, Unfiled
  <2>7. Live(playlists') = Live(playlists)
    BY <2>1, <2>6, RowsAreLive DEF TableTypes, Live
  <2>8. \A p \in Playlist \ Live(playlists) : playlists'[p] = playlists[p]
    BY <2>1
  <2>9. TableTypes'
    BY <2>1, <2>6, <2>7 DEF TableTypes
  <2>10. ClaimsLast
    BY <2>1, <2>4, <2>6, <2>7, <2>8 DEF TableTypes, ClaimsLast, Claim, Mine, Live
  <2>11. OwnersExist'
    BY <2>4, <2>5, <2>6, <2>7 DEF OwnersExist
  <2>12. OwnTrees(folders, playlists)'
    BY <2>2, <2>3, <2>4, <2>5, <2>6, <2>7 DEF OwnTrees, Mine
  <2> QED
    BY <2>9, <2>10, <2>11, <2>12
<1> QED
  BY <1>1, <1>2
-----------------------------------------------------------------------------
\* A row of playlists changes: it is deleted, or keeps its owner and lies in a
\* folder of its owner.
LEMMA PlaylistRowStands ==
  ASSUME TreesStand, UNCHANGED <<users, folders>>, NEW p \in Live(playlists), NEW row,
         playlists' = [playlists EXCEPT ![p] = row],
         \/ row = Gone
         \/ /\ DOMAIN row = {"owner", "folder", "tracks"}
            /\ row.owner = playlists[p].owner
            /\ row.folder = Root \/ Mine(folders, row.folder, row.owner)
  PROVE  TreesStand' /\ ClaimsLast
<1> USE DEF TreesStand
<1>1. Live(playlists') \subseteq Live(playlists) /\ p \in Playlist
  BY DEF TableTypes, Live
<1>2. row # Unborn
  BY RowsAreLive
<1>3. TableTypes'
  BY <1>1 DEF TableTypes, Live
<1>4. ClaimsLast
  BY <1>1, <1>2 DEF TableTypes, ClaimsLast, Claim, Mine, Live
<1>5. OwnersExist'
  BY <1>1 DEF TableTypes, OwnersExist, Live
<1>6. OwnTrees(folders, playlists)'
  BY <1>1 DEF TableTypes, OwnTrees, Mine, Live
<1> QED
  BY <1>3, <1>4, <1>5, <1>6

\* movePlaylist: into a folder of the same user, or refused.
LEMMA MovePlaylistStands ==
  ASSUME IInv, NEW r \in Request, MovePlaylist(r)
  PROVE  TreesStand' /\ ClaimsLast
<1> USE DEF IInv, MovePlaylist, Writes, At
<1> DEFINE p == req[r].id
           row == [playlists[p] EXCEPT !.folder = req[r].to]
<1>1. CASE ~(p \in Live(playlists) /\ Referable(req[r].to))
  BY <1>1 DEF TreesStand, TableTypes, OwnersExist, OwnTrees, ClaimsLast, Live, Mine, Claim
<1>2. CASE p \in Live(playlists) /\ Referable(req[r].to)
  <2>1. playlists' = [playlists EXCEPT ![p] = row]
    BY <1>2
  <2>2. /\ DOMAIN row = {"owner", "folder", "tracks"}
        /\ row.owner = playlists[p].owner /\ row.folder = req[r].to
    BY <1>2 DEF TreesStand, TableTypes
  <2>3. p \in Playlist /\ playlists[p].owner = req[r].user
    BY <1>2 DEF TreesStand, TableTypes, ChecksHold, Checked, Claim, Mine, Live
  <2>4. req[r].to # Root => Mine(folders, req[r].to, req[r].user)
    BY <1>2 DEF Referable, ChecksHold, Checked, Claim, Live
  <2> QED
    BY <1>2, <2>1, <2>2, <2>3, <2>4, PlaylistRowStands
<1> QED
  BY <1>1, <1>2

\* deletePlaylist: a playlist goes.
LEMMA DeletePlaylistStands ==
  ASSUME IInv, NEW r \in Request, DeletePlaylist(r)
  PROVE  TreesStand' /\ ClaimsLast
<1> USE DEF IInv, DeletePlaylist, Writes, At
<1>1. CASE req[r].id \notin Live(playlists)
  BY <1>1 DEF TreesStand, TableTypes, OwnersExist, OwnTrees, ClaimsLast, Live, Mine, Claim
<1>2. CASE req[r].id \in Live(playlists)
  BY <1>2, PlaylistRowStands
<1> QED
  BY <1>1, <1>2

\* The list of a playlist is replaced, or refused.
LEMMA SetTracksStands ==
  ASSUME TreesStand, UNCHANGED <<users, folders>>, NEW p, NEW list, SetTracks(p, list)
  PROVE  TreesStand' /\ ClaimsLast
<1>1. CASE playlists' = playlists
  BY <1>1 DEF TreesStand, TableTypes, OwnersExist, OwnTrees, ClaimsLast, Live, Mine, Claim
<1>2. CASE p \in Live(playlists) /\ playlists' = [playlists EXCEPT ![p].tracks = list]
  <2> DEFINE row == [playlists[p] EXCEPT !.tracks = list]
  <2>1. playlists' = [playlists EXCEPT ![p] = row]
    BY <1>2
  <2>2. /\ DOMAIN row = {"owner", "folder", "tracks"}
        /\ row.owner = playlists[p].owner /\ row.folder = playlists[p].folder
    BY <1>2 DEF TreesStand, TableTypes
  <2>3. row.folder = Root \/ Mine(folders, row.folder, row.owner)
    BY <1>2, <2>2 DEF TreesStand, OwnTrees
  <2> QED
    BY <1>2, <2>1, <2>2, <2>3, PlaylistRowStands
<1> QED
  BY <1>1, <1>2 DEF SetTracks

\* createPlaylist: a fresh playlist of the user.
LEMMA CreatePlaylistStands ==
  ASSUME IInv, NEW r \in Request, CreatePlaylist(r)
  PROVE  TreesStand' /\ ClaimsLast
<1> USE DEF TreesStand, IInv, CreatePlaylist, Writes, At
<1>1. PICK p \in Playlist, list \in Lists :
        /\ playlists[p] = Unborn
        /\ playlists' = IF req[r].user \in users /\ Exist(list)
             THEN [playlists EXCEPT ![p] = [owner |-> req[r].user, folder |-> Root, tracks |-> list]]
             ELSE playlists
  OBVIOUS
<1>2. CASE playlists' = playlists
  BY <1>2 DEF TableTypes, OwnersExist, OwnTrees, ClaimsLast, Live, Mine, Claim
<1>3. CASE req[r].user \in users /\ Exist(list)
  <2> DEFINE row == [owner |-> req[r].user, folder |-> Root, tracks |-> list]
  <2>1. playlists' = [playlists EXCEPT ![p] = row] /\ DOMAIN row = {"owner", "folder", "tracks"}
    BY <1>1, <1>3
  <2>2. Live(playlists') = Live(playlists) \cup {p} /\ p \notin Live(playlists)
    BY <1>1, <2>1, RowsAreLive DEF TableTypes, Live
  <2>3. TableTypes' /\ ClaimsLast
    BY <1>1, <2>1, <2>2, RowsAreLive DEF TableTypes, ClaimsLast, Claim, Mine, Live
  <2>4. \A q \in Live(playlists) : playlists'[q] = playlists[q]
    BY <2>1, <2>2 DEF Live
  <2>5. playlists'[p].owner \in users /\ playlists'[p].folder = Root
    BY <1>3, <2>1 DEF TableTypes
  <2>6. OwnersExist' /\ OwnTrees(folders, playlists)'
    BY <2>2, <2>4, <2>5 DEF OwnersExist, OwnTrees, Mine
  <2> QED
    BY <2>3, <2>6
<1> QED
  BY <1>1, <1>2, <1>3
-----------------------------------------------------------------------------
\* A track that is deleted leaves every playlist; nothing else changes.
LEMMA DropTrackStands ==
  ASSUME TreesStand, NEW t \in Track, DropTrack(t)
  PROVE  TreesStand' /\ ClaimsLast
<1> USE DEF TreesStand
<1>1. \A p \in Live(playlists) :
        /\ DOMAIN playlists'[p] = {"owner", "folder", "tracks"}
        /\ playlists'[p].owner = playlists[p].owner
        /\ playlists'[p].folder = playlists[p].folder
  BY DEF TableTypes, Live, DropTrack
<1>2. \A p \in Playlist \ Live(playlists) : playlists'[p] = playlists[p]
  BY DEF DropTrack
<1>3. DOMAIN playlists' = Playlist /\ UNCHANGED <<users, folders>>
  BY DEF DropTrack
<1>4. Live(playlists') = Live(playlists)
  BY <1>1, <1>2, <1>3, RowsAreLive DEF TableTypes, Live
<1>5. ClaimsLast
  BY <1>1, <1>2, <1>3, <1>4 DEF ClaimsLast, Claim, Mine, Live
<1> QED
  BY <1>1, <1>3, <1>4, <1>5 DEF TableTypes, OwnersExist, OwnTrees, Mine

\* What a user owned goes along.  Nothing of another user's lay in it: this is
\* where no missing parent depends on private trees.
LEMMA DropUserStands ==
  ASSUME TreesStand, NEW u \in User, DropUser(u)
  PROVE  TreesStand' /\ ClaimsLast
<1> USE DEF TreesStand, DropUser
<1>1. /\ Live(folders') = {f \in Live(folders) : folders[f].owner # u}
      /\ \A f \in Live(folders') : folders'[f] = folders[f]
  BY DEF TableTypes, Live, Mine
<1>2. /\ Live(playlists') = {p \in Live(playlists) : playlists[p].owner # u}
      /\ \A p \in Live(playlists') : playlists'[p] = playlists[p]
  BY DEF TableTypes, Live, Mine
<1>3. TableTypes'
  BY <1>1, <1>2 DEF TableTypes
<1>4. ClaimsLast
  BY DEF TableTypes, ClaimsLast, Claim, Mine, Live
<1>5. OwnersExist'
  BY <1>1, <1>2 DEF OwnersExist
<1>6. OwnTrees(folders, playlists)'
  BY <1>1, <1>2 DEF OwnTrees, Mine
<1> QED
  BY <1>3, <1>4, <1>5, <1>6
-----------------------------------------------------------------------------
\* The handlers: a step of one leaves the claims of the others.
LEMMA OneRequest ==
  ASSUME IInv, ClaimsLast, NEW r \in Request, NEW q, req' = [req EXCEPT ![r] = q],
         Typed(q), Checked(q)'
  PROVE  RequestTypes' /\ ChecksHold'
<1>1. DOMAIN req' = Request /\ req'[r] = q /\ \A s \in Request \ {r} : req'[s] = req[s]
  BY DEF IInv, RequestTypes
<1>2. ASSUME NEW s \in Request \ {r} PROVE Typed(req[s]) /\ Checked(req[s])'
  BY DEF IInv, RequestTypes, ChecksHold, Typed, Checked, ClaimsLast
<1>3. RequestTypes'
  BY <1>1, <1>2 DEF RequestTypes, Typed
<1>4. ChecksHold'
  BY <1>1, <1>2 DEF ChecksHold, Checked
<1> QED
  BY <1>3, <1>4

\* A handler that answers makes no claim any more.
LEMMA AnswerStands ==
  ASSUME IInv, ClaimsLast, NEW r \in Request, Answer(r)
  PROVE  RequestTypes' /\ ChecksHold'
<1> DEFINE q == [Idle EXCEPT !.pc = "done"]
<1>1. Typed(q) /\ Checked(q)'
  BY DEF Typed, Checked, Idle
<1>2. req' = [req EXCEPT ![r] = q]
  BY DEF Answer
<1> QED
  BY <1>1, <1>2, OneRequest

\* A handler goes on: where to, is what its checks allow.
LEMMA GotoStands ==
  ASSUME IInv, ClaimsLast, NEW r \in Request, NEW pc, Goto(r, pc),
         pc \notin {"idle", "check", "done"}, req[r].pc \notin {"idle", "done"},
         NEW q, q = [req[r] EXCEPT !.pc = pc], Checked(q)'
  PROVE  RequestTypes' /\ ChecksHold'
<1>1. Typed(q)
  BY DEF IInv, RequestTypes, Typed, Idle
<1>2. req' = [req EXCEPT ![r] = q]
  BY DEF Goto
<1> QED
  BY <1>1, <1>2, OneRequest

\* A step of a handler that only reads.
Reads(r) == Check(r) \/ CheckTo(r) \/ ReadTree(r) \/ Walk(r) \/ ReadTracks(r) \/ Fails(r)

\* The queries before the write: what they find is what they claim.
LEMMA ReadsStand ==
  ASSUME IInv, NEW r \in Request, Reads(r)
  PROVE  IInv'
<1>1. UNCHANGED <<users, folders, playlists>>
  BY DEF Reads, Check, CheckTo, ReadTree, Walk, ReadTracks, Fails, SameTables
<1>2. TreesStand' /\ ClaimsLast
  BY <1>1 DEF IInv, TreesStand, TableTypes, OwnersExist, OwnTrees, ClaimsLast, Live, Mine, Claim
<1>3. \A q : Checked(q) => Checked(q)'
  BY <1>1 DEF Checked, Claim, Mine, Live
<1>4. Typed(req[r]) /\ Checked(req[r])
  BY DEF IInv, RequestTypes, ChecksHold
<1>5. CASE Answer(r)
  BY <1>2, <1>5, AnswerStands DEF IInv
<1>6. CASE Check(r) /\ ~Answer(r)
  <2> DEFINE pc == IF req[r].kind \in {"moveFolder", "movePlaylist"} /\ req[r].to # Root
                   THEN "checkTo"
                   ELSE IF req[r].kind = "moveFolder" \/ EditsTracks(req[r]) THEN "read"
                   ELSE "write"
  <2>0. PICK q : q = [req[r] EXCEPT !.pc = pc]
    OBVIOUS
  <2>1. /\ Goto(r, pc) /\ req[r].pc = "check"
        /\ IF req[r].id \in Folder THEN Mine(folders, req[r].id, req[r].user)
           ELSE Mine(playlists, req[r].id, req[r].user)
    BY <1>6 DEF Check
  <2>2. Checked(q)
    BY <1>4, <2>0, <2>1, NamesAssumption DEF Checked, Claim, Typed, Idle, Parented, EditsTracks
  <2> QED
    BY <1>2, <1>3, <2>0, <2>1, <2>2, GotoStands DEF IInv
<1>7. CASE CheckTo(r) /\ ~Answer(r)
  <2> DEFINE pc == IF req[r].kind = "moveFolder" THEN "read" ELSE "write"
  <2>0. PICK q : q = [req[r] EXCEPT !.pc = pc]
    OBVIOUS
  <2>1. Goto(r, pc) /\ req[r].pc = "checkTo" /\ Mine(folders, req[r].to, req[r].user)
    BY <1>7 DEF CheckTo
  <2>2. Checked(q)
    BY <1>4, <2>0, <2>1 DEF Checked, Claim, Typed, Idle
  <2> QED
    BY <1>2, <1>3, <2>0, <2>1, <2>2, GotoStands DEF IInv
<1>8. CASE (ReadTree(r) \/ Walk(r) \/ ReadTracks(r)) /\ ~Answer(r)
  <2>1. PICK q :
          /\ req' = [req EXCEPT ![r] = q]
          /\ DOMAIN q = DOMAIN Idle
          /\ q.user = req[r].user /\ q.kind = req[r].kind /\ q.id = req[r].id /\ q.to = req[r].to
          /\ q.pc \in {"walk", "write"} /\ req[r].pc \in {"read", "walk"}
    <3>1. CASE ReadTree(r)
      <4> DEFINE q == [req[r] EXCEPT !.pc = "walk", !.cursor = req[r].to,
             !.seen = [f \in {g \in Folder : Mine(folders, g, req[r].user)} |-> folders[f].parent]]
      <4>1. req' = [req EXCEPT ![r] = q]
        BY <3>1 DEF ReadTree
      <4> QED
        BY <1>4, <3>1, <4>1 DEF ReadTree, At, Typed, Idle
    <3>2. CASE Walk(r) /\ ~Answer(r)
      <4>1. CASE Goto(r, "write")
        BY <1>4, <3>2, <4>1 DEF Walk, At, Goto, Typed, Idle
      <4>2. CASE ~Goto(r, "write")
        <5> DEFINE c == IF req[r].cursor \in DOMAIN req[r].seen
                        THEN req[r].seen[req[r].cursor] ELSE Root
                   q == [req[r] EXCEPT !.cursor = c]
        <5>1. req' = [req EXCEPT ![r] = q] /\ req[r].pc = "walk"
          BY <3>2, <4>2 DEF Walk, At
        <5> QED
          BY <1>4, <5>1 DEF Typed, Idle
      <4> QED
        BY <4>1, <4>2
    <3>3. CASE ReadTracks(r)
      <4> DEFINE list == IF req[r].id \in Live(playlists) THEN playlists[req[r].id].tracks ELSE <<>>
                 q == [req[r] EXCEPT !.pc = "write", !.read = list]
      <4>1. req' = [req EXCEPT ![r] = q]
        BY <3>3 DEF ReadTracks
      <4> QED
        BY <1>4, <3>3, <4>1 DEF ReadTracks, At, Typed, Idle
    <3> QED
      BY <1>8, <3>1, <3>2, <3>3
  <2>2. Typed(q) /\ Checked(q)
    BY <1>4, <2>1 DEF Checked, Typed
  <2> QED
    BY <1>2, <1>3, <2>1, <2>2, OneRequest DEF IInv
<1> QED
  BY <1>5, <1>6, <1>7, <1>8 DEF Reads, Fails

\* A request arrives: nothing is checked yet, and nothing is claimed.
LEMMA AskStands ==
  ASSUME IInv, NEW r \in Request, Ask(r)
  PROVE  IInv'
<1>1. UNCHANGED <<users, folders, playlists>>
  BY DEF Ask, SameTables
<1>2. TreesStand' /\ ClaimsLast
  BY <1>1 DEF IInv, TreesStand, TableTypes, OwnersExist, OwnTrees, ClaimsLast, Live, Mine, Claim
<1>3. PICK kind \in Kinds, u \in User, to \in Folder \cup {Root}, edit \in Edits :
        \E id \in Named(kind) :
          /\ kind \notin Parented => to = Root
          /\ kind # "updatePlaylist" => edit = NoEdit
          /\ req' = [req EXCEPT ![r] = Asked(kind, u, id, to, edit)]
  BY DEF Ask
<1>4. PICK id \in Named(kind) :
        /\ kind \notin Parented => to = Root
        /\ req' = [req EXCEPT ![r] = Asked(kind, u, id, to, edit)]
  BY <1>3
<1>5. /\ kind \in {"moveFolder", "deleteFolder"} => id \in Folder
      /\ kind \in {"createFolder", "createPlaylist"} => id = Nothing
      /\ kind \notin {"moveFolder", "deleteFolder", "createFolder", "createPlaylist"} =>
           id \in Playlist
  BY <1>4 DEF Named
<1> DEFINE q == Asked(kind, u, id, to, edit)
<1>6. Typed(q)
  BY <1>4, <1>5, KindsAssumption, NamesAssumption DEF Asked, Typed, Idle, Tasks, Parented
<1>7. Checked(q)'
  BY <1>4, <1>5, NamesAssumption DEF Asked, Checked, Idle, Parented
<1> HIDE DEF q
<1>8. req' = [req EXCEPT ![r] = q]
  BY <1>4 DEF q
<1> QED
  BY <1>2, <1>6, <1>7, <1>8, OneRequest DEF IInv
-----------------------------------------------------------------------------
\* The trees a run starts from stand.
LEMMA Initially == Init => IInv
<1> SUFFICES ASSUME Init PROVE IInv
  OBVIOUS
<1>1. RequestTypes /\ ChecksHold
  BY DEF Init, RequestTypes, ChecksHold, Typed, Checked, Idle
<1>2. TreesStand
  <2>1. PICK s \in Starts : folders = s.folders /\ playlists = s.playlists
    BY DEF Init
  <2>2. /\ folders \in [Folder -> FolderRow \cup {Unborn, Gone}]
        /\ playlists \in [Playlist -> PlaylistRow \cup {Unborn, Gone}]
        /\ OwnTrees(folders, playlists)
    BY <2>1, StartsAssumption
  <2>3. TableTypes
    BY <2>2 DEF TableTypes, PlaylistRow, Live
  <2>4. OwnersExist
    BY <2>2 DEF Init, OwnersExist, FolderRow, PlaylistRow, Live
  <2> QED
    BY <2>2, <2>3, <2>4 DEF TreesStand
<1> QED
  BY <1>1, <1>2 DEF IInv

\* Every step keeps them standing.
LEMMA Stepwise == IInv /\ [Next]_vars => IInv'
<1> SUFFICES ASSUME IInv, [Next]_vars PROVE IInv'
  OBVIOUS
<1>1. ASSUME NEW r \in Request, Ask(r) PROVE IInv'
  BY <1>1, AskStands
<1>2. ASSUME NEW r \in Request, HandlerStep(r) PROVE IInv'
  <2>1. CASE Reads(r)
    BY <2>1, ReadsStand
  <2>2. CASE ~Reads(r)
    <3>1. TreesStand' /\ ClaimsLast
      <4>1. CASE CreateFolder(r)
        BY <4>1, CreateFolderStands
      <4>2. CASE MoveFolder(r)
        BY <4>2, MoveFolderStands
      <4>3. CASE DeleteFolder(r)
        BY <4>3, DeleteFolderStands
      <4>4. CASE CreatePlaylist(r)
        BY <4>4, CreatePlaylistStands
      <4>5. CASE MovePlaylist(r)
        BY <4>5, MovePlaylistStands
      <4>6. CASE DeletePlaylist(r)
        BY <4>6, DeletePlaylistStands
      <4>7. CASE ReplaceTracks(r)
        BY <4>7, SetTracksStands DEF IInv, ReplaceTracks, Writes
      <4>8. CASE UpdatePlaylist(r) /\ EditsTracks(req[r])
        BY <4>8, SetTracksStands DEF IInv, UpdatePlaylist, Writes
      <4>9. CASE UpdatePlaylist(r) /\ ~EditsTracks(req[r])
        BY <4>9 DEF UpdatePlaylist, Writes, IInv, TreesStand, TableTypes, OwnersExist,
                    OwnTrees, ClaimsLast, Live, Mine, Claim
      <4> QED
        BY <1>2, <2>2, <4>1, <4>2, <4>3, <4>4, <4>5, <4>6, <4>7, <4>8, <4>9
           DEF HandlerStep, Reads
    <3>2. Answer(r)
      BY <1>2, <2>2 DEF HandlerStep, Reads, CreateFolder, MoveFolder, DeleteFolder,
           CreatePlaylist, MovePlaylist, DeletePlaylist, ReplaceTracks, UpdatePlaylist, Writes
    <3> QED
      BY <3>1, <3>2, AnswerStands DEF IInv
  <2> QED
    BY <2>1, <2>2
<1>3. ASSUME TreesStand' /\ ClaimsLast, UNCHANGED req PROVE IInv'
  <2>1. RequestTypes'
    BY <1>3 DEF IInv, RequestTypes, Typed
  <2>2. ASSUME NEW r \in Request PROVE Checked(req[r])'
    BY <1>3 DEF IInv, RequestTypes, ChecksHold, Typed, Checked, ClaimsLast
  <2>3. ChecksHold'
    BY <1>3, <2>2 DEF ChecksHold
  <2> QED
    BY <1>3, <2>1, <2>3 DEF IInv
<1>4. ASSUME NEW t \in Track, DropTrack(t) PROVE IInv'
  BY <1>3, <1>4, DropTrackStands DEF IInv, DropTrack
<1>5. ASSUME NEW u \in User, DropUser(u) PROVE IInv'
  BY <1>3, <1>5, DropUserStands DEF IInv, DropUser
<1>6. CASE UNCHANGED vars
  BY <1>6 DEF vars, IInv, RequestTypes, Typed, ChecksHold, Checked, TreesStand, TableTypes,
              OwnersExist, OwnTrees, Live, Mine, Claim
<1> QED
  BY <1>1, <1>2, <1>4, <1>5, <1>6 DEF Next, Rest

\* In every run the trees stand and the checks hold.
LEMMA Inductive == Spec => []IInv
BY Initially, Stepwise, PTL DEF Spec
-----------------------------------------------------------------------------
\* However the queries of any number of requests interleave, no folder and no
\* playlist ends up in a folder of somebody else (owned_folder and
\* owned_playlist are checked queries before the write).
THEOREM Privacy == Spec => []PrivateTrees
<1>1. IInv => PrivateTrees
  BY NamesAssumption DEF IInv, TreesStand, TableTypes, OwnTrees, PrivateTrees, Mine, Live
<1> QED
  BY <1>1, Inductive, PTL

\* Whatever is deleted between the check and the write of a handler, no folder
\* and no playlist is left without its owner or below a folder that is gone
\* (ON DELETE CASCADE and SET NULL of 0001_init.sql).
THEOREM Wholeness == Spec => []NothingDangles
<1>1. IInv => NothingDangles
  BY DEF IInv, TreesStand, TableTypes, OwnersExist, OwnTrees, NothingDangles, Mine
<1> QED
  BY <1>1, Inductive, PTL
-----------------------------------------------------------------------------
(* The forest.  A move hangs a folder below one that its walk found outside *)
(* the folder's own subtree, in the tree as it was when it was listed.  As  *)
(* long as no other move comes between, that tree still stands where it     *)
(* matters: parents of the folders listed are unchanged (Walked), so the    *)
(* folders the walk passed (Climbed) lead to the root without the folder.   *)

\* A move that has listed the folders and not written yet.
Mover(q) == q.kind = "moveFolder" /\ q.pc \in {"walk", "write"}

\* From the new parent to the cursor the walk passed folders it had listed, and
\* never the folder that moves.
Climbed(q) ==
  \E V \in SUBSET (DOMAIN q.seen \ {q.id}) :
    q.to \in V \cup {q.cursor} /\ \A v \in V : q.seen[v] \in V \cup {q.cursor}

Walked(q) ==
  LET known == DOMAIN q.seen \cup {Root} IN
  /\ DOMAIN q.seen \subseteq Folder
  /\ \A f \in DOMAIN q.seen :
       /\ q.seen[f] \in known
       /\ folders[f] = Gone \/ (f \in Live(folders) /\ q.seen[f] = folders[f].parent)
  /\ IF q.to \in known THEN q.cursor \in known /\ Climbed(q) ELSE folders[q.to] = Gone
  /\ q.pc = "write" => q.cursor = Root

OneMover == \A r, s \in Request : Mover(req[r]) /\ Mover(req[s]) => r = s
WalksHold == \A r \in Request : Mover(req[r]) => Walked(req[r])
Untangled == Forest /\ OneMover /\ WalksHold

\* What every step but a move does to the folders: they stay as they are, go
\* away, or come in as leaves of the tree.
TreeGrows ==
  \A f \in Folder :
    \/ folders'[f] \in {folders[f], Gone}
    \/ folders[f] = Unborn /\ folders'[f].parent \in Live(folders) \cup {Root}

\* Leaves that come and folders that go make no cycle.
LEMMA GrowthKeepsForest ==
  ASSUME TreesStand, TreesStand', TreeGrows, Forest
  PROVE  Forest'
<1>1. SUFFICES ASSUME NEW S \in SUBSET Live(folders'), S # {},
                      \A f \in S : folders'[f].parent \in S
               PROVE  FALSE
  BY DEF Forest, Acyclic
<1>2. S \subseteq Folder /\ Root \notin S
  BY NamesAssumption DEF TreesStand, TableTypes, Live
<1>3. ASSUME NEW f \in S
      PROVE  (f \in Live(folders) /\ folders'[f] = folders[f]) \/ folders'[f].parent \in Live(folders)
  BY <1>1, <1>2 DEF TreeGrows, TreesStand, TableTypes, Live
<1>4. \A f \in S \cap Live(folders) : folders'[f] = folders[f]
  BY <1>2 DEF TreeGrows, TreesStand, TableTypes, Live
<1>5. \A f \in S \cap Live(folders) : folders[f].parent \in S \cap Live(folders)
  BY <1>1, <1>2, <1>4 DEF TreesStand, OwnTrees, Mine
<1>6. S \cap Live(folders) # {}
  BY <1>1, <1>3
<1> QED
  BY <1>5, <1>6 DEF Forest, Acyclic

\* Nor do they change what a walk has seen.
LEMMA GrowthKeepsWalks ==
  ASSUME TreesStand, TreesStand', TreeGrows, NEW q, Walked(q), q.to \in Folder \cup {Root}
  PROVE  Walked(q)'
<1>1. \A f \in Folder : folders[f] = Gone => folders'[f] = Gone
  BY RowsAreLive DEF TreeGrows
<1>2. \A f \in Folder : f \in Live(folders) =>
        folders'[f] = Gone \/ (f \in Live(folders') /\ folders'[f] = folders[f])
  BY DEF TreeGrows, Live, TreesStand, TableTypes
<1>3. Climbed(q)' <=> Climbed(q)
  BY DEF Climbed
<1> HIDE DEF Climbed
<1> QED
  BY <1>1, <1>2, <1>3 DEF Walked

\* The move itself: a set of folders that would turn in a circle holds the
\* folder that moves, hence its new parent, hence a circle of folders the walk
\* passed; they turned in a circle before.
LEMMA MoveKeepsForest ==
  ASSUME IInv, Forest, NEW r \in Request, MoveFolder(r), Walked(req[r])
  PROVE  Forest'
<1> DEFINE q == req[r]
<1>1. CASE folders' = folders
  BY <1>1 DEF Forest, Acyclic, Live
<1>2. CASE /\ q.id \in Live(folders) /\ Referable(q.to)
           /\ folders' = [folders EXCEPT ![q.id].parent = q.to]
  <2>1. /\ Live(folders) \subseteq Folder /\ Live(folders') = Live(folders)
        /\ \A f \in Live(folders) : folders'[f].parent =
             IF f = q.id THEN q.to ELSE folders[f].parent
    BY <1>2, RowsAreLive DEF IInv, TreesStand, TableTypes, Live, FolderRow
  <2>2. SUFFICES ASSUME NEW S \in SUBSET Live(folders), S # {},
                        \A f \in S : folders'[f].parent \in S
                 PROVE  FALSE
    BY <2>1 DEF Forest, Acyclic
  <2>3. Root \notin S
    BY <2>1, NamesAssumption
  <2>4. CASE q.id \notin S
    BY <2>1, <2>2, <2>4 DEF Forest, Acyclic
  <2>5. CASE q.id \in S
    <3>1. q.to \in S /\ q.to \in Live(folders)
      BY <2>1, <2>2, <2>5
    <3>2. q.cursor = Root /\ q.to \in DOMAIN q.seen /\ Climbed(q)
      BY <2>3, <3>1 DEF Walked, MoveFolder, Writes, At, Live
    <3>3. PICK V \in SUBSET (DOMAIN q.seen \ {q.id}) :
            q.to \in V \cup {Root} /\ \A v \in V : q.seen[v] \in V \cup {Root}
      BY <3>2 DEF Climbed
    <3>4. \A v \in S \cap V : q.seen[v] = folders[v].parent /\ v # q.id
      BY <3>3 DEF Walked, Live
    <3>5. \A v \in S \cap V : folders[v].parent \in S \cap V
      BY <2>1, <2>2, <2>3, <3>3, <3>4
    <3>6. S \cap V # {}
      BY <2>3, <3>1, <3>3
    <3> QED
      BY <3>5, <3>6 DEF Forest, Acyclic
  <2> QED
    BY <2>4, <2>5
<1> QED
  BY <1>1, <1>2 DEF MoveFolder

\* Every step but a move only grows or cuts the tree.
LEMMA OthersGrow ==
  ASSUME IInv, IInv', [Next]_vars, ~\E r \in Request : MoveFolder(r)
  PROVE  TreeGrows
<1>1. CASE UNCHANGED folders
  BY <1>1 DEF TreeGrows
<1>2. ASSUME NEW r \in Request, CreateFolder(r), folders' # folders PROVE TreeGrows
  <2>1. PICK f \in Folder :
          folders[f] = Unborn
          /\ folders' = [folders EXCEPT ![f] = [owner |-> req[r].user, parent |-> req[r].to]]
    BY <1>2 DEF CreateFolder
  <2>2. Referable(req[r].to)
    BY <1>2 DEF CreateFolder
  <2> QED
    BY <2>1, <2>2 DEF TreeGrows, Referable, IInv, TreesStand, TableTypes
<1>3. ASSUME NEW r \in Request, DeleteFolder(r) PROVE TreeGrows
  BY <1>3 DEF DeleteFolder, DropFolder, TreeGrows
<1>4. ASSUME NEW u \in User, DropUser(u) PROVE TreeGrows
  BY <1>4 DEF DropUser, TreeGrows
<1>5. ASSUME NEW r \in Request, Ask(r) PROVE UNCHANGED folders
  BY <1>5 DEF Ask, SameTables
<1>6. ASSUME NEW r \in Request, HandlerStep(r), ~CreateFolder(r), ~DeleteFolder(r)
      PROVE  UNCHANGED folders
  BY <1>6 DEF HandlerStep, Check, CheckTo, ReadTree, Walk, ReadTracks, Fails, SameTables,
       CreatePlaylist, MovePlaylist, DeletePlaylist, ReplaceTracks, UpdatePlaylist
<1>7. ASSUME NEW t \in Track, DropTrack(t) PROVE UNCHANGED folders
  BY <1>7 DEF DropTrack
<1>8. CASE UNCHANGED vars
  BY <1>8, <1>1 DEF vars
<1> QED
  BY <1>1, <1>2, <1>3, <1>4, <1>5, <1>6, <1>7, <1>8 DEF Next, Rest

\* The list a move reads is the tree as it is, and the walk begins at the new
\* parent: its owner was checked, and it is listed unless it is gone.
LEMMA WalkStarts ==
  ASSUME IInv, NEW r \in Request, ReadTree(r)
  PROVE  Walked(req[r])'
<1> DEFINE q == req[r]
           mine == {g \in Folder : Mine(folders, g, q.user)}
<1>1. /\ folders' = folders
      /\ req'[r].id = q.id /\ req'[r].to = q.to /\ req'[r].cursor = q.to /\ req'[r].pc = "walk"
      /\ req'[r].seen = [f \in mine |-> folders[f].parent]
  BY DEF ReadTree, SameTables, IInv, RequestTypes, Typed, Idle
<1>2. q.to \in Folder \cup {Root} /\ q.user \in User
      /\ (q.to # Root => folders[q.to] = Gone \/ q.to \in mine)
  BY DEF ReadTree, At, IInv, RequestTypes, Typed, ChecksHold, Checked, Claim
<1>3. \A f \in mine : f \in Live(folders) /\ folders[f].parent \in mine \cup {Root}
  <2>1. SUFFICES ASSUME NEW f \in mine
                 PROVE  f \in Live(folders) /\ folders[f].parent \in mine \cup {Root}
    OBVIOUS
  <2>2. f \in Live(folders) /\ folders[f].owner = q.user
    BY DEF Mine
  <2>3. folders[f].parent = Root \/ Mine(folders, folders[f].parent, q.user)
    BY <2>2 DEF IInv, TreesStand, OwnTrees
  <2> QED
    BY <2>2, <2>3 DEF IInv, TreesStand, TableTypes, Mine, Live
<1>4. Climbed(req'[r])
  <2> SUFFICES /\ {} \in SUBSET (DOMAIN req'[r].seen \ {req'[r].id})
               /\ req'[r].to \in {} \cup {req'[r].cursor}
    BY DEF Climbed
  <2> QED
    BY <1>1
<1>5. Climbed(req[r])'
  BY <1>4 DEF Climbed
<1>6. mine \subseteq Folder
  OBVIOUS
<1> HIDE DEF mine
<1> QED
  BY <1>1, <1>2, <1>3, <1>5, <1>6 DEF Walked, Live

\* One turn of the walk: the cursor joins the folders that were passed.
LEMMA WalkGoesOn ==
  ASSUME IInv, NEW r \in Request, Walk(r), Walked(req[r]), Mover(req[r])'
  PROVE  Walked(req[r])'
<1> DEFINE q == req[r]
           known == DOMAIN q.seen \cup {Root}
<1>1. /\ folders' = folders
      /\ req'[r].id = q.id /\ req'[r].to = q.to /\ req'[r].seen = q.seen
      /\ \/ q.cursor = Root /\ req'[r].pc = "write" /\ req'[r].cursor = q.cursor
         \/ /\ q.cursor \notin {Root, q.id} /\ req'[r].pc = "walk"
            /\ req'[r].cursor = IF q.cursor \in DOMAIN q.seen THEN q.seen[q.cursor] ELSE Root
  <2>0. DOMAIN req = Request /\ DOMAIN q = DOMAIN Idle /\ q.pc = "walk" /\ folders' = folders
    BY DEF Walk, At, SameTables, IInv, RequestTypes, Typed
  <2>1. CASE q.cursor = Root
    BY <2>0, <2>1 DEF Walk, Goto, Idle
  <2>2. CASE q.cursor # Root /\ q.cursor = q.id
    BY <2>0, <2>2 DEF Walk, Answer, Mover, Idle
  <2>3. CASE q.cursor \notin {Root, q.id}
    <3> DEFINE c == IF q.cursor \in DOMAIN q.seen THEN q.seen[q.cursor] ELSE Root
    <3>1. req' = [req EXCEPT ![r].cursor = c]
      BY <2>3 DEF Walk
    <3> HIDE DEF c
    <3>2. /\ req'[r].id = q.id /\ req'[r].to = q.to /\ req'[r].seen = q.seen
          /\ req'[r].pc = "walk" /\ req'[r].cursor = c
      BY <2>0, <3>1 DEF Idle
    <3> QED
      BY <2>0, <2>3, <3>2 DEF c
  <2> QED
    BY <2>1, <2>2, <2>3
<1>2. CASE q.cursor = Root
  <2>1. Climbed(req[r])' <=> Climbed(q)
    BY <1>1, <1>2 DEF Climbed
  <2> QED
    BY <1>1, <1>2, <2>1 DEF Walked
<1>3. CASE q.cursor # Root /\ q.to \notin known
  <2>1. req'[r].pc = "walk" /\ folders[q.to] = Gone
    BY <1>1, <1>3 DEF Walked
  <2>2. /\ DOMAIN q.seen \subseteq Folder
        /\ \A f \in DOMAIN q.seen :
             /\ q.seen[f] \in known
             /\ folders[f] = Gone \/ (f \in Live(folders) /\ q.seen[f] = folders[f].parent)
    BY DEF Walked
  <2> QED
    BY <1>1, <1>3, <2>1, <2>2 DEF Walked
<1>4. CASE q.cursor # Root /\ q.to \in known
  <2>1. q.cursor \in DOMAIN q.seen \ {q.id} /\ Climbed(q)
    BY <1>1, <1>4 DEF Walked
  <2>2. PICK V \in SUBSET (DOMAIN q.seen \ {q.id}) :
          q.to \in V \cup {q.cursor} /\ \A v \in V : q.seen[v] \in V \cup {q.cursor}
    BY <2>1 DEF Climbed
  <2>3. Climbed(req[r])'
    <3> DEFINE W == V \cup {q.cursor}
    <3>1. W \in SUBSET (DOMAIN req'[r].seen \ {req'[r].id})
      BY <1>1, <2>1
    <3>2. req'[r].to \in W /\ \A v \in W : req'[r].seen[v] \in W \cup {req'[r].cursor}
      BY <1>1, <1>4, <2>1, <2>2
    <3> QED
      BY <3>1, <3>2 DEF Climbed
  <2>4. req'[r].cursor \in known /\ req'[r].pc = "walk"
    BY <1>1, <1>4, <2>1 DEF Walked
  <2> QED
    BY <1>1, <1>4, <2>3, <2>4 DEF Walked
<1> QED
  BY <1>2, <1>3, <1>4

\* What a step does to the requests: one goes on, and only a list or a turn of
\* the walk leaves it a move on its way.
LEMMA MoversStep ==
  ASSUME IInv, [Next]_vars
  PROVE  \/ \A s \in Request : req'[s] = req[s]
         \/ \E r \in Request :
              /\ \A s \in Request \ {r} : req'[s] = req[s]
              /\ ReadTree(r) \/ Walk(r) \/ (~Mover(req'[r]) /\ ~ReadTree(r))
<1>1. ASSUME NEW r \in Request, Ask(r) \/ HandlerStep(r), ~ReadTree(r), ~Walk(r)
      PROVE  ~Mover(req'[r]) /\ \A s \in Request \ {r} : req'[s] = req[s]
  <2>0. DOMAIN req = Request /\ Typed(req[r]) /\ DOMAIN Idle = DOMAIN req[r]
    BY DEF IInv, RequestTypes, Typed
  <2>1. CASE Answer(r)
    BY <2>0, <2>1 DEF Answer, Mover, Idle
  <2>2. CASE Ask(r)
    <3>1. PICK kind \in Kinds, u \in User, to \in Folder \cup {Root}, edit \in Edits :
            \E id \in Named(kind) : req' = [req EXCEPT ![r] = Asked(kind, u, id, to, edit)]
      BY <2>2 DEF Ask
    <3>2. PICK id \in Named(kind) : req' = [req EXCEPT ![r] = Asked(kind, u, id, to, edit)]
      BY <3>1
    <3>3. kind = "moveFolder" => id # Nothing
      BY NamesAssumption DEF Named
    <3>4. ~Mover(Asked(kind, u, id, to, edit))
      BY <3>3 DEF Asked, Mover, Idle
    <3> QED
      BY <2>0, <3>2, <3>4
  <2>3. CASE Check(r) /\ ~Answer(r)
    BY <2>0, <2>3 DEF Check, Goto, Mover, Idle
  <2>4. CASE CheckTo(r) /\ ~Answer(r)
    BY <2>0, <2>4 DEF CheckTo, Goto, Mover, Idle
  <2>5. CASE ReadTracks(r)
    BY <2>0, <2>5 DEF ReadTracks, At, Mover, Idle
  <2> QED
    BY <1>1, <2>1, <2>2, <2>3, <2>4, <2>5 DEF HandlerStep, Fails, CreateFolder, MoveFolder,
       DeleteFolder, CreatePlaylist, MovePlaylist, DeletePlaylist, ReplaceTracks,
       UpdatePlaylist, Writes
<1>2. ASSUME NEW r \in Request, ReadTree(r) \/ Walk(r)
      PROVE  \A s \in Request \ {r} : req'[s] = req[s]
  BY <1>2 DEF ReadTree, Walk, Answer, Goto, IInv, RequestTypes
<1>3. CASE UNCHANGED req
  BY <1>3
<1> QED
  BY <1>1, <1>2, <1>3 DEF Next, Rest, DropTrack, DropUser, vars

\* A second move that reads the tree beside the first is what overlap records.
LEMMA OneMoverStays ==
  ASSUME IInv, [Next]_vars, OneMover, ~overlap'
  PROVE  OneMover'
<1>1. ASSUME NEW r \in Request, ReadTree(r)
      PROVE  \A s \in Request \ {r} : ~Mover(req[s])
  BY <1>1 DEF ReadTree, At, Mover
<1>2. ASSUME NEW r \in Request, Walk(r) PROVE Mover(req[r])
  BY <1>2 DEF Walk, At, Mover
<1> QED
  BY <1>1, <1>2, MoversStep DEF OneMover, Mover

\* Every step keeps the forest while moves do not overlap.
LEMMA StaysUntangled ==
  ASSUME IInv, IInv', [Next]_vars, ~overlap', Untangled
  PROVE  Untangled'
<1> USE DEF Untangled
<1>0. TreesStand /\ TreesStand' /\ \A r \in Request : req[r].to \in Folder \cup {Root}
  BY DEF IInv, RequestTypes, Typed
<1>1. OneMover'
  BY OneMoverStays
<1>2. ASSUME NEW r \in Request, MoveFolder(r)
      PROVE  Forest' /\ WalksHold'
  <2>1. Mover(req[r]) /\ ~Mover(req'[r]) /\ \A s \in Request \ {r} : req'[s] = req[s]
    BY <1>2 DEF MoveFolder, Writes, At, Answer, Mover, IInv, RequestTypes, Idle
  <2>2. \A s \in Request : ~Mover(req'[s])
    BY <2>1 DEF OneMover
  <2>3. WalksHold'
    BY <2>2 DEF WalksHold, Mover
  <2>4. Walked(req[r])
    BY <2>1 DEF WalksHold
  <2> QED
    BY <1>2, <2>3, <2>4, MoveKeepsForest
<1>3. CASE ~\E r \in Request : MoveFolder(r)
  <2>1. TreeGrows
    BY <1>3, OthersGrow
  <2>2. Forest'
    BY <1>0, <2>1, GrowthKeepsForest
  <2>3. ASSUME NEW s \in Request, Mover(req'[s]) PROVE Walked(req[s])'
    <3>1. CASE ReadTree(s)
      BY <3>1, WalkStarts
    <3>2. CASE Walk(s)
      <4>1. Mover(req[s]) /\ Mover(req[s])'
        BY <2>3, <3>2 DEF Walk, At, Mover
      <4> QED
        BY <3>2, <4>1, WalkGoesOn DEF WalksHold
    <3>3. CASE req'[s] = req[s]
      <4>1. Mover(req[s]) /\ Walked(req[s])
        BY <2>3, <3>3 DEF WalksHold
      <4>2. PICK q : q = req[s]
        OBVIOUS
      <4>3. Walked(q)'
        BY <1>0, <2>1, <4>1, <4>2, GrowthKeepsWalks
      <4> QED
        BY <3>3, <4>2, <4>3 DEF Walked, Climbed
    <3> QED
      BY <2>3, <3>1, <3>2, <3>3, MoversStep
  <2>4. WalksHold'
    BY <2>3 DEF WalksHold, Mover
  <2> QED
    BY <1>1, <2>2, <2>4
<1> QED
  BY <1>1, <1>2, <1>3

\* The walk before a move keeps the folders a forest, whatever is created, moved
\* and deleted beside it, as long as no other move has read the tree before the
\* first has written (move_folder of api/ext/playlist_tree.rs).
THEOREM StaysAForest == Spec => []ForestUnlessMovesOverlap
<1> DEFINE Apart == overlap \/ Untangled
<1>1. Init => Apart
  <2> SUFFICES ASSUME Init PROVE Untangled
    OBVIOUS
  <2>1. Forest
    BY StartsAssumption DEF Init, Forest
  <2>2. \A r \in Request : ~Mover(req[r])
    BY DEF Init, Mover, Idle
  <2> QED
    BY <2>1, <2>2 DEF Untangled, OneMover, WalksHold
<1>2. IInv /\ IInv' /\ Apart /\ [Next]_vars => Apart'
  <2>1. [Next]_vars /\ overlap => overlap'
    BY DEF Next, Ask, HandlerStep, Check, CheckTo, ReadTree, Walk, ReadTracks, Fails,
       CreateFolder, MoveFolder, DeleteFolder, CreatePlaylist, MovePlaylist, DeletePlaylist,
       ReplaceTracks, UpdatePlaylist, Writes, DropTrack, DropUser, Rest, vars
  <2> QED
    BY <2>1, StaysUntangled
<1>3. Apart => ForestUnlessMovesOverlap
  BY DEF ForestUnlessMovesOverlap, Untangled
<1> QED
  BY <1>1, <1>2, <1>3, Inductive, PTL DEF Spec

-----------------------------------------------------------------------------
(* Lists.  What the recursive definitions of the model compute, by the      *)
(* least number for which it would be something else.                       *)

\* A set of numbers has a least one.
LEMMA Least ==
  ASSUME NEW T \in SUBSET Nat, T # {}
  PROVE  \E x \in T : \A y \in T : x <= y
<1>1. PICK x \in T : \A y \in T : <<y, x>> \notin OpToRel(<, Nat)
  BY NatLessThanWellFounded, WFMin
<1>2. \A y \in T : ~(y < x)
  BY <1>1 DEF OpToRel
<1> QED
  BY <1>2

\* What holds of 0 and, with each number, of the next, holds up to n.
LEMMA UpTo ==
  ASSUME NEW n \in Nat, NEW P, 0 \in P, \A i \in 1..n : i - 1 \in P => i \in P
  PROVE  0..n \subseteq P
<1>1. SUFFICES ASSUME (0..n) \ P # {} PROVE FALSE
  OBVIOUS
<1>2. PICK x \in (0..n) \ P : \A y \in (0..n) \ P : x <= y
  <2>1. (0..n) \ P \in SUBSET Nat
    OBVIOUS
  <2> QED
    BY <1>1, <2>1, Least
<1> QED
  BY <1>2

\* Values of a set, each computed from the one before.
Iterates(g, T, first, next, m) ==
  /\ g \in [0..m -> T] /\ g[0] = first
  /\ \A i \in 1..m : g[i] = next[i][g[i - 1]]

\* There are such values: this is why a recursive definition has a meaning.
LEMMA Iteration ==
  ASSUME NEW n \in Nat, NEW T, NEW first \in T, NEW next \in [1..n -> [T -> T]]
  PROVE  \E g : Iterates(g, T, first, next, n)
<1> DEFINE Done == {m \in 0..n : \E g : Iterates(g, T, first, next, m)}
<1>1. 0 \in Done
  <2> DEFINE g == [i \in 0..0 |-> first]
  <2>1. Iterates(g, T, first, next, 0)
    BY DEF Iterates
  <2> QED
    BY <2>1
<1>2. ASSUME NEW m \in 1..n, m - 1 \in Done PROVE m \in Done
  <2>1. PICK g : Iterates(g, T, first, next, m - 1)
    BY <1>2
  <2> DEFINE h == [i \in 0..m |-> IF i = m THEN next[m][g[m - 1]] ELSE g[i]]
  <2>2. g[m - 1] \in T /\ next[m] \in [T -> T]
    BY <2>1 DEF Iterates
  <2>3. h \in [0..m -> T]
    BY <2>1, <2>2 DEF Iterates
  <2>4. h[0] = first /\ \A i \in 1..m : h[i] = next[i][h[i - 1]]
    BY <2>1 DEF Iterates
  <2>5. Iterates(h, T, first, next, m)
    <3> HIDE DEF h
    <3> QED
      BY <2>3, <2>4 DEF Iterates
  <2> HIDE DEF h
  <2> QED
    BY <2>5
<1> HIDE DEF Done
<1>3. 0..n \subseteq Done
  BY <1>1, <1>2, UpTo
<1>4. n \in Done
  BY <1>3
<1> QED
  BY <1>4 DEF Done

\* The equation that defines Kept.
Keeps(kept, list, S) ==
  kept = [i \in 0..Len(list) |->
    IF i = 0 THEN <<>> ELSE IF i \in S THEN kept[i - 1] ELSE Append(kept[i - 1], list[i])]

\* The definition has a solution, and its values are lists.
LEMMA KeptIs ==
  ASSUME NEW T, NEW list \in Seq(T), NEW S
  PROVE  \E kept \in [0..Len(list) -> Seq(T)] : Keeps(kept, list, S) /\ Kept(list, S) = kept[Len(list)]
<1> DEFINE n == Len(list)
           next == [i \in 1..n |-> [s \in Seq(T) |-> IF i \in S THEN s ELSE Append(s, list[i])]]
<1>0. n \in Nat /\ \A i \in 1..n : list[i] \in T
  OBVIOUS
<1>1. next \in [1..n -> [Seq(T) -> Seq(T)]]
  BY <1>0, AppendProperties
<1>2. PICK g : Iterates(g, Seq(T), <<>>, next, n)
  <2>1. <<>> \in Seq(T)
    OBVIOUS
  <2> HIDE DEF next
  <2> QED
    BY <1>0, <1>1, <2>1, Iteration
<1>3. Keeps(g, list, S)
  <2>1. ASSUME NEW i \in 1..n
        PROVE  g[i] = IF i \in S THEN g[i - 1] ELSE Append(g[i - 1], list[i])
    <3>1. i - 1 \in 0..n /\ g \in [0..n -> Seq(T)] /\ g[i] = next[i][g[i - 1]]
      BY <1>0, <1>2 DEF Iterates
    <3>2. g[i - 1] \in Seq(T)
      BY <3>1
    <3>3. next[i] = [s \in Seq(T) |-> IF i \in S THEN s ELSE Append(s, list[i])]
      OBVIOUS
    <3> HIDE DEF next
    <3> QED
      BY <3>1, <3>2, <3>3
  <2>2. g[0] = <<>> /\ g = [i \in 0..n |-> g[i]]
    BY <1>2 DEF Iterates
  <2>3. \A i \in 0..n : i = 0 \/ i \in 1..n
    BY <1>0
  <2> HIDE DEF n
  <2>4. Keeps(g, list, S)
    BY <2>1, <2>2, <2>3 DEF Keeps, n
  <2> QED
    BY <2>4
<1> DEFINE kept == CHOOSE kept : Keeps(kept, list, S)
<1>4. Keeps(kept, list, S)
  BY <1>3
<1>5. Kept(list, S) = kept[n]
  BY DEF Kept, Keeps
<1>6. kept \in [0..n -> Seq(T)]
  <2> HIDE DEF kept
  <2> DEFINE P == {i \in 0..n : kept[i] \in Seq(T)}
  <2>1. 0 \in P
    BY <1>0, <1>4 DEF Keeps
  <2>2. ASSUME NEW i \in 1..n, i - 1 \in P PROVE i \in P
    <3>0. i \in 0..n /\ i # 0
      BY <1>0
    <3>1. kept[i] = IF i \in S THEN kept[i - 1] ELSE Append(kept[i - 1], list[i])
      BY <3>0, <1>4 DEF Keeps
    <3>2. kept[i - 1] \in Seq(T) /\ list[i] \in T
      BY <1>0, <2>2
    <3>3. kept[i] \in Seq(T)
      BY <3>1, <3>2
    <3> QED
      BY <3>3
  <2>3. 0..n \subseteq P
    <3> HIDE DEF P
    <3> QED BY <1>0, <2>1, <2>2, UpTo
  <2>4. kept = [i \in 0..n |-> kept[i]]
    BY <1>4 DEF Keeps
  <2> QED
    BY <2>3, <2>4
<1> QED
  BY <1>4, <1>5, <1>6

\* What is kept is a list of what was there, and no longer.
LEMMA KeptType ==
  ASSUME NEW T, NEW list \in Seq(T), NEW S
  PROVE  Kept(list, S) \in Seq(T) /\ Len(Kept(list, S)) <= Len(list)
<1>1. PICK kept \in [0..Len(list) -> Seq(T)] :
        Keeps(kept, list, S) /\ Kept(list, S) = kept[Len(list)]
  BY KeptIs
<1> DEFINE P == {i \in 0..Len(list) : Len(kept[i]) <= i}
<1>2. Len(list) \in Nat /\ 0 \in P
  BY <1>1 DEF Keeps
<1>3. ASSUME NEW i \in 1..Len(list), i - 1 \in P PROVE i \in P
  <2>1. i \in 0..Len(list) /\ i # 0 /\ list[i] \in T /\ i \in Int
    OBVIOUS
  <2>2. kept[i] = IF i \in S THEN kept[i - 1] ELSE Append(kept[i - 1], list[i])
    BY <1>1, <2>1 DEF Keeps
  <2>3. kept[i - 1] \in Seq(T) /\ Len(kept[i - 1]) <= i - 1 /\ Len(kept[i - 1]) \in Nat
    BY <1>1, <1>3
  <2>4. Len(kept[i]) <= i
    BY <2>1, <2>2, <2>3
  <2> QED
    BY <2>1, <2>4
<1>4. 0..Len(list) \subseteq P
  <2> HIDE DEF P
  <2> QED
    BY <1>2, <1>3, UpTo
<1> QED
  BY <1>1, <1>2, <1>4

Values(s) == {s[i] : i \in 1..Len(s)}

\* Nothing is kept but entries at positions outside S.
LEMMA KeptValues ==
  ASSUME NEW T, NEW list \in Seq(T), NEW S
  PROVE  \A x \in Values(Kept(list, S)) : \E i \in (1..Len(list)) \ S : x = list[i]
<1>1. PICK kept \in [0..Len(list) -> Seq(T)] :
        Keeps(kept, list, S) /\ Kept(list, S) = kept[Len(list)]
  BY KeptIs
<1> DEFINE Good(t) == \A x \in Values(t) : \E i \in (1..Len(list)) \ S : x = list[i]
           P == {i \in 0..Len(list) : Good(kept[i])}
<1>2. Len(list) \in Nat /\ 0 \in P
  <2>1. kept[0] = <<>>
    BY <1>1 DEF Keeps
  <2> QED
    BY <2>1 DEF Values
<1>3. ASSUME NEW i \in 1..Len(list), i - 1 \in P PROVE i \in P
  <2>1. i \in 0..Len(list) /\ i # 0 /\ list[i] \in T /\ i \in Int
    OBVIOUS
  <2>2. kept[i] = IF i \in S THEN kept[i - 1] ELSE Append(kept[i - 1], list[i])
    BY <1>1, <2>1 DEF Keeps
  <2>3. kept[i - 1] \in Seq(T) /\ Good(kept[i - 1])
    BY <1>1, <1>3
  <2>4. CASE i \in S
    BY <2>1, <2>2, <2>3, <2>4
  <2>5. CASE i \notin S
    <3>1. Values(kept[i]) = Values(kept[i - 1]) \cup {list[i]}
      BY <2>1, <2>2, <2>3, <2>5, AppendProperties DEF Values
    <3> HIDE DEF Values
    <3>2. Good(kept[i])
      BY <2>3, <2>5, <3>1
    <3> QED
      BY <2>1, <3>2
  <2> QED
    BY <2>4, <2>5
<1>4. 0..Len(list) \subseteq P
  <2> HIDE DEF P
  <2> QED
    BY <1>2, <1>3, UpTo
<1> QED
  BY <1>1, <1>2, <1>4

\* Removal at a position: everything behind it moves up.
LEMMA Removed ==
  ASSUME NEW T, NEW s \in Seq(T), NEW p \in 1..Len(s)
  PROVE  /\ RemoveAt(s, p) \in Seq(T) /\ Len(RemoveAt(s, p)) = Len(s) - 1
         /\ \A i \in 1..(Len(s) - 1) : RemoveAt(s, p)[i] = s[IF i < p THEN i ELSE i + 1]
<1> DEFINE a == SubSeq(s, 1, p - 1)
           b == SubSeq(s, p + 1, Len(s))
<1>0. p \in Int /\ Len(s) \in Nat /\ p >= 1 /\ p <= Len(s)
  OBVIOUS
<1>1. a \in Seq(T) /\ Len(a) = p - 1 /\ \A i \in 1..(p - 1) : a[i] = s[i]
  OBVIOUS
<1>2. b \in Seq(T) /\ Len(b) = Len(s) - p /\ \A i \in 1..(Len(s) - p) : b[i] = s[p + i]
  OBVIOUS
<1>3. RemoveAt(s, p) = a \o b
  BY DEF RemoveAt
<1> HIDE DEF a, b
<1>3a. a \o b \in Seq(T) /\ Len(a \o b) = Len(a) + Len(b)
       /\ \A i \in 1..(Len(a) + Len(b)) :
            (a \o b)[i] = IF i <= Len(a) THEN a[i] ELSE b[i - Len(a)]
  BY <1>1, <1>2, ConcatProperties
<1>4. Len(a \o b) = Len(s) - 1 /\ Len(a) \in Nat /\ Len(b) \in Nat
  BY <1>0, <1>1, <1>2, <1>3a
<1>5. ASSUME NEW i \in 1..(Len(s) - 1)
      PROVE  (a \o b)[i] = s[IF i < p THEN i ELSE i + 1]
  <2>1. CASE i < p
    <3>1. i \in 1..(Len(a) + Len(b)) /\ i <= Len(a) /\ i \in 1..(p - 1)
      BY <1>0, <1>1, <1>2, <2>1
    <3>2. (a \o b)[i] = a[i]
      BY <1>3a, <3>1
    <3> QED
      BY <1>1, <2>1, <3>1, <3>2
  <2>2. CASE i >= p
    <3>1. i \in 1..(Len(a) + Len(b)) /\ ~(i <= Len(a))
      BY <1>0, <1>1, <1>2, <2>2
    <3>2. (a \o b)[i] = b[i - Len(a)]
      BY <1>3a, <3>1
    <3>3. i - Len(a) \in 1..(Len(s) - p) /\ p + (i - Len(a)) = i + 1
      BY <1>0, <1>1, <2>2
    <3>4. b[i - Len(a)] = s[p + (i - Len(a))]
      BY <1>2, <3>3
    <3> QED
      BY <1>0, <2>2, <3>2, <3>3, <3>4
  <2>3. i < p \/ i >= p
    BY <1>0
  <2> QED
    BY <2>1, <2>2, <2>3
<1> QED
  BY <1>3, <1>3a, <1>4, <1>5

\* Removal before or at the end of an appended list.
LEMMA RemovedFromAppended ==
  ASSUME NEW T, NEW s \in Seq(T), NEW x \in T
  PROVE  /\ RemoveAt(Append(s, x), Len(s) + 1) = s
         /\ \A p \in 1..Len(s) : RemoveAt(Append(s, x), p) = Append(RemoveAt(s, p), x)
<1> DEFINE t == Append(s, x)
<1>1. t \in Seq(T) /\ Len(t) = Len(s) + 1 /\ t[Len(s) + 1] = x
      /\ \A i \in 1..Len(s) : t[i] = s[i]
  OBVIOUS
<1> HIDE DEF t
<1>2. RemoveAt(t, Len(s) + 1) = s
  <2> DEFINE u == RemoveAt(t, Len(s) + 1)
  <2>1. u \in Seq(T) /\ Len(u) = Len(s) /\ \A i \in 1..Len(s) : u[i] = t[IF i < Len(s) + 1 THEN i ELSE i + 1]
    <3>1. Len(s) + 1 \in 1..Len(t) /\ Len(t) - 1 = Len(s)
      BY <1>1
    <3> QED
      BY <1>1, <3>1, Removed
  <2> HIDE DEF u
  <2>2. \A i \in 1..Len(s) : u[i] = s[i]
    BY <1>1, <2>1
  <2>3. u = s
    BY <2>1, <2>2, SeqEqual
  <2> QED
    BY <2>3 DEF u
<1>3. ASSUME NEW p \in 1..Len(s) PROVE RemoveAt(t, p) = Append(RemoveAt(s, p), x)
  <2> DEFINE u == RemoveAt(t, p)
             v == RemoveAt(s, p)
             w == Append(v, x)
  <2>1. u \in Seq(T) /\ Len(u) = Len(s) /\ \A i \in 1..Len(s) : u[i] = t[IF i < p THEN i ELSE i + 1]
    <3>1. p \in 1..Len(t) /\ Len(t) - 1 = Len(s)
      BY <1>1
    <3> QED
      BY <1>1, <3>1, Removed
  <2>2. v \in Seq(T) /\ Len(v) = Len(s) - 1
        /\ \A i \in 1..(Len(s) - 1) : v[i] = s[IF i < p THEN i ELSE i + 1]
    BY Removed
  <2> HIDE DEF u, v
  <2>3. w \in Seq(T) /\ Len(w) = Len(s) /\ w[Len(s)] = x /\ \A i \in 1..(Len(s) - 1) : w[i] = v[i]
    BY <2>2
  <2> HIDE DEF w
  <2>4. ASSUME NEW i \in 1..Len(s) PROVE u[i] = w[i]
    <3>1. CASE i = Len(s)
      BY <1>1, <2>1, <2>3, <3>1
    <3>2. CASE i # Len(s)
      <4>1. i \in 1..(Len(s) - 1)
        BY <3>2
      <4>2. u[i] = t[IF i < p THEN i ELSE i + 1] /\ w[i] = s[IF i < p THEN i ELSE i + 1]
        BY <2>1, <2>2, <2>3, <4>1
      <4> QED
        BY <1>1, <4>1, <4>2
    <3> QED
      BY <3>1, <3>2
  <2>5. u = w
    BY <2>1, <2>3, <2>4, SeqEqual
  <2> QED
    BY <2>5 DEF u, v, w
<1> QED
  BY <1>2, <1>3 DEF t

\* Only positions of the list count.
LEMMA KeptSame ==
  ASSUME NEW T, NEW list \in Seq(T), NEW S, NEW R, \A i \in 1..Len(list) : i \in S <=> i \in R
  PROVE  Kept(list, S) = Kept(list, R)
<1>1. PICK k : Keeps(k, list, S) /\ Kept(list, S) = k[Len(list)]
  BY KeptIs
<1>2. PICK h : Keeps(h, list, R) /\ Kept(list, R) = h[Len(list)]
  BY KeptIs
<1> DEFINE P == {i \in 0..Len(list) : k[i] = h[i]}
<1>3. Len(list) \in Nat /\ 0 \in P
  BY <1>1, <1>2 DEF Keeps
<1>4. ASSUME NEW i \in 1..Len(list), i - 1 \in P PROVE i \in P
  <2>1. i \in 0..Len(list) /\ i # 0
    OBVIOUS
  <2>2. k[i] = IF i \in S THEN k[i - 1] ELSE Append(k[i - 1], list[i])
    BY <1>1, <2>1 DEF Keeps
  <2>3. h[i] = IF i \in R THEN h[i - 1] ELSE Append(h[i - 1], list[i])
    BY <1>2, <2>1 DEF Keeps
  <2> QED
    BY <1>4, <2>1, <2>2, <2>3
<1>5. 0..Len(list) \subseteq P
  <2> HIDE DEF P
  <2> QED
    BY <1>3, <1>4, UpTo
<1> QED
  BY <1>1, <1>2, <1>3, <1>5

\* With no position left out the list stays.
LEMMA KeptAll ==
  ASSUME NEW T, NEW list \in Seq(T)
  PROVE  Kept(list, {}) = list
<1>1. PICK k \in [0..Len(list) -> Seq(T)] : Keeps(k, list, {}) /\ Kept(list, {}) = k[Len(list)]
  BY KeptIs
<1> DEFINE P == {i \in 0..Len(list) : Len(k[i]) = i /\ \A j \in 1..i : k[i][j] = list[j]}
<1>2. Len(list) \in Nat /\ 0 \in P
  BY <1>1 DEF Keeps
<1>3. ASSUME NEW i \in 1..Len(list), i - 1 \in P PROVE i \in P
  <2>1. i \in 0..Len(list) /\ i # 0 /\ list[i] \in T /\ i \in Int
    OBVIOUS
  <2>2. k[i] = Append(k[i - 1], list[i])
    BY <1>1, <2>1 DEF Keeps
  <2>3. k[i - 1] \in Seq(T) /\ Len(k[i - 1]) = i - 1 /\ \A j \in 1..(i - 1) : k[i - 1][j] = list[j]
    BY <1>1, <1>3
  <2>4. Len(k[i]) = i
    BY <2>1, <2>2, <2>3
  <2>5. ASSUME NEW j \in 1..i PROVE k[i][j] = list[j]
    <3>1. j = i \/ j \in 1..(i - 1)
      BY <2>1
    <3>2. k[i][i] = list[i] /\ \A m \in 1..(i - 1) : k[i][m] = k[i - 1][m]
      BY <2>1, <2>2, <2>3, AppendProperties
    <3> QED
      BY <2>3, <3>1, <3>2
  <2> QED
    BY <2>1, <2>4, <2>5
<1>4. 0..Len(list) \subseteq P
  <2> HIDE DEF P
  <2> QED
    BY <1>2, <1>3, UpTo
<1>5. k[Len(list)] \in Seq(T) /\ Len(k[Len(list)]) = Len(list)
      /\ \A j \in 1..Len(list) : k[Len(list)][j] = list[j]
  BY <1>1, <1>2, <1>4
<1> QED
  BY <1>1, <1>5, SeqEqual

\* To remove the entry at a position below all that were left out is to leave
\* that position out too.
LEMMA KeptOneLess ==
  ASSUME NEW T, NEW list \in Seq(T), NEW S \in SUBSET Int, NEW p \in 1..Len(list),
         \A q \in S : p < q
  PROVE  /\ p \in 1..Len(Kept(list, S))
         /\ Kept(list, S \cup {p}) = RemoveAt(Kept(list, S), p)
<1> DEFINE n == Len(list)
<1>1. PICK k \in [0..n -> Seq(T)] : Keeps(k, list, S) /\ Kept(list, S) = k[n]
  BY KeptIs
<1>2. PICK h \in [0..n -> Seq(T)] : Keeps(h, list, S \cup {p}) /\ Kept(list, S \cup {p}) = h[n]
  BY KeptIs
<1> DEFINE P == {i \in 0..n : IF i < p THEN k[i] = h[i] /\ Len(k[i]) = i
                              ELSE p <= Len(k[i]) /\ h[i] = RemoveAt(k[i], p)}
<1>3. n \in Nat /\ p \in Int /\ 0 \in P
  BY <1>1, <1>2 DEF Keeps
<1>4. ASSUME NEW i \in 1..n, i - 1 \in P PROVE i \in P
  <2>1. i \in 0..n /\ i # 0 /\ list[i] \in T /\ i \in Int /\ i - 1 \in 0..n
    OBVIOUS
  <2>2. k[i] = IF i \in S THEN k[i - 1] ELSE Append(k[i - 1], list[i])
    BY <1>1, <2>1 DEF Keeps
  <2>3. h[i] = IF i \in S \cup {p} THEN h[i - 1] ELSE Append(h[i - 1], list[i])
    BY <1>2, <2>1 DEF Keeps
  <2>4. k[i - 1] \in Seq(T) /\ h[i - 1] \in Seq(T)
    <3> HIDE DEF n
    <3> QED
      BY <1>1, <1>2, <2>1
  <2>4a. Len(k[i - 1]) \in Nat
    BY <2>4
  <2>5. Len(Append(k[i - 1], list[i])) = Len(k[i - 1]) + 1
    BY <2>1, <2>4
  <2>5a. IF i - 1 < p THEN k[i - 1] = h[i - 1] /\ Len(k[i - 1]) = i - 1
         ELSE p <= Len(k[i - 1]) /\ h[i - 1] = RemoveAt(k[i - 1], p)
    BY <1>4
  <2>5b. p \in Int /\ (i <= p => i \notin S)
    BY <2>1
  <2>5c. (IF i < p THEN k[i] = h[i] /\ Len(k[i]) = i
          ELSE p <= Len(k[i]) /\ h[i] = RemoveAt(k[i], p)) => i \in P
    BY <2>1
  <2> HIDE DEF P, n
  <2>6. CASE i < p
    <3>1. i \notin S \cup {p} /\ k[i - 1] = h[i - 1] /\ Len(k[i - 1]) = i - 1
      BY <2>1, <2>5a, <2>5b, <2>6
    <3> QED
      BY <2>1, <2>2, <2>3, <2>5, <2>5c, <2>6, <3>1
  <2>7. CASE i = p
    <3>1. i \notin S /\ k[i - 1] = h[i - 1] /\ Len(k[i - 1]) = i - 1
      BY <2>1, <2>5a, <2>5b, <2>7
    <3>2. RemoveAt(Append(k[i - 1], list[i]), i) = k[i - 1]
      BY <2>1, <2>4, <3>1, RemovedFromAppended
    <3> QED
      BY <2>1, <2>2, <2>3, <2>5, <2>5c, <2>7, <3>1, <3>2
  <2>8. CASE i > p
    <3>1. p <= Len(k[i - 1]) /\ h[i - 1] = RemoveAt(k[i - 1], p) /\ i # p
      BY <2>1, <2>5a, <2>5b, <2>8
    <3>2. p \in 1..Len(k[i - 1])
      BY <2>4a, <3>1
    <3>3. RemoveAt(Append(k[i - 1], list[i]), p) = Append(RemoveAt(k[i - 1], p), list[i])
      BY <2>1, <2>4, <3>2, RemovedFromAppended
    <3>4. p <= Len(k[i])
      BY <2>1, <2>2, <2>4a, <2>5, <2>5b, <3>1
    <3>5. h[i] = RemoveAt(k[i], p)
      BY <2>2, <2>3, <3>1, <3>3
    <3> QED
      BY <2>1, <2>5b, <2>5c, <2>8, <3>4, <3>5
  <2> QED
    BY <2>1, <2>5b, <2>6, <2>7, <2>8
<1>5. 0..n \subseteq P
  <2> HIDE DEF P
  <2> QED
    BY <1>3, <1>4, UpTo
<1>6. p <= Len(k[n]) /\ h[n] = RemoveAt(k[n], p) /\ k[n] \in Seq(T)
  BY <1>1, <1>3, <1>5
<1> QED
  BY <1>1, <1>2, <1>6

\* The largest first; no number twice.
Falling(s) == s \in Seq(Int) /\ \A i, j \in 1..Len(s) : i <= j => s[i] >= s[j]
Single(s) == \A i, j \in 1..Len(s) : i # j => s[i] # s[j]

\* What insertion does to a falling list: a place is found, and around it
\* nothing changes.
\* u is s with x between the first k numbers, which are not smaller, and the
\* rest.
Places(u, s, x, k) ==
  /\ \A j \in 1..Len(s) : j <= k <=> s[j] >= x
  /\ u \in Seq(Int) /\ Len(u) = Len(s) + 1
  /\ \A j \in 1..(Len(s) + 1) :
       u[j] = IF j <= k THEN s[j] ELSE IF j = k + 1 THEN x ELSE s[j - 1]

\* An index goes in behind those not smaller.
LEMMA InsertedAt ==
  ASSUME NEW s, Falling(s), NEW x \in Int
  PROVE  \E k \in 0..Len(s) : Places(Inserted(s, x), s, x, k)
<1> DEFINE n == Len(s)
<1>1. s \in Seq(Int) /\ n \in Nat
  BY DEF Falling
<1>2. \E k \in 0..n : \A j \in 1..n : j <= k <=> s[j] >= x
  <2> DEFINE T == {j \in 1..(n + 1) : j = n + 1 \/ s[j] < x}
  <2>1. T \in SUBSET Nat /\ n + 1 \in T
    BY <1>1
  <2>2. PICK m \in T : \A j \in T : m <= j
    BY <2>1, Least
  <2>3. m - 1 \in 0..n
    BY <1>1
  <2>4. ASSUME NEW j \in 1..n PROVE j <= m - 1 <=> s[j] >= x
    <3>1. s[j] \in Int /\ j \in 1..(n + 1) /\ j # n + 1
      BY <1>1
    <3>2. CASE j <= m - 1
      <4>1. j \notin T
        BY <1>1, <2>2, <3>2
      <4> QED
        BY <3>1, <3>2, <4>1
    <3>3. CASE ~(j <= m - 1)
      <4>1. m <= j /\ m # n + 1 /\ m \in 1..n
        BY <1>1, <3>3
      <4>2. s[m] < x /\ s[m] >= s[j] /\ s[m] \in Int
        BY <1>1, <4>1 DEF Falling
      <4> QED
        BY <3>1, <3>3, <4>2
    <3> QED
      BY <3>2, <3>3
  <2> QED
    BY <2>3, <2>4
<1> DEFINE k == CHOOSE k \in 0..n : \A j \in 1..n : j <= k <=> s[j] >= x
<1>3. k \in 0..n /\ \A j \in 1..n : j <= k <=> s[j] >= x
  BY <1>2
<1>4. Inserted(s, x) = InsertAt(s, k + 1, x)
  BY DEF Inserted
<1> HIDE DEF k
<1> DEFINE a == SubSeq(s, 1, k)
           b == SubSeq(s, k + 1, n)
           c == a \o <<x>>
<1>5. a \in Seq(Int) /\ Len(a) = k /\ \A i \in 1..k : a[i] = s[i]
  BY <1>1, <1>3
<1>6. b \in Seq(Int) /\ Len(b) = n - k /\ \A i \in 1..(n - k) : b[i] = s[k + i]
  BY <1>1, <1>3
<1>7. Inserted(s, x) = c \o b
  <2>1. (k + 1) - 1 = k
    BY <1>3
  <2> QED
    BY <1>4, <2>1 DEF InsertAt
<1> HIDE DEF a, b, n
<1>8. c \in Seq(Int) /\ Len(c) = k + 1 /\ c[k + 1] = x /\ \A i \in 1..k : c[i] = s[i]
  BY <1>3, <1>5, AppendProperties
<1> HIDE DEF c
<1>9. c \o b \in Seq(Int) /\ Len(c \o b) = Len(c) + Len(b)
      /\ \A i \in 1..(Len(c) + Len(b)) :
           (c \o b)[i] = IF i <= Len(c) THEN c[i] ELSE b[i - Len(c)]
  BY <1>6, <1>8, ConcatProperties
<1>10. Len(c) + Len(b) = n + 1 /\ k \in Int
  BY <1>1, <1>3, <1>6, <1>8
<1>11. ASSUME NEW j \in 1..(n + 1)
       PROVE  (c \o b)[j] = IF j <= k THEN s[j] ELSE IF j = k + 1 THEN x ELSE s[j - 1]
  <2>1. (c \o b)[j] = IF j <= k + 1 THEN c[j] ELSE b[j - (k + 1)]
    BY <1>8, <1>9, <1>10
  <2>2. j \in Int /\ k \in Int /\ j >= 1 /\ j <= n + 1 /\ n \in Int
    BY <1>1, <1>10
  <2>3. CASE j <= k
    BY <1>8, <2>1, <2>2, <2>3
  <2>4. CASE j = k + 1
    BY <1>8, <2>1, <2>2, <2>4
  <2>5. CASE j > k + 1
    <3>1. j - (k + 1) \in 1..(n - k) /\ k + (j - (k + 1)) = j - 1
      BY <2>2, <2>5
    <3>2. b[j - (k + 1)] = s[j - 1]
      BY <1>6, <3>1
    <3> QED
      BY <2>1, <2>2, <2>5, <3>2
  <2>6. j <= k \/ j = k + 1 \/ j > k + 1
    BY <2>2
  <2> QED
    BY <2>3, <2>4, <2>5, <2>6
<1>12. k \in 0..Len(s) /\ Places(Inserted(s, x), s, x, k)
  BY <1>3, <1>7, <1>9, <1>10, <1>11 DEF n, Places
<1> QED
  BY <1>12

\* Insertion keeps the order and adds the one number.
LEMMA InsertedFalls ==
  ASSUME NEW s, Falling(s), NEW x \in Int
  PROVE  /\ Falling(Inserted(s, x)) /\ Len(Inserted(s, x)) = Len(s) + 1
         /\ Values(Inserted(s, x)) = Values(s) \cup {x}
         /\ Single(s) /\ x \notin Values(s) => Single(Inserted(s, x))
<1> DEFINE n == Len(s)
           u == Inserted(s, x)
<1>1. s \in Seq(Int) /\ n \in Nat /\ \A j \in 1..n : s[j] \in Int
  BY DEF Falling
<1>2a. PICK k \in 0..n : Places(u, s, x, k)
  BY InsertedAt
<1>2. /\ k \in 0..n
      /\ \A j \in 1..n : j <= k <=> s[j] >= x
      /\ u \in Seq(Int) /\ Len(u) = n + 1
      /\ \A j \in 1..(n + 1) : u[j] =
           IF j <= k THEN s[j] ELSE IF j = k + 1 THEN x ELSE s[j - 1]
  BY <1>2a DEF Places
<1> HIDE DEF n, u
<1>3. Falling(u)
  <2>1. SUFFICES ASSUME NEW i \in 1..(n + 1), NEW j \in 1..(n + 1), i <= j PROVE u[i] >= u[j]
    BY <1>2 DEF Falling
  <2>2. i \in Int /\ j \in Int /\ k \in Int /\ u[i] \in Int /\ u[j] \in Int
    BY <1>1, <1>2
  <2>3. \A p, q \in 1..n : p <= q => s[p] >= s[q]
    BY DEF Falling, n
  <2>4. CASE j <= k
    <3>1. i \in 1..n /\ j \in 1..n /\ i <= k
      BY <1>1, <2>1, <2>2, <2>4
    <3> QED
      BY <1>2, <2>1, <2>3, <2>4, <3>1
  <2>5. CASE i <= k /\ j = k + 1
    <3>1. i \in 1..n /\ ~(j <= k)
      BY <1>1, <2>1, <2>2, <2>5
    <3> QED
      BY <1>2, <2>5, <3>1
  <2>6. CASE i <= k /\ j > k + 1
    <3>1. i \in 1..n /\ j - 1 \in 1..n /\ i <= j - 1 /\ ~(j <= k) /\ j # k + 1
      BY <1>1, <2>1, <2>2, <2>6
    <3> QED
      BY <1>2, <2>3, <2>6, <3>1
  <2>7. CASE i = k + 1 /\ j = k + 1
    BY <2>2, <2>7
  <2>8. CASE i = k + 1 /\ j > k + 1
    <3>1. j - 1 \in 1..n /\ ~(j - 1 <= k) /\ ~(i <= k) /\ ~(j <= k) /\ j # k + 1
      BY <1>1, <2>1, <2>2, <2>8
    <3>2. u[i] = x /\ u[j] = s[j - 1] /\ s[j - 1] \in Int /\ ~(s[j - 1] >= x)
      BY <1>1, <1>2, <2>8, <3>1
    <3> QED
      BY <3>2
  <2>9. CASE i > k + 1
    <3>1. /\ i - 1 \in 1..n /\ j - 1 \in 1..n /\ i - 1 <= j - 1
          /\ ~(i <= k) /\ i # k + 1 /\ ~(j <= k) /\ j # k + 1
      BY <1>1, <2>1, <2>2, <2>9
    <3> QED
      BY <1>2, <2>3, <3>1
  <2> QED
    BY <2>1, <2>2, <2>4, <2>5, <2>6, <2>7, <2>8, <2>9
<1>4. Values(u) = Values(s) \cup {x}
  <2>1. ASSUME NEW v \in Values(u) PROVE v \in Values(s) \cup {x}
    <3>1. PICK j \in 1..(n + 1) : v = u[j]
      BY <1>2 DEF Values
    <3>2. v = x \/ (j <= k /\ j \in 1..n /\ v = s[j]) \/ (j > k + 1 /\ j - 1 \in 1..n /\ v = s[j - 1])
      BY <1>1, <1>2, <3>1
    <3> QED
      BY <3>2 DEF Values, n
  <2>2. ASSUME NEW v \in Values(s) PROVE v \in Values(u)
    <3>1. PICK j \in 1..n : v = s[j]
      BY DEF Values, n
    <3>2. CASE j <= k
      BY <1>1, <1>2, <3>1, <3>2 DEF Values
    <3>3. CASE j > k
      <4>1. j + 1 \in 1..(n + 1) /\ u[j + 1] = s[j]
        BY <1>1, <1>2, <3>3
      <4> QED
        BY <1>2, <3>1, <4>1 DEF Values
    <3> QED
      BY <1>2, <3>2, <3>3
  <2>3. x \in Values(u)
    <3>1. k + 1 \in 1..(n + 1) /\ u[k + 1] = x
      BY <1>1, <1>2
    <3> QED
      BY <1>2, <3>1 DEF Values
  <2> QED
    BY <2>1, <2>2, <2>3
<1>5. ASSUME Single(s), x \notin Values(s) PROVE Single(u)
  <2>1. SUFFICES ASSUME NEW i \in 1..(n + 1), NEW j \in 1..(n + 1), i < j PROVE u[i] # u[j]
    BY <1>1, <1>2 DEF Single
  <2>2. /\ \A p, q \in 1..n : p # q => s[p] # s[q]
        /\ \A p \in 1..n : s[p] # x
    BY <1>5 DEF Single, Values, n
  <2>3. i \in Int /\ j \in Int /\ k \in Int
    BY <1>1, <1>2
  <2> HIDE DEF Values, Single
  <2>4. CASE j <= k
    <3>1. i \in 1..n /\ j \in 1..n /\ i <= k /\ i # j
      BY <1>1, <2>1, <2>3, <2>4
    <3> QED
      BY <1>2, <2>2, <2>4, <3>1
  <2>5. CASE i <= k /\ j = k + 1
    <3>1. i \in 1..n /\ ~(j <= k)
      BY <1>1, <2>1, <2>3, <2>5
    <3> QED
      BY <1>2, <2>2, <2>5, <3>1
  <2>6. CASE i <= k /\ j > k + 1
    <3>1. i \in 1..n /\ j - 1 \in 1..n /\ i # j - 1 /\ ~(j <= k) /\ j # k + 1
      BY <1>1, <2>1, <2>3, <2>6
    <3> QED
      BY <1>2, <2>2, <2>6, <3>1
  <2>7. CASE i = k + 1 /\ j > k + 1
    <3>1. j - 1 \in 1..n /\ ~(i <= k) /\ ~(j <= k) /\ j # k + 1
      BY <1>1, <2>1, <2>3, <2>7
    <3> QED
      BY <1>2, <2>2, <2>7, <3>1
  <2>8. CASE i > k + 1
    <3>1. /\ i - 1 \in 1..n /\ j - 1 \in 1..n /\ i - 1 # j - 1
          /\ ~(i <= k) /\ i # k + 1 /\ ~(j <= k) /\ j # k + 1
      BY <1>1, <2>1, <2>3, <2>8
    <3> QED
      BY <1>2, <2>2, <3>1
  <2> QED
    BY <2>1, <2>3, <2>4, <2>5, <2>6, <2>7, <2>8
<1> QED
  BY <1>2, <1>3, <1>4, <1>5 DEF n, u

\* The equation that defines Descending.
Sorts(f, s) ==
  f = [i \in 0..Len(s) |-> IF i = 0 THEN <<>> ELSE Inserted(f[i - 1], s[i])]

\* The sort yields the same numbers, the largest first.
LEMMA Sorting ==
  ASSUME NEW s \in Seq(Int)
  PROVE  /\ Falling(Descending(s)) /\ Len(Descending(s)) = Len(s)
         /\ Values(Descending(s)) = Values(s)
         /\ Single(s) => Single(Descending(s))
<1> DEFINE n == Len(s)
           T == {t \in Seq(Int) : Falling(t)}
           next == [i \in 1..n |-> [t \in T |-> Inserted(t, s[i])]]
<1>1. n \in Nat /\ \A i \in 1..n : s[i] \in Int
  OBVIOUS
<1>2. <<>> \in T /\ \A t : t \in T <=> Falling(t)
  BY DEF Falling
<1>3. \A t \in T, i \in 1..n : Inserted(t, s[i]) \in T
  BY <1>1, <1>2, InsertedFalls
<1>4. next \in [1..n -> [T -> T]]
  BY <1>3
<1> HIDE DEF T
<1>5. PICK g : Iterates(g, T, <<>>, next, n)
  <2> HIDE DEF next
  <2> QED
    BY <1>1, <1>2, <1>4, Iteration
<1>6. Sorts(g, s)
  <2>1. ASSUME NEW i \in 1..n PROVE g[i] = Inserted(g[i - 1], s[i])
    <3>1. i - 1 \in 0..n /\ g \in [0..n -> T] /\ g[i] = next[i][g[i - 1]]
      BY <1>1, <1>5 DEF Iterates
    <3>2. g[i - 1] \in T
      BY <3>1
    <3>3. next[i] = [t \in T |-> Inserted(t, s[i])]
      OBVIOUS
    <3> HIDE DEF next
    <3> QED
      BY <3>1, <3>2, <3>3
  <2>2. g[0] = <<>> /\ g = [i \in 0..n |-> g[i]]
    BY <1>5 DEF Iterates
  <2>3. \A i \in 0..n : i = 0 \/ i \in 1..n
    BY <1>1
  <2> HIDE DEF n
  <2> QED
    BY <2>1, <2>2, <2>3 DEF Sorts, n
<1> DEFINE f == CHOOSE f : Sorts(f, s)
<1>7. Sorts(f, s)
  BY <1>6
<1>8. Descending(s) = f[n]
  BY DEF Descending, Sorts
<1> HIDE DEF f
<1> DEFINE Done(i) == /\ Falling(f[i]) /\ Len(f[i]) = i /\ Values(f[i]) = {s[j] : j \in 1..i}
                      /\ Single(s) => Single(f[i])
           P == {i \in 0..n : Done(i)}
<1>9. 0 \in P
  <2>1. f[0] = <<>>
    BY <1>1, <1>7 DEF Sorts
  <2>2. <<>> \in Seq(Int) /\ Len(<<>>) = 0 /\ 1..0 = {}
    OBVIOUS
  <2>3. Falling(<<>>) /\ Values(<<>>) = {} /\ Single(<<>>)
    BY <2>2 DEF Falling, Values, Single
  <2>4. {s[j] : j \in 1..0} = {} /\ 0 \in 0..n
    BY <1>1, <2>2
  <2> QED
    BY <2>1, <2>2, <2>3, <2>4
<1>10. ASSUME NEW i \in 1..n, i - 1 \in P PROVE i \in P
  <2>1. i \in 0..n /\ i # 0 /\ s[i] \in Int /\ i \in Int /\ i - 1 \in Nat
    BY <1>1
  <2>2. f[i] = Inserted(f[i - 1], s[i])
    BY <1>7, <2>1 DEF Sorts
  <2>3. /\ Falling(f[i - 1]) /\ Len(f[i - 1]) = i - 1 /\ Values(f[i - 1]) = {s[j] : j \in 1..(i - 1)}
        /\ Single(s) => Single(f[i - 1])
    BY <1>10
  <2> HIDE DEF P, n, next
  <2>4. PICK t : t = f[i - 1]
    OBVIOUS
  <2>5. /\ Falling(Inserted(t, s[i])) /\ Len(Inserted(t, s[i])) = Len(t) + 1
        /\ Values(Inserted(t, s[i])) = Values(t) \cup {s[i]}
        /\ Single(t) /\ s[i] \notin Values(t) => Single(Inserted(t, s[i]))
    <3>1. Falling(t)
      BY <2>3, <2>4
    <3> QED
      BY <2>1, <3>1, InsertedFalls
  <2>6. Len(f[i]) = i
    BY <2>1, <2>2, <2>3, <2>4, <2>5
  <2>7. {s[j] : j \in 1..i} = {s[j] : j \in 1..(i - 1)} \cup {s[i]}
    BY <2>1
  <2>8. ASSUME Single(s) PROVE s[i] \notin Values(t)
    <3>1. \A j \in 1..(i - 1) : s[j] # s[i]
      <4>1. \A j \in 1..(i - 1) : j \in 1..Len(s) /\ i \in 1..Len(s) /\ j # i
        BY <2>1 DEF n
      <4> QED
        BY <2>8, <4>1 DEF Single
    <3> QED
      BY <2>3, <2>4, <3>1
  <2>9. /\ Falling(f[i]) /\ Values(f[i]) = {s[j] : j \in 1..i}
        /\ Single(s) => Single(f[i])
    BY <2>2, <2>3, <2>4, <2>5, <2>7, <2>8
  <2> QED
    BY <2>1, <2>6, <2>9 DEF P
<1>11. n \in P
  <2> HIDE DEF P, n
  <2>1. 0..n \subseteq P
    BY <1>1, <1>9, <1>10, UpTo
  <2> QED
    BY <1>1, <2>1
<1> QED
  BY <1>8, <1>11 DEF Values

\* One turn of the loop over the sorted indices, and the equation that defines
\* Shrunk.
Less(t, index) == IF index + 1 \in 1..Len(t) THEN RemoveAt(t, index + 1) ELSE t
Shrinks(f, list, order) ==
  f = [i \in 0..Len(order) |-> IF i = 0 THEN list
        ELSE IF order[i] + 1 \in 1..Len(f[i - 1])
             THEN RemoveAt(f[i - 1], order[i] + 1) ELSE f[i - 1]]

\* The loop has a result after every turn, and its values are lists.
LEMMA ShrunkIs ==
  ASSUME NEW T, NEW list \in Seq(T), NEW indices \in Seq(Int)
  PROVE  \E f \in [0..Len(indices) -> Seq(T)] :
           /\ f[0] = list
           /\ \A i \in 1..Len(indices) : f[i] = Less(f[i - 1], Descending(indices)[i])
           /\ Shrunk(list, indices) = f[Len(indices)]
<1> DEFINE order == Descending(indices)
           n == Len(order)
           next == [i \in 1..n |-> [t \in Seq(T) |-> Less(t, order[i])]]
<1>1. order \in Seq(Int) /\ n = Len(indices) /\ n \in Nat
  BY Sorting DEF Falling
<1>2. \A t \in Seq(T), i \in 1..n : Less(t, order[i]) \in Seq(T)
  BY Removed DEF Less
<1>3. next \in [1..n -> [Seq(T) -> Seq(T)]]
  BY <1>2
<1>4. PICK g : Iterates(g, Seq(T), list, next, n)
  <2> HIDE DEF next, n
  <2> QED
    BY <1>1, <1>3, Iteration
<1> HIDE DEF order
<1>5. Shrinks(g, list, order)
  <2>1. ASSUME NEW i \in 1..n PROVE g[i] = Less(g[i - 1], order[i])
    <3>0. g \in [0..n -> Seq(T)] /\ g[i] = next[i][g[i - 1]]
      <4> HIDE DEF next, n
      <4> QED BY <1>4 DEF Iterates
    <3>1. i - 1 \in 0..n /\ g \in [0..n -> Seq(T)] /\ g[i] = next[i][g[i - 1]]
      <4> HIDE DEF next
      <4> QED BY <1>1, <3>0
    <3>2. g[i - 1] \in Seq(T)
      BY <3>1
    <3>3. next[i] = [t \in Seq(T) |-> Less(t, order[i])]
      OBVIOUS
    <3> HIDE DEF next
    <3> QED
      BY <3>1, <3>2, <3>3
  <2>2. g[0] = list /\ g = [i \in 0..n |-> g[i]]
    BY <1>4 DEF Iterates
  <2>3. \A i \in 0..n : i = 0 \/ i \in 1..n
    BY <1>1
  <2> HIDE DEF n
  <2> QED
    BY <2>1, <2>2, <2>3 DEF Shrinks, Less, n
<1> DEFINE f == CHOOSE f : Shrinks(f, list, order)
<1>6. Shrinks(f, list, order)
  BY <1>5
<1>7. Shrunk(list, indices) = f[n]
  BY DEF Shrunk, Shrinks, order
<1> HIDE DEF f
<1>8. f[0] = list /\ \A i \in 1..n : f[i] = Less(f[i - 1], order[i])
  <2>1. 0 \in 0..n /\ \A i \in 1..n : i \in 0..n /\ i # 0
    BY <1>1
  <2> QED
    BY <1>6, <2>1 DEF Shrinks, Less
<1> DEFINE P == {i \in 0..n : f[i] \in Seq(T)}
<1>9. 0 \in P
  BY <1>1, <1>8
<1>10. ASSUME NEW i \in 1..n, i - 1 \in P PROVE i \in P
  <2>1. f[i] = Less(f[i - 1], order[i]) /\ f[i - 1] \in Seq(T) /\ i \in 0..n
    BY <1>1, <1>8, <1>10
  <2> QED
    BY <1>2, <2>1
<1>11. \A i \in 0..n : f[i] \in Seq(T)
  <2> HIDE DEF P, n
  <2>1. 0..n \subseteq P
    BY <1>1, <1>9, <1>10, UpTo
  <2> QED
    BY <2>1 DEF P
<1>12. f \in [0..n -> Seq(T)]
  <2>1. f = [i \in 0..n |-> f[i]]
    BY <1>6 DEF Shrinks
  <2> QED
    BY <1>11, <2>1
<1> QED
  BY <1>1, <1>7, <1>8, <1>12 DEF order

\* The loop of updatePlaylist does what its caller means: when no index is given
\* twice, removal from the largest index down leaves exactly the entries whose
\* positions were not given.
LEMMA ShrunkIsKept ==
  ASSUME NEW T, NEW list \in Seq(T), NEW indices \in Seq(Int), Single(indices)
  PROVE  Shrunk(list, indices) = Kept(list, {indices[i] + 1 : i \in 1..Len(indices)})
<1> DEFINE n == Len(indices)
           order == Descending(indices)
           Left(i) == {order[j] + 1 : j \in 1..i}
<1>1. /\ order \in Seq(Int) /\ Len(order) = n /\ n \in Nat /\ Single(order)
      /\ \A i, j \in 1..n : i <= j => order[i] >= order[j]
      /\ Values(order) = Values(indices)
  BY Sorting DEF Falling
<1>2. PICK f \in [0..n -> Seq(T)] :
        /\ f[0] = list
        /\ \A i \in 1..n : f[i] = Less(f[i - 1], order[i])
        /\ Shrunk(list, indices) = f[n]
  BY ShrunkIs
<1> HIDE DEF order
<1>3. \A i \in 1..n : order[i] \in Int
  BY <1>1
<1> HIDE DEF n
<1> DEFINE P == {i \in 0..n : f[i] = Kept(list, Left(i))}
<1>4. 0 \in P
  <2>1. Left(0) = {}
    OBVIOUS
  <2> HIDE DEF Left
  <2>2. f[0] = Kept(list, Left(0))
    BY <1>2, <2>1, KeptAll
  <2> QED
    BY <1>1, <2>2
<1>5. ASSUME NEW i \in 1..n, i - 1 \in P PROVE i \in P
  <2> DEFINE p == order[i] + 1
  <2>1. i \in 0..n /\ i \in Int /\ p \in Int /\ f[i - 1] = Kept(list, Left(i - 1))
    BY <1>1, <1>3, <1>5
  <2>2. Left(i) = Left(i - 1) \cup {p}
    BY <2>1
  <2>3. Left(i - 1) \in SUBSET Int /\ \A q \in Left(i - 1) : p < q
    <3>1. ASSUME NEW j \in 1..(i - 1) PROVE order[j] + 1 \in Int /\ p < order[j] + 1
      <4>1. j \in 1..n /\ j <= i /\ j # i
        BY <1>1, <2>1
      <4>2. order[j] >= order[i] /\ order[j] # order[i] /\ order[j] \in Int /\ order[i] \in Int
        BY <1>1, <1>3, <4>1 DEF Single
      <4> QED
        BY <4>2
    <3> QED
      BY <3>1
  <2>4. f[i] = IF p \in 1..Len(f[i - 1]) THEN RemoveAt(f[i - 1], p) ELSE f[i - 1]
    BY <1>2 DEF Less
  <2> HIDE DEF Left, p
  <2>5. CASE p \in 1..Len(list)
    <3>1. /\ p \in 1..Len(f[i - 1])
          /\ Kept(list, Left(i)) = RemoveAt(f[i - 1], p)
      BY <2>1, <2>2, <2>3, <2>5, KeptOneLess
    <3> QED
      BY <2>1, <2>4, <3>1
  <2>6. CASE p \notin 1..Len(list)
    <3>1. f[i - 1] \in Seq(T) /\ Len(f[i - 1]) <= Len(list)
      BY <2>1, KeptType
    <3>2. p \notin 1..Len(f[i - 1])
      BY <2>1, <2>6, <3>1
    <3>3. \A j \in 1..Len(list) : j \in Left(i) <=> j \in Left(i - 1)
      BY <2>2, <2>6
    <3>4. Kept(list, Left(i)) = Kept(list, Left(i - 1))
      BY <3>3, KeptSame
    <3> QED
      BY <2>1, <2>4, <3>2, <3>4
  <2> QED
    BY <2>5, <2>6
<1>6. f[n] = Kept(list, Left(n))
  <2> HIDE DEF P
  <2>1. 0..n \subseteq P
    BY <1>1, <1>4, <1>5, UpTo
  <2>2. n \in P
    BY <1>1, <2>1
  <2> QED
    BY <2>2 DEF P
<1>7. Left(n) = {indices[i] + 1 : i \in 1..Len(indices)}
  <2>1. Left(n) = {v + 1 : v \in Values(order)}
    BY <1>1 DEF Values
  <2>2. {indices[i] + 1 : i \in 1..Len(indices)} = {v + 1 : v \in Values(indices)}
    BY DEF Values
  <2> QED
    BY <1>1, <2>1, <2>2
<1> QED
  BY <1>2, <1>6, <1>7

-----------------------------------------------------------------------------
(* Types, tracks and what an update writes.                                *)

\* A list of tracks that exist, and no longer than lists are.
Filled(row) ==
  /\ row \in PlaylistRow /\ Len(row.tracks) <= MaxLength
  /\ \A i \in 1..Len(row.tracks) : row.tracks[i] \in tracks
Carries(q) ==
  /\ q.pc \in {"idle", "check", "checkTo", "read", "walk", "write", "done"}
  /\ q.kind \in Tasks \cup {"none"} /\ q.cursor \in Folder \cup {Root}
  /\ q.edit.add \in Seq(Track) /\ q.edit.remove \in Seq(Int) /\ q.read \in Seq(Track)
  /\ Mover(q) => \A f \in DOMAIN q.seen : q.seen[f] \in Folder \cup {Root}
Furnished ==
  /\ users \subseteq User /\ tracks \subseteq Track /\ overlap \in BOOLEAN
  /\ \A p \in Live(playlists) : Filled(playlists[p])
  /\ \A r \in Request : Carries(req[r])


\* A list that is accepted holds tracks that exist.
LEMMA SetTracksFills ==
  ASSUME IInv, Furnished, NEW p, NEW list \in Seq(Track), Len(list) <= MaxLength,
         SetTracks(p, list), UNCHANGED tracks
  PROVE  (\A l \in Live(playlists) : Filled(playlists[l]))'
<1>1. CASE UNCHANGED playlists
  BY <1>1 DEF Furnished, Filled, Live
<1>2. CASE /\ p \in Live(playlists) /\ Exist(list)
           /\ playlists' = [playlists EXCEPT ![p].tracks = list]
  <2>1. DOMAIN playlists = Playlist /\ p \in Playlist /\ playlists[p] \in PlaylistRow
    BY <1>2 DEF IInv, TreesStand, TableTypes, Furnished, Filled, Live
  <2>2a. PICK row : row = [playlists[p] EXCEPT !.tracks = list]
    OBVIOUS
  <2>2. row \in PlaylistRow /\ row.tracks = list
    BY <2>1, <2>2a DEF PlaylistRow
  <2>3. Filled(row)'
    BY <1>2, <2>2 DEF Filled, Exist
  <2>4. playlists' = [playlists EXCEPT ![p] = row]
    BY <1>2, <2>2a
  <2>5. \A l \in Playlist : playlists'[l] = IF l = p THEN row ELSE playlists[l]
    BY <2>1, <2>4
  <2>6. ASSUME NEW l \in Live(playlists') PROVE Filled(playlists[l])'
    <3>1. CASE l = p
      BY <2>1, <2>3, <2>5, <3>1 DEF Filled
    <3>2. CASE l # p
      <4>1. l \in Live(playlists) /\ playlists'[l] = playlists[l]
        BY <2>1, <2>4, <3>2 DEF Live
      <4> QED
        BY <4>1 DEF Furnished, Filled
    <3> QED
      BY <3>1, <3>2
  <2> QED
    BY <2>6
<1> QED
  BY <1>1, <1>2 DEF SetTracks

\* Every step leaves the rows of playlists filled.
LEMMA RowsStayFilled ==
  ASSUME IInv, Furnished, Next
  PROVE  /\ users' \subseteq User /\ tracks' \subseteq Track /\ overlap' \in BOOLEAN
         /\ (\A p \in Live(playlists) : Filled(playlists[p]))'
<1> DEFINE Rows == \A p \in Live(playlists) : Filled(playlists[p])
<1>0. DOMAIN playlists = Playlist /\ Rows
  BY DEF IInv, TreesStand, TableTypes, Furnished
<1>1. ASSUME UNCHANGED <<playlists, tracks>> PROVE Rows'
  BY <1>1 DEF Furnished, Filled, Live
<1>2. ASSUME NEW r \in Request, Ask(r) \/ Reads(r)
      PROVE  UNCHANGED <<users, tracks>> /\ overlap' \in BOOLEAN /\ Rows'
  <2>1. UNCHANGED <<users, playlists, tracks>>
    BY <1>2 DEF Ask, Reads, Check, CheckTo, ReadTree, Walk, ReadTracks, Fails, SameTables
  <2>2. overlap' \in BOOLEAN
    BY <1>2 DEF Ask, Reads, Check, CheckTo, ReadTree, Walk, ReadTracks, Fails, Furnished
  <2> QED
    BY <1>1, <2>1, <2>2
<1>3. ASSUME NEW r \in Request, HandlerStep(r), ~Reads(r)
      PROVE  UNCHANGED <<users, tracks, overlap>> /\ Rows'
  <2>0. UNCHANGED <<users, tracks, overlap>> /\ Typed(req[r]) /\ Carries(req[r])
    BY <1>3 DEF HandlerStep, Reads, CreateFolder, MoveFolder, DeleteFolder, CreatePlaylist,
       MovePlaylist, DeletePlaylist, ReplaceTracks, UpdatePlaylist, Writes, IInv, RequestTypes,
       Furnished
  <2>1. CASE UNCHANGED playlists
    BY <1>1, <2>0, <2>1
  <2>2. CASE DeleteFolder(r) /\ ~UNCHANGED playlists
    <3>1. PICK S : playlists' = [p \in Playlist |->
            IF p \in Live(playlists) THEN Unfiled(playlists[p], S) ELSE playlists[p]]
      BY <2>2 DEF DeleteFolder, DropFolder
    <3>2. ASSUME NEW p \in Live(playlists') PROVE Filled(playlists[p])'
      <4>1. p \in Live(playlists) /\ playlists'[p] = Unfiled(playlists[p], S)
        BY <1>0, <3>1 DEF Live
      <4>2. Filled(playlists[p])
        BY <1>0, <4>1
      <4> QED
        BY <2>0, <4>1, <4>2 DEF Filled, Unfiled, PlaylistRow
    <3> QED
      BY <2>0, <3>2
  <2>3. CASE CreatePlaylist(r) /\ ~UNCHANGED playlists
    <3>1. PICK p \in Playlist, list \in Lists :
            playlists' = IF req[r].user \in users /\ Exist(list)
              THEN [playlists EXCEPT ![p] = [owner |-> req[r].user, folder |-> Root, tracks |-> list]]
              ELSE playlists
      BY <2>3 DEF CreatePlaylist
    <3>2. PICK row : row = [owner |-> req[r].user, folder |-> Root, tracks |-> list]
      OBVIOUS
    <3>3. req[r].user \in users /\ Exist(list) /\ playlists' = [playlists EXCEPT ![p] = row]
      BY <2>3, <3>1, <3>2
    <3>4. row \in PlaylistRow /\ row.tracks = list /\ Len(list) <= MaxLength
      BY <3>2, <3>3, BoundsAssumption DEF Furnished, PlaylistRow
    <3>5. Filled(row)'
      BY <2>0, <3>3, <3>4 DEF Filled, Exist
    <3>6. ASSUME NEW l \in Live(playlists') PROVE Filled(playlists[l])'
      <4>1. CASE l = p
        BY <1>0, <3>3, <3>5, <4>1 DEF Filled
      <4>2. CASE l # p
        <5>1. l \in Live(playlists) /\ playlists'[l] = playlists[l]
          BY <1>0, <3>3, <4>2 DEF Live
        <5> QED
          BY <1>0, <2>0, <5>1 DEF Filled
      <4> QED
        BY <4>1, <4>2
    <3> QED
      BY <2>0, <3>6
  <2>4. CASE MovePlaylist(r) /\ ~UNCHANGED playlists
    <3> DEFINE p == req[r].id
    <3>1. p \in Live(playlists) /\ playlists' = [playlists EXCEPT ![p].folder = req[r].to]
      BY <2>4 DEF MovePlaylist
    <3>2. Filled(playlists[p]) /\ req[r].to \in Folder \cup {Root}
      BY <1>0, <2>0, <3>1 DEF Typed
    <3>3. ASSUME NEW l \in Live(playlists') PROVE Filled(playlists[l])'
      <4>1. CASE l = p
        BY <1>0, <2>0, <3>1, <3>2, <4>1 DEF Filled, PlaylistRow
      <4>2. CASE l # p
        <5>1. l \in Live(playlists) /\ playlists'[l] = playlists[l]
          BY <1>0, <3>1, <4>2 DEF Live
        <5> QED
          BY <1>0, <2>0, <5>1 DEF Filled
      <4> QED
        BY <4>1, <4>2
    <3> QED
      BY <2>0, <3>3
  <2>5. CASE DeletePlaylist(r) /\ ~UNCHANGED playlists
    <3>1. \A l \in Live(playlists') : l \in Live(playlists) /\ playlists'[l] = playlists[l]
      BY <1>0, <2>5 DEF DeletePlaylist, Live
    <3> QED
      BY <1>0, <2>0, <3>1 DEF Filled
  <2>6. CASE ReplaceTracks(r)
    <3>1. PICK list \in Lists : SetTracks(req[r].id, list)
      BY <2>6 DEF ReplaceTracks
    <3> QED
      BY <2>0, <3>1, BoundsAssumption, SetTracksFills
  <2>7. CASE UpdatePlaylist(r) /\ ~UNCHANGED playlists
    <3> DEFINE list == Edited(req[r].read, req[r].edit)
    <3>1. Len(list) <= MaxLength /\ SetTracks(req[r].id, list)
      BY <2>7 DEF UpdatePlaylist
    <3>2. list \in Seq(Track)
      <4>1. Shrunk(req[r].read, req[r].edit.remove) \in Seq(Track)
        <5> DEFINE old == req[r].read
                   gone == req[r].edit.remove
        <5>1. old \in Seq(Track) /\ gone \in Seq(Int)
          BY <2>0 DEF Carries
        <5> HIDE DEF old, gone
        <5>2. PICK f \in [0..Len(gone) -> Seq(Track)] : Shrunk(old, gone) = f[Len(gone)]
          BY <5>1, ShrunkIs
        <5>3. Len(gone) \in Nat
          BY <5>1
        <5>4. Shrunk(old, gone) \in Seq(Track)
          BY <5>2, <5>3
        <5> QED
          BY <5>4 DEF old, gone
      <4> QED
        BY <2>0, <4>1, ConcatProperties DEF Carries, Edited
    <3> HIDE DEF list
    <3> QED
      BY <2>0, <3>1, <3>2, SetTracksFills
  <2> QED
    BY <1>3, <2>0, <2>1, <2>2, <2>3, <2>4, <2>5, <2>6, <2>7 DEF HandlerStep, Reads, CreateFolder,
       MoveFolder
<1>4. ASSUME NEW t \in Track, DropTrack(t)
      PROVE  UNCHANGED <<users, overlap>> /\ tracks' \subseteq Track /\ Rows'
  <2>1. ASSUME NEW p \in Live(playlists') PROVE Filled(playlists[p])'
    <3>1. p \in Live(playlists)
          /\ playlists'[p] = [playlists[p] EXCEPT !.tracks = Without(playlists[p].tracks, t)]
      BY <1>0, <1>4 DEF DropTrack, Live
    <3>2. PICK list : list = playlists[p].tracks
      OBVIOUS
    <3>3. Filled(playlists[p]) /\ list \in Seq(Track) /\ Len(list) <= MaxLength /\ Len(list) \in Nat
      BY <1>0, <3>1, <3>2 DEF Filled, PlaylistRow
    <3>4. PICK kept : kept = Without(list, t)
      OBVIOUS
    <3>5. kept \in Seq(Track) /\ Len(kept) <= Len(list) /\ Len(kept) \in Nat
      BY <3>3, <3>4, KeptType DEF Without
    <3>6. ASSUME NEW i \in 1..Len(kept) PROVE kept[i] \in tracks \ {t}
      <4>0. kept[i] \in Values(Kept(list, {m \in 1..Len(list) : list[m] = t}))
        BY <3>4 DEF Without, Values
      <4>1. PICK j \in (1..Len(list)) \ {m \in 1..Len(list) : list[m] = t} : kept[i] = list[j]
        BY <3>3, <4>0, KeptValues
      <4> QED
        BY <3>2, <3>3, <4>1 DEF Filled
    <3>7. playlists'[p] \in PlaylistRow /\ playlists'[p].tracks = kept
      BY <3>1, <3>2, <3>3, <3>4, <3>5 DEF Filled, PlaylistRow
    <3>8. tracks' = tracks \ {t} /\ MaxLength \in Nat
      BY <1>4, BoundsAssumption DEF DropTrack
    <3>9. Len(kept) <= MaxLength
      BY <3>3, <3>5, <3>8
    <3> QED
      BY <3>6, <3>7, <3>8, <3>9 DEF Filled
  <2>2. tracks' \subseteq Track /\ UNCHANGED <<users, overlap>>
    BY <1>4 DEF DropTrack, Furnished
  <2> QED
    BY <2>1, <2>2
<1>5. ASSUME NEW u \in User, DropUser(u)
      PROVE  UNCHANGED <<tracks, overlap>> /\ users' \subseteq User /\ Rows'
  <2>1. \A l \in Live(playlists') : l \in Live(playlists) /\ playlists'[l] = playlists[l]
    BY <1>0, <1>5 DEF DropUser, Live
  <2>2. UNCHANGED <<tracks, overlap>> /\ users' \subseteq User
    BY <1>5 DEF DropUser, Furnished
  <2> QED
    BY <1>0, <2>1, <2>2 DEF Filled
<1>6. CASE UNCHANGED vars
  BY <1>1, <1>6 DEF vars, Furnished
<1> QED
  BY <1>2, <1>3, <1>4, <1>5, <1>6 DEF Next, Rest, Furnished

\* A request that waits or is answered carries nothing.
LEMMA NothingCarried ==
  Carries(Idle) /\ Carries([Idle EXCEPT !.pc = "done"])
<1>1. ASSUME NEW q, q.pc \in {"idle", "done"}, q.kind = "none", q.cursor = Root,
             q.edit = NoEdit, q.read = <<>>
      PROVE  Carries(q)
  <2>1. NoEdit.add = <<>> /\ NoEdit.remove = <<>>
    BY DEF NoEdit
  <2>2. <<>> \in Seq(Track) /\ <<>> \in Seq(Int)
    OBVIOUS
  <2> QED
    BY <1>1, <2>1, <2>2 DEF Carries, Mover
<1>2. PICK q : q = [Idle EXCEPT !.pc = "done"]
  OBVIOUS
<1>3. /\ Idle.pc = "idle" /\ Idle.kind = "none" /\ Idle.cursor = Root
      /\ Idle.edit = NoEdit /\ Idle.read = <<>>
      /\ q.pc = "done" /\ q.kind = "none" /\ q.cursor = Root /\ q.edit = NoEdit /\ q.read = <<>>
  BY <1>2 DEF Idle
<1>4. Carries(Idle)
  BY <1>1, <1>3
<1>5. Carries(q)
  BY <1>1, <1>3
<1> QED
  BY <1>2, <1>4, <1>5

\* Every step leaves what the requests carry typed.
LEMMA RequestsCarry ==
  ASSUME IInv, Furnished, Next
  PROVE  \A r \in Request : Carries(req'[r])
<1>0. DOMAIN req = Request /\ \A r \in Request : Typed(req[r]) /\ Carries(req[r])
  BY DEF IInv, RequestTypes, Furnished
<1>1. Carries([Idle EXCEPT !.pc = "done"])
  BY NothingCarried
<1>2. ASSUME NEW r \in Request, Ask(r)
      PROVE  \E q : req' = [req EXCEPT ![r] = q] /\ Carries(q)
  <2>1. PICK kind \in Kinds, u \in User, to \in Folder \cup {Root}, edit \in Edits :
          \E id \in Named(kind) : req' = [req EXCEPT ![r] = Asked(kind, u, id, to, edit)]
    BY <1>2 DEF Ask
  <2>2. PICK id \in Named(kind) : req' = [req EXCEPT ![r] = Asked(kind, u, id, to, edit)]
    BY <2>1
  <2>3. kind = "moveFolder" => id # Nothing
    BY NamesAssumption DEF Named
  <2>4. Carries(Asked(kind, u, id, to, edit))
    BY <2>3, BoundsAssumption, KindsAssumption DEF Asked, Carries, Idle, Mover, Tasks
  <2> QED
    BY <2>2, <2>4
<1>3. ASSUME NEW r \in Request, HandlerStep(r)
      PROVE  \E q : req' = [req EXCEPT ![r] = q] /\ Carries(q)
  <2>0. DOMAIN req[r] = DOMAIN Idle /\ Typed(req[r]) /\ Carries(req[r])
    BY <1>0 DEF Typed
  <2>1. CASE Answer(r)
    BY <1>1, <2>1 DEF Answer
  <2>2. ASSUME NEW pc \in {"check", "checkTo", "read", "write"}, Goto(r, pc),
               pc = "write" /\ ~Mover(req[r]) => req[r].kind # "moveFolder"
        PROVE  \E q : req' = [req EXCEPT ![r] = q] /\ Carries(q)
    <3>1. PICK q : q = [req[r] EXCEPT !.pc = pc]
      OBVIOUS
    <3>2. Carries(q)
      BY <2>0, <2>2, <3>1 DEF Carries, Mover, Idle
    <3> QED
      BY <2>2, <3>1, <3>2 DEF Goto
  <2>3. CASE Check(r) /\ ~Answer(r)
    <3> DEFINE pc == IF req[r].kind \in {"moveFolder", "movePlaylist"} /\ req[r].to # Root
                     THEN "checkTo"
                     ELSE IF req[r].kind = "moveFolder" \/ EditsTracks(req[r]) THEN "read"
                     ELSE "write"
    <3>1. Goto(r, pc)
      BY <2>3 DEF Check
    <3>2. pc \in {"check", "checkTo", "read", "write"} /\ (pc = "write" => req[r].kind # "moveFolder")
      OBVIOUS
    <3> HIDE DEF pc
    <3> QED
      BY <2>2, <3>1, <3>2
  <2>4. CASE CheckTo(r) /\ ~Answer(r)
    BY <2>2, <2>4 DEF CheckTo
  <2>5. CASE ReadTree(r)
    <3>1. PICK q : q = [req[r] EXCEPT !.pc = "walk", !.cursor = req[r].to,
            !.seen = [f \in {g \in Folder : Mine(folders, g, req[r].user)} |-> folders[f].parent]]
      OBVIOUS
    <3>2. req' = [req EXCEPT ![r] = q]
      BY <2>5, <3>1 DEF ReadTree
    <3>3. \A f \in Folder : Mine(folders, f, req[r].user) => folders[f].parent \in Folder \cup {Root}
      BY DEF Mine, Live, IInv, TreesStand, TableTypes, FolderRow
    <3>4. /\ q.pc = "walk" /\ q.cursor \in Folder \cup {Root} /\ q.kind = req[r].kind
          /\ q.edit = req[r].edit /\ q.read = req[r].read
          /\ q.seen = [f \in {g \in Folder : Mine(folders, g, req[r].user)} |-> folders[f].parent]
      BY <2>0, <3>1 DEF Idle, Typed
    <3>5. Carries(q)
      BY <2>0, <3>3, <3>4 DEF Carries
    <3> QED
      BY <3>2, <3>5
  <2>6. CASE Walk(r) /\ ~Answer(r)
    <3>0. Mover(req[r])
      BY <2>6 DEF Walk, At, Mover
    <3>1. CASE Goto(r, "write")
      BY <2>2, <3>0, <3>1
    <3>2. CASE ~Goto(r, "write")
      <4> DEFINE c == IF req[r].cursor \in DOMAIN req[r].seen
                      THEN req[r].seen[req[r].cursor] ELSE Root
      <4>1. req' = [req EXCEPT ![r].cursor = c]
        BY <2>6, <3>2 DEF Walk
      <4>2. c \in Folder \cup {Root}
        BY <2>0, <3>0 DEF Carries
      <4> HIDE DEF c
      <4>3. PICK q : q = [req[r] EXCEPT !.cursor = c]
        OBVIOUS
      <4>4. Carries(q)
        BY <2>0, <4>2, <4>3 DEF Carries, Mover, Idle
      <4> QED
        BY <4>1, <4>3, <4>4
    <3> QED
      BY <3>1, <3>2
  <2>7. CASE ReadTracks(r)
    <3> DEFINE list == IF req[r].id \in Live(playlists) THEN playlists[req[r].id].tracks ELSE <<>>
    <3>1. list \in Seq(Track)
      BY DEF Furnished, Filled, PlaylistRow
    <3>2. req' = [req EXCEPT ![r].pc = "write", ![r].read = list] /\ req[r].kind = "updatePlaylist"
      BY <2>7 DEF ReadTracks, At
    <3> HIDE DEF list
    <3>3. PICK q : q = [req[r] EXCEPT !.pc = "write", !.read = list]
      OBVIOUS
    <3>4. Carries(q)
      BY <2>0, <3>1, <3>2, <3>3 DEF Carries, Mover, Idle
    <3> QED
      BY <3>2, <3>3, <3>4
  <2> QED
    BY <1>3, <2>1, <2>3, <2>4, <2>5, <2>6, <2>7 DEF HandlerStep, Fails, CreateFolder, MoveFolder,
       DeleteFolder, CreatePlaylist, MovePlaylist, DeletePlaylist, ReplaceTracks,
       UpdatePlaylist, Writes
<1>4. CASE UNCHANGED req
  BY <1>0, <1>4
<1> QED
  BY <1>0, <1>2, <1>3, <1>4 DEF Next, Rest, DropTrack, DropUser, vars

\* In every run lists and requests hold what they are meant to.
LEMMA StaysFurnished == Spec => []Furnished
<1>1. Init => Furnished
  <2> SUFFICES ASSUME Init PROVE Furnished
    OBVIOUS
  <2>1. PICK s \in Starts : folders = s.folders /\ playlists = s.playlists
    BY DEF Init
  <2>2. ASSUME NEW p \in Live(playlists) PROVE Filled(playlists[p])
    <3>1. playlists[p] \in PlaylistRow /\ Len(playlists[p].tracks) <= MaxLength
      BY <2>1, StartsAssumption DEF Live
    <3> QED
      BY <3>1 DEF Filled, Init, PlaylistRow
  <2>3. Carries(Idle)
    BY NothingCarried
  <2> QED
    BY <2>2, <2>3 DEF Init, Furnished
<1>2. IInv /\ Furnished /\ [Next]_vars => Furnished'
  <2> SUFFICES ASSUME IInv, Furnished, [Next]_vars PROVE Furnished'
    OBVIOUS
  <2>1. CASE Next
    <3>1. \A r \in Request : Carries(req[r])'
      BY <2>1, RequestsCarry DEF Carries, Mover
    <3> QED
      BY <2>1, <3>1, RowsStayFilled DEF Furnished
  <2>2. CASE UNCHANGED vars
    BY <2>2 DEF vars, Furnished, Filled, Live, Carries, Mover
  <2> QED
    BY <2>1, <2>2
<1> QED
  BY <1>1, <1>2, Inductive, PTL DEF Spec

\* Tables and requests hold what they are meant to, for any requests.
THEOREM Typing == Spec => []TypeOK
<1>1. IInv /\ Furnished => TypeOK
  <2> SUFFICES ASSUME IInv, Furnished PROVE TypeOK
    OBVIOUS
  <2>1. folders \in [Folder -> FolderRow \cup {Unborn, Gone}] /\ DOMAIN playlists = Playlist
    BY DEF IInv, TreesStand, TableTypes
  <2>2. \A p \in Playlist : playlists[p] \in {Unborn, Gone} \/
          /\ playlists[p] \in PlaylistRow
          /\ Len(playlists[p].tracks) <= MaxLength
    BY <2>1 DEF Furnished, Filled, Live
  <2>3. \A r \in Request :
          /\ req[r].pc \in {"idle", "check", "checkTo", "read", "walk", "write", "done"}
          /\ req[r].kind \in Tasks \cup {"none"} /\ req[r].to \in Folder \cup {Root}
          /\ req[r].cursor \in Folder \cup {Root}
    BY DEF Furnished, Carries, IInv, RequestTypes, Typed
  <2> QED
    BY <2>1, <2>2, <2>3 DEF TypeOK, Furnished
<1> QED
  BY <1>1, Inductive, StaysFurnished, PTL

\* However old the list is that updatePlaylist writes back, and whatever the
\* library deletes meanwhile, no playlist holds a track that is gone: the
\* references of playlist_tracks refuse it.
THEOREM OnlyTracksThatExist == Spec => []TracksExist
<1>1. Furnished => TracksExist
  <2> SUFFICES ASSUME Furnished, NEW l \in Live(playlists), NEW i \in DOMAIN playlists[l].tracks
               PROVE  playlists[l].tracks[i] \in tracks
    BY DEF TracksExist
  <2>1. Filled(playlists[l]) /\ playlists[l].tracks \in Seq(Track)
    BY DEF Furnished, Filled, PlaylistRow
  <2> QED
    BY <2>1 DEF Filled
<1> QED
  BY <1>1, StaysFurnished, PTL

\* An update that answers has written exactly the list it read without the
\* positions it was given, and what it was given behind them, or nothing; for
\* every list and all indices, none given twice (update_playlist of
\* api/playlist.rs).
THEOREM UpdatesEdit == Spec => UpdateEditsWhatItRead
<1> DEFINE A(r) ==
      At(r, {"updatePlaylist"}, "write") /\ IsInjective(req[r].edit.remove)
      /\ req'[r].pc = "done" =>
       \/ playlists' = playlists
       \/ playlists'[req[r].id].tracks = KeptBy(req[r].read, req[r].edit) \o req[r].edit.add
<1>1. IInv /\ Furnished /\ [Next]_vars => [\A r \in Request : A(r)]_vars
  <2> SUFFICES ASSUME IInv, Furnished, Next, NEW r \in Request,
                      At(r, {"updatePlaylist"}, "write"), IsInjective(req[r].edit.remove),
                      req'[r].pc = "done", playlists' # playlists
               PROVE  playlists'[req[r].id].tracks =
                        KeptBy(req[r].read, req[r].edit) \o req[r].edit.add
    OBVIOUS
  <2>1. UpdatePlaylist(r)
    <3>0. DOMAIN req = Request
      BY DEF IInv, RequestTypes
    <3>1. ASSUME NEW s \in Request \ {r}, Ask(s) \/ HandlerStep(s) PROVE req'[r] = req[r]
      BY <3>0, <3>1 DEF Ask, HandlerStep, Check, CheckTo, ReadTree, Walk, ReadTracks, Fails,
         CreateFolder, MoveFolder, DeleteFolder, CreatePlaylist, MovePlaylist, DeletePlaylist,
         ReplaceTracks, UpdatePlaylist, Writes, Answer, Goto
    <3>2. ~(Ask(r) \/ Check(r) \/ CheckTo(r) \/ ReadTree(r) \/ Walk(r) \/ ReadTracks(r) \/ Fails(r))
      BY DEF Ask, Check, CheckTo, ReadTree, Walk, ReadTracks, Fails, SameTables
    <3>3. ~(CreateFolder(r) \/ MoveFolder(r) \/ DeleteFolder(r) \/ CreatePlaylist(r)
            \/ MovePlaylist(r) \/ DeletePlaylist(r) \/ ReplaceTracks(r))
      BY DEF CreateFolder, MoveFolder, DeleteFolder, CreatePlaylist, MovePlaylist,
         DeletePlaylist, ReplaceTracks, Writes, At
    <3>4. ~UNCHANGED req
      BY DEF At
    <3> QED
      BY <3>1, <3>2, <3>3, <3>4 DEF Next, HandlerStep, Rest, DropTrack, DropUser, vars, At
  <2> DEFINE list == req[r].read
             indices == req[r].edit.remove
  <2>2. list \in Seq(Track) /\ indices \in Seq(Int)
    BY DEF Furnished, Carries
  <2>3. Single(indices)
    BY <2>2 DEF IsInjective, Single
  <2>4. Shrunk(list, indices) = KeptBy(list, req[r].edit)
    BY <2>2, <2>3, ShrunkIsKept DEF KeptBy
  <2>5. SetTracks(req[r].id, Edited(list, req[r].edit))
    BY <2>1 DEF UpdatePlaylist
  <2>6. playlists'[req[r].id].tracks = Edited(list, req[r].edit)
    <3>1. /\ req[r].id \in Live(playlists)
          /\ playlists' = [playlists EXCEPT ![req[r].id].tracks = Edited(list, req[r].edit)]
      BY <2>5 DEF SetTracks
    <3>2. req[r].id \in DOMAIN playlists /\ playlists[req[r].id] \in PlaylistRow
      BY <3>1 DEF Live, Furnished, Filled
    <3> QED
      BY <3>1, <3>2 DEF PlaylistRow
  <2> QED
    BY <2>4, <2>6 DEF Edited
<1>2. IInv /\ Furnished /\ [Next]_vars => [\A r \in Request : A(r)]_vars
  BY <1>1
<1> QED
  BY <1>2, Inductive, StaysFurnished, PTL DEF Spec, UpdateEditsWhatItRead
=============================================================================
