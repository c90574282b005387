---------------------------- MODULE PlaylistTree ----------------------------
(***************************************************************************)
(* Playlists and their folders (server/src/index/repo_playlist.rs), as the *)
(* handlers of server/src/api/playlist.rs and api/ext/playlist_tree.rs     *)
(* change them.  A handler checks and reads with queries of their own and  *)
(* writes with one statement or transaction at the end: no lock and no     *)
(* transaction spans its queries, so the requests of one user interleave.  *)
(*                                                                         *)
(* Names, comments and dates are left out.  Ids are never reused.  Every   *)
(* query of a handler may fail, and the handler then answers an error.     *)
(***************************************************************************)
EXTENDS Integers, Sequences, FiniteSets, SequencesExt

CONSTANTS
  User,      \* the owners of trees
  Folder,    \* ids of folders
  Playlist,  \* ids of playlists
  Track,     \* ids of tracks
  Request,   \* requests, each handled once
  Kinds,     \* the requests enabled in a run
  Lists,     \* the contents a playlist may be given
  Edits,     \* edits of updatePlaylist: tracks to add, indices to remove
  Starts,    \* the trees and playlists a run may start with
  MaxLength, \* bound: tracks in a playlist
  Root,      \* no parent
  Nothing

VARIABLES
  users,      \* the rows of users
  folders,    \* folders[f]: its owner and its parent
  playlists,  \* playlists[p]: its owner, its folder and its tracks
  tracks,     \* the rows of tracks
  req,        \* req[r]: the local state of the handler of r
  overlap     \* history: two moves of folders had read the tree at once

vars == <<users, folders, playlists, tracks, req, overlap>>

\* An id that was not handed out yet, and a deleted row.
Unborn == [row |-> "unborn"]
Gone == [row |-> "gone"]
Live(table) == {i \in DOMAIN table : table[i] \notin {Unborn, Gone}}
Mine(table, i, u) == i \in Live(table) /\ table[i].owner = u
FolderRow == [owner : User, parent : Folder \cup {Root}]
PlaylistRow == [owner : User, folder : Folder \cup {Root}, tracks : Seq(Track)]

\* Folders lie in folders of their owner, and so do playlists.
OwnTrees(fs, ps) ==
  /\ \A f \in Live(fs) : fs[f].parent = Root \/ Mine(fs, fs[f].parent, fs[f].owner)
  /\ \A p \in Live(ps) : ps[p].folder = Root \/ Mine(fs, ps[p].folder, ps[p].owner)

\* No folder lies below itself: every set of folders has one whose parent is
\* not in the set.
Acyclic(fs) ==
  \A S \in SUBSET Live(fs) : S # {} => \E f \in S : fs[f].parent \notin S

ASSUME BoundsAssumption ==
  /\ MaxLength \in Nat
  /\ \A list \in Lists : list \in Seq(Track) /\ Len(list) <= MaxLength
  /\ \A edit \in Edits : edit.add \in Seq(Track) /\ edit.remove \in Seq(Int)
ASSUME NamesAssumption ==
  /\ Root \notin Folder /\ Nothing \notin Folder \cup Playlist
  /\ Folder \cap Playlist = {}
ASSUME StartsAssumption ==
  \A s \in Starts :
    /\ s.folders \in [Folder -> FolderRow \cup {Unborn, Gone}]
    /\ s.playlists \in [Playlist -> PlaylistRow \cup {Unborn, Gone}]
    /\ \A p \in Live(s.playlists) : Len(s.playlists[p].tracks) <= MaxLength
    /\ OwnTrees(s.folders, s.playlists) /\ Acyclic(s.folders)

Tasks == {"createFolder", "deleteFolder", "moveFolder", "createPlaylist", "replaceTracks",
          "updatePlaylist", "deletePlaylist", "movePlaylist"}
ASSUME KindsAssumption == Kinds \subseteq Tasks
NoEdit == [add |-> <<>>, remove |-> <<>>]
Idle == [pc |-> "idle", kind |-> "none", user |-> Nothing, id |-> Nothing, to |-> Root,
         edit |-> NoEdit, seen |-> Nothing, cursor |-> Root,
         read |-> <<>>]

TypeOK ==
  /\ users \subseteq User
  /\ folders \in [Folder -> FolderRow \cup {Unborn, Gone}]
  /\ \A p \in Playlist : playlists[p] \in {Unborn, Gone} \/
       /\ playlists[p] \in PlaylistRow
       /\ Len(playlists[p].tracks) <= MaxLength
  /\ tracks \subseteq Track
  /\ \A r \in Request :
       /\ req[r].pc \in {"idle", "check", "checkTo", "read", "walk", "write", "done"}
       /\ req[r].kind \in Tasks \cup {"none"} /\ req[r].to \in Folder \cup {Root}
       /\ req[r].cursor \in Folder \cup {Root}
  /\ overlap \in BOOLEAN

Init ==
  /\ \E s \in Starts : folders = s.folders /\ playlists = s.playlists
  /\ users = User /\ tracks = Track
  /\ req = [r \in Request |-> Idle]
  /\ overlap = FALSE
-----------------------------------------------------------------------------
(* What the tables do.                                                     *)

\* A set of folders with everything below it.
Closed(S) == \A f \in Live(folders) : folders[f].parent \in S => f \in S
\* Mutant: the cascade ends with the folders right below.
Subtree_Children(f) == {g \in Live(folders) : g = f \/ folders[g].parent = f}
\* The rows ON DELETE CASCADE takes with folder f.
Subtree(f) == {g \in Live(folders) : \A S \in SUBSET Live(folders) : f \in S /\ Closed(S) => g \in S}

\* Mutant: the reference goes on naming the row that was there.
Unfiled_Tombstone(row, S) == IF row.folder \in S THEN [row EXCEPT !.folder = Gone] ELSE row
\* ON DELETE SET NULL of playlists.folder_id.
Unfiled(row, S) == IF row.folder \in S THEN [row EXCEPT !.folder = Root] ELSE row

DropFolder(f) ==
  LET S == Subtree(f) IN
  /\ folders' = [g \in Folder |-> IF g \in S THEN Gone ELSE folders[g]]
  /\ playlists' = [p \in Playlist |->
       IF p \in Live(playlists) THEN Unfiled(playlists[p], S) ELSE playlists[p]]

\* Mutant: a missing track is no error.
Exist_Unchecked(list) == Len(list) >= 0
\* The references of a playlist's tracks, all or nothing.
Exist(list) == \A i \in 1..Len(list) : list[i] \in tracks

\* The entries of a list outside a set of positions, in order.
Kept(list, S) ==
  LET kept[i \in 0..Len(list)] ==
        IF i = 0 THEN <<>> ELSE IF i \in S THEN kept[i - 1] ELSE Append(kept[i - 1], list[i])
  IN kept[Len(list)]
Without(list, t) == Kept(list, {i \in 1..Len(list) : list[i] = t})

\* Indices from the largest down: each goes in behind those not smaller.
Inserted(s, x) ==
  LET k == CHOOSE k \in 0..Len(s) : \A j \in 1..Len(s) : j <= k <=> s[j] >= x
  IN InsertAt(s, k + 1, x)
Descending(s) ==
  LET sorted[i \in 0..Len(s)] == IF i = 0 THEN <<>> ELSE Inserted(sorted[i - 1], s[i])
  IN sorted[Len(s)]

\* Mutant: the indices are removed in the order they came.
Shrunk_Ascending(list, indices) ==
  LET after[i \in 0..Len(indices)] ==
        IF i = 0 THEN list
        ELSE IF indices[i] + 1 \in 1..Len(after[i - 1])
             THEN RemoveAt(after[i - 1], indices[i] + 1) ELSE after[i - 1]
  IN after[Len(indices)]
\* updatePlaylist removes from the largest index down; one that is out of
\* range is ignored.
Shrunk(list, indices) ==
  LET order == Descending(indices)
      after[i \in 0..Len(order)] ==
        IF i = 0 THEN list
        ELSE IF order[i] + 1 \in 1..Len(after[i - 1])
             THEN RemoveAt(after[i - 1], order[i] + 1) ELSE after[i - 1]
  IN after[Len(order)]
-----------------------------------------------------------------------------
(* The handlers.                                                           *)

At(r, kinds, pc) == req[r].kind \in kinds /\ req[r].pc = pc
Goto(r, pc) == req' = [req EXCEPT ![r].pc = pc]
Answer(r) == req' = [req EXCEPT ![r] = [Idle EXCEPT !.pc = "done"]]
SameTables == UNCHANGED <<users, folders, playlists, tracks>>

\* The rows a request of this kind may name.
Named(kind) ==
  CASE kind \in {"moveFolder", "deleteFolder"} -> Folder
    [] kind \in {"createFolder", "createPlaylist"} -> {Nothing}
    [] OTHER -> Playlist

\* The kinds of requests that may name a folder to put something into.
Parented == {"createFolder", "moveFolder", "movePlaylist"}

\* The handler of a request before its first query; creations without a parent
\* write at once.
Asked(kind, u, id, to, edit) == [Idle EXCEPT
  !.kind = kind, !.user = u, !.id = id, !.to = to, !.edit = edit,
  !.pc = IF id # Nothing THEN "check" ELSE IF to # Root THEN "checkTo" ELSE "write"]

Ask(r) ==
  /\ req[r].pc = "idle"
  /\ \E kind \in Kinds, u \in User, to \in Folder \cup {Root}, edit \in Edits :
     \E id \in Named(kind) :
       /\ kind \notin Parented => to = Root
       /\ kind # "updatePlaylist" => edit = NoEdit
       /\ req' = [req EXCEPT ![r] = Asked(kind, u, id, to, edit)]
  /\ SameTables /\ UNCHANGED overlap

\* updatePlaylist leaves the tracks alone when it only changes name or comment.
EditsTracks(q) == q.kind = "updatePlaylist" /\ (q.edit.add # <<>> \/ q.edit.remove # <<>>)

\* owned_folder, owned_playlist: what is not the user's own is not found.
Check(r) ==
  /\ req[r].pc = "check"
  /\ LET q == req[r]
         mine == IF q.id \in Folder THEN Mine(folders, q.id, q.user)
                 ELSE Mine(playlists, q.id, q.user)
     IN IF ~mine THEN Answer(r)
        ELSE Goto(r, IF q.kind \in {"moveFolder", "movePlaylist"} /\ q.to # Root THEN "checkTo"
                     ELSE IF q.kind = "moveFolder" \/ EditsTracks(q) THEN "read"
                     ELSE "write")
  /\ SameTables /\ UNCHANGED overlap

\* Mutant: anybody's folder will do as a parent.
CheckTo_Anyones(r) ==
  /\ req[r].pc = "checkTo"
  /\ IF req[r].to \in Live(folders)
     THEN Goto(r, IF req[r].kind = "moveFolder" THEN "read" ELSE "write") ELSE Answer(r)
  /\ SameTables /\ UNCHANGED overlap
CheckTo(r) ==
  /\ req[r].pc = "checkTo"
  /\ IF Mine(folders, req[r].to, req[r].user)
     THEN Goto(r, IF req[r].kind = "moveFolder" THEN "read" ELSE "write") ELSE Answer(r)
  /\ SameTables /\ UNCHANGED overlap

\* moveFolder lists the folders of the user and then walks up from the parent.
ReadTree(r) ==
  /\ At(r, {"moveFolder"}, "read")
  /\ req' = [req EXCEPT ![r].pc = "walk", ![r].cursor = req[r].to,
       ![r].seen = [f \in {g \in Folder : Mine(folders, g, req[r].user)} |-> folders[f].parent]]
  /\ overlap' = (overlap \/ \E q \in Request \ {r} : At(q, {"moveFolder"}, "walk")
                                                    \/ At(q, {"moveFolder"}, "write"))
  /\ SameTables

\* Mutant: the walk looks at the parent alone.
Walk_OneStep(r) ==
  /\ At(r, {"moveFolder"}, "walk")
  /\ IF req[r].cursor = req[r].id THEN Answer(r) ELSE Goto(r, "write")
  /\ SameTables /\ UNCHANGED overlap
\* Mutant: a folder that is not listed does not end the walk.
Walk_UnlistedStays(r) ==
  /\ At(r, {"moveFolder"}, "walk")
  /\ LET q == req[r] IN
     IF q.cursor = Root THEN Goto(r, "write")
     ELSE IF q.cursor = q.id THEN Answer(r)
     ELSE req' = [req EXCEPT ![r].cursor =
                    IF q.cursor \in DOMAIN q.seen THEN q.seen[q.cursor] ELSE q.cursor]
  /\ SameTables /\ UNCHANGED overlap
\* One turn of the loop: the folder itself, a folder that is not listed, the
\* root, or one level up.
Walk(r) ==
  /\ At(r, {"moveFolder"}, "walk")
  /\ LET q == req[r] IN
     IF q.cursor = Root THEN Goto(r, "write")
     ELSE IF q.cursor = q.id THEN Answer(r)
     ELSE req' = [req EXCEPT ![r].cursor =
                    IF q.cursor \in DOMAIN q.seen THEN q.seen[q.cursor] ELSE Root]
  /\ SameTables /\ UNCHANGED overlap

ReadTracks(r) ==
  /\ At(r, {"updatePlaylist"}, "read")
  /\ req' = [req EXCEPT ![r].pc = "write",
       ![r].read = IF req[r].id \in Live(playlists) THEN playlists[req[r].id].tracks ELSE <<>>]
  /\ SameTables /\ UNCHANGED overlap

\* Any query may fail: the handler answers and has written nothing.
Fails(r) ==
  /\ req[r].pc \notin {"idle", "done", "walk"}
  /\ Answer(r)
  /\ SameTables /\ UNCHANGED overlap
-----------------------------------------------------------------------------
(* The statement or transaction at the end of a handler; a reference to a  *)
(* row that is gone fails it.                                              *)

Writes(r, kind) == At(r, {kind}, "write") /\ Answer(r) /\ UNCHANGED <<users, tracks, overlap>>
Referable(f) == f = Root \/ f \in Live(folders)

CreateFolder(r) ==
  /\ Writes(r, "createFolder") /\ UNCHANGED playlists
  /\ IF req[r].user \in users /\ Referable(req[r].to)
     THEN \E f \in Folder :
            /\ folders[f] = Unborn
            /\ folders' = [folders EXCEPT ![f] = [owner |-> req[r].user, parent |-> req[r].to]]
     ELSE UNCHANGED folders

MoveFolder(r) ==
  /\ Writes(r, "moveFolder") /\ UNCHANGED playlists
  /\ folders' = IF req[r].id \in Live(folders) /\ Referable(req[r].to)
                THEN [folders EXCEPT ![req[r].id].parent = req[r].to] ELSE folders

DeleteFolder(r) ==
  /\ Writes(r, "deleteFolder")
  /\ IF req[r].id \in Live(folders) THEN DropFolder(req[r].id) ELSE UNCHANGED <<folders, playlists>>

CreatePlaylist(r) ==
  /\ Writes(r, "createPlaylist") /\ UNCHANGED folders
  /\ \E p \in Playlist, list \in Lists :
       /\ playlists[p] = Unborn
       /\ playlists' = IF req[r].user \in users /\ Exist(list)
            THEN [playlists EXCEPT ![p] = [owner |-> req[r].user, folder |-> Root, tracks |-> list]]
            ELSE playlists

MovePlaylist(r) ==
  /\ Writes(r, "movePlaylist") /\ UNCHANGED folders
  /\ playlists' = IF req[r].id \in Live(playlists) /\ Referable(req[r].to)
                  THEN [playlists EXCEPT ![req[r].id].folder = req[r].to] ELSE playlists

DeletePlaylist(r) ==
  /\ Writes(r, "deletePlaylist") /\ UNCHANGED folders
  /\ playlists' = IF req[r].id \in Live(playlists)
                  THEN [playlists EXCEPT ![req[r].id] = Gone] ELSE playlists

SetTracks(p, list) ==
  playlists' = IF p \in Live(playlists) /\ Exist(list)
               THEN [playlists EXCEPT ![p].tracks = list] ELSE playlists

\* createPlaylist with the id of a playlist.
ReplaceTracks(r) ==
  /\ Writes(r, "replaceTracks") /\ UNCHANGED folders
  /\ \E list \in Lists : SetTracks(req[r].id, list)

Edited(list, edit) == Shrunk(list, edit.remove) \o edit.add

UpdatePlaylist(r) ==
  /\ Writes(r, "updatePlaylist") /\ UNCHANGED folders
  /\ IF EditsTracks(req[r])
     THEN LET list == Edited(req[r].read, req[r].edit) IN
          Len(list) <= MaxLength /\ SetTracks(req[r].id, list)
     ELSE UNCHANGED playlists

\* The library deletes a track: it leaves every playlist (ON DELETE CASCADE).
DropTrack(t) ==
  /\ t \in tracks
  /\ tracks' = tracks \ {t}
  /\ playlists' = [p \in Playlist |->
       IF p \in Live(playlists)
       THEN [playlists[p] EXCEPT !.tracks = Without(@, t)] ELSE playlists[p]]
  /\ UNCHANGED <<users, folders, req, overlap>>

\* An administrator deletes a user: folders and playlists go along.
DropUser(u) ==
  /\ u \in users
  /\ users' = users \ {u}
  /\ folders' = [f \in Folder |-> IF Mine(folders, f, u) THEN Gone ELSE folders[f]]
  /\ playlists' = [p \in Playlist |-> IF Mine(playlists, p, u) THEN Gone ELSE playlists[p]]
  /\ UNCHANGED <<tracks, req, overlap>>

HandlerStep(r) ==
  \/ Check(r) \/ CheckTo(r) \/ ReadTree(r) \/ Walk(r) \/ ReadTracks(r) \/ Fails(r)
  \/ CreateFolder(r) \/ MoveFolder(r) \/ DeleteFolder(r) \/ CreatePlaylist(r)
  \/ MovePlaylist(r) \/ DeletePlaylist(r) \/ ReplaceTracks(r) \/ UpdatePlaylist(r)

\* Nothing is asked any more.
Rest == (\A r \in Request : req[r].pc = "done") /\ UNCHANGED vars

Next ==
  \/ \E r \in Request : Ask(r) \/ HandlerStep(r)
  \/ \E t \in Track : DropTrack(t)
  \/ \E u \in User : DropUser(u)
  \/ Rest

Spec == Init /\ [][Next]_vars

\* The runtime polls every handler that can move.
FairSpec == Spec /\ \A r \in Request : WF_vars(HandlerStep(r))
-----------------------------------------------------------------------------
\* Every user has a tree of their own: a folder lies in a folder of its owner
\* and so does a playlist, although the owner is checked queries before the
\* write and other requests delete and create rows in between.
PrivateTrees ==
  /\ \A f \in Live(folders) : LET p == folders[f].parent IN
       p \in Live(folders) => folders[p].owner = folders[f].owner
  /\ \A l \in Live(playlists) : LET f == playlists[l].folder IN
       f \in Live(folders) => folders[f].owner = playlists[l].owner

\* No folder and no playlist belongs to a user or lies in a folder that is
\* gone: cascades and references close every gap that the handlers leave
\* between check and write.
NothingDangles ==
  /\ \A f \in Live(folders) : folders[f].owner \in users
  /\ \A l \in Live(playlists) : playlists[l].owner \in users
  /\ \A f \in Live(folders) : folders[f].parent \in Live(folders) \cup {Root}
  /\ \A l \in Live(playlists) : playlists[l].folder \in Live(folders) \cup {Root}

\* No playlist holds a track that is gone, although updatePlaylist writes back
\* a list it read queries before.
TracksExist ==
  \A l \in Live(playlists) : \A i \in DOMAIN playlists[l].tracks : playlists[l].tracks[i] \in tracks

\* No folder lies below itself.
Forest == Acyclic(folders)

\* The walk before a move keeps the forest against everything that runs beside
\* it, except another move that has read the tree too.
ForestUnlessMovesOverlap == overlap \/ Forest

\* The positions of a list an edit keeps, in order.
KeptBy(list, edit) == Kept(list, {edit.remove[i] + 1 : i \in 1..Len(edit.remove)})

\* updatePlaylist removes exactly the positions it was given, of the list as it
\* read it, and appends what it was given; or it changes nothing.  (An index
\* given twice takes two tracks: the loop does not look for repetitions.)
UpdateEditsWhatItRead ==
  [][\A r \in Request :
     At(r, {"updatePlaylist"}, "write") /\ IsInjective(req[r].edit.remove)
     /\ req'[r].pc = "done" =>
       \/ playlists' = playlists
       \/ playlists'[req[r].id].tracks = KeptBy(req[r].read, req[r].edit) \o req[r].edit.add]_vars

\* Every request is answered; the walk of a move ends unless moves overlapped.
RequestsReturn ==
  \A r \in Request : (req[r].pc # "idle") ~> (req[r].pc = "done" \/ overlap)
=============================================================================
