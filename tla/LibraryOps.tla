----------------------------- MODULE LibraryOps ----------------------------
(***************************************************************************)
(* The library's two stores and everything that changes both: the audio    *)
(* objects in Garage (server/src/storage) and the rows of `tracks` in      *)
(* SQLite that index them, changed by the four owned operations of         *)
(* server/src/api/ext/library/operation.rs (upload, write-back, delete,    *)
(* move) and by the scanner of server/src/scanner.                         *)
(*                                                                         *)
(* An operation is one spawned task; every await on a store or on SQLite   *)
(* is a step of its own.  The keyed locks are taken whole, which is what   *)
(* AtomicLocks promises and KeyLocks implements.  The scanner takes no     *)
(* lock.  Store and database calls fail within a budget of faults; a store *)
(* call that fails may still have taken effect.  A crash ends every task.  *)
(*                                                                         *)
(* An object is its content.  Its ETag is a function of the content, which *)
(* the store may not report (Tagless); a Broken content has no readable    *)
(* tags.  The tags of a row are the content they were parsed from.         *)
(***************************************************************************)
EXTENDS Integers, Sequences, FiniteSets

CONSTANTS
  Task,        \* the operations of a run, each spawned at most once
  KeyCount,    \* object keys are 1..KeyCount, in the order of a listing
  Audio,       \* the keys with an audio extension
  Content,     \* what an object can contain
  Field,       \* the tag fields an edit may name
  Broken,      \* the contents whose tags cannot be parsed
  Tagless,     \* the contents for which the store reports no ETag
  Initial,     \* <<key, content>> of the tracks the library starts with
  MaxId,       \* bound: the ids AUTOINCREMENT may hand out
  Kinds,       \* the operations enabled in a run
  MaxFaults,   \* bound: failing calls in a behaviour
  LostPuts,    \* a failing put may have taken effect
  MaxScans,    \* bound: background scans in a behaviour
  LaggyList,   \* LIST may lag behind writes
  LikePrefix,  \* LikePrefix[k]: the keys `object_key LIKE 'k%'` matches
  ListPrefix,  \* ListPrefix[k]: the keys LIST shows under the prefix k
  MaxCrashes,  \* bound: crashes of the server
  NoObj, NoRow, NoEtag, Nobody

ObjKey == 1..KeyCount
Id == 1..MaxId

ASSUME SizeAssumption == KeyCount \in Nat /\ MaxId \in Nat /\ Audio \subseteq ObjKey
ASSUME PrefixAssumption ==
  LikePrefix \in [ObjKey -> SUBSET ObjKey] /\ ListPrefix \in [ObjKey -> SUBSET ObjKey]
ASSUME BoundsAssumption == {MaxFaults, MaxScans, MaxCrashes} \subseteq Nat
ASSUME NobodyAssumption == Nobody \notin Task
ASSUME ContentAssumption ==
  /\ Broken \subseteq Content /\ Tagless \subseteq Content
  /\ NoObj \notin Content /\ NoEtag \notin Content
ASSUME InitialAssumption ==
  /\ Initial \in Seq(Audio \X (Content \ Broken)) /\ Len(Initial) <= MaxId
  /\ \A i, j \in 1..Len(Initial) : Initial[i][1] = Initial[j][1] => i = j

VARIABLES
  store,      \* store[k]: the object at key k, or NoObj
  listed,     \* what LIST shows at key k
  tracks,     \* tracks[i]: the row with id i, or NoRow
  nextId,     \* the next id AUTOINCREMENT hands out
  overrides,  \* the overlay: <<id, field>> of the tag overrides
  op,         \* op[t]: the local state of operation t
  locks,      \* locks[t]: the keys of library_operation_locks t owns
  scan,       \* the scan in progress
  scans,      \* background scans so far
  flagged,    \* keys the log asks to reconcile by hand
  faults, crashes

vars == <<store, listed, tracks, nextId, overrides, op, locks, scan, scans,
          flagged, faults, crashes>>

Etag(c) == IF c \in Tagless THEN NoEtag ELSE c
Etags == Content \cup {NoEtag}
Row == [key : ObjKey, etag : Etags, tags : Content]
ASSUME RowAssumption == NoRow \notin Row
LockKey == ({"track"} \X Id) \cup ({"object"} \X ObjKey)

Idle == [kind |-> "none", pc |-> "new", id |-> 0, key |-> 0, new |-> NoObj,
         fields |-> {}, src |-> NoRow, backup |-> NoObj, result |-> "none"]
NoScan == [pc |-> "idle", owner |-> Nobody, lists |-> {}, cursor |-> 0,
           existing |-> {}, seen |-> {}, todo |-> {}, wrote |-> 0, quiet |-> FALSE]

Results == {"none", "ok", "error", "notFound", "exists", "invalid", "lost"}

TypeOK ==
  /\ store \in [ObjKey -> Content \cup {NoObj}]
  /\ listed \in [ObjKey -> Content \cup {NoObj}]
  /\ tracks \in [Id -> Row \cup {NoRow}]
  /\ nextId \in 1..(MaxId + 1)
  /\ overrides \subseteq {i \in Id : tracks[i] # NoRow} \X Field
  /\ \A t \in Task :
       /\ op[t].id \in Id \cup {0} /\ op[t].key \in ObjKey \cup {0}
       /\ op[t].fields \subseteq Field
       /\ op[t].src \in Row \cup {NoRow} /\ op[t].result \in Results
       /\ op[t].backup \in Content \cup {NoObj} /\ op[t].new \in Content \cup {NoObj}
  /\ locks \in [Task -> SUBSET LockKey]
  /\ scan.owner \in Task \cup {Nobody} /\ scan.seen \subseteq scan.lists
  /\ scan.existing \subseteq [key : ObjKey, etag : Etags]
  /\ scan.todo \subseteq [key : scan.lists, etag : Etags, tags : Content \cup {NoObj}]
  /\ scans \in 0..MaxScans /\ flagged \subseteq ObjKey
  /\ faults \in 0..MaxFaults /\ crashes \in 0..MaxCrashes

Init ==
  /\ store = [k \in ObjKey |->
       IF \E i \in 1..Len(Initial) : Initial[i][1] = k
       THEN (CHOOSE e \in {Initial[i] : i \in 1..Len(Initial)} : e[1] = k)[2]
       ELSE NoObj]
  /\ listed = store
  /\ tracks = [i \in Id |->
       IF i <= Len(Initial)
       THEN [key |-> Initial[i][1], etag |-> Etag(Initial[i][2]), tags |-> Initial[i][2]]
       ELSE NoRow]
  /\ nextId = Len(Initial) + 1
  /\ overrides = {}
  /\ op = [t \in Task |-> Idle]
  /\ locks = [t \in Task |-> {}]
  /\ scan = NoScan
  /\ scans = 0 /\ flagged = {} /\ faults = 0 /\ crashes = 0
-----------------------------------------------------------------------------
(* Stores and rows.                                                        *)

\* LIST shows a write at once unless it lags (then ListCatchesUp shows it).
Write(k, c) ==
  /\ store' = [store EXCEPT ![k] = c]
  /\ listed' = IF LaggyList THEN listed ELSE store'
SameObjects == UNCHANGED <<store, listed>>

ListCatchesUp ==
  /\ LaggyList
  /\ \E k \in ObjKey : listed[k] # store[k] /\ listed' = [listed EXCEPT ![k] = store[k]]
  /\ UNCHANGED <<store, tracks, nextId, overrides, op, locks, scan, scans, flagged, faults, crashes>>

\* A call that fails; without a fault the call succeeds.
Fault == faults < MaxFaults /\ faults' = faults + 1
NoFault == UNCHANGED faults

RowsAt(k) == {i \in Id : tracks[i] # NoRow /\ tracks[i].key = k}

\* INSERT ... ON CONFLICT(object_key) DO UPDATE: the id of a known key stays.
Upsert(k, etag, tags) ==
  LET row == [key |-> k, etag |-> etag, tags |-> tags] IN
  IF RowsAt(k) # {}
  THEN /\ tracks' = [i \in Id |-> IF i \in RowsAt(k) THEN row ELSE tracks[i]]
       /\ UNCHANGED <<nextId, overrides>>
  ELSE /\ nextId <= MaxId
       /\ tracks' = [tracks EXCEPT ![nextId] = row]
       /\ nextId' = nextId + 1
       /\ UNCHANGED overrides

\* Mutant: the overrides outlive the row.
DeleteRows_NoCascade(ids) ==
  /\ tracks' = [i \in Id |-> IF i \in ids THEN NoRow ELSE tracks[i]]
  /\ UNCHANGED <<nextId, overrides>>
\* Deleting a row deletes its tag overrides with it (ON DELETE CASCADE).
DeleteRows(ids) ==
  /\ tracks' = [i \in Id |-> IF i \in ids THEN NoRow ELSE tracks[i]]
  /\ overrides' = {e \in overrides : e[1] \notin ids}
  /\ UNCHANGED nextId

SameRows == UNCHANGED <<tracks, nextId, overrides>>

\* UPDATE tracks SET object_key, etag WHERE id, object_key, etag: matches the
\* row unless it changed, and fails when another row has the new key.
CasMatches(i, k, etag, to) ==
  tracks[i] # NoRow /\ tracks[i].key = k /\ tracks[i].etag = etag /\ RowsAt(to) = {}
CasMove(i, to, etag) ==
  /\ tracks' = [tracks EXCEPT ![i].key = to, ![i].etag = etag]
  /\ UNCHANGED <<nextId, overrides>>

\* Mutant: a row whose object is gone is left alone.
Ingest_KeepsVanished(k) ==
  IF store[k] = NoObj \/ k \notin Audio THEN SameRows
  ELSE Upsert(k, Etag(store[k]), store[k])
\* Scanner::ingest_object: one object reconciled with the index by its key.
Ingestible(k) == k \in Audio => store[k] \notin Broken
Ingest(k) ==
  IF store[k] = NoObj THEN DeleteRows(RowsAt(k))
  ELSE IF k \notin Audio THEN SameRows
  ELSE Upsert(k, Etag(store[k]), store[k])
-----------------------------------------------------------------------------
(* Control of an operation.                                                *)

At(t, kind, pc) == op[t].kind = kind /\ op[t].pc = pc
Goto(t, pc) == op' = [op EXCEPT ![t].pc = pc] /\ UNCHANGED <<locks, flagged>>

\* Mutant: the guards outlive the operation.
Finish_KeepsGuards(t, result) ==
  /\ op' = [op EXCEPT ![t] = [Idle EXCEPT !.kind = op[t].kind, !.pc = "done", !.result = result]]
  /\ UNCHANGED locks
\* The operation returns: its guards drop, its backup file is removed.
Finish(t, result) ==
  /\ op' = [op EXCEPT ![t] = [Idle EXCEPT !.kind = op[t].kind, !.pc = "done", !.result = result]]
  /\ locks' = [locks EXCEPT ![t] = {}]
Return(t, result) == Finish(t, result) /\ UNCHANGED flagged

Source(o) == IF o.src = NoRow THEN {} ELSE {o.src.key}
KeysOf(o) == ({o.key} \ {0}) \cup Source(o)

\* It returns an error, and logs that its keys need manual reconciliation.
ReturnFlagged(t) == Finish(t, "error") /\ flagged' = flagged \cup KeysOf(op[t])

SameScan == UNCHANGED <<scan, scans, crashes>>
Reads == SameObjects /\ SameRows

\* A failed delete may have removed the object all the same; a failed put may
\* have taken effect only when LostPuts.
FailedDelete(k) == Fault /\ (Write(k, NoObj) \/ SameObjects)
FailedPut(k, c) == Fault /\ (SameObjects \/ (LostPuts /\ Write(k, c)))
-----------------------------------------------------------------------------
(* Submitting an operation, taking the locks, rechecking the source.       *)

Submit(t, o) ==
  /\ op[t] = Idle
  /\ op' = [op EXCEPT ![t] = o]
  /\ scan' = [scan EXCEPT !.quiet = FALSE]
  /\ Reads /\ UNCHANGED <<locks, flagged, faults, scans, crashes>>

SubmitUpload(t) ==
  /\ "upload" \in Kinds
  /\ \E k \in ObjKey, c \in Content :
       Submit(t, [Idle EXCEPT !.kind = "upload", !.pc = "lock", !.key = k, !.new = c])
SubmitWriteBack(t) ==
  /\ "writeBack" \in Kinds
  /\ \E i \in 1..(nextId - 1), c \in Content \ Broken, fields \in SUBSET Field \ {{}} :
       Submit(t, [Idle EXCEPT !.kind = "writeBack", !.pc = "source", !.id = i, !.new = c,
                              !.fields = fields])
SubmitDelete(t) ==
  /\ "delete" \in Kinds
  /\ \E i \in 1..(nextId - 1) :
       Submit(t, [Idle EXCEPT !.kind = "delete", !.pc = "source", !.id = i])
SubmitMove(t) ==
  /\ "move" \in Kinds
  /\ \E i \in 1..(nextId - 1), k \in ObjKey :
       Submit(t, [Idle EXCEPT !.kind = "move", !.pc = "source", !.id = i, !.key = k])

\* media_source(id) before the lock; the locked recheck follows in Recheck.
ReadSource(t) ==
  /\ op[t].pc = "source" /\ Reads /\ SameScan
  /\ \/ /\ NoFault /\ tracks[op[t].id] = NoRow /\ Return(t, "notFound")
     \/ /\ NoFault /\ tracks[op[t].id] # NoRow
        /\ op' = [op EXCEPT ![t].src = tracks[op[t].id], ![t].pc = "lock"]
        /\ UNCHANGED <<locks, flagged>>
     \/ Fault /\ Return(t, "error")

\* Mutant: a move does not lock its destination.
OperationKeys_SourceOnly(o) ==
  {<<"object", k>> : k \in IF o.kind = "move" THEN Source(o) ELSE KeysOf(o)}
    \cup {<<"track", i>> : i \in {o.id} \ {0}}
\* operation_keys: the track and the object keys the operation touches.
OperationKeys(o) ==
  {<<"object", k>> : k \in KeysOf(o)} \cup {<<"track", i>> : i \in {o.id} \ {0}}
Lock(t) ==
  /\ op[t].pc = "lock"
  /\ \A u \in Task \ {t} : locks[u] \cap OperationKeys(op[t]) = {}
  /\ locks' = [locks EXCEPT ![t] = OperationKeys(op[t])]
  /\ op' = [op EXCEPT ![t].pc = IF op[t].kind = "upload" THEN "backup" ELSE "recheck"]
  /\ Reads /\ SameScan /\ NoFault /\ UNCHANGED flagged

SameSource(row, src) == row.key = src.key /\ row.etag = src.etag
Recheck(t) ==
  LET row == tracks[op[t].id] IN
  /\ op[t].pc = "recheck" /\ Reads /\ SameScan
  /\ \/ NoFault /\ row = NoRow /\ Return(t, "notFound")
     \/ /\ NoFault /\ row # NoRow /\ SameSource(row, op[t].src)
        /\ IF op[t].kind # "move" THEN Goto(t, "backup")
           ELSE IF op[t].key = row.key THEN Return(t, "ok") ELSE Goto(t, "head")
     \/ /\ NoFault /\ row # NoRow /\ ~SameSource(row, op[t].src)
        /\ IF op[t].kind # "move" THEN Return(t, "error")
           ELSE \* commit_move drops its guards and starts over
             /\ op' = [op EXCEPT ![t].src = NoRow, ![t].pc = "source"]
             /\ locks' = [locks EXCEPT ![t] = {}] /\ UNCHANGED flagged
     \/ Fault /\ Return(t, "error")
-----------------------------------------------------------------------------
(* commit_upload.                                                          *)

UploadBackup(t) ==
  /\ At(t, "upload", "backup") /\ Reads /\ SameScan
  /\ \/ /\ NoFault
        /\ op' = [op EXCEPT ![t].backup = store[op[t].key], ![t].pc = "put"]
        /\ UNCHANGED <<locks, flagged>>
     \/ Fault /\ Return(t, "error")
UploadPut(t) ==
  /\ At(t, "upload", "put") /\ SameRows /\ SameScan
  /\ \/ NoFault /\ Write(op[t].key, op[t].new) /\ Goto(t, "ingest")
     \/ FailedPut(op[t].key, op[t].new) /\ Return(t, "error")

\* ingest_object (used by the upload and by its compensation): head, parse
\* and upsert, then get_track(id) reads the row back.  The key is locked, so
\* the object does not change between head and get_range.
IngestedId(k) == IF RowsAt(k) = {} THEN nextId ELSE CHOOSE i \in RowsAt(k) : TRUE
UploadIngest(t) ==
  /\ At(t, "upload", "ingest") /\ SameObjects /\ SameScan
  /\ \/ NoFault /\ Ingestible(op[t].key) /\ Ingest(op[t].key)
        /\ IF store[op[t].key] # NoObj /\ op[t].key \in Audio
           THEN /\ op' = [op EXCEPT ![t].id = IngestedId(op[t].key), ![t].pc = "readBack"]
                /\ UNCHANGED <<locks, flagged>>
           ELSE Goto(t, "select")
     \/ NoFault /\ ~Ingestible(op[t].key) /\ SameRows /\ Goto(t, "undo")
     \/ Fault /\ SameRows /\ Goto(t, "undo")
UploadReadBack(t) ==
  /\ At(t, "upload", "readBack") /\ Reads /\ SameScan
  /\ \/ NoFault /\ Goto(t, IF tracks[op[t].id] # NoRow THEN "select" ELSE "undo")
     \/ Fault /\ Goto(t, "undo")
UploadSelect(t) ==
  /\ At(t, "upload", "select") /\ Reads /\ SameScan
  /\ \/ NoFault /\ Return(t, IF RowsAt(op[t].key) # {} THEN "ok" ELSE "error")
     \/ Fault /\ Return(t, "error")

\* The ingest failed: put the old object back (or delete the new one), then
\* reconcile the row.
UploadUndo(t) ==
  /\ At(t, "upload", "undo") /\ SameRows /\ SameScan
  /\ \/ NoFault /\ Write(op[t].key, op[t].backup) /\ Goto(t, "reingest")
     \/ /\ IF op[t].backup = NoObj THEN FailedDelete(op[t].key)
           ELSE FailedPut(op[t].key, op[t].backup)
        /\ ReturnFlagged(t)
UploadReingest(t) ==
  /\ At(t, "upload", "reingest") /\ SameObjects /\ SameScan
  /\ \/ /\ NoFault /\ Ingestible(op[t].key) /\ Ingest(op[t].key)
        /\ IF store[op[t].key] # NoObj /\ op[t].key \in Audio
           THEN /\ op' = [op EXCEPT ![t].id = IngestedId(op[t].key), ![t].pc = "reread"]
                /\ UNCHANGED <<locks, flagged>>
           ELSE Return(t, "error")
     \/ NoFault /\ ~Ingestible(op[t].key) /\ SameRows /\ ReturnFlagged(t)
     \/ Fault /\ SameRows /\ ReturnFlagged(t)
UploadReread(t) ==
  /\ At(t, "upload", "reread") /\ Reads /\ SameScan
  /\ \/ NoFault /\ (IF tracks[op[t].id] # NoRow THEN Return(t, "error") ELSE ReturnFlagged(t))
     \/ Fault /\ ReturnFlagged(t)
-----------------------------------------------------------------------------
(* commit_write_back.                                                      *)

WriteBackBackup(t) ==
  LET old == store[op[t].src.key] IN
  /\ At(t, "writeBack", "backup") /\ Reads /\ SameScan
  /\ \/ /\ NoFault /\ old \notin Broken \cup {NoObj}
        /\ op' = [op EXCEPT ![t].backup = old, ![t].pc = "put"]
        /\ UNCHANGED <<locks, flagged>>
     \/ NoFault /\ old = NoObj /\ Return(t, "error")
     \/ NoFault /\ old \in Broken /\ Return(t, "invalid")  \* write_tags fails
     \/ Fault /\ (Return(t, "error") \/ Return(t, "invalid"))
WriteBackPut(t) ==
  /\ At(t, "writeBack", "put") /\ SameRows /\ SameScan
  /\ \/ NoFault /\ Write(op[t].src.key, op[t].new) /\ Goto(t, "scan")
     \/ FailedPut(op[t].src.key, op[t].new) /\ Return(t, "error")

\* Mutant: the whole overlay of the track is dropped.
WriteBackClear_All(t) ==
  /\ At(t, "writeBack", "clear") /\ SameObjects /\ SameScan
  /\ \/ /\ NoFault /\ overrides' = overrides \ ({op[t].id} \X Field)
        /\ UNCHANGED <<tracks, nextId>> /\ Return(t, "ok")
     \/ Fault /\ SameRows /\ Goto(t, "restore")
\* The scan of its key succeeded: drop the overrides of the fields it wrote.
WriteBackClear(t) ==
  /\ At(t, "writeBack", "clear") /\ SameObjects /\ SameScan
  /\ \/ /\ NoFault /\ overrides' = overrides \ ({op[t].id} \X op[t].fields)
        /\ UNCHANGED <<tracks, nextId>> /\ Return(t, "ok")
     \/ Fault /\ SameRows /\ Goto(t, "restore")
\* restore_write_back.
WriteBackRestore(t) ==
  /\ At(t, "writeBack", "restore") /\ SameRows /\ SameScan
  /\ \/ NoFault /\ Write(op[t].src.key, op[t].backup) /\ Goto(t, "rescan")
     \/ FailedPut(op[t].src.key, op[t].backup) /\ ReturnFlagged(t)
-----------------------------------------------------------------------------
(* commit_delete.                                                          *)

DeleteBackup(t) ==
  LET old == store[op[t].src.key] IN
  /\ At(t, "delete", "backup") /\ Reads /\ SameScan
  /\ \/ /\ NoFault /\ old # NoObj
        /\ op' = [op EXCEPT ![t].backup = old, ![t].pc = "remove"]
        /\ UNCHANGED <<locks, flagged>>
     \/ NoFault /\ old = NoObj /\ Return(t, "error")
     \/ Fault /\ Return(t, "error")
DeleteObject(t) ==
  /\ At(t, "delete", "remove") /\ SameRows /\ SameScan
  /\ \/ NoFault /\ Write(op[t].src.key, NoObj) /\ Goto(t, "unindex")
     \/ FailedDelete(op[t].src.key) /\ Goto(t, "check")
\* Mutant: when the check fails too, the delete gives up.
DeleteCheck_GivesUp(t) ==
  /\ At(t, "delete", "check") /\ Reads /\ SameScan
  /\ \/ NoFault /\ store[op[t].src.key] = NoObj /\ Goto(t, "unindex")
     \/ NoFault /\ store[op[t].src.key] # NoObj /\ Return(t, "error")
     \/ Fault /\ Return(t, "error")
\* The delete reported an error: did it remove the object?
DeleteCheck(t) ==
  /\ At(t, "delete", "check") /\ Reads /\ SameScan
  /\ \/ NoFault /\ store[op[t].src.key] = NoObj /\ Goto(t, "unindex")
     \/ NoFault /\ store[op[t].src.key] # NoObj /\ Return(t, "error")
     \/ Fault /\ Goto(t, "restore")
DeleteUnindex(t) ==
  LET row == tracks[op[t].id]
      hit == row # NoRow /\ SameSource(row, op[t].src) IN
  /\ At(t, "delete", "unindex") /\ SameObjects /\ SameScan
  /\ \/ NoFault /\ hit /\ DeleteRows({op[t].id}) /\ Return(t, "ok")
     \/ NoFault /\ ~hit /\ SameRows /\ Goto(t, "restore")
     \/ Fault /\ SameRows /\ Goto(t, "restore")
DeleteRestore(t) ==
  /\ At(t, "delete", "restore") /\ SameRows /\ SameScan
  /\ \/ NoFault /\ Write(op[t].src.key, op[t].backup) /\ Return(t, "error")
     \/ FailedPut(op[t].src.key, op[t].backup) /\ ReturnFlagged(t)
-----------------------------------------------------------------------------
(* commit_move.                                                            *)

MoveHead(t) ==
  /\ At(t, "move", "head") /\ Reads /\ SameScan
  /\ \/ NoFault /\ store[op[t].key] # NoObj /\ Return(t, "exists")
     \/ NoFault /\ store[op[t].key] = NoObj /\ Goto(t, "copy")
     \/ Fault /\ Return(t, "error")
MoveCopy(t) ==
  LET old == store[op[t].src.key] IN
  /\ At(t, "move", "copy") /\ Reads /\ SameScan
  /\ \/ /\ NoFault /\ old # NoObj
        /\ op' = [op EXCEPT ![t].backup = old, ![t].pc = "put"]
        /\ UNCHANGED <<locks, flagged>>
     \/ NoFault /\ old = NoObj /\ Return(t, "error")
     \/ Fault /\ Return(t, "error")
MovePut(t) ==
  /\ At(t, "move", "put") /\ SameRows /\ SameScan
  /\ \/ NoFault /\ Write(op[t].key, op[t].backup) /\ Goto(t, "cas")
     \/ FailedPut(op[t].key, op[t].backup) /\ Return(t, "error")
\* meta.etag is the ETag of what this move put at the destination.
MetaEtag(t) == Etag(op[t].backup)
MoveCas(t) ==
  LET o == op[t]
      hit == CasMatches(o.id, o.src.key, o.src.etag, o.key) IN
  /\ At(t, "move", "cas") /\ SameObjects /\ SameScan
  /\ \/ NoFault /\ hit /\ CasMove(o.id, o.key, MetaEtag(t)) /\ Goto(t, "remove")
     \/ NoFault /\ ~hit /\ SameRows /\ Goto(t, "cleanup")
     \/ Fault /\ SameRows /\ Goto(t, "cleanup")
MoveRemove(t) ==
  /\ At(t, "move", "remove") /\ SameRows /\ SameScan
  /\ \/ NoFault /\ Write(op[t].src.key, NoObj) /\ Return(t, "ok")
     \/ FailedDelete(op[t].src.key) /\ Goto(t, "check")
\* Roll back only a source that is certainly the object that was moved.
MoveCheck(t) ==
  LET o == op[t]
      left == store[o.src.key]
      ours == left # NoObj /\ o.src.etag # NoEtag /\ Etag(left) = o.src.etag IN
  /\ At(t, "move", "check") /\ Reads /\ SameScan
  /\ \/ NoFault /\ left = NoObj /\ Return(t, "ok")
     \/ NoFault /\ ours /\ Goto(t, "rollback")
     \/ NoFault /\ left # NoObj /\ ~ours /\ ReturnFlagged(t)
     \/ Fault /\ ReturnFlagged(t)
MoveRollback(t) ==
  LET o == op[t]
      hit == CasMatches(o.id, o.key, MetaEtag(t), o.src.key) IN
  /\ At(t, "move", "rollback") /\ SameObjects /\ SameScan
  /\ \/ NoFault /\ hit /\ CasMove(o.id, o.src.key, o.src.etag) /\ Goto(t, "cleanup")
     \/ NoFault /\ ~hit /\ SameRows /\ ReturnFlagged(t)
     \/ Fault /\ SameRows /\ ReturnFlagged(t)
\* cleanup_owned_destination: delete the destination only while its ETag is
\* the one this move put.
MoveCleanup(t) ==
  LET there == store[op[t].key] IN
  /\ At(t, "move", "cleanup") /\ Reads /\ SameScan
  /\ \/ NoFault /\ MetaEtag(t) = NoEtag /\ ReturnFlagged(t)
     \/ /\ NoFault /\ MetaEtag(t) # NoEtag
        /\ IF there = NoObj THEN Return(t, "error")
           ELSE IF Etag(there) = MetaEtag(t) THEN Goto(t, "discard")
           ELSE ReturnFlagged(t)
     \/ Fault /\ MetaEtag(t) # NoEtag /\ ReturnFlagged(t)
MoveDiscard(t) ==
  /\ At(t, "move", "discard") /\ SameRows /\ SameScan
  /\ \/ NoFault /\ Write(op[t].key, NoObj) /\ Return(t, "error")
     \/ FailedDelete(op[t].key) /\ ReturnFlagged(t)
-----------------------------------------------------------------------------
(* The scanner: one scan at a time, no lock.                               *)

Active(t) == op[t].pc \notin {"new", "done"}

\* begin_scan, then the snapshot of the rows under the prefix.
BeginScan(owner, rows, lists) ==
  /\ scan.pc = "idle"
  /\ scan' = [NoScan EXCEPT
       !.pc = "list", !.owner = owner, !.lists = lists,
       !.existing = {[key |-> tracks[i].key, etag |-> tracks[i].etag] :
                       i \in UNION {RowsAt(k) : k \in rows}},
       !.quiet = \A t \in Task : ~Active(t)]
  /\ Reads /\ NoFault /\ UNCHANGED <<locks, flagged, crashes>>

\* The whole bucket: POST startScan in the background, ext/startScan in a request.
BackgroundScan ==
  /\ scans < MaxScans /\ scans' = scans + 1
  /\ BeginScan(Nobody, ObjKey, ObjKey) /\ UNCHANGED op
\* scan_key: a write-back scans the prefix that is its key, and yields while
\* another scan runs.
WriteBackScan(t) ==
  /\ op[t].pc \in {"scan", "rescan"}
  /\ BeginScan(t, LikePrefix[op[t].src.key], ListPrefix[op[t].src.key])
  /\ op' = [op EXCEPT ![t].pc = IF op[t].pc = "scan" THEN "scanning" ELSE "rescanning"]
  /\ UNCHANGED scans

\* The scan returns, or fails, and its caller goes on.
ScanReturns(ok) ==
  LET t == scan.owner IN
  /\ scan' = NoScan /\ SameObjects /\ UNCHANGED <<scans, crashes>>
  /\ \/ t = Nobody /\ UNCHANGED <<op, locks, flagged>>
     \/ /\ t # Nobody /\ op[t].pc = "scanning"
        /\ Goto(t, IF ok THEN "clear" ELSE "restore")
     \/ /\ t # Nobody /\ op[t].pc = "rescanning"
        /\ IF ok THEN Return(t, "error") ELSE ReturnFlagged(t)

ScanOnly == SameObjects /\ NoFault /\ UNCHANGED <<op, locks, scans, flagged, crashes>>

\* The listing, key by key: a page may end after any key.
Ahead == {k \in scan.lists \cap Audio : k > scan.cursor /\ listed[k] # NoObj}
First(keys) == CHOOSE k \in keys : \A l \in keys : k <= l
\* Mutant: a key that is indexed already is never read again.
Unchanged_ByKey(k) == \E x \in scan.existing : x.key = k
Unchanged(k) ==
  LET etag == Etag(listed[k]) IN
  etag # NoEtag /\ [key |-> k, etag |-> etag] \in scan.existing
\* Mutant: an unchanged key is skipped before it is recorded as seen.
ScanList_SeesChanged ==
  /\ scan.pc = "list" /\ SameRows /\ ScanOnly
  /\ \/ Ahead = {} /\ scan' = [scan EXCEPT !.pc = "ingest"]
     \/ /\ Ahead # {}
        /\ LET k == First(Ahead)
               new == [key |-> k, etag |-> Etag(listed[k]), tags |-> NoObj] IN
           scan' = IF Unchanged(k) THEN [scan EXCEPT !.cursor = k]
                   ELSE [scan EXCEPT !.cursor = k, !.seen = @ \cup {k}, !.todo = @ \cup {new}]
ScanList ==
  /\ scan.pc = "list" /\ SameRows /\ ScanOnly
  /\ \/ Ahead = {} /\ scan' = [scan EXCEPT !.pc = "ingest"]
     \/ /\ Ahead # {}
        /\ LET k == First(Ahead)
               new == [key |-> k, etag |-> Etag(listed[k]), tags |-> NoObj] IN
           scan' = [scan EXCEPT !.cursor = k, !.seen = @ \cup {k},
                                !.todo = IF Unchanged(k) THEN @ ELSE @ \cup {new}]

\* parse_all reads what the object contains now; rows are written only when
\* every parse is done.
Unparsed == {x \in scan.todo : x.tags = NoObj}
Readable(k) == store[k] \notin Broken \cup {NoObj}
ScanParse ==
  /\ scan.pc = "ingest" /\ SameRows /\ ScanOnly
  /\ \E x \in Unparsed :
       /\ Readable(x.key)
       /\ scan' = [scan EXCEPT !.todo = (@ \ {x}) \cup {[x EXCEPT !.tags = store[x.key]]}]
ScanWrite ==
  /\ scan.pc = "ingest" /\ Unparsed = {} /\ ScanOnly
  /\ \E x \in scan.todo :
       /\ x.key = First({y.key : y \in scan.todo})
       /\ Upsert(x.key, x.etag, x.tags)
       /\ scan' = [scan EXCEPT !.pc = "reread", !.todo = @ \ {x}, !.wrote = IngestedId(x.key)]
ScanReread ==
  /\ scan.pc = "reread" /\ tracks[scan.wrote] # NoRow /\ SameRows /\ ScanOnly
  /\ scan' = [scan EXCEPT !.pc = "ingest", !.wrote = 0]
\* Mutant: the scan forgets to delete.
Vanished_None == {}
Vanished == {x \in scan.existing : x.key \notin scan.seen}
ScanPrune ==
  /\ scan.pc = "ingest" /\ scan.todo = {} /\ ScanOnly
  /\ \E x \in Vanished :
       /\ DeleteRows(RowsAt(x.key))
       /\ scan' = [scan EXCEPT !.existing = @ \ {x}]
ScanFinish ==
  /\ scan.pc = "ingest" /\ scan.todo = {} /\ Vanished = {}
  /\ SameRows /\ NoFault /\ ScanReturns(TRUE)
ScanFails ==
  /\ scan.pc # "idle" /\ SameRows
  /\ \/ Fault
     \/ NoFault /\ scan.pc = "ingest" /\ \E x \in Unparsed : ~Readable(x.key)
     \/ NoFault /\ scan.pc = "reread" /\ tracks[scan.wrote] = NoRow
  /\ ScanReturns(FALSE)
\* The request whose scan it is goes away, and the scan with it (ScanGuard).
ScanDropped ==
  scan.pc # "idle" /\ scan.owner = Nobody /\ SameRows /\ NoFault /\ ScanReturns(FALSE)
-----------------------------------------------------------------------------
(* Tag edits, crashes and the specification.                               *)

\* set_tag_overrides: an edit of the overlay, under no lock.
UpdateTags(i) ==
  /\ "updateTags" \in Kinds /\ tracks[i] # NoRow
  /\ \E fields \in SUBSET Field \ {{}} : overrides' = overrides \cup ({i} \X fields)
  /\ SameObjects /\ SameScan /\ NoFault
  /\ UNCHANGED <<tracks, nextId, op, locks, flagged>>

\* The process dies with its tasks; the stores stay.
Crash ==
  /\ crashes < MaxCrashes /\ crashes' = crashes + 1
  /\ scan.pc # "idle" \/ \E t \in Task : Active(t)
  /\ op' = [t \in Task |->
       IF Active(t) THEN [Idle EXCEPT !.kind = op[t].kind, !.pc = "done", !.result = "lost"]
       ELSE op[t]]
  /\ locks' = [t \in Task |-> {}]
  /\ scan' = NoScan
  /\ Reads /\ NoFault /\ UNCHANGED <<scans, flagged>>

UploadStep(t) == UploadBackup(t) \/ UploadPut(t) \/ UploadIngest(t) \/ UploadReadBack(t)
  \/ UploadSelect(t) \/ UploadUndo(t) \/ UploadReingest(t) \/ UploadReread(t)
WriteBackStep(t) == WriteBackBackup(t) \/ WriteBackPut(t) \/ WriteBackScan(t)
  \/ WriteBackClear(t) \/ WriteBackRestore(t)
DeleteStep(t) == DeleteBackup(t) \/ DeleteObject(t) \/ DeleteCheck(t)
  \/ DeleteUnindex(t) \/ DeleteRestore(t)
MoveStep(t) == MoveHead(t) \/ MoveCopy(t) \/ MovePut(t) \/ MoveCas(t) \/ MoveRemove(t)
  \/ MoveCheck(t) \/ MoveRollback(t) \/ MoveCleanup(t) \/ MoveDiscard(t)
TaskStep(t) == ReadSource(t) \/ Lock(t) \/ Recheck(t)
  \/ UploadStep(t) \/ WriteBackStep(t) \/ DeleteStep(t) \/ MoveStep(t)
SubmitStep(t) == SubmitUpload(t) \/ SubmitWriteBack(t) \/ SubmitDelete(t) \/ SubmitMove(t)
ScanStep == ScanList \/ ScanParse \/ ScanWrite \/ ScanReread \/ ScanPrune \/ ScanFinish \/ ScanFails

\* Every operation of the run has returned and nothing is going on.
Rest == (\A t \in Task : op[t].pc = "done") /\ scan.pc = "idle" /\ UNCHANGED vars

Next ==
  \/ \E t \in Task : SubmitStep(t) \/ TaskStep(t)
  \/ \E i \in Id : UpdateTags(i)
  \/ BackgroundScan \/ ScanStep \/ ScanDropped \/ ListCatchesUp \/ Crash \/ Rest

Spec == Init /\ [][Next]_vars

\* Tokio runs every spawned task, and a store or database call returns.  (Only a
\* scan or an operation that is going on has a step: the guards say so early.)
FairSpec == Spec /\ WF_vars(scan.pc # "idle" /\ ScanStep)
                 /\ \A t \in Task : WF_vars(Active(t) /\ TaskStep(t))
-----------------------------------------------------------------------------
(* Properties.                                                             *)

\* Row i says what the object at its key is.
Healthy(i) == /\ tracks[i] # NoRow
              /\ store[tracks[i].key] = tracks[i].tags
              /\ Etag(store[tracks[i].key]) = tracks[i].etag
Indexed(k) == IF store[k] = NoObj THEN RowsAt(k) = {}
              ELSE \E i \in Id : RowsAt(k) = {i} /\ Healthy(i)
Locked(k) == \E t \in Task : <<"object", k>> \in locks[t]

\* ADR-0006: the keyed locks cover every writer.  An object changes only under
\* its key's lock, and a row changes, appears or goes, other than by a scan's
\* hand, only under the lock of the key it has (and of the key it gets).
WritersHoldTheLock ==
  [][/\ \A k \in ObjKey : store'[k] # store[k] => Locked(k)
     /\ \A i \in Id : tracks'[i] # tracks[i] /\ (scan' = scan \/ scan.owner # Nobody) =>
          \A r \in {tracks[i], tracks'[i]} \ {NoRow} : Locked(r.key)]_vars

\* A scan changes a row only if the row no longer says what the object is
\* (scanner/mod.rs: safe beside ingests).
ScanKeepsHealthyRows ==
  [][\A i \in Id : Healthy(i) /\ scan' # scan => tracks'[i] = tracks[i]]_vars

\* A scan deletes only rows whose object is gone (ScanReport::deleted).
ScanPrunesOnlyVanished ==
  [][\A i \in Id : tracks[i] # NoRow /\ tracks'[i] = NoRow /\ scan' # scan =>
       store[tracks[i].key] = NoObj]_vars

\* A full scan with no operation beside it leaves the index and the store in
\* agreement, whatever a crash left behind (scanner/mod.rs: rescanning after
\* an interruption is safe).
ScanReconciles ==
  [][scan.pc = "ingest" /\ scan.quiet /\ scan.todo = {} /\ Vanished = {} /\ scan'.pc = "idle"
       => \A k \in Audio : Indexed(k)]_vars

\* Every operation that is submitted returns: no failure, lock or scan that
\* another holds keeps a spawned task forever.
OperationsReturn == \A t \in Task : [](Active(t) => <>(op[t].pc = "done"))
=============================================================================
