-------------------------- MODULE LibraryOpsProofs --------------------------
(***************************************************************************)
(* What holds of LibraryOps for any operations, keys, contents, bounds and *)
(* prefixes: types, which operation holds which key and what the scan in   *)
(* progress belongs to; and that a full scan repairs what crashes, failing *)
(* calls and lost puts leave behind.                                       *)
(***************************************************************************)
EXTENDS LibraryOps, SequenceTheorems, WellFoundedInduction, TLAPS

(***************************************************************************)
(* The inductive invariant.  Operation says where the task of an operation *)
(* can be and what it carries there; Held, which keys it owns there.       *)
(***************************************************************************)
UploadPlaces == {"lock", "backup", "put", "ingest", "readBack", "select", "undo", "reingest",
                 "reread", "done"}
WriteBackPlaces == {"source", "lock", "recheck", "backup", "put", "scan", "scanning", "clear",
                    "restore", "rescan", "rescanning", "done"}
DeletePlaces == {"source", "lock", "recheck", "backup", "remove", "check", "unindex", "restore",
                 "done"}
MovePlaces == {"source", "lock", "recheck", "head", "copy", "put", "cas", "remove", "check",
               "rollback", "cleanup", "discard", "done"}
Places == {"new"} \cup UploadPlaces \cup WriteBackPlaces \cup DeletePlaces \cup MovePlaces
Scanning == {"scanning", "rescanning"}
OnSource == {"writeBack", "delete", "move"}
OpRecord == [kind : {"none", "upload"} \cup OnSource, pc : Places, id : Id \cup {0},
             key : ObjKey \cup {0}, new : Content \cup {NoObj}, fields : SUBSET Field,
             src : Row \cup {NoRow}, backup : Content \cup {NoObj}, result : Results]

\* Before an operation has read what it may have to restore.
Early == {"new", "source", "lock", "recheck", "backup", "head", "copy", "done"}
Operation(o) ==
  /\ o \in OpRecord
  /\ o.kind = "none" => o.pc = "new"
  /\ o.kind = "upload" => o.pc \in UploadPlaces
  /\ o.kind = "writeBack" => o.pc \in WriteBackPlaces
  /\ o.kind = "delete" => o.pc \in DeletePlaces
  /\ o.kind = "move" => o.pc \in MovePlaces
  /\ o.pc # "done" => o.result = "none"
  /\ o.pc \in {"new", "source", "done"} => o.src = NoRow
  /\ o.kind = "upload" =>
       /\ o.src = NoRow
       /\ o.pc # "done" => o.key \in ObjKey /\ o.new \in Content
       /\ o.pc = "lock" => o.id = 0
       /\ o.pc \in {"readBack", "reread"} => o.id \in Id
  /\ o.kind \in OnSource =>
       /\ o.pc \in Early <=> o.backup = NoObj
       /\ o.pc # "done" => o.id \in Id
       /\ o.pc \notin {"source", "done"} => o.src \in Row
       /\ o.kind = "move" /\ o.pc # "done" => o.key \in ObjKey
       /\ o.kind # "move" => o.key = 0
       /\ o.kind = "writeBack" /\ o.pc # "done" => o.new \in Content \ Broken
Unlocked == {"new", "source", "lock", "done"}
Held(o) == IF o.pc \in Unlocked THEN {}
           ELSE IF o.kind = "upload" THEN {<<"object", o.key>>} ELSE OperationKeys(o)
Operations ==
  /\ op \in [Task -> OpRecord]
  /\ \A t \in Task : Operation(op[t])
  /\ locks = [t \in Task |-> Held(op[t])]
  /\ \A t, u \in Task : t # u => locks[t] \cap locks[u] = {}

Stores ==
  /\ store \in [ObjKey -> Content \cup {NoObj}]
  /\ listed \in [ObjKey -> Content \cup {NoObj}]

\* No two rows have one key, and no row has an id to come.
Rows ==
  /\ tracks \in [Id -> Row \cup {NoRow}]
  /\ nextId \in 1..(MaxId + 1)
  /\ overrides \subseteq {i \in Id : tracks[i] # NoRow} \X Field
  /\ \A i \in Id : tracks[i] # NoRow => i < nextId
  /\ \A i, j \in Id :
       tracks[i] # NoRow /\ tracks[j] # NoRow /\ tracks[i].key = tracks[j].key => i = j

\* What a row, an object's entry and an item to be ingested look like.
Entry == [key : ObjKey, etag : Etags]
Item == [key : ObjKey, etag : Etags, tags : Content \cup {NoObj}]
ScanRecord ==
  [pc : {"idle", "list", "ingest", "reread"}, owner : Task \cup {Nobody}, lists : SUBSET ObjKey,
   cursor : ObjKey \cup {0}, existing : SUBSET Entry, seen : SUBSET ObjKey, todo : SUBSET Item,
   wrote : Id \cup {0}, quiet : BOOLEAN]
Scanner ==
  /\ scan \in ScanRecord
  /\ scan.seen \subseteq scan.lists /\ \A x \in scan.todo : x.key \in scan.lists
  /\ scan.pc = "idle" => scan = NoScan
  /\ scan.pc = "reread" => scan.wrote \in Id
  /\ \A t \in Task : scan.owner = t <=> op[t].pc \in Scanning
  /\ \A t \in Task : scan.owner = t =>
       /\ scan.lists = ListPrefix[op[t].src.key]
       /\ \A x \in scan.existing : x.key \in LikePrefix[op[t].src.key]

Counted == scans \in 0..MaxScans /\ flagged \subseteq ObjKey
           /\ faults \in 0..MaxFaults /\ crashes \in 0..MaxCrashes

IInv == Operations /\ Stores /\ Rows /\ Scanner /\ Counted

-----------------------------------------------------------------------------
(***************************************************************************)
(* Rows.                                                                   *)
(***************************************************************************)
\* The rows that change have, and get, a key of K.
OnlyRowsOf(K) ==
  \A i \in Id : tracks'[i] # tracks[i] =>
    \A r \in {tracks[i], tracks'[i]} \ {NoRow} : r.key \in K

\* A key has at most one row.
LEMMA OneRow ==
  ASSUME Rows, NEW k \in ObjKey, NEW i \in RowsAt(k)
  PROVE  RowsAt(k) = {i} /\ i \in Id /\ tracks[i] \in Row /\ tracks[i].key = k
  BY DEF Rows, RowsAt

\* An upsert gives the key one row, which says what is upserted, and touches
\* no other row.
LEMMA UpsertRows ==
  ASSUME Rows, NEW k \in ObjKey, NEW e \in Etags, NEW g \in Content, Upsert(k, e, g)
  PROVE  /\ Rows' /\ OnlyRowsOf({k}) /\ overrides' = overrides
         /\ IngestedId(k) \in Id /\ RowsAt(k)' = {IngestedId(k)}
         /\ tracks'[IngestedId(k)] = [key |-> k, etag |-> e, tags |-> g]
         /\ \A i \in Id : tracks[i] # NoRow => tracks'[i] # NoRow
<1> DEFINE row == [key |-> k, etag |-> e, tags |-> g]
<1>1. row \in Row /\ row.key = k /\ row # NoRow
  BY RowAssumption DEF Row
<1>2. MaxId \in Nat /\ Id \subseteq Nat
  BY SizeAssumption DEF Id
<1>3. CASE RowsAt(k) # {}
  <2> DEFINE j == CHOOSE i \in RowsAt(k) : TRUE
  <2>1. j \in RowsAt(k) /\ IngestedId(k) = j
    BY <1>3 DEF IngestedId
  <2> HIDE DEF j, row
  <2>2. RowsAt(k) = {j} /\ j \in Id /\ tracks[j] \in Row /\ tracks[j].key = k /\ tracks[j] # NoRow
    BY <2>1, OneRow, RowAssumption
  <2>3. /\ tracks' = [i \in Id |-> IF i \in RowsAt(k) THEN row ELSE tracks[i]]
        /\ nextId' = nextId /\ overrides' = overrides
    BY <1>3 DEF Upsert, row
  <2>4. tracks' = [i \in Id |-> IF i = j THEN row ELSE tracks[i]]
    BY <2>2, <2>3
  <2> HIDE DEF RowsAt
  <2>5. /\ tracks' \in [Id -> Row \cup {NoRow}] /\ tracks'[j] = row
        /\ \A i \in Id \ {j} : tracks'[i] = tracks[i]
    BY <1>1, <2>2, <2>4 DEF Rows
  <2>6. Rows'
    BY <1>1, <2>2, <2>3, <2>5 DEF Rows
  <2>7. RowsAt(k)' = {j}
    BY <1>1, <2>2, <2>5 DEF Rows, RowsAt
  <2> QED
    BY <1>1, <2>1, <2>2, <2>3, <2>5, <2>6, <2>7 DEF OnlyRowsOf, row
<1>4. CASE RowsAt(k) = {}
  <2> HIDE DEF row
  <2>1. /\ nextId \in Id /\ tracks' = [tracks EXCEPT ![nextId] = row]
        /\ nextId' = nextId + 1 /\ overrides' = overrides /\ IngestedId(k) = nextId
    BY <1>2, <1>4 DEF Upsert, row, Rows, Id, IngestedId
  <2>2. tracks[nextId] = NoRow
    BY <1>2, <2>1 DEF Rows
  <2>3. /\ tracks' \in [Id -> Row \cup {NoRow}] /\ tracks'[nextId] = row
        /\ \A i \in Id \ {nextId} : tracks'[i] = tracks[i]
    BY <1>1, <2>1 DEF Rows
  <2>4. \A i \in Id : tracks[i] # NoRow => tracks[i].key # k
    BY <1>4 DEF RowsAt
  <2>5. Rows'
    <3>1. nextId' \in 1..(MaxId + 1) /\ \A i \in Id : i < nextId => i < nextId'
      BY <1>2, <2>1 DEF Id
    <3>2. \A i \in Id : tracks'[i] # NoRow => i < nextId'
      BY <1>2, <2>1, <2>3, <3>1 DEF Rows
    <3> QED
      BY <1>1, <2>1, <2>2, <2>3, <2>4, <3>1, <3>2 DEF Rows
  <2>6. RowsAt(k)' = {nextId}
    BY <1>1, <2>1, <2>3, <2>4 DEF RowsAt
  <2> QED
    BY <1>1, <2>1, <2>2, <2>3, <2>5, <2>6 DEF OnlyRowsOf, row
<1> QED
  BY <1>3, <1>4

\* Deleting rows deletes their overrides and touches no other row.
LEMMA DeleteRowsRows ==
  ASSUME Rows, NEW ids \in SUBSET Id, DeleteRows(ids)
  PROVE  /\ Rows' /\ \A i \in ids : tracks'[i] = NoRow
         /\ \A i \in Id \ ids : tracks'[i] = tracks[i]
         /\ \A K : (\A i \in ids : tracks[i] # NoRow => tracks[i].key \in K) => OnlyRowsOf(K)
<1>1. /\ tracks' \in [Id -> Row \cup {NoRow}] /\ \A i \in ids : tracks'[i] = NoRow
      /\ \A i \in Id \ ids : tracks'[i] = tracks[i]
  BY DEF DeleteRows, Rows
<1>2. Rows'
  BY <1>1 DEF DeleteRows, Rows
<1> QED
  BY <1>1, <1>2 DEF OnlyRowsOf

\* A compare-and-set gives the row of the track a free key.
LEMMA CasMoveRows ==
  ASSUME Rows, NEW i \in Id, NEW k \in ObjKey, NEW f, NEW to \in ObjKey, NEW e \in Etags,
         CasMatches(i, k, f, to), CasMove(i, to, e)
  PROVE  /\ Rows' /\ OnlyRowsOf({k, to}) /\ overrides' = overrides
         /\ tracks'[i] = [tracks[i] EXCEPT !.key = to, !.etag = e]
         /\ tracks'[i] \in Row /\ tracks'[i].key = to /\ tracks'[i].etag = e
         /\ tracks'[i].tags = tracks[i].tags
         /\ \A j \in Id \ {i} : tracks'[j] = tracks[j]
         /\ RowsAt(to)' = {i} /\ (k # to => RowsAt(k)' = {})
<1>1. tracks[i] \in Row /\ tracks[i].key = k
  BY DEF CasMatches, Rows
<1> DEFINE n == [tracks[i] EXCEPT !.key = to, !.etag = e]
<1>2. n \in Row /\ n.key = to /\ n.etag = e /\ n.tags = tracks[i].tags
  BY <1>1 DEF Row
<1>3. n # NoRow
  BY <1>2, RowAssumption
<1>4. tracks' = [tracks EXCEPT ![i] = n] /\ nextId' = nextId /\ overrides' = overrides
  BY DEF CasMove
<1> HIDE DEF n
<1>5. /\ tracks' \in [Id -> Row \cup {NoRow}] /\ tracks'[i] = n
      /\ \A j \in Id \ {i} : tracks'[j] = tracks[j]
  BY <1>2, <1>4 DEF Rows
<1>6. \A j \in Id : tracks[j] # NoRow => tracks[j].key # to
  BY DEF CasMatches, RowsAt
<1>7. Rows'
  BY <1>1, <1>2, <1>3, <1>4, <1>5, <1>6, RowAssumption DEF Rows
<1>8. RowsAt(to)' = {i} /\ (k # to => RowsAt(k)' = {})
  BY <1>1, <1>2, <1>3, <1>5, <1>6, RowAssumption DEF Rows, RowsAt
<1> QED
  BY <1>1, <1>2, <1>3, <1>5, <1>7, <1>8, <1>4 DEF OnlyRowsOf, n

\* Reconciling one object touches only the row of its key.
LEMMA IngestRows ==
  ASSUME Rows, Stores, NEW k \in ObjKey, Ingest(k), Ingestible(k)
  PROVE  /\ Rows' /\ OnlyRowsOf({k})
         /\ store[k] = NoObj => RowsAt(k)' = {}
         /\ store[k] # NoObj /\ k \in Audio =>
              /\ IngestedId(k) \in Id /\ RowsAt(k)' = {IngestedId(k)}
              /\ tracks'[IngestedId(k)] = [key |-> k, etag |-> Etag(store[k]), tags |-> store[k]]
<1>1. CASE store[k] = NoObj
  <2>1. DeleteRows(RowsAt(k)) /\ RowsAt(k) \subseteq Id
    BY <1>1 DEF Ingest, RowsAt
  <2>2. \A i \in RowsAt(k) : tracks[i].key = k
    BY DEF RowsAt
  <2>3. /\ Rows' /\ OnlyRowsOf({k}) /\ \A i \in RowsAt(k) : tracks'[i] = NoRow
        /\ \A i \in Id \ RowsAt(k) : tracks'[i] = tracks[i]
    BY <2>1, <2>2, DeleteRowsRows
  <2>4. RowsAt(k)' = {}
    BY <2>3 DEF RowsAt
  <2> QED
    BY <1>1, <2>3, <2>4
<1>2. CASE store[k] # NoObj /\ k \notin Audio
  BY <1>2 DEF Ingest, SameRows, Rows, OnlyRowsOf
<1>3. CASE store[k] # NoObj /\ k \in Audio
  <2>1. store[k] \in Content /\ Etag(store[k]) \in Etags /\ Upsert(k, Etag(store[k]), store[k])
    BY <1>3 DEF Stores, Ingest, Etag, Etags
  <2> QED
    BY <1>3, <2>1, UpsertRows
<1> QED
  BY <1>1, <1>2, <1>3

-----------------------------------------------------------------------------
(***************************************************************************)
(* How an operation moves.                                                 *)
(***************************************************************************)
OthersStay(t) == \A u \in Task \ {t} : op'[u] = op[u] /\ locks'[u] = locks[u]

\* Whoever keeps its keys disturbs nobody.
LEMMA KeysKept ==
  ASSUME Operations, NEW t \in Task, NEW n, op' = [op EXCEPT ![t] = n], Operation(n),
         Held(n) = Held(op[t]), locks' = locks
  PROVE  Operations' /\ OthersStay(t) /\ op'[t] = n
<1>1. op' \in [Task -> OpRecord] /\ op'[t] = n /\ \A u \in Task \ {t} : op'[u] = op[u]
  BY DEF Operations, Operation
<1>2. locks' = [u \in Task |-> Held(op'[u])]
  BY <1>1 DEF Operations
<1> QED
  BY <1>1, <1>2 DEF Operations, OthersStay

\* Whoever gives its keys back disturbs nobody.
LEMMA KeysDropped ==
  ASSUME Operations, NEW t \in Task, NEW n, op' = [op EXCEPT ![t] = n], Operation(n),
         Held(n) = {}, locks' = [locks EXCEPT ![t] = {}]
  PROVE  Operations' /\ OthersStay(t) /\ op'[t] = n
<1>1. op' \in [Task -> OpRecord] /\ op'[t] = n /\ \A u \in Task \ {t} : op'[u] = op[u]
  BY DEF Operations, Operation
<1>2. locks' = [u \in Task |-> Held(op'[u])] /\ \A u \in Task \ {t} : locks'[u] = locks[u]
  BY <1>1 DEF Operations
<1>3. \A u, v \in Task : u # v => locks'[u] \cap locks'[v] = {}
  BY <1>2 DEF Operations
<1> QED
  BY <1>1, <1>2, <1>3 DEF Operations, OthersStay

\* The operation of t is what it was, at another place.
Keeps(t) ==
  /\ op'[t].kind = op[t].kind /\ op'[t].id = op[t].id /\ op'[t].key = op[t].key
  /\ op'[t].new = op[t].new /\ op'[t].src = op[t].src /\ op'[t].result = op[t].result

\* The places an operation that has its keys may go to, keeping its backup.
Reach(o, pc) ==
  /\ pc \in Places \ Unlocked
  /\ o.kind = "upload" => pc \in UploadPlaces \ {"readBack", "reread"}
  /\ o.kind = "writeBack" => pc \in WriteBackPlaces
  /\ o.kind = "delete" => pc \in DeletePlaces
  /\ o.kind = "move" => pc \in MovePlaces
  /\ o.kind \in OnSource => (pc \in Early <=> o.pc \in Early)

\* A task that goes on keeps its form, and the others theirs.
LEMMA Going ==
  ASSUME Operations, NEW t \in Task, NEW pc, op[t].pc \notin Unlocked, Reach(op[t], pc),
         Goto(t, pc)
  PROVE  /\ Operations' /\ OthersStay(t) /\ Keeps(t)
         /\ op'[t].pc = pc /\ op'[t].backup = op[t].backup /\ flagged' = flagged
<1> DEFINE n == [op[t] EXCEPT !.pc = pc]
<1>1. op[t] \in OpRecord /\ Operation(op[t])
  BY DEF Operations
<1>2. /\ n \in OpRecord /\ n.kind = op[t].kind /\ n.id = op[t].id /\ n.key = op[t].key
      /\ n.new = op[t].new /\ n.src = op[t].src /\ n.result = op[t].result
      /\ n.pc = pc /\ n.backup = op[t].backup
  <2>1. pc \in Places
    BY DEF Reach
  <2> QED
    BY <1>1, <2>1 DEF OpRecord
<1>3. op' = [op EXCEPT ![t] = n] /\ locks' = locks /\ flagged' = flagged
  BY DEF Goto
<1> HIDE DEF n
<1>4. Operation(n)
  BY <1>1, <1>2 DEF Operation, Reach, Unlocked
<1>5. Held(n) = Held(op[t])
  BY <1>2 DEF Held, OperationKeys, KeysOf, Source, Reach
<1>6. Operations' /\ OthersStay(t) /\ op'[t] = n
  BY <1>3, <1>4, <1>5, KeysKept
<1> QED
  BY <1>2, <1>3, <1>6 DEF Keeps

\* It keeps in its backup what it may have to restore.
LEMMA BackingUp ==
  ASSUME Operations, NEW t \in Task, NEW pc, NEW c \in Content \cup {NoObj},
         op[t].pc \notin Unlocked, pc \in Places \ (Unlocked \cup {"readBack", "reread"}),
         op[t].kind = "upload" => pc \in UploadPlaces,
         op[t].kind = "writeBack" => pc \in WriteBackPlaces,
         op[t].kind = "delete" => pc \in DeletePlaces,
         op[t].kind = "move" => pc \in MovePlaces,
         op[t].kind \in OnSource => c # NoObj /\ pc \notin Early,
         op' = [op EXCEPT ![t].backup = c, ![t].pc = pc], locks' = locks
  PROVE  /\ Operations' /\ OthersStay(t) /\ Keeps(t) /\ op'[t].pc = pc /\ op'[t].backup = c
<1> DEFINE n == [op[t] EXCEPT !.backup = c, !.pc = pc]
<1>1. op[t] \in OpRecord /\ Operation(op[t])
  BY DEF Operations
<1>2. /\ n \in OpRecord /\ n.kind = op[t].kind /\ n.id = op[t].id /\ n.key = op[t].key
      /\ n.new = op[t].new /\ n.src = op[t].src /\ n.result = op[t].result
      /\ n.pc = pc /\ n.backup = c
  BY <1>1 DEF OpRecord
<1>3. op' = [op EXCEPT ![t] = n]
  OBVIOUS
<1> HIDE DEF n
<1>4. Operation(n)
  BY <1>1, <1>2 DEF Operation, Unlocked
<1>5. Held(n) = Held(op[t])
  BY <1>2 DEF Held, OperationKeys, KeysOf, Source
<1>6. Operations' /\ OthersStay(t) /\ op'[t] = n
  BY <1>3, <1>4, <1>5, KeysKept
<1> QED
  BY <1>2, <1>6 DEF Keeps

\* The operation of t has ended.
Ended(t, result) ==
  /\ op'[t].pc = "done" /\ op'[t].kind = op[t].kind /\ op'[t].src = NoRow
  /\ op'[t].backup = NoObj /\ op'[t].result = result /\ locks'[t] = {}

\* So does one that answers.
LEMMA Finishing ==
  ASSUME Operations, NEW t \in Task, NEW result \in Results, Finish(t, result),
         op[t].kind # "none"
  PROVE  Operations' /\ OthersStay(t) /\ Ended(t, result)
<1> DEFINE k == op[t].kind
           n == [Idle EXCEPT !.kind = k, !.pc = "done", !.result = result]
<1>1. op[t] \in OpRecord
  BY DEF Operations
<1>5. n = [Idle EXCEPT !.kind = k, !.pc = "done", !.result = result]
      /\ op' = [op EXCEPT ![t] = n] /\ locks' = [locks EXCEPT ![t] = {}]
  BY DEF Finish
<1> HIDE DEF k, n
<1>2. n = [kind |-> k, pc |-> "done", id |-> 0, key |-> 0, new |-> NoObj,
           fields |-> {}, src |-> NoRow, backup |-> NoObj, result |-> result]
  BY <1>5 DEF Idle
<1>k. k = op[t].kind
  BY DEF k
<1>3. n \in OpRecord
  BY <1>1, <1>2, <1>k DEF OpRecord, Places, UploadPlaces
<1>4. Operation(n) /\ Held(n) = {}
  BY <1>2, <1>3, <1>k DEF Operation, OpRecord, Held, Unlocked, Early, OnSource, UploadPlaces,
       WriteBackPlaces, DeletePlaces, MovePlaces
<1>6. Operations' /\ OthersStay(t) /\ op'[t] = n
  BY <1>4, <1>5, KeysDropped
<1>7. locks'[t] = {}
  BY <1>4, <1>6 DEF Operations
<1> QED
  BY <1>2, <1>6, <1>7, <1>k DEF Ended

\* What t may do to the stores and to the rows: only under its own keys.
Owned(t) == {k \in ObjKey : <<"object", k>> \in locks[t]}
Within(t) ==
  /\ OthersStay(t)
  /\ \A k \in ObjKey : store'[k] # store[k] => k \in Owned(t)
  /\ OnlyRowsOf(Owned(t))

\* How t itself goes on in a step that is none of the scanner's.
Leaves(t) ==
  /\ Operations' /\ OthersStay(t) /\ op'[t].pc \notin Scanning
  /\ flagged' \subseteq ObjKey

\* A task past its lock owns the key it was asked about and the key of its row.
LEMMA OwnedKeys ==
  ASSUME Operations, NEW t \in Task, op[t].pc \notin Unlocked
  PROVE  /\ op[t].kind = "upload" => op[t].key \in Owned(t)
         /\ op[t].kind \in OnSource =>
              op[t].src \in Row /\ op[t].src.key \in Owned(t) /\ op[t].src # NoRow
         /\ op[t].kind = "move" => op[t].key \in Owned(t)
<1>1. Operation(op[t]) /\ locks[t] = Held(op[t])
  BY DEF Operations
<1>2. CASE op[t].kind = "upload"
  BY <1>1, <1>2 DEF Operation, Held, Unlocked, Owned, OnSource
<1>3. CASE op[t].kind \in OnSource
  <2>1. /\ op[t].src \in Row /\ op[t].src # NoRow
        /\ op[t].kind = "move" => op[t].key \in ObjKey
        /\ locks[t] = OperationKeys(op[t])
    BY <1>1, <1>3, RowAssumption DEF Operation, Held, Unlocked, OnSource
  <2>2. op[t].src.key \in ObjKey
    BY <2>1 DEF Row
  <2>3. 0 \notin ObjKey
    BY SizeAssumption DEF ObjKey
  <2> QED
    BY <1>3, <2>1, <2>2, <2>3 DEF Owned, OperationKeys, KeysOf, Source, OnSource
<1>4. op[t].kind \in {"none", "upload"} \cup OnSource
  BY <1>1 DEF Operation, OpRecord
<1> QED
  BY <1>2, <1>3, <1>4 DEF OnSource

\* What going on does to the invariant.
LEMMA Goes ==
  ASSUME IInv, NEW t \in Task, NEW pc, op[t].pc \notin Unlocked, Reach(op[t], pc),
         pc \notin Scanning, Goto(t, pc)
  PROVE  Leaves(t)
  BY Going DEF IInv, Leaves, Counted

\* What answering does to it, with or without a log line.
LEMMA Returns ==
  ASSUME IInv, NEW t \in Task, NEW result \in Results, op[t].kind # "none",
         Return(t, result) \/ ReturnFlagged(t)
  PROVE  Leaves(t)
<1>1. "error" \in Results
  BY DEF Results
<1>2. Operations' /\ OthersStay(t) /\ op'[t].pc = "done"
  BY <1>1, Finishing DEF IInv, Return, ReturnFlagged, Ended
<1>3. KeysOf(op[t]) \subseteq ObjKey
  <2>1. op[t].key \in ObjKey \cup {0} /\ op[t].src \in Row \cup {NoRow}
    BY DEF IInv, Operations, OpRecord
  <2> QED
    BY <2>1 DEF KeysOf, Source, Row
<1> QED
  BY <1>2, <1>3 DEF Leaves, Return, ReturnFlagged, IInv, Counted, Scanning

\* A put or a delete changes one object.
LEMMA Written ==
  ASSUME Stores, NEW k \in ObjKey, NEW c \in Content \cup {NoObj}, Write(k, c)
  PROVE  Stores' /\ store'[k] = c /\ \A l \in ObjKey \ {k} : store'[l] = store[l]
  BY DEF Stores, Write

\* The scan in progress belongs to none of the tasks that move.
LEMMA ScannerStays ==
  ASSUME IInv, NEW t \in Task, OthersStay(t), op[t].pc \notin Scanning,
         op'[t].pc \notin Scanning, scan' = scan
  PROVE  Scanner'
<1>1. Scanner /\ scan.owner # t
  BY DEF IInv, Scanner
<1> QED
  BY <1>1 DEF Scanner, OthersStay

\* A step of an operation that is none of the scanner's keeps the invariant
\* and stays within its keys.
LEMMA StepForm ==
  ASSUME IInv, NEW t \in Task, Leaves(t), op[t].pc \notin Scanning, SameScan,
         Fault \/ NoFault, Stores', Rows', OnlyRowsOf(Owned(t)),
         \A k \in ObjKey : store'[k] # store[k] => k \in Owned(t)
  PROVE  IInv' /\ Within(t)
<1>1. Scanner'
  BY ScannerStays DEF Leaves, SameScan
<1>2. Counted'
  BY BoundsAssumption DEF IInv, Counted, Leaves, SameScan, Fault, NoFault
<1> QED
  BY <1>1, <1>2 DEF IInv, Within, Leaves

\* Steps that only read.
LEMMA ReadingForm ==
  ASSUME IInv, NEW t \in Task, Leaves(t), op[t].pc \notin Scanning, SameScan,
         Fault \/ NoFault, Reads
  PROVE  IInv' /\ Within(t)
<1>1. Stores' /\ Rows' /\ OnlyRowsOf(Owned(t))
  BY DEF IInv, Stores, Rows, Reads, SameObjects, SameRows, OnlyRowsOf
<1> QED
  BY <1>1, StepForm DEF Reads, SameObjects

\* Steps that write one object under its key.
LEMMA WritingForm ==
  ASSUME IInv, NEW t \in Task, Leaves(t), op[t].pc \notin Scanning, SameScan,
         Fault \/ NoFault, SameRows, NEW k \in Owned(t), NEW c \in Content \cup {NoObj},
         Write(k, c) \/ SameObjects
  PROVE  IInv' /\ Within(t)
<1>1. Rows' /\ OnlyRowsOf(Owned(t)) /\ k \in ObjKey
  BY DEF IInv, Rows, SameRows, OnlyRowsOf, Owned
<1>2. Stores' /\ \A l \in ObjKey : store'[l] # store[l] => l \in Owned(t)
  BY <1>1, Written DEF IInv, Stores, SameObjects
<1> QED
  BY <1>1, <1>2, StepForm

\* Steps that write rows under their keys.
LEMMA IndexingForm ==
  ASSUME IInv, NEW t \in Task, Leaves(t), op[t].pc \notin Scanning, SameScan,
         Fault \/ NoFault, SameObjects, Rows', OnlyRowsOf(Owned(t))
  PROVE  IInv' /\ Within(t)
  BY StepForm DEF IInv, Stores, SameObjects

-----------------------------------------------------------------------------
(***************************************************************************)
(* The steps of an operation.                                              *)
(***************************************************************************)
\* A faulty call of one of the two kinds of store writes.
LEMMA FailedForm ==
  ASSUME NEW k \in ObjKey, NEW c, FailedDelete(k) \/ FailedPut(k, c)
  PROVE  Fault /\ (SameObjects \/ Write(k, c) \/ Write(k, NoObj))
  BY DEF FailedDelete, FailedPut

\* A task that moves has been given something to do.
LEMMA Given ==
  ASSUME IInv, NEW t \in Task
  PROVE  /\ op[t] \in OpRecord /\ Operation(op[t])
         /\ op[t].pc # "new" => op[t].kind # "none"
  BY DEF IInv, Operations, Operation

\* A request arrives.
LEMMA SubmitForm ==
  ASSUME IInv, NEW t \in Task, NEW o, Submit(t, o), Operation(o), o.pc \in {"source", "lock"}
  PROVE  IInv' /\ Within(t)
<1>1. Held(op[t]) = {} /\ Held(o) = {} /\ op[t].pc \notin Scanning /\ o.pc \notin Scanning
  BY DEF Submit, Idle, Held, Unlocked, Scanning
<1>2. Operations' /\ OthersStay(t) /\ op'[t] = o
  BY <1>1, KeysKept DEF Submit, IInv
<1>3. Scanner'
  <2>1. scan \in ScanRecord /\ scan' = [scan EXCEPT !.quiet = FALSE]
    BY DEF IInv, Scanner, Submit
  <2>2. /\ scan' \in ScanRecord /\ scan'.pc = scan.pc /\ scan'.owner = scan.owner
        /\ scan'.lists = scan.lists /\ scan'.existing = scan.existing
        /\ scan'.seen = scan.seen /\ scan'.todo = scan.todo /\ scan'.wrote = scan.wrote
    BY <2>1 DEF ScanRecord
  <2>3. scan'.pc = "idle" => scan' = NoScan
    <3>1. scan.pc = "idle" => scan = NoScan
      BY DEF IInv, Scanner
    <3>2. scan' = [NoScan EXCEPT !.quiet = FALSE] => scan' = NoScan
      BY DEF NoScan
    <3> QED
      BY <2>1, <2>2, <3>1, <3>2
  <2> QED
    BY <1>1, <1>2, <2>2, <2>3 DEF IInv, Scanner, OthersStay
<1>4. Stores' /\ Rows' /\ Counted'
  BY DEF IInv, Stores, Rows, Counted, Submit, Reads, SameObjects, SameRows
<1> QED
  BY <1>2, <1>3, <1>4 DEF IInv, Within, Submit, Reads, SameObjects, SameRows, OnlyRowsOf

\* An operation is submitted for a key of the bucket or for a track the index
\* has handed out an id for.
LEMMA SubmitStepForm ==
  ASSUME IInv, NEW t \in Task, SubmitStep(t)
  PROVE  IInv' /\ Within(t)
<1> DEFINE Ask(kind, pc, i, k, c, fs) ==
       [kind |-> kind, pc |-> pc, id |-> i, key |-> k, new |-> c, fields |-> fs,
        src |-> NoRow, backup |-> NoObj, result |-> "none"]
<1>1. \A i \in 1..(nextId - 1) : i \in Id
  BY SizeAssumption DEF IInv, Rows, Id
<1>2. CASE SubmitUpload(t)
  <2>1. PICK k \in ObjKey, c \in Content :
          Submit(t, [Idle EXCEPT !.kind = "upload", !.pc = "lock", !.key = k, !.new = c])
    BY <1>2 DEF SubmitUpload
  <2> DEFINE o == [Idle EXCEPT !.kind = "upload", !.pc = "lock", !.key = k, !.new = c]
  <2>a. o = [Idle EXCEPT !.kind = "upload", !.pc = "lock", !.key = k, !.new = c]
    OBVIOUS
  <2> HIDE DEF o
  <2>2. o = Ask("upload", "lock", 0, k, c, {})
    BY <2>a DEF Idle
  <2>b. Submit(t, o) /\ o.pc \in {"source", "lock"}
    BY <2>1, <2>2 DEF o
  <2>3. Operation(o)
    BY <2>2 DEF Operation, OpRecord, Places, UploadPlaces, OnSource, Results
  <2> QED
    BY <2>b, <2>3, SubmitForm
<1>3. CASE SubmitWriteBack(t)
  <2>1. PICK i \in 1..(nextId - 1), c \in Content \ Broken, fs \in SUBSET Field \ {{}} :
          Submit(t, [Idle EXCEPT !.kind = "writeBack", !.pc = "source", !.id = i, !.new = c,
                                 !.fields = fs])
    BY <1>3 DEF SubmitWriteBack
  <2> DEFINE o == [Idle EXCEPT !.kind = "writeBack", !.pc = "source", !.id = i, !.new = c,
                               !.fields = fs]
  <2>a. o = [Idle EXCEPT !.kind = "writeBack", !.pc = "source", !.id = i, !.new = c,
                         !.fields = fs]
    OBVIOUS
  <2> HIDE DEF o
  <2>2. o = Ask("writeBack", "source", i, 0, c, fs)
    BY <2>a DEF Idle
  <2>b. Submit(t, o) /\ o.pc \in {"source", "lock"}
    BY <2>1, <2>2 DEF o
  <2>3. Operation(o)
    BY <2>2, <1>1 DEF Operation, OpRecord, Places, WriteBackPlaces, OnSource, Results, Early
  <2> QED
    BY <2>b, <2>3, SubmitForm
<1>4. CASE SubmitDelete(t)
  <2>1. PICK i \in 1..(nextId - 1) :
          Submit(t, [Idle EXCEPT !.kind = "delete", !.pc = "source", !.id = i])
    BY <1>4 DEF SubmitDelete
  <2> DEFINE o == [Idle EXCEPT !.kind = "delete", !.pc = "source", !.id = i]
  <2>a. o = [Idle EXCEPT !.kind = "delete", !.pc = "source", !.id = i]
    OBVIOUS
  <2> HIDE DEF o
  <2>2. o = Ask("delete", "source", i, 0, NoObj, {})
    BY <2>a DEF Idle
  <2>b. Submit(t, o) /\ o.pc \in {"source", "lock"}
    BY <2>1, <2>2 DEF o
  <2>3. Operation(o)
    BY <2>2, <1>1 DEF Operation, OpRecord, Places, DeletePlaces, OnSource, Results, Early
  <2> QED
    BY <2>b, <2>3, SubmitForm
<1>5. CASE SubmitMove(t)
  <2>1. PICK i \in 1..(nextId - 1), k \in ObjKey :
          Submit(t, [Idle EXCEPT !.kind = "move", !.pc = "source", !.id = i, !.key = k])
    BY <1>5 DEF SubmitMove
  <2> DEFINE o == [Idle EXCEPT !.kind = "move", !.pc = "source", !.id = i, !.key = k]
  <2>a. o = [Idle EXCEPT !.kind = "move", !.pc = "source", !.id = i, !.key = k]
    OBVIOUS
  <2> HIDE DEF o
  <2>2. o = Ask("move", "source", i, k, NoObj, {})
    BY <2>a DEF Idle
  <2>b. Submit(t, o) /\ o.pc \in {"source", "lock"}
    BY <2>1, <2>2 DEF o
  <2>3. Operation(o)
    BY <2>2, <1>1 DEF Operation, OpRecord, Places, MovePlaces, OnSource, Results, Early
  <2> QED
    BY <2>b, <2>3, SubmitForm
<1> QED
  BY <1>2, <1>3, <1>4, <1>5 DEF SubmitStep

\* ReadSource: the row it finds is what it works on from now.
LEMMA ReadSourceForm ==
  ASSUME IInv, NEW t \in Task, ReadSource(t)
  PROVE  IInv' /\ Within(t)
<1>1. op[t] \in OpRecord /\ Operation(op[t]) /\ op[t].pc = "source" /\ op[t].kind # "none"
  BY Given DEF ReadSource
<1>2. op[t].id \in Id /\ op[t].kind \in OnSource
  BY <1>1 DEF Operation, OpRecord, UploadPlaces, OnSource
<1>3. Leaves(t)
  <2>1. CASE Return(t, "notFound") \/ Return(t, "error")
    BY <1>1, <2>1, Returns DEF Results
  <2>2. CASE /\ tracks[op[t].id] # NoRow
             /\ op' = [op EXCEPT ![t].src = tracks[op[t].id], ![t].pc = "lock"]
             /\ UNCHANGED <<locks, flagged>>
    <3> DEFINE r == tracks[op[t].id]
               n == [op[t] EXCEPT !.src = r, !.pc = "lock"]
    <3>1. r \in Row
      BY <1>2, <2>2 DEF IInv, Rows
    <3>2. op' = [op EXCEPT ![t] = n]
      BY <2>2
    <3> HIDE DEF r
    <3>3. /\ n \in OpRecord /\ n.kind = op[t].kind /\ n.id = op[t].id /\ n.key = op[t].key
          /\ n.new = op[t].new /\ n.src = r /\ n.result = op[t].result
          /\ n.pc = "lock" /\ n.backup = op[t].backup
      BY <1>1, <3>1 DEF OpRecord, Places, UploadPlaces
    <3> HIDE DEF n
    <3>4. Operation(n)
      BY <1>1, <1>2, <3>1, <3>3
         DEF Operation, OnSource, Early, WriteBackPlaces, DeletePlaces, MovePlaces
    <3>5. Held(n) = Held(op[t])
      BY <1>1, <3>3 DEF Held, Unlocked
    <3> QED
      BY <2>2, <3>2, <3>3, <3>4, <3>5, KeysKept DEF IInv, Leaves, Counted, Scanning
  <2> QED
    BY <2>1, <2>2 DEF ReadSource
<1> QED
  BY <1>1, <1>3, ReadingForm DEF ReadSource, Scanning

\* Lock: its keys become its own, all at once.
LEMMA LockForm ==
  ASSUME IInv, NEW t \in Task, Lock(t)
  PROVE  IInv' /\ Within(t)
<1>1. op[t] \in OpRecord /\ Operation(op[t]) /\ op[t].pc = "lock" /\ op[t].kind # "none"
  BY Given DEF Lock
<1> DEFINE pc == IF op[t].kind = "upload" THEN "backup" ELSE "recheck"
           n == [op[t] EXCEPT !.pc = pc]
<1>2. op' = [op EXCEPT ![t] = n] /\ locks' = [locks EXCEPT ![t] = OperationKeys(op[t])]
  BY DEF Lock
<1>3. /\ n \in OpRecord /\ n.kind = op[t].kind /\ n.id = op[t].id /\ n.key = op[t].key
      /\ n.new = op[t].new /\ n.src = op[t].src /\ n.result = op[t].result
      /\ n.pc = pc /\ n.backup = op[t].backup
  BY <1>1 DEF OpRecord, Places, UploadPlaces, WriteBackPlaces
<1> HIDE DEF n
<1>4. Operation(n) /\ n.pc \notin Unlocked \cup Scanning
  BY <1>1, <1>3 DEF Operation, OpRecord, OnSource, Early, Unlocked, Scanning, UploadPlaces,
       WriteBackPlaces, DeletePlaces, MovePlaces
<1>5. Held(n) = OperationKeys(op[t])
  <2>1. OperationKeys(n) = OperationKeys(op[t])
    BY <1>3 DEF OperationKeys, KeysOf, Source
  <2>2. CASE op[t].kind = "upload"
    <3>1. op[t].src = NoRow /\ op[t].id = 0 /\ op[t].key \in ObjKey
      BY <1>1, <2>2 DEF Operation
    <3>2. 0 \notin ObjKey
      BY SizeAssumption DEF ObjKey
    <3> QED
      BY <1>3, <1>4, <2>2, <3>1, <3>2 DEF Held, OperationKeys, KeysOf, Source
  <2>3. CASE op[t].kind # "upload"
    BY <1>3, <1>4, <2>1, <2>3 DEF Held
  <2> QED
    BY <2>2, <2>3
<1>6. op' \in [Task -> OpRecord] /\ op'[t] = n /\ \A u \in Task \ {t} : op'[u] = op[u]
  BY <1>2, <1>3 DEF IInv, Operations
<1>7. /\ locks' = [u \in Task |-> Held(op'[u])]
      /\ locks'[t] = OperationKeys(op[t]) /\ \A u \in Task \ {t} : locks'[u] = locks[u]
  BY <1>2, <1>5, <1>6 DEF IInv, Operations
<1>8. \A u, v \in Task : u # v => locks'[u] \cap locks'[v] = {}
  BY <1>7 DEF Lock, IInv, Operations
<1>9. Leaves(t)
  BY <1>4, <1>6, <1>7, <1>8 DEF Leaves, IInv, Operations, OthersStay, Lock, Counted
<1> QED
  BY <1>1, <1>9, ReadingForm DEF Lock, Scanning

\* Recheck: the row is what it was, or the operation gives up or, a move,
\* starts over.
LEMMA RecheckForm ==
  ASSUME IInv, NEW t \in Task, Recheck(t)
  PROVE  IInv' /\ Within(t)
<1>1. op[t] \in OpRecord /\ Operation(op[t]) /\ op[t].pc = "recheck" /\ op[t].kind # "none"
  BY Given DEF Recheck
<1>2. op[t].kind \in OnSource
  BY <1>1 DEF Operation, OpRecord, UploadPlaces, OnSource
<1>3. Leaves(t)
  <2>1. CASE \E result \in {"notFound", "ok", "error"} : Return(t, result)
    BY <1>1, <2>1, Returns DEF Results
  <2>2. CASE op[t].kind # "move" /\ Goto(t, "backup")
    <3>1. Reach(op[t], "backup") /\ op[t].pc \notin Unlocked /\ "backup" \notin Scanning
      BY <1>1, <1>2, <2>2
         DEF Reach, Places, UploadPlaces, WriteBackPlaces, DeletePlaces, Unlocked, OnSource, Early, Scanning
    <3> QED
      BY <2>2, <3>1, Goes
  <2>3. CASE op[t].kind = "move" /\ Goto(t, "head")
    <3>1. Reach(op[t], "head") /\ op[t].pc \notin Unlocked /\ "head" \notin Scanning
      BY <1>1, <1>2, <2>3 DEF Reach, Places, MovePlaces, Unlocked, OnSource, Early, Scanning
    <3> QED
      BY <2>3, <3>1, Goes
  <2>4. CASE /\ op[t].kind = "move" /\ op' = [op EXCEPT ![t].src = NoRow, ![t].pc = "source"]
             /\ locks' = [locks EXCEPT ![t] = {}] /\ UNCHANGED flagged
    <3> DEFINE n == [op[t] EXCEPT !.src = NoRow, !.pc = "source"]
    <3>1. op' = [op EXCEPT ![t] = n]
      BY <2>4
    <3>2. /\ n \in OpRecord /\ n.kind = op[t].kind /\ n.id = op[t].id /\ n.key = op[t].key
          /\ n.new = op[t].new /\ n.src = NoRow /\ n.result = op[t].result
          /\ n.pc = "source" /\ n.backup = op[t].backup
      BY <1>1 DEF OpRecord, Places, WriteBackPlaces
    <3> HIDE DEF n
    <3>3. Operation(n) /\ Held(n) = {}
      BY <1>1, <2>4, <3>2 DEF Operation, OnSource, Early, MovePlaces, Held, Unlocked
    <3> QED
      BY <2>4, <3>1, <3>2, <3>3, KeysDropped DEF IInv, Leaves, Counted, Scanning
  <2> QED
    BY <2>1, <2>2, <2>3, <2>4 DEF Recheck
<1> QED
  BY <1>1, <1>3, ReadingForm DEF Recheck, Scanning

\* The upload.
LEMMA UploadStepForm ==
  ASSUME IInv, NEW t \in Task, UploadStep(t)
  PROVE  IInv' /\ Within(t)
<1>1. /\ op[t] \in OpRecord /\ Operation(op[t]) /\ op[t].kind = "upload"
      /\ op[t].pc \in {"backup", "put", "ingest", "readBack", "select", "undo", "reingest", "reread"}
  BY Given DEF UploadStep, UploadBackup, UploadPut, UploadIngest, UploadReadBack, UploadSelect,
       UploadUndo, UploadReingest, UploadReread, At
<1>2. op[t].pc \notin Unlocked /\ op[t].pc \notin Scanning
  BY <1>1 DEF Unlocked, Scanning
<1> DEFINE k == op[t].key
<1>3. k \in Owned(t) /\ k \in ObjKey /\ op[t].new \in Content /\ op[t].backup \in Content \cup {NoObj}
  BY <1>1, <1>2, OwnedKeys DEF IInv, Operation, OpRecord, Unlocked, Owned
<1>4. ASSUME NEW pc \in UploadPlaces \ (Unlocked \cup {"readBack", "reread"}), Goto(t, pc)
      PROVE  Leaves(t)
  <2>1. Reach(op[t], pc) /\ pc \notin Scanning
    BY <1>1, <1>4 DEF Reach, Places, OnSource, UploadPlaces, Scanning
  <2> QED
    BY <1>2, <1>4, <2>1, Goes
<1>5. ASSUME NEW result \in Results, Return(t, result) \/ ReturnFlagged(t)
      PROVE  Leaves(t)
  BY <1>1, <1>5, Returns
<1>r. ASSUME NEW pc \in {"readBack", "reread"}, IngestedId(k) \in Id,
             op' = [op EXCEPT ![t].id = IngestedId(k), ![t].pc = pc],
             UNCHANGED <<locks, flagged>>
      PROVE  Leaves(t)
  <2> DEFINE i == IngestedId(k)
             n == [op[t] EXCEPT !.id = i, !.pc = pc]
  <2>1. i \in Id
    BY <1>r
  <2>2. op' = [op EXCEPT ![t] = n]
    BY <1>r
  <2> HIDE DEF i
  <2>3. /\ n \in OpRecord /\ n.kind = op[t].kind /\ n.id = i /\ n.key = op[t].key
        /\ n.new = op[t].new /\ n.src = op[t].src /\ n.result = op[t].result
        /\ n.pc = pc /\ n.backup = op[t].backup
    <3>1. pc \in Places
      BY <1>r DEF Places, UploadPlaces
    <3> QED
      BY <1>1, <2>1, <3>1 DEF OpRecord
  <2> HIDE DEF n
  <2>4. Operation(n)
    BY <1>1, <1>r, <2>1, <2>3 DEF Operation, OnSource, UploadPlaces
  <2>5. Held(n) = Held(op[t])
    BY <1>1, <1>2, <1>r, <2>3 DEF Held, Unlocked
  <2>6. locks' = locks /\ flagged' = flagged
    BY <1>r
  <2>7. Operations' /\ OthersStay(t) /\ op'[t] = n
    BY <2>2, <2>4, <2>5, <2>6, KeysKept DEF IInv
  <2>8. op'[t].pc \notin Scanning
    BY <1>r, <2>3, <2>7 DEF Scanning
  <2> QED
    BY <2>6, <2>7, <2>8 DEF IInv, Leaves, Counted
<1>6. {"ok", "error"} \subseteq Results
  BY DEF Results
<1>7. {"put", "ingest", "select", "undo", "reingest"}
        \subseteq UploadPlaces \ (Unlocked \cup {"readBack", "reread"})
  BY DEF UploadPlaces, Unlocked
<1>8. CASE UploadBackup(t)
  <2>1. ASSUME op' = [op EXCEPT ![t].backup = store[k], ![t].pc = "put"],
               UNCHANGED <<locks, flagged>>
        PROVE  Leaves(t)
    <3>1. store[k] \in Content \cup {NoObj}
      BY <1>3 DEF IInv, Stores
    <3>2. Operations' /\ OthersStay(t) /\ op'[t].pc = "put"
      BY <1>1, <1>2, <1>7, <2>1, <3>1, BackingUp DEF IInv, OnSource, Places
    <3> QED
      BY <2>1, <3>2 DEF IInv, Leaves, Counted, Scanning
  <2>2. Leaves(t)
    BY <1>5, <1>6, <1>8, <2>1 DEF UploadBackup
  <2> QED
    BY <1>2, <1>8, <2>2, ReadingForm DEF UploadBackup
<1>9. CASE UploadPut(t)
  <2>1. Leaves(t)
    BY <1>4, <1>5, <1>6, <1>7, <1>9 DEF UploadPut
  <2>2. PICK c \in Content \cup {NoObj} : (Fault \/ NoFault) /\ (Write(k, c) \/ SameObjects)
    BY <1>3, <1>9, FailedForm DEF UploadPut
  <2> QED
    BY <1>2, <1>3, <1>9, <2>1, <2>2, WritingForm DEF UploadPut
<1>10. CASE UploadIngest(t)
  <2>1. CASE Ingestible(k) /\ Ingest(k)
    <3>1. /\ Rows' /\ OnlyRowsOf({k})
          /\ store[k] # NoObj /\ k \in Audio => IngestedId(k) \in Id
      BY <1>3, <2>1, IngestRows DEF IInv
    <3>2. Leaves(t)
      BY <1>4, <1>7, <1>r, <1>10, <3>1 DEF UploadIngest
    <3>3. OnlyRowsOf(Owned(t))
      BY <1>3, <3>1 DEF OnlyRowsOf
    <3> QED
      BY <1>2, <1>10, <3>1, <3>2, <3>3, IndexingForm DEF UploadIngest
  <2>2. CASE SameRows /\ Goto(t, "undo")
    <3>1. Leaves(t)
      BY <1>4, <1>7, <2>2
    <3>2. Reads /\ (Fault \/ NoFault) /\ SameScan
      BY <1>10, <2>2 DEF UploadIngest, Reads
    <3> QED
      BY <1>2, <3>1, <3>2, ReadingForm
  <2> QED
    BY <1>10, <2>1, <2>2 DEF UploadIngest
<1>11. CASE UploadReadBack(t)
  BY <1>2, <1>4, <1>7, <1>11, ReadingForm DEF UploadReadBack
<1>12. CASE UploadSelect(t)
  BY <1>2, <1>5, <1>6, <1>12, ReadingForm DEF UploadSelect
<1>13. CASE UploadUndo(t)
  <2>1. Leaves(t)
    BY <1>4, <1>5, <1>6, <1>7, <1>13 DEF UploadUndo
  <2>2. PICK c \in Content \cup {NoObj} : (Fault \/ NoFault) /\ (Write(k, c) \/ SameObjects)
    BY <1>3, <1>13, FailedForm DEF UploadUndo
  <2> QED
    BY <1>2, <1>3, <1>13, <2>1, <2>2, WritingForm DEF UploadUndo
<1>14. CASE UploadReingest(t)
  <2>1. CASE Ingestible(k) /\ Ingest(k)
    <3>0. /\ Rows' /\ OnlyRowsOf({k})
          /\ store[k] # NoObj /\ k \in Audio => IngestedId(k) \in Id
      BY <1>3, <2>1, IngestRows DEF IInv
    <3>1. OnlyRowsOf(Owned(t))
      BY <1>3, <3>0 DEF OnlyRowsOf
    <3>2. Leaves(t)
      BY <1>1, <1>5, <1>6, <1>r, <1>14, <2>1, <3>0 DEF UploadReingest
    <3> QED
      BY <1>2, <1>14, <3>0, <3>1, <3>2, IndexingForm DEF UploadReingest
  <2>2. CASE SameRows /\ ReturnFlagged(t)
    <3>1. Leaves(t)
      BY <1>5, <1>6, <2>2
    <3>2. Reads /\ (Fault \/ NoFault) /\ SameScan
      BY <1>14, <2>2 DEF UploadReingest, Reads
    <3> QED
      BY <1>2, <3>1, <3>2, ReadingForm
  <2> QED
    BY <1>14, <2>1, <2>2 DEF UploadReingest
<1>15. CASE UploadReread(t)
  BY <1>2, <1>5, <1>6, <1>15, ReadingForm DEF UploadReread
<1> QED
  BY <1>8, <1>9, <1>10, <1>11, <1>12, <1>13, <1>14, <1>15 DEF UploadStep

\* The write-back, but for the start of its scans.
LEMMA WriteBackStepForm ==
  ASSUME IInv, NEW t \in Task,
         WriteBackBackup(t) \/ WriteBackPut(t) \/ WriteBackClear(t) \/ WriteBackRestore(t)
  PROVE  IInv' /\ Within(t)
<1>1. /\ op[t] \in OpRecord /\ Operation(op[t]) /\ op[t].kind = "writeBack"
      /\ op[t].pc \in {"backup", "put", "clear", "restore"}
  BY Given DEF WriteBackBackup, WriteBackPut, WriteBackClear, WriteBackRestore, At
<1>2. op[t].pc \notin Unlocked /\ op[t].pc \notin Scanning
  BY <1>1 DEF Unlocked, Scanning
<1> DEFINE k == op[t].src.key
<1>3. k \in Owned(t) /\ k \in ObjKey /\ op[t].new \in Content /\ op[t].backup \in Content \cup {NoObj}
  BY <1>1, <1>2, OwnedKeys DEF IInv, Operation, OpRecord, OnSource, Owned
<1>4. ASSUME NEW pc \in {"scan", "restore", "rescan"}, Goto(t, pc), op[t].pc # "backup"
      PROVE  Leaves(t)
  <2>1. Reach(op[t], pc) /\ pc \notin Scanning
    BY <1>1, <1>4 DEF Reach, Places, OnSource, WriteBackPlaces, Scanning, Unlocked, Early
  <2> QED
    BY <1>2, <1>4, <2>1, Goes
<1>5. ASSUME NEW result \in {"ok", "error", "invalid"}, Return(t, result) \/ ReturnFlagged(t)
      PROVE  Leaves(t)
  BY <1>1, <1>5, Returns DEF Results
<1>6. CASE WriteBackBackup(t)
  <2> DEFINE old == store[k]
  <2>1. ASSUME old \notin Broken \cup {NoObj},
               op' = [op EXCEPT ![t].backup = old, ![t].pc = "put"], UNCHANGED <<locks, flagged>>
        PROVE  Leaves(t)
    <3>1. old \in Content
      BY <1>3, <2>1 DEF IInv, Stores
    <3>2. Operations' /\ OthersStay(t) /\ op'[t].pc = "put"
      BY <1>1, <1>2, <2>1, <3>1, BackingUp
         DEF IInv, OnSource, Places, WriteBackPlaces, Unlocked, Early
    <3> QED
      BY <2>1, <3>2 DEF IInv, Leaves, Counted, Scanning
  <2>2. Leaves(t)
    BY <1>5, <1>6, <2>1 DEF WriteBackBackup
  <2> QED
    BY <1>2, <1>6, <2>2, ReadingForm DEF WriteBackBackup
<1>7. CASE WriteBackPut(t)
  <2>1. Leaves(t)
    BY <1>4, <1>5, <1>7 DEF WriteBackPut, At
  <2>2. PICK c \in Content \cup {NoObj} : (Fault \/ NoFault) /\ (Write(k, c) \/ SameObjects)
    BY <1>3, <1>7, FailedForm DEF WriteBackPut
  <2> QED
    BY <1>2, <1>3, <1>7, <2>1, <2>2, WritingForm DEF WriteBackPut
<1>8. CASE WriteBackClear(t)
  <2>1. Leaves(t)
    BY <1>4, <1>5, <1>8 DEF WriteBackClear, At
  <2>2. Rows' /\ OnlyRowsOf(Owned(t))
    BY <1>8 DEF WriteBackClear, SameRows, IInv, Rows, OnlyRowsOf
  <2> QED
    BY <1>2, <1>8, <2>1, <2>2, IndexingForm DEF WriteBackClear
<1>9. CASE WriteBackRestore(t)
  <2>1. Leaves(t)
    BY <1>4, <1>5, <1>9 DEF WriteBackRestore, At
  <2>2. PICK c \in Content \cup {NoObj} : (Fault \/ NoFault) /\ (Write(k, c) \/ SameObjects)
    BY <1>3, <1>9, FailedForm DEF WriteBackRestore
  <2> QED
    BY <1>2, <1>3, <1>9, <2>1, <2>2, WritingForm DEF WriteBackRestore
<1> QED
  BY <1>6, <1>7, <1>8, <1>9

\* The delete.
LEMMA DeleteStepForm ==
  ASSUME IInv, NEW t \in Task, DeleteStep(t)
  PROVE  IInv' /\ Within(t)
<1>1. /\ op[t] \in OpRecord /\ Operation(op[t]) /\ op[t].kind = "delete"
      /\ op[t].pc \in {"backup", "remove", "check", "unindex", "restore"}
  BY Given DEF DeleteStep, DeleteBackup, DeleteObject, DeleteCheck, DeleteUnindex, DeleteRestore, At
<1>2. op[t].pc \notin Unlocked /\ op[t].pc \notin Scanning
  BY <1>1 DEF Unlocked, Scanning
<1> DEFINE k == op[t].src.key
<1>3. k \in Owned(t) /\ k \in ObjKey /\ op[t].backup \in Content \cup {NoObj} /\ op[t].id \in Id
  BY <1>1, <1>2, OwnedKeys DEF IInv, Operation, OpRecord, OnSource, Owned
<1>4. ASSUME NEW pc \in {"check", "unindex", "restore"}, Goto(t, pc), op[t].pc # "backup"
      PROVE  Leaves(t)
  <2>1. Reach(op[t], pc) /\ pc \notin Scanning
    BY <1>1, <1>4 DEF Reach, Places, OnSource, DeletePlaces, Scanning, Unlocked, Early
  <2> QED
    BY <1>2, <1>4, <2>1, Goes
<1>5. ASSUME NEW result \in {"ok", "error"}, Return(t, result) \/ ReturnFlagged(t)
      PROVE  Leaves(t)
  BY <1>1, <1>5, Returns DEF Results
<1>6. CASE DeleteBackup(t)
  <2> DEFINE old == store[k]
  <2>1. ASSUME old # NoObj,
               op' = [op EXCEPT ![t].backup = old, ![t].pc = "remove"], UNCHANGED <<locks, flagged>>
        PROVE  Leaves(t)
    <3>1. old \in Content
      BY <1>3, <2>1 DEF IInv, Stores
    <3>2. Operations' /\ OthersStay(t) /\ op'[t].pc = "remove"
      BY <1>1, <1>2, <2>1, <3>1, BackingUp
         DEF IInv, OnSource, Places, DeletePlaces, Unlocked, Early
    <3> QED
      BY <2>1, <3>2 DEF IInv, Leaves, Counted, Scanning
  <2>2. Leaves(t)
    BY <1>5, <1>6, <2>1 DEF DeleteBackup
  <2> QED
    BY <1>2, <1>6, <2>2, ReadingForm DEF DeleteBackup
<1>7. CASE DeleteObject(t)
  <2>1. Leaves(t)
    BY <1>4, <1>7 DEF DeleteObject, At
  <2>2. PICK c \in Content \cup {NoObj} : (Fault \/ NoFault) /\ (Write(k, c) \/ SameObjects)
    BY <1>3, <1>7 DEF DeleteObject, FailedDelete
  <2> QED
    BY <1>2, <1>3, <1>7, <2>1, <2>2, WritingForm DEF DeleteObject
<1>8. CASE DeleteCheck(t)
  <2>1. Leaves(t)
    BY <1>4, <1>5, <1>8 DEF DeleteCheck, At
  <2> QED
    BY <1>2, <1>8, <2>1, ReadingForm DEF DeleteCheck
<1>9. CASE DeleteUnindex(t)
  <2>1. Leaves(t)
    BY <1>4, <1>5, <1>9 DEF DeleteUnindex, At
  <2> DEFINE i == op[t].id
  <2>2. CASE SameRows
    <3>1. Reads /\ (Fault \/ NoFault) /\ SameScan
      BY <1>9, <2>2 DEF DeleteUnindex, Reads
    <3> QED
      BY <1>2, <2>1, <3>1, ReadingForm
  <2>3. CASE tracks[i] # NoRow /\ SameSource(tracks[i], op[t].src) /\ DeleteRows({i})
    <3>1. {i} \in SUBSET Id /\ tracks[i].key = k
      BY <1>3, <2>3 DEF SameSource
    <3>2. Rows' /\ OnlyRowsOf(Owned(t))
      BY <1>3, <2>3, <3>1, DeleteRowsRows DEF IInv
    <3> QED
      BY <1>2, <1>9, <2>1, <3>2, IndexingForm DEF DeleteUnindex
  <2> QED
    BY <1>9, <2>2, <2>3 DEF DeleteUnindex
<1>10. CASE DeleteRestore(t)
  <2>1. Leaves(t)
    BY <1>5, <1>10 DEF DeleteRestore
  <2>2. PICK c \in Content \cup {NoObj} : (Fault \/ NoFault) /\ (Write(k, c) \/ SameObjects)
    BY <1>3, <1>10, FailedForm DEF DeleteRestore
  <2> QED
    BY <1>2, <1>3, <1>10, <2>1, <2>2, WritingForm DEF DeleteRestore
<1> QED
  BY <1>6, <1>7, <1>8, <1>9, <1>10 DEF DeleteStep

\* The move.
LEMMA MoveStepForm ==
  ASSUME IInv, NEW t \in Task, MoveStep(t)
  PROVE  IInv' /\ Within(t)
<1>1. /\ op[t] \in OpRecord /\ Operation(op[t]) /\ op[t].kind = "move"
      /\ op[t].pc \in {"head", "copy", "put", "cas", "remove", "check", "rollback", "cleanup", "discard"}
  BY Given DEF MoveStep, MoveHead, MoveCopy, MovePut, MoveCas, MoveRemove, MoveCheck,
       MoveRollback, MoveCleanup, MoveDiscard, At
<1>2. op[t].pc \notin Unlocked /\ op[t].pc \notin Scanning
  BY <1>1 DEF Unlocked, Scanning
<1> DEFINE k == op[t].src.key
           l == op[t].key
           i == op[t].id
<1>3. /\ k \in Owned(t) /\ k \in ObjKey /\ l \in Owned(t) /\ l \in ObjKey
      /\ op[t].backup \in Content \cup {NoObj} /\ i \in Id /\ op[t].src \in Row
  BY <1>1, <1>2, OwnedKeys DEF IInv, Operation, OpRecord, OnSource, Owned
<1>4. ASSUME NEW pc \in {"cas", "remove", "check", "rollback", "cleanup", "discard"}, Goto(t, pc),
             op[t].pc \notin {"head", "copy"}
      PROVE  Leaves(t)
  <2>1. Reach(op[t], pc) /\ pc \notin Scanning
    BY <1>1, <1>4 DEF Reach, Places, OnSource, MovePlaces, Scanning, Unlocked, Early
  <2> QED
    BY <1>2, <1>4, <2>1, Goes
<1>5. ASSUME NEW result \in {"ok", "error", "exists"}, Return(t, result) \/ ReturnFlagged(t)
      PROVE  Leaves(t)
  BY <1>1, <1>5, Returns DEF Results
<1>6. CASE MoveHead(t)
  <2>1. ASSUME Goto(t, "copy")
        PROVE  Leaves(t)
    <3>1. Reach(op[t], "copy") /\ "copy" \notin Scanning
      BY <1>1, <1>6 DEF MoveHead, At, Reach, Places, OnSource, MovePlaces, Scanning, Unlocked, Early
    <3> QED
      BY <1>2, <2>1, <3>1, Goes
  <2>2. Leaves(t)
    BY <1>5, <1>6, <2>1 DEF MoveHead
  <2> QED
    BY <1>2, <1>6, <2>2, ReadingForm DEF MoveHead
<1>7. CASE MoveCopy(t)
  <2> DEFINE old == store[k]
  <2>1. ASSUME old # NoObj,
               op' = [op EXCEPT ![t].backup = old, ![t].pc = "put"], UNCHANGED <<locks, flagged>>
        PROVE  Leaves(t)
    <3>1. old \in Content
      BY <1>3, <2>1 DEF IInv, Stores
    <3>2. Operations' /\ OthersStay(t) /\ op'[t].pc = "put"
      BY <1>1, <1>2, <2>1, <3>1, BackingUp DEF IInv, OnSource, Places, MovePlaces, Unlocked, Early
    <3> QED
      BY <2>1, <3>2 DEF IInv, Leaves, Counted, Scanning
  <2>2. Leaves(t)
    BY <1>5, <1>7, <2>1 DEF MoveCopy
  <2> QED
    BY <1>2, <1>7, <2>2, ReadingForm DEF MoveCopy
<1>8. CASE MovePut(t)
  <2>1. Leaves(t)
    BY <1>4, <1>5, <1>8 DEF MovePut, At
  <2>2. PICK c \in Content \cup {NoObj} : (Fault \/ NoFault) /\ (Write(l, c) \/ SameObjects)
    BY <1>3, <1>8, FailedForm DEF MovePut
  <2> QED
    BY <1>2, <1>3, <1>8, <2>1, <2>2, WritingForm DEF MovePut
<1>9. ASSUME NEW from \in {k, l}, NEW to \in {k, l}, NEW f, NEW e \in Etags, Leaves(t),
             SameScan, Fault \/ NoFault, SameObjects,
             SameRows \/ (CasMatches(i, from, f, to) /\ CasMove(i, to, e))
      PROVE  IInv' /\ Within(t)
  <2>1. Rows' /\ OnlyRowsOf(Owned(t))
    <3>1. CASE SameRows
      BY <3>1 DEF SameRows, IInv, Rows, OnlyRowsOf
    <3>2. CASE CasMatches(i, from, f, to) /\ CasMove(i, to, e)
      <4>1. from \in Owned(t) /\ to \in Owned(t) /\ from \in ObjKey /\ to \in ObjKey
        BY <1>3, <1>9
      <4>2. Rows' /\ OnlyRowsOf({from, to})
        BY <1>3, <1>9, <3>2, <4>1, CasMoveRows DEF IInv
      <4> QED
        BY <4>1, <4>2 DEF OnlyRowsOf
    <3> QED
      BY <1>9, <3>1, <3>2
  <2> QED
    BY <1>2, <1>9, <2>1, IndexingForm
<1>10. CASE MoveCas(t)
  <2>1. Leaves(t)
    BY <1>4, <1>10 DEF MoveCas, At
  <2>2. MetaEtag(t) \in Etags
    <3>1. op[t].backup \in Content
      BY <1>1, <1>3, <1>10 DEF MoveCas, At, Operation, OnSource, Early
    <3> QED
      BY <3>1 DEF MetaEtag, Etag, Etags
  <2>3. /\ SameScan /\ (Fault \/ NoFault) /\ SameObjects
        /\ \/ SameRows
           \/ CasMatches(i, k, op[t].src.etag, l) /\ CasMove(i, l, MetaEtag(t))
    BY <1>10 DEF MoveCas
  <2> QED
    BY <1>9, <2>1, <2>2, <2>3
<1>11. CASE MoveRemove(t)
  <2>1. Leaves(t)
    BY <1>4, <1>5, <1>11 DEF MoveRemove, At
  <2>2. PICK c \in Content \cup {NoObj} : (Fault \/ NoFault) /\ (Write(k, c) \/ SameObjects)
    BY <1>3, <1>11 DEF MoveRemove, FailedDelete
  <2> QED
    BY <1>2, <1>3, <1>11, <2>1, <2>2, WritingForm DEF MoveRemove
<1>12. CASE MoveCheck(t)
  <2>1. Leaves(t)
    BY <1>4, <1>5, <1>12 DEF MoveCheck, At
  <2> QED
    BY <1>2, <1>12, <2>1, ReadingForm DEF MoveCheck
<1>13. CASE MoveRollback(t)
  <2>1. Leaves(t)
    BY <1>4, <1>5, <1>13 DEF MoveRollback, At
  <2>2. op[t].src.etag \in Etags
    BY <1>3 DEF Row
  <2>3. /\ SameScan /\ (Fault \/ NoFault) /\ SameObjects
        /\ \/ SameRows
           \/ CasMatches(i, l, MetaEtag(t), k) /\ CasMove(i, k, op[t].src.etag)
    BY <1>13 DEF MoveRollback
  <2> QED
    BY <1>9, <2>1, <2>2, <2>3
<1>14. CASE MoveCleanup(t)
  <2>1. Leaves(t)
    BY <1>4, <1>5, <1>14 DEF MoveCleanup, At
  <2> QED
    BY <1>2, <1>14, <2>1, ReadingForm DEF MoveCleanup
<1>15. CASE MoveDiscard(t)
  <2>1. Leaves(t)
    BY <1>5, <1>15 DEF MoveDiscard
  <2>2. PICK c \in Content \cup {NoObj} : (Fault \/ NoFault) /\ (Write(l, c) \/ SameObjects)
    BY <1>3, <1>15 DEF MoveDiscard, FailedDelete
  <2> QED
    BY <1>2, <1>3, <1>15, <2>1, <2>2, WritingForm DEF MoveDiscard
<1> QED
  BY <1>6, <1>7, <1>8, <1>10, <1>11, <1>12, <1>13, <1>14, <1>15 DEF MoveStep

-----------------------------------------------------------------------------
(***************************************************************************)
(* The scanner.                                                            *)
(***************************************************************************)
\* The keys of the rows a scan may touch.
ScanKeys == scan.lists \cup {x.key : x \in scan.existing}

\* At rest the scanner belongs to nobody.
LEMMA NoScanForm ==
  /\ NoScan \in ScanRecord /\ NoScan.owner = Nobody /\ NoScan.pc = "idle"
  /\ NoScan.seen = {} /\ NoScan.lists = {} /\ NoScan.todo = {}
  BY DEF NoScan, ScanRecord

\* A scan begins with the rows and the keys it is given.
LEMMA BeginForm ==
  ASSUME IInv, NEW owner \in Task \cup {Nobody}, NEW rows \in SUBSET ObjKey,
         NEW lists \in SUBSET ObjKey, BeginScan(owner, rows, lists)
  PROVE  /\ scan' \in ScanRecord /\ scan'.pc = "list" /\ scan'.owner = owner
         /\ scan'.lists = lists /\ scan'.cursor = 0 /\ scan'.seen = {} /\ scan'.todo = {}
         /\ scan'.existing = {[key |-> tracks[i].key, etag |-> tracks[i].etag] :
                                i \in UNION {RowsAt(k) : k \in rows}}
         /\ \A x \in scan'.existing : x.key \in rows
         /\ scan'.quiet => \A t \in Task : ~Active(t)
<1> DEFINE existing == {[key |-> tracks[i].key, etag |-> tracks[i].etag] :
                          i \in UNION {RowsAt(k) : k \in rows}}
           quiet == \A t \in Task : ~Active(t)
<1>1. scan' = [NoScan EXCEPT !.pc = "list", !.owner = owner, !.lists = lists,
                             !.existing = existing, !.quiet = quiet]
  BY DEF BeginScan
<1>2. existing \subseteq Entry /\ \A x \in existing : x.key \in rows
  <2>1. ASSUME NEW i \in UNION {RowsAt(k) : k \in rows}
        PROVE  tracks[i] \in Row /\ tracks[i].key \in rows
    <3>1. PICK k \in rows : i \in RowsAt(k)
      OBVIOUS
    <3> QED
      BY <3>1, OneRow DEF IInv
  <2>2. \A r \in Row : [key |-> r.key, etag |-> r.etag] \in Entry
    BY DEF Row, Entry
  <2> QED
    BY <2>1, <2>2
<1> HIDE DEF existing
<1>3. quiet \in BOOLEAN
  OBVIOUS
<1> HIDE DEF quiet
<1>4. scan' = [pc |-> "list", owner |-> owner, lists |-> lists, cursor |-> 0,
               existing |-> existing, seen |-> {}, todo |-> {}, wrote |-> 0, quiet |-> quiet]
  BY <1>1 DEF NoScan
<1>5. scan' \in ScanRecord
  BY <1>2, <1>3, <1>4 DEF ScanRecord
<1> QED
  BY <1>2, <1>4, <1>5 DEF existing, quiet

\* A background scan begins where none is under way.
LEMMA BackgroundScanForm ==
  ASSUME IInv, BackgroundScan
  PROVE  IInv'
<1>1. BeginScan(Nobody, ObjKey, ObjKey) /\ op' = op /\ scan.pc = "idle"
  BY DEF BackgroundScan, BeginScan
<1>2. /\ scan' \in ScanRecord /\ scan'.pc = "list" /\ scan'.owner = Nobody
      /\ scan'.seen = {} /\ scan'.todo = {}
  BY <1>1, BeginForm
<1>3. \A t \in Task : op[t].pc \notin Scanning
  BY <1>1, NoScanForm, NobodyAssumption DEF IInv, Scanner
<1>4. Scanner'
  BY <1>1, <1>2, <1>3, NobodyAssumption DEF Scanner
<1>5. Counted'
  BY BoundsAssumption DEF IInv, Counted, BackgroundScan, BeginScan, NoFault
<1>6. Operations' /\ Stores' /\ Rows'
  BY <1>1 DEF IInv, Operations, Stores, Rows, BeginScan, Reads, SameObjects, SameRows
<1> QED
  BY <1>4, <1>5, <1>6 DEF IInv

\* The scan of a write-back begins, or is refused.
LEMMA WriteBackScanForm ==
  ASSUME IInv, NEW t \in Task, WriteBackScan(t)
  PROVE  IInv' /\ Within(t)
<1> DEFINE k == op[t].src.key
           pc == IF op[t].pc = "scan" THEN "scanning" ELSE "rescanning"
<1>1. /\ op[t] \in OpRecord /\ Operation(op[t]) /\ op[t].pc \in {"scan", "rescan"}
      /\ op[t].pc \notin Unlocked
  BY Given DEF WriteBackScan, Unlocked
<1>2. op[t].kind = "writeBack" /\ op[t].pc \notin Early /\ pc \in Scanning
  BY <1>1 DEF Operation, OpRecord, OnSource, UploadPlaces, DeletePlaces, MovePlaces, Early, Scanning
<1>3. k \in ObjKey
  BY <1>1, <1>2, OwnedKeys DEF IInv, OnSource, Owned
<1>4. Goto(t, pc) /\ BeginScan(t, LikePrefix[k], ListPrefix[k]) /\ scan.pc = "idle"
  BY DEF WriteBackScan, BeginScan, Goto
<1>5. Reach(op[t], pc)
  BY <1>1, <1>2 DEF Reach, Places, WriteBackPlaces, Unlocked, OnSource, Early
<1>6. Operations' /\ OthersStay(t) /\ Keeps(t) /\ op'[t].pc = pc
  BY <1>1, <1>4, <1>5, Going DEF IInv
<1>7. LikePrefix[k] \in SUBSET ObjKey /\ ListPrefix[k] \in SUBSET ObjKey
  BY <1>3, PrefixAssumption
<1>8. /\ scan' \in ScanRecord /\ scan'.pc = "list" /\ scan'.owner = t
      /\ scan'.lists = ListPrefix[k] /\ scan'.seen = {} /\ scan'.todo = {}
      /\ \A x \in scan'.existing : x.key \in LikePrefix[k]
  <2> DEFINE rows == LikePrefix[k]
             lists == ListPrefix[k]
  <2>1. rows \in SUBSET ObjKey /\ lists \in SUBSET ObjKey /\ BeginScan(t, rows, lists)
    BY <1>4, <1>7
  <2> HIDE DEF rows, lists
  <2>2. /\ scan' \in ScanRecord /\ scan'.pc = "list" /\ scan'.owner = t
        /\ scan'.lists = lists /\ scan'.seen = {} /\ scan'.todo = {}
        /\ \A x \in scan'.existing : x.key \in rows
    BY <2>1, BeginForm
  <2> QED
    BY <2>2 DEF rows, lists
<1>9. \A u \in Task \ {t} : op'[u].pc \notin Scanning
  BY <1>4, <1>6, NoScanForm, NobodyAssumption DEF IInv, Scanner, OthersStay
<1>10. Scanner'
  BY <1>2, <1>6, <1>8, <1>9 DEF Scanner, Keeps
<1>11. Stores' /\ Rows' /\ Counted'
  BY <1>4 DEF IInv, Stores, Rows, Counted, BeginScan, Reads, SameObjects, SameRows, NoFault,
       WriteBackScan
<1>12. Within(t)
  BY <1>4, <1>6 DEF Within, BeginScan, Reads, SameObjects, SameRows, OnlyRowsOf
<1> QED
  BY <1>6, <1>10, <1>11, <1>12 DEF IInv

\* A step of the scan itself keeps its owner and the operations.
LEMMA ScanOnlyForm ==
  ASSUME IInv, ScanOnly, Rows', scan' \in ScanRecord,
         scan'.pc # "idle", scan'.pc = "reread" => scan'.wrote \in Id,
         scan'.owner = scan.owner, scan'.lists = scan.lists,
         scan'.existing \subseteq scan.existing, scan'.seen \subseteq scan.lists,
         \A x \in scan'.todo : x.key \in scan.lists
  PROVE  IInv'
<1>1. Scanner'
  BY DEF IInv, Scanner, ScanOnly
<1>2. Operations' /\ Stores' /\ Counted'
  BY DEF IInv, Operations, Stores, Counted, ScanOnly, SameObjects, NoFault
<1> QED
  BY <1>1, <1>2 DEF IInv

\* The next key of a listing.
LEMMA AheadFirst ==
  ASSUME NEW keys \in SUBSET ObjKey, keys # {}
  PROVE  First(keys) \in keys /\ \A l \in keys : First(keys) <= l
<1>1. ObjKey \subseteq Nat
  BY SizeAssumption DEF ObjKey
<1> DEFINE less == {ss \in Nat \X Nat : ss[1] < ss[2]}
<1>2. IsWellFoundedOn(less, Nat)
  BY NatLessThanWellFounded DEF OpToRel
<1>3. \A k, l \in Nat : <<k, l>> \in less <=> k < l
  OBVIOUS
<1> HIDE DEF less
<1>4. PICK k \in keys : \A l \in keys : <<l, k>> \notin less
  BY <1>1, <1>2, WFMin
<1>5. ASSUME NEW l \in keys
      PROVE  k <= l
  <2>1. k \in Nat /\ l \in Nat
    BY <1>1
  <2>2. ~(l < k)
    BY <1>3, <1>4, <2>1
  <2> QED
    BY <2>1, <2>2
<1> QED
  BY <1>5 DEF First

\* The listing goes on.
LEMMA ScanListForm ==
  ASSUME IInv, ScanList
  PROVE  IInv'
<1>1. scan \in ScanRecord /\ scan.seen \subseteq scan.lists /\ scan.pc = "list"
      /\ \A x \in scan.todo : x.key \in scan.lists
  BY DEF IInv, Scanner, ScanList
<1>2. Rows' /\ ScanOnly
  BY DEF IInv, Rows, ScanList, SameRows
<1>3. CASE scan' = [scan EXCEPT !.pc = "ingest"]
  <2>1. /\ scan' \in ScanRecord /\ scan'.pc = "ingest" /\ scan'.owner = scan.owner
        /\ scan'.lists = scan.lists /\ scan'.existing = scan.existing
        /\ scan'.seen = scan.seen /\ scan'.todo = scan.todo
    BY <1>1, <1>3 DEF ScanRecord
  <2> QED
    BY <1>1, <1>2, <2>1, ScanOnlyForm
<1>4. CASE Ahead # {}
  <2> DEFINE k == First(Ahead)
             new == [key |-> k, etag |-> Etag(listed[k]), tags |-> NoObj]
             todo == IF Unchanged(k) THEN scan.todo ELSE scan.todo \cup {new}
  <2>0. CASE Ahead = {}
    BY <1>4, <2>0
  <2>1. Ahead \in SUBSET ObjKey /\ Ahead \subseteq scan.lists
    BY <1>1 DEF Ahead, ScanRecord
  <2>2. k \in Ahead /\ k \in ObjKey /\ k \in scan.lists
    BY <1>4, <2>1, AheadFirst
  <2>3. listed[k] \in Content
    BY <2>2 DEF Ahead, IInv, Stores
  <2>4. new \in Item /\ new.key \in scan.lists
    BY <2>2, <2>3 DEF Item, Etag, Etags
  <2>5. scan' = [scan EXCEPT !.cursor = k, !.seen = scan.seen \cup {k}, !.todo = todo]
    BY <1>4 DEF ScanList
  <2>6. todo \in SUBSET Item /\ \A x \in todo : x.key \in scan.lists
    BY <1>1, <2>4 DEF ScanRecord
  <2> HIDE DEF todo, k
  <2>7. /\ scan' \in ScanRecord /\ scan'.pc = "list" /\ scan'.owner = scan.owner
        /\ scan'.lists = scan.lists /\ scan'.existing = scan.existing
        /\ scan'.seen = scan.seen \cup {k} /\ scan'.todo = todo
    BY <1>1, <2>2, <2>5, <2>6 DEF ScanRecord
  <2> QED
    BY <1>1, <1>2, <2>2, <2>6, <2>7, ScanOnlyForm
<1> QED
  BY <1>3, <1>4 DEF ScanList

\* The scan reads the head of an object.
LEMMA ScanParseForm ==
  ASSUME IInv, ScanParse
  PROVE  IInv'
<1>1. scan \in ScanRecord /\ scan.seen \subseteq scan.lists /\ scan.pc = "ingest"
      /\ \A x \in scan.todo : x.key \in scan.lists
  BY DEF IInv, Scanner, ScanParse
<1>2. Rows' /\ ScanOnly
  BY DEF IInv, Rows, ScanParse, SameRows
<1>3. PICK x \in Unparsed :
        /\ Readable(x.key)
        /\ scan' = [scan EXCEPT !.todo = (@ \ {x}) \cup {[x EXCEPT !.tags = store[x.key]]}]
  BY DEF ScanParse
<1> DEFINE y == [x EXCEPT !.tags = store[x.key]]
           todo == (scan.todo \ {x}) \cup {y}
<1>4. x \in Item /\ x \in scan.todo
  BY <1>1, <1>3 DEF Unparsed, ScanRecord
<1>5. store[x.key] \in Content
  BY <1>3, <1>4 DEF Item, IInv, Stores, Readable
<1>6. y \in Item /\ y.key = x.key
  BY <1>4, <1>5 DEF Item
<1>7. scan' = [scan EXCEPT !.todo = todo]
  BY <1>3
<1> HIDE DEF y
<1>8. todo \in SUBSET Item /\ \A z \in todo : z.key \in scan.lists
  BY <1>1, <1>4, <1>6 DEF ScanRecord
<1> HIDE DEF todo
<1>9. /\ scan' \in ScanRecord /\ scan'.pc = "ingest" /\ scan'.owner = scan.owner
      /\ scan'.lists = scan.lists /\ scan'.existing = scan.existing
      /\ scan'.seen = scan.seen /\ scan'.todo = todo
  BY <1>1, <1>7, <1>8 DEF ScanRecord
<1> QED
  BY <1>1, <1>2, <1>8, <1>9, ScanOnlyForm

\* A row is written: only the row of a key the scan has listed.
LEMMA ScanWriteForm ==
  ASSUME IInv, ScanWrite
  PROVE  IInv' /\ OnlyRowsOf(ScanKeys)
<1>1. scan \in ScanRecord /\ scan.seen \subseteq scan.lists /\ scan.pc = "ingest"
      /\ \A x \in scan.todo : x.key \in scan.lists
  BY DEF IInv, Scanner, ScanWrite
<1>2. PICK x \in scan.todo :
        /\ Upsert(x.key, x.etag, x.tags)
        /\ scan' = [scan EXCEPT !.pc = "reread", !.todo = @ \ {x}, !.wrote = IngestedId(x.key)]
  BY DEF ScanWrite
<1>3. x \in Item /\ x.tags # NoObj /\ x.key \in scan.lists
  BY <1>1 DEF ScanWrite, Unparsed, ScanRecord
<1> DEFINE k == x.key
           e == x.etag
           g == x.tags
           i == IngestedId(k)
           todo == scan.todo \ {x}
<1>4. k \in ObjKey /\ e \in Etags /\ g \in Content /\ Upsert(k, e, g)
  BY <1>2, <1>3 DEF Item
<1>5. scan' = [scan EXCEPT !.pc = "reread", !.todo = todo, !.wrote = i]
  BY <1>2
<1>6. k \in scan.lists /\ todo \in SUBSET Item /\ \A z \in todo : z.key \in scan.lists
  BY <1>1, <1>3 DEF ScanRecord
<1> HIDE DEF k, e, g, todo
<1>7. Rows' /\ OnlyRowsOf({k}) /\ i \in Id
  BY <1>4, UpsertRows DEF IInv
<1> HIDE DEF i
<1>8. /\ scan' \in ScanRecord /\ scan'.pc = "reread" /\ scan'.owner = scan.owner
      /\ scan'.lists = scan.lists /\ scan'.existing = scan.existing
      /\ scan'.seen = scan.seen /\ scan'.todo = todo /\ scan'.wrote = i
  BY <1>1, <1>5, <1>6, <1>7 DEF ScanRecord
<1>9. IInv'
  BY <1>1, <1>6, <1>7, <1>8, ScanOnlyForm DEF ScanWrite
<1> QED
  BY <1>6, <1>7, <1>9 DEF OnlyRowsOf, ScanKeys

\* The scan stores what it read.
LEMMA ScanRereadForm ==
  ASSUME IInv, ScanReread
  PROVE  IInv'
<1>1. scan \in ScanRecord /\ scan.seen \subseteq scan.lists
      /\ \A x \in scan.todo : x.key \in scan.lists
  BY DEF IInv, Scanner
<1>2. Rows' /\ ScanOnly /\ scan' = [scan EXCEPT !.pc = "ingest", !.wrote = 0]
  BY DEF IInv, Rows, ScanReread, SameRows
<1>3. /\ scan' \in ScanRecord /\ scan'.pc = "ingest" /\ scan'.owner = scan.owner
      /\ scan'.lists = scan.lists /\ scan'.existing = scan.existing
      /\ scan'.seen = scan.seen /\ scan'.todo = scan.todo
  BY <1>1, <1>2 DEF ScanRecord
<1> QED
  BY <1>1, <1>2, <1>3, ScanOnlyForm

\* A row is pruned: only one of a key the scan has found indexed.
LEMMA ScanPruneForm ==
  ASSUME IInv, ScanPrune
  PROVE  IInv' /\ OnlyRowsOf(ScanKeys)
<1>1. scan \in ScanRecord /\ scan.seen \subseteq scan.lists /\ scan.pc = "ingest"
      /\ \A x \in scan.todo : x.key \in scan.lists
  BY DEF IInv, Scanner, ScanPrune
<1>2. PICK x \in Vanished :
        DeleteRows(RowsAt(x.key)) /\ scan' = [scan EXCEPT !.existing = @ \ {x}]
  BY DEF ScanPrune
<1> DEFINE k == x.key
           ids == RowsAt(k)
<1>3. k \in ScanKeys
  BY <1>2 DEF Vanished, ScanKeys
<1>4. ids \in SUBSET Id /\ (\A i \in ids : tracks[i] # NoRow => tracks[i].key \in {k})
      /\ DeleteRows(ids)
  BY <1>2 DEF RowsAt
<1> HIDE DEF ids
<1>5. Rows' /\ OnlyRowsOf({k})
  BY <1>4, DeleteRowsRows DEF IInv
<1>6. /\ scan' \in ScanRecord /\ scan'.pc = "ingest" /\ scan'.owner = scan.owner
      /\ scan'.lists = scan.lists /\ scan'.existing \subseteq scan.existing
      /\ scan'.seen = scan.seen /\ scan'.todo = scan.todo
  BY <1>1, <1>2 DEF ScanRecord
<1>7. IInv'
  BY <1>1, <1>5, <1>6, ScanOnlyForm DEF ScanPrune
<1> QED
  BY <1>3, <1>5, <1>7 DEF OnlyRowsOf

\* The scan ends, and the write-back whose scan it was goes on.
LEMMA ScanReturnsForm ==
  ASSUME IInv, NEW ok \in BOOLEAN, ScanReturns(ok), SameRows, Fault \/ NoFault
  PROVE  IInv' /\ tracks' = tracks /\ store' = store
<1>1. scan' = NoScan /\ SameObjects /\ scans' = scans /\ crashes' = crashes
  BY DEF ScanReturns
<1>2. CASE scan.owner = Nobody
  <2>1. op' = op /\ locks' = locks /\ flagged' = flagged
    BY <1>2, NobodyAssumption DEF ScanReturns
  <2>2. \A t \in Task : op'[t].pc \notin Scanning
    BY <1>2, <2>1, NobodyAssumption DEF IInv, Scanner
  <2>3. Operations' /\ flagged' \subseteq ObjKey
    BY <2>1 DEF IInv, Operations, Counted
  <2> QED
    BY <1>1, <2>2, <2>3, NoScanForm, NobodyAssumption, BoundsAssumption
       DEF IInv, Scanner, Stores, Rows, Counted, SameObjects, SameRows, Fault, NoFault
<1>3. CASE scan.owner # Nobody
  <2> DEFINE t == scan.owner
  <2>1. t \in Task /\ op[t].pc \in Scanning
    BY <1>3 DEF IInv, Scanner, ScanRecord
  <2> HIDE DEF t
  <2>2. /\ op[t] \in OpRecord /\ Operation(op[t]) /\ op[t].kind # "none"
        /\ op[t].kind = "writeBack" /\ op[t].pc \notin Unlocked \cup Early
    BY <2>1, Given DEF Operation, OpRecord, OnSource, UploadPlaces, DeletePlaces, MovePlaces,
         Scanning, Unlocked, Early
  <2>3. Leaves(t)
    <3>1. ASSUME NEW pc \in {"clear", "restore"}, Goto(t, pc)
          PROVE  Leaves(t)
      <4>1. Reach(op[t], pc) /\ pc \notin Scanning
        BY <2>2 DEF Reach, Places, OnSource, WriteBackPlaces, Scanning, Unlocked, Early
      <4> QED
        BY <2>1, <2>2, <3>1, <4>1, Goes
    <3>2. ASSUME Return(t, "error") \/ ReturnFlagged(t)
          PROVE  Leaves(t)
      BY <2>1, <2>2, <3>2, Returns DEF Results
    <3> QED
      BY <1>3, <3>1, <3>2 DEF ScanReturns, t
  <2>4. \A u \in Task : op'[u].pc \notin Scanning
    BY <2>1, <2>3 DEF Leaves, OthersStay, IInv, Scanner, t
  <2>5. Operations' /\ flagged' \subseteq ObjKey
    BY <2>3 DEF Leaves
  <2> QED
    BY <1>1, <2>4, <2>5, NoScanForm, NobodyAssumption, BoundsAssumption
       DEF IInv, Scanner, Stores, Rows, Counted, SameObjects, SameRows, Fault, NoFault
<1> QED
  BY <1>2, <1>3

\* The end of a scan keeps the invariant and changes no object and no row.
LEMMA ScanEndForm ==
  ASSUME IInv, ScanFinish \/ ScanFails \/ ScanDropped
  PROVE  IInv' /\ tracks' = tracks /\ store' = store
<1>1. PICK ok \in BOOLEAN : ScanReturns(ok)
  BY DEF ScanFinish, ScanFails, ScanDropped
<1> QED
  BY <1>1, ScanReturnsForm DEF ScanFinish, ScanFails, ScanDropped

-----------------------------------------------------------------------------
(***************************************************************************)
(* Tag edits, crashes, and the invariant.                                  *)
(***************************************************************************)
LEMMA UpdateTagsForm ==
  ASSUME IInv, NEW i \in Id, UpdateTags(i)
  PROVE  IInv'
  BY DEF IInv, UpdateTags, Operations, Stores, Rows, Scanner, Counted, SameObjects, SameScan,
     NoFault

\* LIST shows a write that it had not shown.
LEMMA ListCatchesUpForm ==
  ASSUME IInv, ListCatchesUp
  PROVE  IInv'
<1>1. Stores'
  BY DEF IInv, Stores, ListCatchesUp
<1> QED
  BY <1>1 DEF IInv, ListCatchesUp, Operations, Rows, Scanner, Counted

\* A crash ends every task and every scan; nobody owns a key any more.
LEMMA CrashForm ==
  ASSUME IInv, Crash
  PROVE  IInv'
<1> DEFINE lost(t) == [Idle EXCEPT !.kind = op[t].kind, !.pc = "done", !.result = "lost"]
<1>1. ASSUME NEW t \in Task
      PROVE  /\ op'[t] \in OpRecord /\ Operation(op'[t]) /\ Held(op'[t]) = {}
             /\ op'[t].pc \notin Scanning
  <2>1. op[t] \in OpRecord /\ Operation(op[t])
    BY Given
  <2>2. op'[t] = IF Active(t) THEN lost(t) ELSE op[t]
    BY DEF Crash
  <2>3. CASE Active(t)
    <3> DEFINE k == op[t].kind
               n == op'[t]
    <3>1. n = [Idle EXCEPT !.kind = k, !.pc = "done", !.result = "lost"]
      BY <2>2, <2>3
    <3>k. k \in {"upload"} \cup OnSource
      BY <2>1, <2>3 DEF Operation, OpRecord, Active
    <3> HIDE DEF n, k
    <3>2. n = [kind |-> k, pc |-> "done", id |-> 0, key |-> 0, new |-> NoObj,
               fields |-> {}, src |-> NoRow, backup |-> NoObj, result |-> "lost"]
      BY <3>1 DEF Idle
    <3>3. n \in OpRecord
      BY <3>2, <3>k DEF OpRecord, Places, UploadPlaces, Results
    <3>4. Operation(n) /\ Held(n) = {} /\ n.pc \notin Scanning
      BY <3>2, <3>3, <3>k DEF Operation, Held, Unlocked, Early, OnSource, UploadPlaces,
           WriteBackPlaces, DeletePlaces, MovePlaces, Scanning
    <3> QED
      BY <3>3, <3>4 DEF n
  <2>4. CASE ~Active(t)
    BY <2>1, <2>2, <2>4 DEF Active, Held, Unlocked, Scanning
  <2> QED
    BY <2>3, <2>4
<1>2. op' = [t \in Task |-> op'[t]] /\ locks' = [t \in Task |-> {}]
  BY DEF Crash
<1>3. op' \in [Task -> OpRecord]
  BY <1>1, <1>2
<1>4. Operations'
  BY <1>1, <1>2, <1>3 DEF Operations
<1>5. Scanner'
  BY <1>1, NoScanForm, NobodyAssumption DEF Scanner, Crash
<1>6. Stores' /\ Rows'
  BY DEF IInv, Stores, Rows, Crash, Reads, SameObjects, SameRows
<1>7. Counted'
  <2>1. /\ crashes < MaxCrashes /\ crashes' = crashes + 1
        /\ scans' = scans /\ flagged' = flagged /\ faults' = faults
    BY DEF Crash, NoFault
  <2>2. MaxCrashes \in Nat /\ crashes \in 0..MaxCrashes
    BY BoundsAssumption DEF IInv, Counted
  <2> QED
    BY <2>1, <2>2 DEF IInv, Counted
<1> QED
  BY <1>4, <1>5, <1>6, <1>7 DEF IInv

\* The library starts with rows for its objects.
LEMMA InitIInv ==
  ASSUME Init
  PROVE  IInv
<1> DEFINE len == Len(Initial)
<1>1. /\ len \in Nat /\ len <= MaxId /\ MaxId \in Nat
      /\ \A i \in 1..len : Initial[i] \in Audio \X (Content \ Broken)
  BY InitialAssumption, SizeAssumption
<1>2. \A i \in 1..len : Initial[i][1] \in ObjKey /\ Initial[i][2] \in Content
  BY <1>1, SizeAssumption
<1>3. Stores
  <2>1. ASSUME NEW k \in ObjKey
        PROVE  store[k] \in Content \cup {NoObj}
    <3> DEFINE there == {Initial[i] : i \in 1..len}
               e == CHOOSE e \in there : e[1] = k
    <3>1. store[k] = IF \E i \in 1..len : Initial[i][1] = k THEN e[2] ELSE NoObj
      BY DEF Init
    <3>2. CASE \E i \in 1..len : Initial[i][1] = k
      <4>1. \E x \in there : x[1] = k
        BY <3>2
      <4>2. e \in there
        BY <4>1
      <4>3. e[2] \in Content
        <5> HIDE DEF e
        <5> QED
          BY <4>2, <1>2
      <4> QED
        BY <3>1, <3>2, <4>3
    <3> QED
      BY <3>1, <3>2
  <2>2. store \in [ObjKey -> Content \cup {NoObj}]
    BY <2>1 DEF Init
  <2> QED
    BY <2>2 DEF Init, Stores
<1>4. Rows
  <2>1. ASSUME NEW i \in Id
        PROVE  /\ i <= len => /\ tracks[i] \in Row /\ tracks[i].key = Initial[i][1]
                              /\ i \in 1..len
               /\ ~(i <= len) => tracks[i] = NoRow
    <3>1. CASE i <= len
      <4>1. i \in 1..len
        BY <1>1, <3>1 DEF Id
      <4>2. tracks[i] = [key |-> Initial[i][1], etag |-> Etag(Initial[i][2]), tags |-> Initial[i][2]]
        BY <3>1 DEF Init
      <4>3. Initial[i][1] \in ObjKey /\ Initial[i][2] \in Content
        BY <1>2, <4>1
      <4> QED
        BY <3>1, <4>1, <4>2, <4>3 DEF Row, Etag, Etags
    <3>2. CASE ~(i <= len)
      BY <3>2 DEF Init
    <3> QED
      BY <3>1, <3>2
  <2>2. tracks \in [Id -> Row \cup {NoRow}]
    BY <2>1 DEF Init
  <2>3. nextId = len + 1 /\ nextId \in 1..(MaxId + 1) /\ \A i \in Id : i <= len => i < nextId
    BY <1>1 DEF Init, Id
  <2>4. \A i, j \in 1..len : Initial[i][1] = Initial[j][1] => i = j
    BY InitialAssumption
  <2> QED
    BY <2>1, <2>2, <2>3, <2>4 DEF Init, Rows
<1>5. Operations
  <2>1. Idle \in OpRecord /\ Operation(Idle) /\ Held(Idle) = {}
    BY DEF Idle, OpRecord, Operation, Held, Unlocked, Places, Results, OnSource
  <2> QED
    BY <2>1 DEF Init, Operations
<1>6. Scanner
  <2>1. \A t \in Task : op[t].pc \notin Scanning
    BY DEF Init, Idle, Scanning
  <2> QED
    BY <2>1, NoScanForm, NobodyAssumption DEF Init, Scanner
<1>7. Counted
  BY BoundsAssumption DEF Init, Counted
<1> QED
  BY <1>3, <1>4, <1>5, <1>6, <1>7 DEF IInv

\* A step of an operation keeps the invariant and stays within its keys.
LEMMA TaskStepForm ==
  ASSUME IInv, NEW t \in Task, SubmitStep(t) \/ TaskStep(t)
  PROVE  IInv' /\ Within(t)
  BY SubmitStepForm, ReadSourceForm, LockForm, RecheckForm, UploadStepForm, WriteBackStepForm,
     WriteBackScanForm, DeleteStepForm, MoveStepForm DEF TaskStep, WriteBackStep

\* Every step keeps the invariant.
LEMMA NextIInv ==
  ASSUME IInv, [Next]_vars
  PROVE  IInv'
<1>1. CASE \E t \in Task : SubmitStep(t) \/ TaskStep(t)
  BY <1>1, TaskStepForm
<1>2. CASE \E i \in Id : UpdateTags(i)
  BY <1>2, UpdateTagsForm
<1>3. CASE BackgroundScan \/ ScanStep \/ ScanDropped
  BY <1>3, BackgroundScanForm, ScanListForm, ScanParseForm, ScanWriteForm, ScanRereadForm,
     ScanPruneForm, ScanEndForm DEF ScanStep
<1>4. CASE ListCatchesUp \/ Crash
  BY <1>4, ListCatchesUpForm, CrashForm
<1>5. CASE Rest \/ UNCHANGED vars
  BY <1>5 DEF Rest, vars, IInv, Operations, Stores, Rows, Scanner, Counted
<1> QED
  BY <1>1, <1>2, <1>3, <1>4, <1>5 DEF Next

\* The invariant is inductive.
THEOREM Inductive == Spec => []IInv
  BY InitIInv, NextIInv, PTL DEF Spec

\* Every variable keeps its type, whatever the operations, the bounds and the
\* prefixes of the scans are.
THEOREM Typing == Spec => []TypeOK
<1>1. ASSUME IInv
      PROVE  TypeOK
  <2>1. ASSUME NEW t \in Task
        PROVE  /\ op[t].id \in Id \cup {0} /\ op[t].key \in ObjKey \cup {0}
               /\ op[t].fields \subseteq Field
               /\ op[t].src \in Row \cup {NoRow} /\ op[t].result \in Results
               /\ op[t].backup \in Content \cup {NoObj} /\ op[t].new \in Content \cup {NoObj}
    BY <1>1, Given DEF OpRecord
  <2>2. locks \in [Task -> SUBSET LockKey]
    <3>1. ASSUME NEW t \in Task
          PROVE  Held(op[t]) \subseteq LockKey
      <4>1. op[t] \in OpRecord /\ Operation(op[t])
        BY <1>1, Given
      <4>2. KeysOf(op[t]) \subseteq ObjKey
        BY <4>1 DEF OpRecord, KeysOf, Source, Row
      <4>3. op[t].kind = "upload" /\ op[t].pc \notin Unlocked => op[t].key \in ObjKey
        BY <4>1 DEF Operation, Unlocked
      <4> QED
        BY <4>1, <4>2, <4>3 DEF OpRecord, Held, OperationKeys, LockKey
    <3> QED
      BY <1>1, <3>1 DEF IInv, Operations
  <2>3. /\ scan.owner \in Task \cup {Nobody} /\ scan.seen \subseteq scan.lists
        /\ scan.existing \subseteq [key : ObjKey, etag : Etags]
        /\ scan.todo \subseteq [key : scan.lists, etag : Etags, tags : Content \cup {NoObj}]
    BY <1>1 DEF IInv, Scanner, ScanRecord, Entry, Item
  <2> QED
    BY <1>1, <2>1, <2>2, <2>3 DEF TypeOK, IInv, Stores, Rows, Counted
<1> QED
  BY <1>1, Inductive, PTL

\* The prefix of a key holds no other key, in LIST and in the index: no key
\* is the beginning of another one or differs from it by the case of letters.
OwnPrefixes == \A k \in ObjKey : LikePrefix[k] \subseteq {k} /\ ListPrefix[k] \subseteq {k}

\* The scan of a write-back touches the key that operation owns.
LEMMA ScansOwnKey ==
  ASSUME IInv, OwnPrefixes, NEW t \in Task, scan.owner = t
  PROVE  /\ op[t].pc \in Scanning /\ op[t].kind = "writeBack" /\ op[t].pc \notin Unlocked
         /\ op[t].src \in Row /\ op[t].src.key \in Owned(t)
         /\ ScanKeys \subseteq {op[t].src.key}
<1>1. /\ op[t].pc \in Scanning /\ scan.lists = ListPrefix[op[t].src.key]
      /\ \A x \in scan.existing : x.key \in LikePrefix[op[t].src.key]
  BY DEF IInv, Scanner
<1>2. op[t].kind = "writeBack" /\ op[t].pc \notin Unlocked
  BY <1>1, Given DEF Scanning, Unlocked, Operation, OpRecord, OnSource, UploadPlaces,
     DeletePlaces, MovePlaces
<1>3. op[t].src \in Row /\ op[t].src.key \in Owned(t)
  BY <1>2, OwnedKeys DEF IInv, OnSource
<1>4. op[t].src.key \in ObjKey
  BY <1>3 DEF Owned
<1> QED
  BY <1>1, <1>2, <1>3, <1>4 DEF OwnPrefixes, ScanKeys

\* ADR-0006, for any operations, any bounds and whatever crashes: an object
\* changes only under its key's lock, and a row, other than by the hand of a
\* background scan, only under the locks of the keys it has and gets.
THEOREM WritersLocked ==
  ASSUME OwnPrefixes
  PROVE  Spec => WritersHoldTheLock
<1> DEFINE Change == /\ \A k \in ObjKey : store'[k] # store[k] => Locked(k)
                     /\ \A i \in Id : tracks'[i] # tracks[i] /\ (scan' = scan \/ scan.owner # Nobody) =>
                          \A r \in {tracks[i], tracks'[i]} \ {NoRow} : Locked(r.key)
<1>1. ASSUME IInv, [Next]_vars
      PROVE  Change
  <2>1. CASE \E t \in Task : SubmitStep(t) \/ TaskStep(t)
    <3>1. PICK t \in Task : Within(t)
      BY <1>1, <2>1, TaskStepForm
    <3>2. \A k \in Owned(t) : Locked(k)
      BY DEF Owned, Locked
    <3> QED
      BY <3>1, <3>2 DEF Within, OnlyRowsOf
  <2>2. CASE ScanWrite \/ ScanPrune
    <3>1. OnlyRowsOf(ScanKeys) /\ store' = store
      BY <1>1, <2>2, ScanWriteForm, ScanPruneForm DEF ScanWrite, ScanPrune, ScanOnly, SameObjects
    <3>2. scan' # scan
      <4>1. scan \in ScanRecord
        BY <1>1 DEF IInv, Scanner
      <4>2. CASE ScanWrite
        <5>1. scan.pc = "ingest" /\ scan'.pc = "reread"
          BY <4>1, <4>2 DEF ScanWrite, ScanRecord
        <5> QED
          BY <5>1
      <4>3. CASE ScanPrune
        <5>1. PICK x \in Vanished : scan' = [scan EXCEPT !.existing = @ \ {x}]
          BY <4>3 DEF ScanPrune
        <5>2. x \in scan.existing /\ scan'.existing = scan.existing \ {x}
          BY <4>1, <5>1 DEF Vanished, ScanRecord
        <5> QED
          BY <5>2
      <4> QED
        BY <2>2, <4>2, <4>3
    <3>3. CASE scan.owner = Nobody
      BY <3>1, <3>2, <3>3
    <3>4. CASE scan.owner # Nobody
      <4>1. scan.owner \in Task
        BY <1>1, <3>4 DEF IInv, Scanner, ScanRecord
      <4>2. \A k \in ScanKeys : Locked(k)
        BY <1>1, <4>1, ScansOwnKey DEF Owned, Locked
      <4> QED
        BY <3>1, <4>2 DEF OnlyRowsOf
    <3> QED
      BY <3>3, <3>4
  <2>3. CASE tracks' = tracks /\ store' = store
    BY <2>3
  <2>4. CASE \/ \E i \in Id : UpdateTags(i)
             \/ BackgroundScan \/ ScanList \/ ScanParse \/ ScanReread \/ ScanFinish \/ ScanFails
             \/ ScanDropped \/ ListCatchesUp \/ Crash \/ Rest \/ UNCHANGED vars
    <3>1. tracks' = tracks /\ store' = store
      BY <1>1, <2>4, ScanEndForm
         DEF UpdateTags, BackgroundScan, BeginScan, ScanList, ScanParse, ScanReread, ScanOnly,
             ListCatchesUp, Crash, Rest, vars, Reads, SameObjects, SameRows
    <3> QED
      BY <2>3, <3>1
  <2> QED
    BY <1>1, <2>1, <2>2, <2>4 DEF Next, ScanStep
<1>2. IInv /\ [Next]_vars => [Change]_vars
  BY <1>1
<1> QED
  BY <1>2, Inductive, PTL DEF Spec, WritersHoldTheLock

-----------------------------------------------------------------------------
(***************************************************************************)
(* A scan with nothing beside it reconciles the whole library.  The rows   *)
(* it leaves alone because of their ETag must say what that ETag stands    *)
(* for: no move writes the ETag of tags nobody has read, and no other      *)
(* background scan has written an ETag listed before the tags were read.   *)
(***************************************************************************)
Recoverable == ~LaggyList /\ MaxScans <= 1 /\ "move" \notin Kinds /\ OwnPrefixes

\* The one background scan has not begun, or runs with nothing beside it.
Trusted == scans = 0 \/ scan.quiet
HonestRows == \A i \in Id : tracks[i] # NoRow => tracks[i].etag = Etag(tracks[i].tags)
HonestItems == \A x \in scan.todo : x.etag = Etag(store[x.key]) /\ x.tags \in {NoObj, store[x.key]}
\* What the quiet scan has still on its list.
Due(k) == \E x \in scan.todo : x.key = k
\* The rows as begin_scan reads them.
Snapshot == {[key |-> tracks[i].key, etag |-> tracks[i].etag] :
               i \in {j \in Id : tracks[j] # NoRow}}
Quietly ==
  /\ scan.owner = Nobody /\ scan.pc # "idle" /\ scan.lists = ObjKey
  /\ \A t \in Task : ~Active(t)
  /\ \A k \in scan.seen : store[k] # NoObj
  /\ scan.pc = "list" => scan.existing = Snapshot
  /\ \A k \in Audio : store[k] # NoObj /\ (k <= scan.cursor \/ scan.pc # "list") =>
       k \in scan.seen /\ (Due(k) \/ Indexed(k))
  /\ \A k \in ObjKey : store[k] = NoObj /\ RowsAt(k) # {} => \E x \in scan.existing : x.key = k
Honest ==
  /\ listed = store /\ \A t \in Task : op[t].kind # "move"
  /\ scan.pc # "idle" /\ scan.owner = Nobody => scans # 0
  /\ Trusted => HonestRows /\ HonestItems
  /\ scan.quiet => Quietly

\* Two contents with one ETag are one content.
LEMMA EtagTells ==
  ASSUME NEW c \in Content, NEW d \in Content, Etag(c) = Etag(d), Etag(d) # NoEtag
  PROVE  c = d
  BY DEF Etag

\* An upsert of what the object is leaves an honest row, and the key indexed.
LEMMA UpsertHonest ==
  ASSUME Rows, Stores, HonestRows, NEW k \in ObjKey, NEW c \in Content, Upsert(k, Etag(c), c),
         store' = store
  PROVE  HonestRows' /\ (store[k] = c => Indexed(k)')
<1> SUFFICES ASSUME NEW j, j = IngestedId(k)
             PROVE  HonestRows' /\ (store[k] = c => Indexed(k)')
  OBVIOUS
<1> DEFINE e == Etag(c)
<1>1. e \in Etags /\ Upsert(k, e, c)
  BY DEF Etag, Etags
<1> HIDE DEF e
<1>2. /\ OnlyRowsOf({k}) /\ j \in Id /\ RowsAt(k)' = {j}
      /\ tracks'[j] = [key |-> k, etag |-> e, tags |-> c]
  BY <1>1, UpsertRows
<1>3. tracks'[j].key = k /\ tracks'[j].etag = e /\ tracks'[j].tags = c /\ tracks'[j] # NoRow
  <2>1. j \in RowsAt(k)'
    BY <1>2
  <2> QED
    BY <1>2, <2>1 DEF RowsAt
<1>4. ASSUME NEW i \in Id, tracks'[i] # NoRow
      PROVE  tracks'[i].etag = Etag(tracks'[i].tags)
  <2>1. CASE i = j
    BY <1>3, <2>1 DEF e
  <2>2. CASE i # j
    <3>1. i \notin RowsAt(k)'
      BY <1>2, <2>2
    <3>2. tracks'[i].key # k
      BY <1>4, <3>1 DEF RowsAt
    <3>3. tracks'[i] = tracks[i]
      BY <1>2, <1>4, <3>2 DEF OnlyRowsOf
    <3> QED
      BY <1>4, <3>3 DEF HonestRows
  <2> QED
    BY <2>1, <2>2
<1>5. store[k] = c => Indexed(k)'
  <2> SUFFICES ASSUME store[k] = c
               PROVE  Indexed(k)'
    OBVIOUS
  <2>1. store'[k] = c /\ c # NoObj
    BY ContentAssumption
  <2>2. store'[tracks'[j].key] = tracks'[j].tags /\ tracks'[j].etag = Etag(store'[tracks'[j].key])
    BY <1>3, <2>1 DEF e
  <2>3. Healthy(j)'
    BY <1>3, <2>2 DEF Healthy
  <2> QED
    BY <1>2, <2>1, <2>3 DEF Indexed
<1> QED
  BY <1>4, <1>5 DEF HonestRows

\* Deleting rows leaves the others honest.
LEMMA DeleteHonest ==
  ASSUME HonestRows, Rows, NEW ids \in SUBSET Id, DeleteRows(ids)
  PROVE  HonestRows'
<1>1. \A i \in Id : tracks'[i] # NoRow => tracks'[i] = tracks[i]
  BY DEF DeleteRows
<1> QED
  BY <1>1 DEF HonestRows

\* Reconciling an object leaves honest rows.
LEMMA IngestHonest ==
  ASSUME Rows, Stores, HonestRows, NEW k \in ObjKey, Ingest(k), store' = store
  PROVE  HonestRows'
<1>1. CASE store[k] = NoObj
  <2>1. DeleteRows(RowsAt(k)) /\ RowsAt(k) \in SUBSET Id
    BY <1>1 DEF Ingest, RowsAt
  <2> QED
    BY <2>1, DeleteHonest
<1>2. CASE store[k] # NoObj /\ k \notin Audio
  BY <1>2 DEF Ingest, SameRows, HonestRows
<1>3. CASE store[k] # NoObj /\ k \in Audio
  <2>1. Upsert(k, Etag(store[k]), store[k]) /\ store[k] \in Content
    BY <1>3 DEF Ingest, Stores
  <2> QED
    BY <2>1, UpsertHonest
<1> QED
  BY <1>1, <1>2, <1>3

\* Only a move gives a row an ETag without its tags.
LEMMA TaskRowsHonest ==
  ASSUME IInv, HonestRows, NEW t \in Task, op[t].kind # "move", SubmitStep(t) \/ TaskStep(t)
  PROVE  HonestRows'
<1>1. CASE SameRows
  BY <1>1 DEF SameRows, HonestRows
<1>2. CASE UploadIngest(t) \/ UploadReingest(t)
  <2>1. op[t].kind = "upload" /\ op[t].pc \notin Unlocked /\ store' = store
        /\ (SameRows \/ Ingest(op[t].key))
    BY <1>2 DEF UploadIngest, UploadReingest, At, Unlocked, SameObjects
  <2>2. op[t].key \in ObjKey
    BY <2>1, OwnedKeys DEF IInv, Owned
  <2> QED
    BY <1>1, <2>1, <2>2, IngestHonest DEF IInv
<1>3. CASE DeleteUnindex(t)
  <2>1. op[t].kind = "delete" /\ op[t].pc \notin Unlocked /\ (SameRows \/ DeleteRows({op[t].id}))
    BY <1>3 DEF DeleteUnindex, At, Unlocked
  <2>2. {op[t].id} \in SUBSET Id
    BY <2>1, Given DEF Operation, OnSource, Unlocked
  <2> QED
    BY <1>1, <2>1, <2>2, DeleteHonest DEF IInv
<1>4. ~MoveStep(t)
  BY DEF MoveStep, MoveHead, MoveCopy, MovePut, MoveCas, MoveRemove, MoveCheck, MoveRollback,
     MoveCleanup, MoveDiscard, At
<1>5. CASE WriteBackClear(t)
  <2>1. tracks' = tracks
    BY <1>5 DEF WriteBackClear, SameRows
  <2> QED
    BY <2>1 DEF HonestRows
<1>6. CASE SubmitStep(t) \/ ReadSource(t) \/ Lock(t) \/ Recheck(t)
  BY <1>1, <1>6 DEF SubmitStep, SubmitUpload, SubmitWriteBack, SubmitDelete, SubmitMove, Submit,
     ReadSource, Lock, Recheck, Reads
<1>7. CASE UploadBackup(t) \/ UploadPut(t) \/ UploadReadBack(t) \/ UploadSelect(t)
           \/ UploadUndo(t) \/ UploadReread(t)
  BY <1>1, <1>7 DEF UploadBackup, UploadPut, UploadReadBack, UploadSelect, UploadUndo,
     UploadReread, Reads
<1>8. CASE WriteBackBackup(t) \/ WriteBackPut(t) \/ WriteBackScan(t) \/ WriteBackRestore(t)
  BY <1>1, <1>8 DEF WriteBackBackup, WriteBackPut, WriteBackScan, BeginScan, WriteBackRestore, Reads
<1>9. CASE DeleteBackup(t) \/ DeleteObject(t) \/ DeleteCheck(t) \/ DeleteRestore(t)
  BY <1>1, <1>9 DEF DeleteBackup, DeleteObject, DeleteCheck, DeleteRestore, Reads
<1> QED
  BY <1>2, <1>3, <1>4, <1>5, <1>6, <1>7, <1>8, <1>9
     DEF TaskStep, UploadStep, WriteBackStep, DeleteStep

\* LIST shows what the store holds.
LEMMA ListedStays ==
  ASSUME ~LaggyList, listed = store, NEW t \in Task,
         SubmitStep(t) \/ TaskStep(t) \/ ScanFinish \/ ScanFails
  PROVE  listed' = store'
<1>1. \A k, c : Write(k, c) => listed' = store'
  BY DEF Write
<1>2. SameObjects => listed' = store'
  BY DEF SameObjects
<1>3. \A k, c : FailedPut(k, c) \/ FailedDelete(k) => listed' = store'
  BY <1>1, <1>2 DEF FailedPut, FailedDelete
<1>4. CASE SubmitStep(t)
  BY <1>2, <1>4 DEF SubmitStep, SubmitUpload, SubmitWriteBack, SubmitDelete, SubmitMove, Submit,
     Reads
<1>5. CASE ReadSource(t) \/ Lock(t) \/ Recheck(t) \/ WriteBackScan(t)
  BY <1>2, <1>5 DEF ReadSource, Lock, Recheck, WriteBackScan, BeginScan, Reads
<1>6. CASE UploadStep(t)
  BY <1>1, <1>2, <1>3, <1>6 DEF UploadStep, UploadBackup, UploadPut, UploadIngest,
     UploadReadBack, UploadSelect, UploadUndo, UploadReingest, UploadReread, Reads
<1>7. CASE DeleteStep(t)
  BY <1>1, <1>2, <1>3, <1>7 DEF DeleteStep, DeleteBackup, DeleteObject, DeleteCheck,
     DeleteUnindex, DeleteRestore, Reads
<1>8. CASE MoveStep(t)
  BY <1>1, <1>2, <1>3, <1>8 DEF MoveStep, MoveHead, MoveCopy, MovePut, MoveCas, MoveRemove,
     MoveCheck, MoveRollback, MoveCleanup, MoveDiscard, Reads
<1>9. CASE WriteBackBackup(t) \/ WriteBackPut(t) \/ WriteBackClear(t) \/ WriteBackRestore(t)
  BY <1>1, <1>2, <1>3, <1>9 DEF WriteBackBackup, WriteBackPut, WriteBackClear,
     WriteBackRestore, Reads
<1>10. CASE ScanFinish \/ ScanFails
  BY <1>2, <1>10 DEF ScanFinish, ScanFails, ScanReturns
<1> QED
  BY <1>4, <1>5, <1>6, <1>7, <1>8, <1>9, <1>10 DEF TaskStep, WriteBackStep

\* No step of an operation gives it another kind, and none is the scanner's.
LEMMA KindStays ==
  ASSUME IInv, NEW t \in Task, TaskStep(t)
  PROVE  op'[t].kind = op[t].kind /\ op[t].pc \notin Scanning /\ Active(t)
<1>1. op \in [Task -> OpRecord]
  BY DEF IInv, Operations
<1>2. \A pc : Goto(t, pc) => op'[t].kind = op[t].kind
  BY <1>1 DEF Goto, OpRecord
<1>3. \A result : Return(t, result) \/ ReturnFlagged(t) => op'[t].kind = op[t].kind
  <2>1. ASSUME NEW result, Finish(t, result) PROVE op'[t].kind = op[t].kind
    <3> DEFINE n == [Idle EXCEPT !.kind = op[t].kind, !.pc = "done", !.result = result]
    <3>1. op' = [op EXCEPT ![t] = n]
      BY <2>1 DEF Finish
    <3>2. n.kind = op[t].kind
      BY DEF Idle
    <3> HIDE DEF n
    <3> QED BY <1>1, <3>1, <3>2
  <2> QED BY <2>1 DEF Return, ReturnFlagged
<1>4. CASE ReadSource(t)
  BY <1>1, <1>3, <1>4 DEF ReadSource, Scanning, Active, OpRecord
<1>5. CASE Lock(t)
  BY <1>1, <1>5 DEF Lock, Scanning, Active, OpRecord
<1>6. CASE Recheck(t)
  BY <1>1, <1>2, <1>3, <1>6 DEF Recheck, Scanning, Active, OpRecord
<1>7. CASE UploadStep(t)
  BY <1>1, <1>2, <1>3, <1>7 DEF UploadStep, UploadBackup, UploadPut, UploadIngest,
     UploadReadBack, UploadSelect, UploadUndo, UploadReingest, UploadReread, At, Scanning, Active,
     OpRecord
<1>8. CASE WriteBackStep(t)
  BY <1>1, <1>2, <1>3, <1>8 DEF WriteBackStep, WriteBackBackup, WriteBackPut, WriteBackScan,
     WriteBackClear, WriteBackRestore, At, Scanning, Active, OpRecord
<1>9. CASE DeleteStep(t)
  BY <1>1, <1>2, <1>3, <1>9 DEF DeleteStep, DeleteBackup, DeleteObject, DeleteCheck,
     DeleteUnindex, DeleteRestore, At, Scanning, Active, OpRecord
<1>10. CASE MoveStep(t)
  BY <1>1, <1>2, <1>3, <1>10 DEF MoveStep, MoveHead, MoveCopy, MovePut, MoveCas, MoveRemove,
     MoveCheck, MoveRollback, MoveCleanup, MoveDiscard, At, Scanning, Active, OpRecord
<1> QED
  BY <1>4, <1>5, <1>6, <1>7, <1>8, <1>9, <1>10 DEF TaskStep

\* A step of an operation: the rows stay honest, and what a scan has read of
\* the key its operation holds stays so.
LEMMA TaskHonest ==
  ASSUME IInv, Recoverable, Honest, NEW t \in Task, TaskStep(t)
  PROVE  Honest'
<1>1. op'[t].kind = op[t].kind /\ op[t].pc \notin Scanning /\ Active(t) /\ Within(t) /\ IInv'
  BY KindStays, TaskStepForm
<1>2. listed' = store' /\ \A u \in Task : op'[u].kind # "move"
  <2>1. \A u \in Task : op'[u].kind = op[u].kind
    BY <1>1 DEF Within, OthersStay
  <2> QED
    BY <2>1, ListedStays DEF Honest, Recoverable
<1>3. ~scan.quiet
  BY <1>1 DEF Honest, Quietly
<1>4. (scan' = scan /\ scans' = scans) \/ WriteBackScan(t)
  <2>1. CASE ReadSource(t) \/ Lock(t) \/ Recheck(t)
    BY <2>1 DEF ReadSource, Lock, Recheck, SameScan
  <2>2. CASE UploadStep(t)
    BY <2>2 DEF UploadStep, UploadBackup, UploadPut, UploadIngest, UploadReadBack, UploadSelect,
         UploadUndo, UploadReingest, UploadReread, SameScan
  <2>3. CASE DeleteStep(t)
    BY <2>3 DEF DeleteStep, DeleteBackup, DeleteObject, DeleteCheck, DeleteUnindex, DeleteRestore,
         SameScan
  <2>4. CASE MoveStep(t)
    BY <2>4 DEF MoveStep, MoveHead, MoveCopy, MovePut, MoveCas, MoveRemove, MoveCheck,
         MoveRollback, MoveCleanup, MoveDiscard, SameScan
  <2>5. CASE WriteBackStep(t)
    BY <2>5 DEF WriteBackStep, WriteBackBackup, WriteBackPut, WriteBackClear, WriteBackRestore,
         SameScan
  <2> QED
    BY <2>1, <2>2, <2>3, <2>4, <2>5 DEF TaskStep
<1>5. CASE scan' = scan /\ scans' = scans
  <2>1. ASSUME Trusted'
        PROVE  HonestRows' /\ HonestItems'
    <3>1. scans = 0 /\ HonestRows /\ HonestItems
      BY <1>3, <1>5, <2>1 DEF Trusted, Honest
    <3>2. HonestRows'
      BY <3>1, TaskRowsHonest DEF Honest
    <3>3. ASSUME NEW x \in scan.todo
          PROVE  store'[x.key] = store[x.key]
      <4>1. scan.pc # "idle"
        BY NoScanForm DEF IInv, Scanner
      <4>2. PICK u \in Task : scan.owner = u
        BY <3>1, <4>1 DEF Honest, IInv, Scanner, ScanRecord
      <4>3. x.key \in ObjKey /\ x.key \in ScanKeys
        BY DEF IInv, Scanner, ScanRecord, ScanKeys, Item
      <4>4. x.key \in Owned(u)
        BY <4>2, <4>3, ScansOwnKey DEF Recoverable
      <4>5. u # t
        BY <1>1, <4>2 DEF IInv, Scanner
      <4>6. x.key \notin Owned(t)
        BY <4>4, <4>5 DEF IInv, Operations, Owned
      <4> QED
        BY <1>1, <4>3, <4>6 DEF Within
    <3> QED
      BY <1>5, <3>1, <3>2, <3>3 DEF HonestItems
  <2> QED
    BY <1>2, <1>3, <1>5, <2>1 DEF Honest
<1>6. CASE WriteBackScan(t)
  <2>1. BeginScan(t, LikePrefix[op[t].src.key], ListPrefix[op[t].src.key]) /\ scans' = scans
        /\ scan.pc = "idle"
    BY <1>6 DEF WriteBackScan, BeginScan
  <2>2. scan'.todo = {} /\ scan'.owner = t /\ ~scan'.quiet
    <3>1. op[t].pc \in {"scan", "rescan"} /\ op[t] \in OpRecord /\ Operation(op[t])
      BY <1>6, Given DEF WriteBackScan
    <3>2. op[t].kind = "writeBack" /\ op[t].pc \notin Unlocked
      BY <3>1 DEF Operation, OpRecord, OnSource, UploadPlaces, DeletePlaces, MovePlaces, Unlocked
    <3>3. op[t].src.key \in ObjKey
      BY <3>2, OwnedKeys DEF IInv, OnSource, Owned
    <3> DEFINE rows == LikePrefix[op[t].src.key]
               lists == ListPrefix[op[t].src.key]
    <3>4. rows \in SUBSET ObjKey /\ lists \in SUBSET ObjKey /\ t \in Task \cup {Nobody}
      BY <3>3, PrefixAssumption
    <3>5. BeginScan(t, rows, lists)
      BY <2>1
    <3> HIDE DEF rows, lists
    <3>6. /\ scan'.todo = {} /\ scan'.owner = t
          /\ scan'.quiet => \A u \in Task : ~Active(u)
      BY <3>4, <3>5, BeginForm
    <3> QED
      BY <1>1, <3>6
  <2>3. Trusted' => HonestRows'
    BY <1>3, <2>1, <2>2, TaskRowsHonest DEF Trusted, Honest
  <2>4. t # Nobody
    BY NobodyAssumption
  <2> QED
    BY <1>2, <2>2, <2>3, <2>4 DEF Honest, HonestItems
<1> QED
  BY <1>4, <1>5, <1>6

\* A new operation ends the quiet.
LEMMA SubmitHonest ==
  ASSUME IInv, Recoverable, Honest, NEW t \in Task, SubmitStep(t)
  PROVE  Honest'
<1>1. PICK o : Submit(t, o) /\ o.kind # "move"
  <2>1. ~SubmitMove(t)
    BY DEF SubmitMove, Recoverable
  <2>2. \A k \in ObjKey, c \in Content :
          [Idle EXCEPT !.kind = "upload", !.pc = "lock", !.key = k, !.new = c].kind # "move"
    BY DEF Idle
  <2>3. \A i, c, fs :
          [Idle EXCEPT !.kind = "writeBack", !.pc = "source", !.id = i, !.new = c,
                       !.fields = fs].kind # "move"
    BY DEF Idle
  <2>4. \A i : [Idle EXCEPT !.kind = "delete", !.pc = "source", !.id = i].kind # "move"
    BY DEF Idle
  <2> QED
    BY <2>1, <2>2, <2>3, <2>4 DEF SubmitStep, SubmitUpload, SubmitWriteBack, SubmitDelete
<1>2. scan \in ScanRecord /\ op \in [Task -> OpRecord]
  BY DEF IInv, Scanner, Operations
<1>3. /\ scan'.pc = scan.pc /\ scan'.owner = scan.owner /\ scan'.todo = scan.todo
      /\ scan'.quiet = FALSE /\ scans' = scans
  BY <1>1, <1>2 DEF Submit, ScanRecord
<1>4. \A u \in Task : op'[u].kind # "move"
  BY <1>1, <1>2 DEF Submit, Honest
<1>5. store' = store /\ listed' = listed /\ tracks' = tracks
  BY <1>1 DEF Submit, Reads, SameObjects, SameRows
<1>6. Trusted' => HonestRows' /\ HonestItems'
  BY <1>3, <1>5 DEF Trusted, Honest, HonestRows, HonestItems
<1> QED
  BY <1>3, <1>4, <1>5, <1>6 DEF Honest

\* No scan is the end of one.
LEMMA ScanlessHonest ==
  ASSUME IInv, Honest, scan' = NoScan, scans' = scans, SameObjects, tracks' = tracks,
         \A t \in Task : op'[t].kind = op[t].kind
  PROVE  Honest'
<1>1. scan'.quiet = FALSE /\ scan'.pc = "idle" /\ scan'.todo = {}
  BY DEF NoScan
<1>2. Trusted' => HonestRows'
  BY <1>1 DEF Trusted, Honest, HonestRows
<1> QED
  BY <1>1, <1>2 DEF Honest, HonestItems, SameObjects

\* The background scan begins with every row and a listing of every key.
LEMMA BackgroundHonest ==
  ASSUME IInv, Recoverable, Honest, BackgroundScan
  PROVE  Honest'
<1>1. BeginScan(Nobody, ObjKey, ObjKey) /\ op' = op /\ scan.pc = "idle" /\ scans' = scans + 1
  BY DEF BackgroundScan, BeginScan
<1>2. scans = 0
  BY BoundsAssumption DEF IInv, Counted, Recoverable, BackgroundScan
<1>3. /\ scan'.pc = "list" /\ scan'.owner = Nobody /\ scan'.lists = ObjKey /\ scan'.cursor = 0
      /\ scan'.seen = {} /\ scan'.todo = {}
      /\ scan'.existing = {[key |-> tracks[i].key, etag |-> tracks[i].etag] :
                             i \in UNION {RowsAt(k) : k \in ObjKey}}
      /\ scan'.quiet => \A t \in Task : ~Active(t)
  BY <1>1, BeginForm
<1>4. store' = store /\ listed' = listed /\ tracks' = tracks
  BY <1>1 DEF BeginScan, Reads, SameObjects, SameRows
<1>5. UNION {RowsAt(k) : k \in ObjKey} = {j \in Id : tracks[j] # NoRow}
  <2>1. \A j \in Id : tracks[j] # NoRow => tracks[j].key \in ObjKey
    BY DEF IInv, Rows, Row
  <2> QED
    BY <2>1 DEF RowsAt
<1>6. scan'.existing = Snapshot'
  BY <1>3, <1>4, <1>5 DEF Snapshot
<1>7. ASSUME scan'.quiet
      PROVE  Quietly'
  <2>1. \A t \in Task : ~Active(t)'
    BY <1>1, <1>3, <1>7 DEF Active
  <2>2. \A k \in Audio : ~(k <= scan'.cursor)
    <3>1. \A k \in Audio : k \in 1..KeyCount /\ KeyCount \in Nat
      BY SizeAssumption DEF ObjKey
    <3>2. \A k \in Audio : ~(k <= 0)
      BY <3>1
    <3> QED
      BY <1>3, <3>2
  <2>3. ASSUME NEW k \in ObjKey, RowsAt(k)' # {}
        PROVE  \E x \in scan'.existing : x.key = k
    <3>1. PICK i \in Id : tracks[i] # NoRow /\ tracks[i].key = k
      BY <1>4, <2>3 DEF RowsAt
    <3>2. [key |-> tracks[i].key, etag |-> tracks[i].etag] \in scan'.existing
      BY <1>4, <1>6, <3>1 DEF Snapshot
    <3> QED
      BY <3>1, <3>2
  <2> QED
    BY <1>3, <1>6, <2>1, <2>2, <2>3 DEF Quietly
<1>8. Trusted' => HonestRows' /\ HonestItems'
  BY <1>2, <1>3, <1>4 DEF Trusted, Honest, HonestRows, HonestItems
<1>9. scans' # 0
  BY <1>1, <1>2
<1> QED
  BY <1>1, <1>4, <1>7, <1>8, <1>9 DEF Honest

\* What the quiet scan has dealt with stays as it is, when the rows do.
LEMMA IndexedStays ==
  ASSUME NEW k, store' = store, tracks' = tracks, Indexed(k)
  PROVE  Indexed(k)'
  BY DEF Indexed, Healthy, RowsAt

\* The listing: a key without an object is passed over, a key whose row has
\* its ETag is indexed, any other one is put on the list.
LEMMA ListHonest ==
  ASSUME IInv, Recoverable, Honest, ScanList
  PROVE  Honest'
<1>1. /\ scan \in ScanRecord /\ scan.pc = "list" /\ store' = store /\ listed' = listed
      /\ listed = store /\ tracks' = tracks /\ op' = op /\ scans' = scans
  BY DEF IInv, Scanner, ScanList, ScanOnly, SameObjects, SameRows, Honest
<1>2. CASE Ahead = {}
  <2>1. /\ scan'.pc = "ingest" /\ scan'.owner = scan.owner /\ scan'.lists = scan.lists
        /\ scan'.cursor = scan.cursor /\ scan'.seen = scan.seen /\ scan'.todo = scan.todo
        /\ scan'.existing = scan.existing /\ scan'.quiet = scan.quiet
    BY <1>1, <1>2 DEF ScanList, ScanRecord
  <2>2. ASSUME scan.quiet
        PROVE  Quietly'
    <3>1. Quietly
      BY <2>2 DEF Honest
    <3>2. ASSUME NEW k \in Audio, store[k] # NoObj
          PROVE  k \in scan.seen /\ (Due(k) \/ Indexed(k))
      <4>1. k \in ObjKey /\ k \in scan.lists
        BY <3>1, SizeAssumption DEF Quietly
      <4>2. ~(k > scan.cursor)
        BY <1>1, <1>2, <3>2, <4>1 DEF Ahead
      <4>3. k <= scan.cursor
        BY <1>1, <4>1, <4>2, SizeAssumption DEF ObjKey, ScanRecord
      <4> QED
        BY <3>1, <3>2, <4>3 DEF Quietly
    <3>3. \A k \in Audio : store[k] # NoObj => k \in scan'.seen /\ (Due(k)' \/ Indexed(k)')
      BY <1>1, <2>1, <3>2, IndexedStays DEF Due
    <3> QED
      BY <1>1, <2>1, <3>1, <3>3 DEF Quietly, Active, RowsAt
  <2> QED
    BY <1>1, <2>1, <2>2 DEF Honest, Trusted, HonestRows, HonestItems
<1>3. CASE Ahead # {}
  <2> SUFFICES ASSUME NEW k, k = First(Ahead)
               PROVE  Honest'
    OBVIOUS
  <2> DEFINE new == [key |-> k, etag |-> Etag(listed[k]), tags |-> NoObj]
             todo == IF Unchanged(k) THEN scan.todo ELSE scan.todo \cup {new}
  <2>1. Ahead \in SUBSET ObjKey
    BY <1>1 DEF Ahead, ScanRecord
  <2>2. k \in Ahead /\ k \in ObjKey /\ store[k] # NoObj /\ \A l \in Ahead : k <= l
    BY <1>1, <1>3, <2>1, AheadFirst DEF Ahead
  <2>3. scan' = [scan EXCEPT !.cursor = k, !.seen = scan.seen \cup {k}, !.todo = todo]
    BY <1>3 DEF ScanList
  <2>4. new.key = k /\ new.etag = Etag(store[k]) /\ new.tags = NoObj
    BY <1>1
  <2>5. /\ scan.todo \subseteq todo /\ todo \subseteq scan.todo \cup {new}
        /\ ~Unchanged(k) => new \in todo
    OBVIOUS
  <2> HIDE DEF todo, new
  <2>6. /\ scan'.pc = "list" /\ scan'.owner = scan.owner /\ scan'.lists = scan.lists
        /\ scan'.cursor = k /\ scan'.seen = scan.seen \cup {k} /\ scan'.todo = todo
        /\ scan'.existing = scan.existing /\ scan'.quiet = scan.quiet
    BY <1>1, <2>3 DEF ScanRecord
  <2>7. Trusted' => HonestRows' /\ HonestItems'
    BY <1>1, <2>4, <2>5, <2>6 DEF Trusted, Honest, HonestRows, HonestItems
  <2>8. ASSUME scan.quiet
        PROVE  Quietly'
    <3>1. Quietly /\ HonestRows
      BY <2>8 DEF Honest, Trusted
    <3>2. Due(k)' \/ Indexed(k)'
      <4>1. CASE Unchanged(k)
        <5>1. [key |-> k, etag |-> Etag(store[k])] \in scan.existing /\ Etag(store[k]) # NoEtag
          BY <1>1, <4>1 DEF Unchanged
        <5>2. PICK i \in Id : /\ tracks[i] # NoRow
                              /\ [key |-> k, etag |-> Etag(store[k])] =
                                   [key |-> tracks[i].key, etag |-> tracks[i].etag]
          BY <1>1, <3>1, <5>1 DEF Quietly, Snapshot
        <5>3. tracks[i].key = k /\ tracks[i].etag = Etag(store[k])
          BY <5>2
        <5>4. i \in RowsAt(k)
          BY <5>2, <5>3 DEF RowsAt
        <5>5. RowsAt(k) = {i} /\ tracks[i] \in Row
          BY <2>2, <5>4, OneRow DEF IInv
        <5>6. tracks[i].tags \in Content /\ store[k] \in Content
          BY <2>2, <5>5 DEF Row, IInv, Stores
        <5>7. Etag(tracks[i].tags) = Etag(store[k])
          BY <3>1, <5>2, <5>3 DEF HonestRows
        <5>8. tracks[i].tags = store[k]
          BY <5>1, <5>6, <5>7, EtagTells
        <5>9. Healthy(i)
          BY <5>2, <5>3, <5>8 DEF Healthy
        <5>10. Indexed(k)
          BY <2>2, <5>5, <5>9 DEF Indexed
        <5> QED
          BY <1>1, <5>10, IndexedStays
      <4>2. CASE ~Unchanged(k)
        BY <2>4, <2>5, <2>6, <4>2 DEF Due
      <4> QED
        BY <4>1, <4>2
    <3>3. ASSUME NEW l \in Audio, store[l] # NoObj, l <= k
          PROVE  l \in scan'.seen /\ (Due(l)' \/ Indexed(l)')
      <4>1. l \in ObjKey /\ l \in scan.lists
        BY <3>1, SizeAssumption DEF Quietly
      <4>2. CASE l <= scan.cursor
        <5>1. l \in scan.seen /\ (Due(l) \/ Indexed(l))
          BY <3>1, <3>3, <4>2 DEF Quietly
        <5> QED
          BY <1>1, <2>5, <2>6, <5>1, IndexedStays DEF Due
      <4>3. CASE ~(l <= scan.cursor)
        <5>1. l > scan.cursor
          BY <1>1, <4>1, <4>3, SizeAssumption DEF ObjKey, ScanRecord
        <5>2. l \in Ahead
          BY <1>1, <3>3, <4>1, <5>1 DEF Ahead
        <5>3. l = k
          BY <2>2, <3>3, <4>1, <5>2, SizeAssumption DEF ObjKey
        <5> QED
          BY <2>6, <3>2, <5>3
      <4> QED
        BY <4>2, <4>3
    <3> QED
      BY <1>1, <2>2, <2>6, <3>1, <3>3 DEF Quietly, Active, RowsAt, Snapshot
  <2> QED
    BY <1>1, <2>6, <2>7, <2>8 DEF Honest
<1> QED
  BY <1>2, <1>3

\* A parse puts the tags the object has into an item of the list.
LEMMA ParseHonest ==
  ASSUME IInv, Recoverable, Honest, ScanParse
  PROVE  Honest'
<1>1. /\ scan \in ScanRecord /\ scan.pc = "ingest" /\ store' = store /\ listed' = listed
      /\ tracks' = tracks /\ op' = op /\ scans' = scans
  BY DEF IInv, Scanner, ScanParse, ScanOnly, SameObjects, SameRows
<1>2. PICK x \in Unparsed :
        /\ Readable(x.key)
        /\ scan' = [scan EXCEPT !.todo = (@ \ {x}) \cup {[x EXCEPT !.tags = store[x.key]]}]
  BY DEF ScanParse
<1> DEFINE y == [x EXCEPT !.tags = store[x.key]]
           todo == (scan.todo \ {x}) \cup {y}
<1>3. x \in Item /\ x \in scan.todo
  BY <1>1, <1>2 DEF Unparsed, ScanRecord
<1>4. y.key = x.key /\ y.etag = x.etag /\ y.tags = store[x.key]
  BY <1>3 DEF Item
<1>5. scan' = [scan EXCEPT !.todo = todo]
  BY <1>2
<1> HIDE DEF y
<1>6. /\ \A z \in todo : z = y \/ z \in scan.todo
      /\ \A z \in scan.todo : \E w \in todo : w.key = z.key
  BY <1>4
<1> HIDE DEF todo
<1>7. /\ scan'.pc = scan.pc /\ scan'.owner = scan.owner /\ scan'.lists = scan.lists
      /\ scan'.cursor = scan.cursor /\ scan'.seen = scan.seen /\ scan'.existing = scan.existing
      /\ scan'.quiet = scan.quiet /\ scan'.todo = todo
  BY <1>1, <1>5 DEF ScanRecord
<1>8. Trusted' => HonestRows' /\ HonestItems'
  BY <1>1, <1>3, <1>4, <1>6, <1>7 DEF Trusted, Honest, HonestRows, HonestItems
<1>9. ASSUME scan.quiet
      PROVE  Quietly'
  <2>1. Quietly
    BY <1>9 DEF Honest
  <2>2. \A k : Due(k) => Due(k)'
    BY <1>6, <1>7 DEF Due
  <2>3. \A k \in Audio : store[k] # NoObj => k \in scan'.seen /\ (Due(k)' \/ Indexed(k)')
    BY <1>1, <1>7, <2>1, <2>2, IndexedStays DEF Quietly
  <2> QED
    BY <1>1, <1>7, <2>1, <2>3 DEF Quietly, Active, RowsAt
<1> QED
  BY <1>1, <1>7, <1>8, <1>9 DEF Honest

\* The key stays indexed when only rows of other keys change.
LEMMA IndexedElsewhere ==
  ASSUME NEW k, NEW l, l # k, OnlyRowsOf({k}), store' = store
  PROVE  RowsAt(l)' = RowsAt(l) /\ (Indexed(l) => Indexed(l)')
<1>1. RowsAt(l)' = RowsAt(l) /\ \A i \in RowsAt(l) : tracks'[i] = tracks[i]
  BY DEF OnlyRowsOf, RowsAt
<1> QED
  BY <1>1 DEF Indexed, Healthy

\* Writing the row of an item indexes its key.
LEMMA WriteHonest ==
  ASSUME IInv, Recoverable, Honest, ScanWrite
  PROVE  Honest'
<1>1. /\ scan \in ScanRecord /\ scan.pc = "ingest" /\ store' = store /\ listed' = listed
      /\ op' = op /\ scans' = scans /\ Unparsed = {}
  BY DEF IInv, Scanner, ScanWrite, ScanOnly, SameObjects
<1>2. PICK x \in scan.todo :
        /\ Upsert(x.key, x.etag, x.tags)
        /\ scan' = [scan EXCEPT !.pc = "reread", !.todo = @ \ {x}, !.wrote = IngestedId(x.key)]
  BY DEF ScanWrite
<1>3. x \in Item /\ x.tags # NoObj
  BY <1>1, <1>2 DEF Unparsed, ScanRecord
<1> SUFFICES ASSUME NEW k, k = x.key, NEW c, c = x.tags, NEW e, e = x.etag
             PROVE  Honest'
  OBVIOUS
<1>4. k \in ObjKey /\ c \in Content /\ e \in Etags /\ Upsert(k, e, c)
  BY <1>2, <1>3 DEF Item
<1>5. /\ scan'.pc = "reread" /\ scan'.owner = scan.owner /\ scan'.lists = scan.lists
      /\ scan'.seen = scan.seen /\ scan'.existing = scan.existing
      /\ scan'.quiet = scan.quiet /\ scan'.todo = scan.todo \ {x}
  BY <1>1, <1>2 DEF ScanRecord
<1>6. OnlyRowsOf({k})
  BY <1>4, UpsertRows DEF IInv
<1>7. ASSUME Trusted
      PROVE  HonestRows' /\ HonestItems' /\ store[k] = c /\ Indexed(k)'
  <2>1. HonestRows /\ HonestItems
    BY <1>7 DEF Honest
  <2>2. store[k] = c /\ e = Etag(c)
    BY <1>3, <2>1 DEF HonestItems
  <2>3. HonestRows' /\ Indexed(k)'
    BY <1>1, <1>4, <2>1, <2>2, UpsertHonest DEF IInv
  <2>4. HonestItems'
    BY <1>1, <1>5, <2>1 DEF HonestItems
  <2> QED
    BY <2>2, <2>3, <2>4
<1>8. ASSUME scan.quiet
      PROVE  Quietly'
  <2>1. Quietly /\ store[k] = c /\ c # NoObj /\ Indexed(k)'
    BY <1>3, <1>7, <1>8 DEF Honest, Trusted
  <2>2. ASSUME NEW l \in Audio, store[l] # NoObj
        PROVE  l \in scan'.seen /\ (Due(l)' \/ Indexed(l)')
    <3>1. l \in scan.seen /\ (Due(l) \/ Indexed(l))
      BY <1>1, <2>1, <2>2 DEF Quietly
    <3>2. CASE l = k
      BY <1>5, <2>1, <3>1, <3>2
    <3>3. CASE l # k
      <4>1. Due(l) => Due(l)'
        BY <1>5, <3>3 DEF Due
      <4>2. Indexed(l) => Indexed(l)'
        BY <1>1, <1>6, <3>3, IndexedElsewhere
      <4> QED
        BY <1>5, <3>1, <4>1, <4>2
    <3> QED
      BY <3>2, <3>3
  <2>3. ASSUME NEW l \in ObjKey, store[l] = NoObj, RowsAt(l)' # {}
        PROVE  \E y \in scan'.existing : y.key = l
    <3>1. l # k
      BY <2>1, <2>3
    <3>2. RowsAt(l) # {}
      BY <1>1, <1>6, <2>3, <3>1, IndexedElsewhere
    <3> QED
      BY <1>5, <2>1, <2>3, <3>2 DEF Quietly
  <2>4. \A t \in Task : ~Active(t)'
    BY <1>1, <2>1 DEF Quietly, Active
  <2> QED
    BY <1>1, <1>5, <2>1, <2>2, <2>3, <2>4 DEF Quietly
<1> QED
  BY <1>1, <1>5, <1>7, <1>8 DEF Honest, Trusted

\* Reading the row back changes nothing.
LEMMA RereadHonest ==
  ASSUME IInv, Recoverable, Honest, ScanReread
  PROVE  Honest'
<1>1. /\ scan \in ScanRecord /\ scan.pc = "reread" /\ store' = store /\ listed' = listed
      /\ tracks' = tracks /\ op' = op /\ scans' = scans
  BY DEF IInv, Scanner, ScanReread, ScanOnly, SameObjects, SameRows
<1>2. /\ scan'.pc = "ingest" /\ scan'.owner = scan.owner /\ scan'.lists = scan.lists
      /\ scan'.seen = scan.seen /\ scan'.existing = scan.existing
      /\ scan'.quiet = scan.quiet /\ scan'.todo = scan.todo
  BY <1>1 DEF ScanReread, ScanRecord
<1>3. Trusted' => HonestRows' /\ HonestItems'
  BY <1>1, <1>2 DEF Trusted, Honest, HonestRows, HonestItems
<1>4. ASSUME scan.quiet
      PROVE  Quietly'
  <2>1. Quietly
    BY <1>4 DEF Honest
  <2>2. \A k \in Audio : store[k] # NoObj => k \in scan'.seen /\ (Due(k)' \/ Indexed(k)')
    BY <1>1, <1>2, <2>1, IndexedStays DEF Quietly, Due
  <2> QED
    BY <1>1, <1>2, <2>1, <2>2 DEF Quietly, Active, RowsAt
<1> QED
  BY <1>1, <1>2, <1>3, <1>4 DEF Honest

\* A row is pruned whose object is not there.
LEMMA PruneHonest ==
  ASSUME IInv, Recoverable, Honest, ScanPrune
  PROVE  Honest'
<1>1. /\ scan \in ScanRecord /\ scan.pc = "ingest" /\ store' = store /\ listed' = listed
      /\ op' = op /\ scans' = scans
  BY DEF IInv, Scanner, ScanPrune, ScanOnly, SameObjects
<1>2. PICK x \in Vanished :
        DeleteRows(RowsAt(x.key)) /\ scan' = [scan EXCEPT !.existing = @ \ {x}]
  BY DEF ScanPrune
<1> SUFFICES ASSUME NEW k, k = x.key
             PROVE  Honest'
  OBVIOUS
<1>3. x \in scan.existing /\ k \notin scan.seen
  BY <1>2 DEF Vanished
<1>4. /\ scan'.pc = scan.pc /\ scan'.owner = scan.owner /\ scan'.lists = scan.lists
      /\ scan'.seen = scan.seen /\ scan'.existing = scan.existing \ {x}
      /\ scan'.quiet = scan.quiet /\ scan'.todo = scan.todo
  BY <1>1, <1>2 DEF ScanRecord
<1> DEFINE ids == RowsAt(k)
<1>5. ids \in SUBSET Id /\ DeleteRows(ids) /\ \A i \in ids : tracks[i] # NoRow => tracks[i].key \in {k}
  BY <1>2 DEF RowsAt
<1>6. RowsAt(k)' = {}
  <2>1. \A i \in ids : tracks'[i] = NoRow
    BY <1>5 DEF DeleteRows
  <2>2. \A i \in Id \ ids : tracks'[i] = tracks[i]
    BY <1>5 DEF DeleteRows
  <2> QED
    BY <2>1, <2>2 DEF RowsAt
<1> HIDE DEF ids
<1>7. OnlyRowsOf({k})
  BY <1>5, DeleteRowsRows DEF IInv
<1>8. Trusted' => HonestRows' /\ HonestItems'
  <2>1. HonestRows => HonestRows'
    BY <1>5, DeleteHonest DEF IInv
  <2> QED
    BY <1>1, <1>4, <2>1 DEF Trusted, Honest, HonestItems
<1>9. ASSUME scan.quiet
      PROVE  Quietly'
  <2>1. Quietly
    BY <1>9 DEF Honest
  <2>2. ASSUME NEW l \in Audio, store[l] # NoObj
        PROVE  l \in scan'.seen /\ (Due(l)' \/ Indexed(l)')
    <3>1. l \in scan.seen /\ (Due(l) \/ Indexed(l))
      BY <1>1, <2>1, <2>2 DEF Quietly
    <3>2. Indexed(l) => Indexed(l)'
      BY <1>1, <1>3, <1>7, <3>1, IndexedElsewhere
    <3> QED
      BY <1>4, <3>1, <3>2 DEF Due
  <2>3. ASSUME NEW l \in ObjKey, store[l] = NoObj, RowsAt(l)' # {}
        PROVE  \E y \in scan'.existing : y.key = l
    <3>1. l # k
      BY <1>6, <2>3
    <3>2. RowsAt(l) # {}
      BY <1>1, <1>7, <2>3, <3>1, IndexedElsewhere
    <3>3. PICK y \in scan.existing : y.key = l
      BY <2>1, <2>3, <3>2 DEF Quietly
    <3> QED
      BY <1>4, <3>1, <3>3
  <2>4. \A t \in Task : ~Active(t)'
    BY <1>1, <2>1 DEF Quietly, Active
  <2> QED
    BY <1>1, <1>4, <2>1, <2>2, <2>3, <2>4 DEF Quietly
<1> QED
  BY <1>1, <1>4, <1>8, <1>9 DEF Honest

\* The library starts with honest rows.
LEMMA InitHonest ==
  ASSUME Init
  PROVE  Honest
<1>1. HonestRows
  <2>1. ASSUME NEW i \in Id, tracks[i] # NoRow
        PROVE  tracks[i].etag = Etag(tracks[i].tags)
    <3>1. tracks[i] = [key |-> Initial[i][1], etag |-> Etag(Initial[i][2]), tags |-> Initial[i][2]]
      BY <2>1 DEF Init
    <3> QED
      BY <3>1
  <2> QED
    BY <2>1 DEF HonestRows
<1> QED
  BY <1>1, NoScanForm DEF Init, Honest, HonestItems, NoScan, Idle

\* Every step keeps the rows honest.
LEMMA NextHonest ==
  ASSUME IInv, Recoverable, Honest, [Next]_vars
  PROVE  Honest'
<1>1. CASE \E t \in Task : SubmitStep(t) \/ TaskStep(t)
  BY <1>1, SubmitHonest, TaskHonest
<1>2. CASE BackgroundScan \/ ScanList \/ ScanParse \/ ScanWrite \/ ScanReread \/ ScanPrune
  BY <1>2, BackgroundHonest, ListHonest, ParseHonest, WriteHonest, RereadHonest, PruneHonest
<1>3. CASE ScanFinish \/ ScanFails \/ ScanDropped \/ Crash
  <2>1. /\ scan' = NoScan /\ scans' = scans /\ SameObjects /\ tracks' = tracks
    BY <1>3 DEF ScanFinish, ScanFails, ScanDropped, ScanReturns, Crash, Reads, SameObjects, SameRows
  <2>2. op \in [Task -> OpRecord]
    BY DEF IInv, Operations
  <2>3. \A t \in Task : op'[t].kind = op[t].kind
    <3>1. CASE Crash
      BY <2>2, <3>1 DEF Crash, Idle
    <3>2. CASE ScanFinish \/ ScanFails \/ ScanDropped
      <4>1. PICK ok \in BOOLEAN : ScanReturns(ok)
        BY <3>2 DEF ScanFinish, ScanFails, ScanDropped
      <4>2. PICK u : u = scan.owner
        OBVIOUS
      <4>3. \A pc : Goto(u, pc) => \A t \in Task : op'[t].kind = op[t].kind
        BY <2>2 DEF Goto, OpRecord
      <4>4. ASSUME NEW result, Finish(u, result)
            PROVE  \A t \in Task : op'[t].kind = op[t].kind
        <5> DEFINE k == op[u].kind
                   n == [Idle EXCEPT !.kind = k, !.pc = "done", !.result = result]
        <5>1. op' = [op EXCEPT ![u] = n]
          BY <4>4 DEF Finish
        <5>2. n.kind = k
          BY DEF Idle
        <5> HIDE DEF n
        <5> QED
          BY <2>2, <5>1, <5>2
      <4> QED
        BY <4>1, <4>2, <4>3, <4>4 DEF ScanReturns, Return, ReturnFlagged
    <3> QED
      BY <1>3, <3>1, <3>2
  <2> QED
    BY <2>1, <2>3, ScanlessHonest
<1>4. CASE (\E i \in Id : UpdateTags(i)) \/ Rest \/ UNCHANGED vars
  <2>1. UNCHANGED <<store, listed, tracks, op, scan, scans>>
    BY <1>4 DEF UpdateTags, Rest, vars, SameObjects, SameScan
  <2> QED
    BY <2>1 DEF Honest, Trusted, HonestRows, HonestItems, Quietly, Due, Indexed, Healthy, RowsAt,
       Snapshot, Active
<1>5. ~ListCatchesUp
  BY DEF Recoverable, ListCatchesUp
<1> QED
  BY <1>1, <1>2, <1>3, <1>4, <1>5 DEF Next, ScanStep

\* scanner/mod.rs: a full scan with no operation beside it leaves index and
\* store in agreement at every audio key, whatever operations, failing calls,
\* lost puts and crashes left behind.
THEOREM Reconciles ==
  ASSUME Recoverable
  PROVE  Spec => ScanReconciles
<1>1. Init => IInv /\ Honest
  BY InitIInv, InitHonest
<1>2. IInv /\ Honest /\ [Next]_vars => (IInv /\ Honest)'
  BY NextIInv, NextHonest
<1>3. ASSUME IInv, Honest, scan.pc = "ingest", scan.quiet, scan.todo = {}, Vanished = {}
      PROVE  \A k \in Audio : Indexed(k)
  <2> SUFFICES ASSUME NEW k \in Audio
               PROVE  Indexed(k)
    OBVIOUS
  <2>1. Quietly /\ k \in ObjKey
    BY <1>3, SizeAssumption DEF Honest
  <2>2. CASE store[k] # NoObj
    BY <1>3, <2>1, <2>2 DEF Quietly, Due
  <2>3. CASE store[k] = NoObj
    <3>1. ASSUME RowsAt(k) # {}
          PROVE  FALSE
      <4>1. PICK x \in scan.existing : x.key = k
        BY <2>1, <2>3, <3>1 DEF Quietly
      <4>2. k \in scan.seen
        BY <1>3, <4>1 DEF Vanished
      <4> QED
        BY <2>1, <2>3, <4>2 DEF Quietly
    <3> QED
      BY <2>3, <3>1 DEF Indexed
  <2> QED
    BY <2>2, <2>3
<1>4. IInv /\ Honest =>
        [scan.pc = "ingest" /\ scan.quiet /\ scan.todo = {} /\ Vanished = {} /\ scan'.pc = "idle"
           => \A k \in Audio : Indexed(k)]_vars
  BY <1>3
<1> QED
  BY <1>1, <1>2, <1>4, PTL DEF Spec, ScanReconciles
=============================================================================
