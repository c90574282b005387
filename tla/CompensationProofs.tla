-------------------------- MODULE CompensationProofs --------------------------
(***************************************************************************)
(* What the compensations of server/src/api/ext/library/operation.rs are   *)
(* for, proved for any number of operations, keys, contents, crashes,      *)
(* scans and failing calls and for any prefixes: the index and the store   *)
(* agree at every key nobody holds, unless one of the things the history   *)
(* variable names has disturbed the key.  And what a scan prunes has not   *)
(* been shown to it.                                                       *)
(***************************************************************************)
EXTENDS LibraryOpsProofs, LibraryHistory

(***************************************************************************)
(* The inductive invariant.  What an operation knows at each of its places *)
(* speaks only of the objects and rows of the keys it owns, and of the     *)
(* rows only while the key is undisturbed; r is the row it started from,   *)
(* i the id, b the object it has backed up.                                *)
(***************************************************************************)
\* The row of key k has the id i and says that the object is c.
Says(k, i, c) ==
  k \notin disturbed => RowsAt(k) = {i} /\ tracks[i].etag = Etag(c) /\ tracks[i].tags = c
Bare(k) == k \notin disturbed => RowsAt(k) = {}
Settled(k) ==
  k \notin disturbed =>
    IF store[k] = NoObj THEN RowsAt(k) = {} ELSE \E i \in Id : Says(k, i, store[k])
Fresh(r, i) ==
  /\ Settled(r.key)
  /\ r.key \notin disturbed => RowsAt(r.key) = {i} /\ tracks[i].etag = r.etag
Backs(r, b) == r.key \notin disturbed => r.etag = Etag(b)
Untouched(r, i, b) == Backs(r, b) /\ Says(r.key, i, b)
\* The row is the one from before or the one of the new content c.
Either(r, i, b, c) == Backs(r, b) /\ (Says(r.key, i, b) \/ Says(r.key, i, c))

\* The scan of a write-back of key k, whose object is c: it has not listed the
\* key, it has it to ingest, or the row says what the object is.
Mine(k) == {x \in scan.todo : x.key = k}
Unread(r, i, b, new) ==
  /\ scan.pc = "list" /\ scan.cursor < r.key /\ r.key \notin scan.seen /\ Mine(r.key) = {}
  /\ \A x \in scan.existing : x.key = r.key => x.etag = tracks[i].etag
  /\ Either(r, i, b, new)
Read(r, i, b, new, c) ==
  /\ scan.cursor >= r.key /\ r.key \in scan.seen
  /\ \/ Mine(r.key) = {} /\ Says(r.key, i, c)
     \/ /\ \E g \in {NoObj, c} : Mine(r.key) = {[key |-> r.key, etag |-> Etag(c), tags |-> g]}
        /\ Either(r, i, b, new)
Scanned(r, i, b, new, c) ==
  /\ Backs(r, b)
  /\ r.key \notin disturbed => Unread(r, i, b, new) \/ Read(r, i, b, new, c)

UploadKnows(t) ==
  op[t].pc \in {"backup", "put", "readBack", "select", "reread"} => Settled(op[t].key)
WriteBackKnows(t) ==
  LET o == op[t]
      k == op[t].src.key IN
  /\ o.pc = "recheck" => Settled(k)
  /\ o.pc = "backup" => Fresh(o.src, o.id)
  /\ o.pc \in {"put", "scan"} => Untouched(o.src, o.id, o.backup)
  /\ o.pc = "clear" => Backs(o.src, o.backup) /\ Says(k, o.id, o.new)
  /\ o.pc \in {"restore", "rescan"} => Either(o.src, o.id, o.backup, o.new)
  /\ o.pc = "scanning" => Scanned(o.src, o.id, o.backup, o.new, o.new)
  /\ o.pc = "rescanning" => Scanned(o.src, o.id, o.backup, o.new, o.backup)
  /\ o.pc \in {"put", "rescan", "rescanning"} => store[k] = o.backup
  /\ o.pc \in {"scan", "scanning", "clear"} => store[k] = o.new
DeleteKnows(t) ==
  LET o == op[t]
      k == op[t].src.key IN
  /\ o.pc = "recheck" => Settled(k)
  /\ o.pc = "backup" => Fresh(o.src, o.id)
  /\ o.pc \in {"remove", "check", "unindex", "restore"} => Untouched(o.src, o.id, o.backup)
  /\ o.pc = "remove" => store[k] = o.backup
  /\ o.pc = "unindex" => store[k] = NoObj
  /\ o.pc = "check" => store[k] \in {NoObj, o.backup}
MoveKnows(t) ==
  LET o == op[t]
      k == op[t].src.key IN
  /\ o.pc \in {"recheck", "head", "copy", "put"} => Settled(o.key)
  /\ o.pc \notin Unlocked \cup {"recheck"} => o.key # k
  /\ o.pc = "recheck" => Settled(k)
  /\ o.pc \in {"head", "copy"} => Fresh(o.src, o.id)
  /\ o.pc \in {"put", "cas", "cleanup", "discard"} => Untouched(o.src, o.id, o.backup)
  /\ o.pc \in {"put", "cas", "cleanup", "discard", "remove", "rollback"} => store[k] = o.backup
  /\ o.pc \in {"copy", "put"} => store[o.key] = NoObj
  /\ o.pc \in {"cas", "cleanup", "discard", "remove", "check", "rollback"} =>
       store[o.key] = o.backup
  /\ o.pc \in {"cas", "cleanup", "discard"} => Bare(o.key)
  /\ o.pc \in {"remove", "check", "rollback"} => Bare(k) /\ Says(o.key, o.id, o.backup)
  /\ o.pc = "check" => store[k] \in {NoObj, o.backup}
  /\ o.pc = "rollback" => o.src.etag = Etag(o.backup)
Knows(t) ==
  /\ op[t].kind = "upload" => UploadKnows(t)
  /\ op[t].kind = "writeBack" => WriteBackKnows(t)
  /\ op[t].kind = "delete" => DeleteKnows(t)
  /\ op[t].kind = "move" => MoveKnows(t)

\* A key nobody holds is settled, and whoever holds keys knows what is there.
Careful ==
  /\ ObjKey \ Audio \subseteq disturbed
  /\ \A k \in ObjKey : ~Locked(k) => Settled(k)
  /\ \A t \in Task : Knows(t)

-----------------------------------------------------------------------------
(***************************************************************************)
(* What disturbs a key.                                                    *)
(***************************************************************************)
\* A key that is disturbed stays so.
LEMMA Disturbs ==
  ASSUME Disturb
  PROVE  /\ disturbed \subseteq disturbed' /\ flagged' \subseteq disturbed'
         /\ CrashedAt \subseteq disturbed' /\ LostAt \subseteq disturbed'
         /\ ScannedAt \subseteq disturbed' /\ MisledAt \subseteq disturbed'
         /\ ReachedAt \subseteq disturbed'
  BY DEF Disturb

\* A put that fails has changed nothing, or has disturbed its key.
LEMMA PutFails ==
  ASSUME IInv, Disturb, NEW k \in ObjKey, NEW c \in Content, FailedPut(k, c)
  PROVE  /\ k \in disturbed' \/ store'[k] = store[k]
         /\ \A l \in ObjKey \ {k} : store'[l] = store[l]
<1>1. faults' # faults
  BY BoundsAssumption DEF FailedPut, Fault, IInv, Counted
<1>2. CASE SameObjects
  BY <1>2 DEF SameObjects
<1>3. CASE Write(k, c)
  <2>1. store'[k] = c /\ c # NoObj /\ \A l \in ObjKey \ {k} : store'[l] = store[l]
    BY <1>3, Written, ContentAssumption DEF IInv
  <2>2. c # store[k] => k \in LostAt
    BY <1>1, <2>1 DEF LostAt
  <2> QED
    BY <2>1, <2>2, Disturbs
<1> QED
  BY <1>2, <1>3 DEF FailedPut

\* A row reaches an undisturbed key only from one.
LEMMA Reaches ==
  ASSUME Disturb, NEW i \in Id, NEW l \in ObjKey, tracks[i] # NoRow, tracks'[i] # NoRow,
         tracks'[i].key = l, tracks[i].key \in disturbed
  PROVE  l \in disturbed'
<1>1. l \in ReachedAt
  BY DEF ReachedAt
<1> QED
  BY <1>1, Disturbs

-----------------------------------------------------------------------------
(***************************************************************************)
(* What is known of a key stays known while nothing happens at that key.   *)
(***************************************************************************)
SameRowsAt(k) == RowsAt(k)' = RowsAt(k) /\ \A i \in RowsAt(k) : tracks'[i] = tracks[i]
RowsKept(k) == k \notin disturbed' => SameRowsAt(k)
Kept(k) == store'[k] = store[k] /\ RowsKept(k)

\* Changes of the rows of other keys leave the rows of this one.
LEMMA RowsElsewhere ==
  ASSUME NEW K, OnlyRowsOf(K), NEW k, k \notin K
  PROVE  SameRowsAt(k)
  BY DEF OnlyRowsOf, SameRowsAt, RowsAt

\* A step that changes no row leaves those of every key.
LEMMA NoRowChanges ==
  ASSUME tracks' = tracks, NEW k
  PROVE  RowsKept(k) /\ SameRowsAt(k)
  BY DEF RowsKept, SameRowsAt, RowsAt

\* What a row says it goes on saying.
LEMMA SaysStays ==
  ASSUME Disturb, NEW k, NEW i, NEW c, RowsKept(k), Says(k, i, c)
  PROVE  Says(k, i, c)'
  BY Disturbs DEF RowsKept, SameRowsAt, Says

\* A key without a row stays so.
LEMMA BareStays ==
  ASSUME Disturb, NEW k, RowsKept(k), Bare(k)
  PROVE  Bare(k)'
  BY Disturbs DEF RowsKept, SameRowsAt, Bare

\* A settled key stays settled.
LEMMA SettledStays ==
  ASSUME Disturb, NEW k, Kept(k), Settled(k)
  PROVE  Settled(k)'
  BY SaysStays, Disturbs DEF Kept, RowsKept, SameRowsAt, Settled

\* What is backed up stays what the row was read for.
LEMMA BacksStays ==
  ASSUME Disturb, NEW r, NEW b, Backs(r, b)
  PROVE  Backs(r, b)'
  BY Disturbs DEF Backs

\* A row nobody has touched stays so.
LEMMA UntouchedStays ==
  ASSUME Disturb, NEW r, NEW i, NEW b, RowsKept(r.key), Untouched(r, i, b)
  PROVE  Untouched(r, i, b)'
  BY SaysStays, BacksStays DEF Untouched

\* A row that is in step with its object stays so.
LEMMA FreshStays ==
  ASSUME Disturb, NEW r, NEW i, Kept(r.key), Fresh(r, i)
  PROVE  Fresh(r, i)'
<1>1. Settled(r.key)'
  BY SettledStays DEF Fresh
<1> QED
  BY <1>1, Disturbs DEF Kept, RowsKept, SameRowsAt, Fresh

\* The old row or the new one stays the one or the other.
LEMMA EitherStays ==
  ASSUME Disturb, NEW r, NEW i, NEW b, NEW c, RowsKept(r.key), Either(r, i, b, c)
  PROVE  Either(r, i, b, c)'
  BY SaysStays, BacksStays DEF Either

\* What the progress of a scan is told by.
SameProgress ==
  /\ scan'.pc = scan.pc /\ scan'.cursor = scan.cursor
  /\ scan'.seen = scan.seen /\ scan'.todo = scan.todo /\ scan'.existing = scan.existing

\* A scan that does not move is where it was.
LEMMA ScannedStays ==
  ASSUME Disturb, NEW r, NEW i, NEW b, NEW new, NEW c, RowsKept(r.key), SameProgress,
         Scanned(r, i, b, new, c)
  PROVE  Scanned(r, i, b, new, c)'
<1>1. Backs(r, b)' /\ (Either(r, i, b, new) => Either(r, i, b, new)')
      /\ (Says(r.key, i, c) => Says(r.key, i, c)')
  BY SaysStays, EitherStays, BacksStays DEF Scanned
<1> SUFFICES ASSUME r.key \notin disturbed'
             PROVE  Unread(r, i, b, new)' \/ Read(r, i, b, new, c)'
  BY <1>1 DEF Scanned
<1>2. r.key \notin disturbed /\ Mine(r.key)' = Mine(r.key)
  BY Disturbs DEF SameProgress, Mine
<1>3. CASE Unread(r, i, b, new)
  <2>1. tracks'[i] = tracks[i]
    BY <1>2, <1>3 DEF RowsKept, SameRowsAt, Unread, Either, Says
  <2> QED
    BY <1>1, <1>2, <1>3, <2>1 DEF Unread, SameProgress
<1>4. CASE Read(r, i, b, new, c)
  BY <1>1, <1>2, <1>4 DEF Read, SameProgress
<1> QED
  BY <1>2, <1>3, <1>4 DEF Scanned

(***************************************************************************)
(* How a key is settled.                                                   *)
(***************************************************************************)
\* It is disturbed.
LEMMA DisturbedSettles ==
  ASSUME NEW k \in disturbed'
  PROVE  Settled(k)'
  BY DEF Settled

\* Neither object nor row.
LEMMA NothingSettles ==
  ASSUME NEW k, store'[k] = NoObj, Bare(k)'
  PROVE  Settled(k)'
  BY DEF Settled, Bare

\* The row says what the object is.
LEMMA SaysSettles ==
  ASSUME NEW k, NEW i, NEW c, i \in Id, Says(k, i, c)', store'[k] = c, c # NoObj
  PROVE  Settled(k)'
  BY DEF Settled, Says

\* The object is the one backed up, the row the one read.
LEMMA UntouchedSettles ==
  ASSUME NEW r, NEW i, NEW b, i \in Id, Untouched(r, i, b)', store'[r.key] = b, b # NoObj
  PROVE  Settled(r.key)'
  BY SaysSettles DEF Untouched

\* Backing up the object of a settled key.
LEMMA BackupIsFaithful ==
  ASSUME NEW r, NEW i, NEW b, Fresh(r, i), store[r.key] = b, b # NoObj
  PROVE  Untouched(r, i, b)
  BY DEF Fresh, Settled, Says, Untouched, Backs

\* A settled key whose row is the one read.
LEMMA RecheckIsFresh ==
  ASSUME Rows, NEW r \in Row, NEW i \in Id, Settled(r.key), tracks[i] # NoRow,
         SameSource(tracks[i], r)
  PROVE  Fresh(r, i)
<1>1. i \in RowsAt(r.key) /\ r.key \in ObjKey
  BY DEF RowsAt, SameSource, Row
<1>2. RowsAt(r.key) = {i}
  BY <1>1, OneRow
<1> QED
  BY <1>2 DEF Fresh, SameSource

-----------------------------------------------------------------------------
(***************************************************************************)
(* An operation disturbs nobody, and hands over settled keys.              *)
(***************************************************************************)
\* The step changes nothing at other keys, or disturbs them.
Aside(K) == \A k \in ObjKey \ K : Kept(k)

\* An operation changes nothing at the keys of others.
LEMMA Elsewhere ==
  ASSUME NEW t \in Task, Within(t)
  PROVE  OthersStay(t) /\ Aside(Owned(t))
  BY RowsElsewhere DEF Within, Aside, Kept, RowsKept

\* What an operation knows it knows until it moves or its keys are changed.
LEMMA KnowsStays ==
  ASSUME IInv, Disturb, NEW u \in Task, Knows(u), op'[u] = op[u],
         \A k \in Owned(u) : Kept(k),
         op[u].pc \in Scanning => SameProgress
  PROVE  Knows(u)'
<1>1. op[u].pc \in Places /\ Operation(op[u])
  BY Given DEF OpRecord
<1>2. CASE op[u].pc \in Unlocked
  BY <1>2 DEF Knows, UploadKnows, WriteBackKnows, DeleteKnows, MoveKnows, Unlocked
<1>3. CASE op[u].pc \notin Unlocked
  <2>1. /\ op[u].kind = "upload" => Kept(op[u].key)
        /\ op[u].kind \in OnSource => Kept(op[u].src.key)
        /\ op[u].kind = "move" => Kept(op[u].key)
    BY <1>3, OwnedKeys DEF IInv
  <2>2. \A k : Kept(k) => RowsKept(k) /\ store'[k] = store[k]
    BY DEF Kept
  <2>3. CASE op[u].kind = "upload"
    BY <2>1, <2>3, SettledStays DEF Knows, UploadKnows
  <2>4. CASE op[u].kind = "writeBack"
    <3>1. /\ WriteBackKnows(u) /\ Kept(op[u].src.key) /\ RowsKept(op[u].src.key)
          /\ store'[op[u].src.key] = store[op[u].src.key]
      BY <2>1, <2>2, <2>4 DEF Knows, OnSource
    <3>2. WriteBackKnows(u)'
      BY <3>1, SettledStays, FreshStays, UntouchedStays, BacksStays, SaysStays, EitherStays,
         ScannedStays DEF WriteBackKnows, Scanning
    <3> QED
      BY <2>4, <3>2 DEF Knows
  <2>5. CASE op[u].kind = "delete"
    <3>1. /\ DeleteKnows(u) /\ Kept(op[u].src.key) /\ RowsKept(op[u].src.key)
          /\ store'[op[u].src.key] = store[op[u].src.key]
      BY <2>1, <2>2, <2>5 DEF Knows, OnSource
    <3>2. DeleteKnows(u)'
      BY <3>1, SettledStays, FreshStays, UntouchedStays DEF DeleteKnows
    <3> QED
      BY <2>5, <3>2 DEF Knows
  <2>6. CASE op[u].kind = "move"
    <3>1. /\ MoveKnows(u) /\ Kept(op[u].src.key) /\ RowsKept(op[u].src.key)
          /\ store'[op[u].src.key] = store[op[u].src.key]
          /\ Kept(op[u].key) /\ RowsKept(op[u].key) /\ store'[op[u].key] = store[op[u].key]
      BY <2>1, <2>2, <2>6 DEF Knows, OnSource
    <3>2. MoveKnows(u)'
      BY <3>1, SettledStays, FreshStays, UntouchedStays, SaysStays, BareStays DEF MoveKnows
    <3> QED
      BY <2>6, <3>2 DEF Knows
  <2>7. op[u].kind \in {"none", "upload", "writeBack", "delete", "move"}
    BY <1>1 DEF Operation, OpRecord, OnSource
  <2> QED
    BY <2>3, <2>4, <2>5, <2>6, <2>7 DEF Knows
<1> QED
  BY <1>2, <1>3

\* The keys an operation gives back are settled.
Releases(t) == \A k \in Owned(t) : <<"object", k>> \in locks'[t] \/ Settled(k)'
\* t itself goes on as it should.
Cares(t) == Knows(t)' /\ Releases(t)

\* A task that cares for the keys it owns leaves the knowledge of the others.
LEMMA CareIsKept ==
  ASSUME IInv, Careful, Disturb, NEW t \in Task, OthersStay(t), Aside(Owned(t)), Cares(t),
         \A u \in Task \ {t} : op[u].pc \in Scanning => SameProgress
  PROVE  Careful'
<1>1. ASSUME NEW u \in Task \ {t}
      PROVE  Knows(u)'
  <2>1. \A k \in Owned(u) : k \in ObjKey /\ k \notin Owned(t)
    BY <1>1 DEF IInv, Operations, Owned
  <2>2. \A k \in Owned(u) : Kept(k)
    BY <2>1 DEF Aside
  <2>3. op'[u] = op[u]
    BY <1>1 DEF OthersStay
  <2> QED
    BY <1>1, <2>2, <2>3, KnowsStays DEF Careful
<1>2. ASSUME NEW k \in ObjKey, ~Locked(k)'
      PROVE  Settled(k)'
  <2>1. CASE k \in Owned(t)
    <3>1. <<"object", k>> \notin locks'[t]
      BY <1>2 DEF Locked
    <3> QED
      BY <2>1, <3>1 DEF Cares, Releases
  <2>2. CASE k \notin Owned(t)
    <3>1. ~Locked(k)
      BY <1>2, <2>2 DEF Locked, Owned, OthersStay
    <3> QED
      BY <1>2, <2>2, <3>1, SettledStays DEF Careful, Aside
  <2> QED
    BY <2>1, <2>2
<1>3. ObjKey \ Audio \subseteq disturbed'
  BY Disturbs DEF Careful
<1> QED
  BY <1>1, <1>2, <1>3 DEF Careful, Cares

\* A step of no operation leaves what every operation knows.
LEMMA NobodyCares ==
  ASSUME IInv, Careful, Disturb, op' = op, locks' = locks, Aside({}),
         \A u \in Task : op[u].pc \in Scanning => SameProgress
  PROVE  Careful'
<1>1. ASSUME NEW u \in Task
      PROVE  Knows(u)'
  <2>1. \A k \in Owned(u) : Kept(k)
    BY DEF Aside, Owned
  <2> QED
    BY <1>1, <2>1, KnowsStays DEF Careful
<1>2. ASSUME NEW k \in ObjKey, ~Locked(k)'
      PROVE  Settled(k)'
  BY <1>2, SettledStays DEF Careful, Aside, Locked
<1>3. ObjKey \ Audio \subseteq disturbed'
  BY Disturbs DEF Careful
<1> QED
  BY <1>1, <1>2, <1>3 DEF Careful

-----------------------------------------------------------------------------
(***************************************************************************)
(* How an operation takes its leave, and how it goes on.                   *)
(***************************************************************************)
\* The keys an operation owns are the ones it works on.
LEMMA OwnedExactly ==
  ASSUME IInv, NEW t \in Task, op[t].pc \notin Unlocked
  PROVE  /\ Owned(t) = KeysOf(op[t])
         /\ op[t].kind = "upload" => op[t].key \in ObjKey /\ Owned(t) = {op[t].key}
         /\ op[t].kind \in {"writeBack", "delete"} => Owned(t) = {op[t].src.key}
         /\ op[t].kind = "move" => Owned(t) = {op[t].src.key, op[t].key}
<1>1. /\ op[t] \in OpRecord /\ Operation(op[t]) /\ op[t].kind # "none" /\ locks[t] = Held(op[t])
  BY Given DEF Unlocked, IInv, Operations
<1>2. 0 \notin ObjKey
  BY SizeAssumption DEF ObjKey
<1>3. KeysOf(op[t]) \subseteq ObjKey
  BY <1>1 DEF OpRecord, KeysOf, Source, Row
<1>4. CASE op[t].kind = "upload"
  <2>1. op[t].key \in ObjKey /\ op[t].src = NoRow /\ locks[t] = {<<"object", op[t].key>>}
    BY <1>1, <1>4 DEF Operation, Unlocked, Held
  <2> QED
    BY <1>2, <1>4, <2>1 DEF Owned, KeysOf, Source
<1>5. CASE op[t].kind \in OnSource
  <2>1. op[t].src \in Row /\ op[t].src # NoRow /\ locks[t] = OperationKeys(op[t])
    BY <1>1, <1>5, RowAssumption DEF Operation, Unlocked, Held, OnSource
  <2>2. Owned(t) = KeysOf(op[t])
    BY <1>3, <2>1 DEF Owned, OperationKeys
  <2>3. op[t].kind # "move" => op[t].key = 0
    BY <1>1, <1>5 DEF Operation
  <2>4. op[t].kind = "move" => op[t].key \in ObjKey
    BY <1>1, <1>5 DEF Operation, Unlocked, OnSource
  <2> QED
    BY <1>2, <1>5, <2>1, <2>2, <2>3, <2>4 DEF KeysOf, Source, OnSource
<1>6. op[t].kind \in {"upload"} \cup OnSource
  BY <1>1 DEF OpRecord
<1> QED
  BY <1>4, <1>5, <1>6

\* t keeps its keys and what it is about.
Continues(t) == Keeps(t) /\ locks' = locks

\* Who keeps its locks has to know what its next place needs.
LEMMA ContinueCares ==
  ASSUME NEW t \in Task, Continues(t), Knows(t)'
  PROVE  Cares(t)
  BY DEF Continues, Cares, Releases, Owned

\* A task that goes on keeps its backup.
LEMMA GoesOn ==
  ASSUME IInv, NEW t \in Task, NEW pc, op[t].pc \notin Unlocked, Reach(op[t], pc), Goto(t, pc)
  PROVE  Continues(t) /\ op'[t].pc = pc /\ op'[t].backup = op[t].backup
  BY Going DEF IInv, Continues, Goto

\* It returns: everything it held is settled.
LEMMA ReturnCares ==
  ASSUME IInv, NEW t \in Task, NEW result \in Results, Return(t, result), op[t].kind # "none",
         \A k \in Owned(t) : Settled(k)'
  PROVE  Cares(t)
<1>1. Ended(t, result)
  BY Finishing DEF IInv, Return
<1>2. Knows(t)'
  BY <1>1 DEF Ended, Knows, UploadKnows, WriteBackKnows, DeleteKnows, MoveKnows, Unlocked
<1> QED
  BY <1>1, <1>2 DEF Cares, Releases

\* It returns and has its keys reconciled by hand.
LEMMA FlagCares ==
  ASSUME IInv, Disturb, NEW t \in Task, ReturnFlagged(t), op[t].kind # "none",
         op[t].pc \notin Unlocked
  PROVE  Cares(t)
<1>1. Ended(t, "error") /\ flagged' = flagged \cup Owned(t)
  BY Finishing, OwnedExactly DEF IInv, ReturnFlagged, Results
<1>2. Knows(t)'
  BY <1>1 DEF Ended, Knows, UploadKnows, WriteBackKnows, DeleteKnows, MoveKnows, Unlocked
<1>3. \A k \in Owned(t) : Settled(k)'
  BY <1>1, Disturbs, DisturbedSettles
<1> QED
  BY <1>1, <1>2, <1>3 DEF Cares, Releases

\* A step that only reads leaves every key as it was.
LEMMA ReadsOnly ==
  ASSUME Reads, NEW k
  PROVE  Kept(k) /\ RowsKept(k) /\ store'[k] = store[k]
  BY NoRowChanges DEF Reads, SameObjects, SameRows, Kept

\* A settled key nothing happens at is settled when the operation returns.
LEMMA ReturnSettled ==
  ASSUME IInv, Disturb, NEW t \in Task, NEW result \in Results, Return(t, result),
         op[t].kind # "none", Reads, \A k \in Owned(t) : Settled(k)
  PROVE  Cares(t)
<1>1. \A k \in Owned(t) : Settled(k)'
  BY ReadsOnly, SettledStays
<1> QED
  BY <1>1, ReturnCares

\* ingest_object settles the key it reconciles.
LEMMA IngestSettles ==
  ASSUME IInv, Careful, Disturb, NEW k \in ObjKey, Ingest(k), Ingestible(k), SameObjects
  PROVE  Settled(k)'
<1>1. store'[k] = store[k]
  BY DEF SameObjects
<1>2. CASE store[k] = NoObj
  BY <1>1, <1>2, IngestRows, NothingSettles DEF IInv, Bare
<1>3. CASE store[k] # NoObj /\ k \in Audio
  <2>1. /\ IngestedId(k) \in Id /\ RowsAt(k)' = {IngestedId(k)}
        /\ tracks'[IngestedId(k)] = [key |-> k, etag |-> Etag(store[k]), tags |-> store[k]]
    BY <1>3, IngestRows DEF IInv
  <2> SUFFICES ASSUME NEW j \in Id, NEW c, c # NoObj, store'[k] = c, RowsAt(k)' = {j},
                      tracks'[j] = [key |-> k, etag |-> Etag(c), tags |-> c]
               PROVE  Settled(k)'
    BY <1>1, <1>3, <2>1
  <2>2. tracks'[j].etag = Etag(c) /\ tracks'[j].tags = c
    OBVIOUS
  <2>3. Says(k, j, c)'
    BY <2>2 DEF Says
  <2> QED
    BY <2>3, SaysSettles
<1>4. CASE k \notin Audio
  BY <1>4, Disturbs, DisturbedSettles DEF Careful
<1> QED
  BY <1>2, <1>3, <1>4

-----------------------------------------------------------------------------
(***************************************************************************)
(* The upload.                                                             *)
(***************************************************************************)
LEMMA UploadCares ==
  ASSUME IInv, Careful, Disturb, NEW t \in Task, UploadStep(t)
  PROVE  Cares(t)
<1> SUFFICES ASSUME NEW k, k = op[t].key
             PROVE  Cares(t)
  OBVIOUS
<1>1. /\ op[t].kind = "upload"
      /\ op[t].pc \in {"backup", "put", "ingest", "readBack", "select", "undo", "reingest", "reread"}
  BY DEF UploadStep, UploadBackup, UploadPut, UploadIngest, UploadReadBack, UploadSelect,
       UploadUndo, UploadReingest, UploadReread, At
<1>2. op[t].pc \notin Unlocked /\ Owned(t) = {k} /\ k \in ObjKey
  BY <1>1, OwnedExactly DEF Unlocked
<1>3. UploadKnows(t)
  BY <1>1 DEF Careful, Knows
<1>4. ASSUME op'[t].kind = "upload", op'[t].key = k, locks' = locks,
             op'[t].pc \in {"backup", "put", "readBack", "select", "reread"} => Settled(k)'
      PROVE  Cares(t)
  BY <1>4 DEF UploadKnows, Knows, Cares, Releases, Owned
<1>5. ASSUME NEW pc \in {"ingest", "undo", "reingest"}, Goto(t, pc)
      PROVE  Cares(t)
  <2>1. Reach(op[t], pc)
    BY <1>1 DEF Reach, Places, UploadPlaces, Unlocked, OnSource
  <2> QED
    BY <1>1, <1>2, <1>4, <1>5, <2>1, GoesOn DEF Continues, Keeps
<1>6. ASSUME NEW pc \in {"put", "select"}, Goto(t, pc), Settled(k)'
      PROVE  Cares(t)
  <2>1. Reach(op[t], pc)
    BY <1>1 DEF Reach, Places, UploadPlaces, Unlocked, OnSource
  <2> QED
    BY <1>1, <1>2, <1>4, <1>6, <2>1, GoesOn DEF Continues, Keeps
<1>7. ASSUME NEW result \in {"ok", "error"}, Return(t, result), Settled(k)'
      PROVE  Cares(t)
  BY <1>1, <1>2, <1>7, ReturnCares DEF Results
<1>8. ASSUME Reads, Settled(k)
      PROVE  Settled(k)'
  BY <1>8, ReadsOnly, SettledStays
<1>9. ASSUME NEW i, NEW pc \in {"readBack", "reread"}, Settled(k)',
             op' = [op EXCEPT ![t].id = i, ![t].pc = pc], UNCHANGED <<locks, flagged>>
      PROVE  Cares(t)
  <2>1. op[t] \in OpRecord /\ op'[t] = [op[t] EXCEPT !.id = i, !.pc = pc]
    BY <1>9, Given DEF IInv, Operations
  <2>2. op'[t].kind = "upload" /\ op'[t].key = k
    BY <1>1, <2>1 DEF OpRecord
  <2> QED
    BY <1>4, <1>9, <2>2
<1>10. ASSUME ReturnFlagged(t)
       PROVE  Cares(t)
  BY <1>1, <1>2, <1>10, FlagCares
<1>11. CASE UploadBackup(t)
  <2>1. Settled(k) /\ Reads
    BY <1>3, <1>11 DEF UploadBackup, At, UploadKnows
  <2>2. ASSUME op' = [op EXCEPT ![t].backup = store[k], ![t].pc = "put"],
               UNCHANGED <<locks, flagged>>
        PROVE  Cares(t)
    <3>1. store[k] \in Content \cup {NoObj}
      BY <1>2 DEF IInv, Stores
    <3>2. Keeps(t)
      BY <1>1, <1>2, <2>2, <3>1, BackingUp DEF IInv, OnSource, Places, UploadPlaces, Unlocked
    <3> QED
      BY <1>1, <1>4, <1>8, <2>1, <2>2, <3>2 DEF Keeps
  <2> QED
    BY <1>7, <1>8, <1>11, <2>1, <2>2 DEF UploadBackup
<1>12. CASE UploadPut(t)
  <2>1. Settled(k) /\ SameRows
    BY <1>3, <1>12 DEF UploadPut, At, UploadKnows
  <2>2. CASE Goto(t, "ingest")
    BY <1>5, <2>2
  <2>3. CASE FailedPut(k, op[t].new) /\ Return(t, "error")
    <3>1. op[t].new \in Content
      BY <1>1, <1>2, Given DEF Operation, Unlocked
    <3>2. k \in disturbed' \/ store'[k] = store[k]
      BY <1>2, <2>3, <3>1, PutFails
    <3>3. Settled(k)'
      BY <2>1, <3>2, DisturbedSettles, SettledStays, NoRowChanges DEF Kept, SameRows
    <3> QED
      BY <1>7, <2>3, <3>3
  <2> QED
    BY <1>12, <2>2, <2>3 DEF UploadPut
<1>13. CASE UploadIngest(t)
  <2>1. CASE Goto(t, "undo")
    BY <1>5, <2>1
  <2>2. CASE Ingestible(k) /\ Ingest(k)
    <3>1. Settled(k)'
      BY <1>2, <1>13, <2>2, IngestSettles DEF UploadIngest
    <3> QED
      BY <1>6, <1>9, <1>13, <2>1, <3>1 DEF UploadIngest
  <2> QED
    BY <1>13, <2>1, <2>2 DEF UploadIngest
<1>14. CASE UploadReadBack(t)
  <2>1. Settled(k) /\ Reads
    BY <1>3, <1>14 DEF UploadReadBack, At, UploadKnows
  <2> QED
    BY <1>5, <1>6, <1>8, <1>14, <2>1 DEF UploadReadBack
<1>15. CASE UploadSelect(t)
  <2>1. Settled(k) /\ Reads
    BY <1>3, <1>15 DEF UploadSelect, At, UploadKnows
  <2> QED
    BY <1>7, <1>8, <1>15, <2>1 DEF UploadSelect
<1>16. CASE UploadUndo(t)
  BY <1>5, <1>10, <1>16 DEF UploadUndo
<1>17. CASE UploadReingest(t)
  <2>1. CASE ReturnFlagged(t)
    BY <1>10, <2>1
  <2>2. CASE Ingestible(k) /\ Ingest(k)
    <3>1. Settled(k)'
      BY <1>2, <1>17, <2>2, IngestSettles DEF UploadReingest
    <3> QED
      BY <1>7, <1>9, <1>17, <2>1, <3>1 DEF UploadReingest
  <2> QED
    BY <1>17, <2>1, <2>2 DEF UploadReingest
<1>18. CASE UploadReread(t)
  <2>1. Settled(k) /\ Reads
    BY <1>3, <1>18 DEF UploadReread, At, UploadKnows
  <2> QED
    BY <1>7, <1>8, <1>10, <1>18, <2>1 DEF UploadReread
<1> QED
  BY <1>11, <1>12, <1>13, <1>14, <1>15, <1>16, <1>17, <1>18 DEF UploadStep

-----------------------------------------------------------------------------
(***************************************************************************)
(* The delete.                                                             *)
(***************************************************************************)
LEMMA DeleteCares ==
  ASSUME IInv, Careful, Disturb, NEW t \in Task, DeleteStep(t)
  PROVE  Cares(t)
<1> SUFFICES ASSUME NEW r, r = op[t].src, NEW i, i = op[t].id, NEW b, b = op[t].backup,
                    NEW k, k = r.key
             PROVE  Cares(t)
  OBVIOUS
<1>1. /\ op[t] \in OpRecord /\ Operation(op[t]) /\ op[t].kind = "delete"
      /\ op[t].pc \in {"backup", "remove", "check", "unindex", "restore"}
  BY Given DEF DeleteStep, DeleteBackup, DeleteObject, DeleteCheck, DeleteUnindex, DeleteRestore, At
<1>2. op[t].pc \notin Unlocked /\ Owned(t) = {k} /\ k \in ObjKey /\ i \in Id
  BY <1>1, OwnedExactly, OwnedKeys DEF Unlocked, IInv, Owned, OnSource, Operation
<1>3. DeleteKnows(t) /\ (op[t].pc # "backup" => b \in Content /\ b # NoObj)
  BY <1>1, ContentAssumption DEF Careful, Knows, Operation, OpRecord, OnSource, Early
<1>4. ASSUME NEW c, Keeps(t), UNCHANGED <<locks, flagged>>, op'[t].backup = c,
             op'[t].pc \in {"remove", "check", "unindex", "restore"}, Untouched(r, i, c)',
             op'[t].pc = "remove" => store'[k] = c,
             op'[t].pc = "unindex" => store'[k] = NoObj,
             op'[t].pc = "check" => store'[k] \in {NoObj, c}
      PROVE  Cares(t)
  <2>1. op'[t].kind = "delete" /\ op'[t].src = r /\ op'[t].id = i /\ op'[t].backup = c
    BY <1>1, <1>4 DEF Keeps
  <2>2. DeleteKnows(t)'
    BY <1>4, <2>1 DEF DeleteKnows
  <2> QED
    BY <1>4, <2>1, <2>2, ContinueCares DEF Knows, Continues
<1>5. ASSUME NEW pc \in {"check", "unindex", "restore"}, Goto(t, pc), op[t].pc # "backup"
      PROVE  Keeps(t) /\ UNCHANGED <<locks, flagged>> /\ op'[t].pc = pc /\ op'[t].backup = b
  <2>1. Reach(op[t], pc)
    BY <1>1, <1>5 DEF Reach, Places, DeletePlaces, Unlocked, OnSource, Early
  <2>2. Continues(t) /\ op'[t].pc = pc /\ op'[t].backup = b
    BY <1>2, <1>5, <2>1, GoesOn
  <2> QED
    BY <1>5, <2>2 DEF Continues, Goto
<1>6. ASSUME NEW result \in {"ok", "error"}, Return(t, result), Settled(k)'
      PROVE  Cares(t)
  BY <1>1, <1>2, <1>6, ReturnCares DEF Results
<1>7. ASSUME ReturnFlagged(t)
      PROVE  Cares(t)
  BY <1>1, <1>2, <1>7, FlagCares
<1>8. ASSUME SameRows, op[t].pc # "backup"
      PROVE  Untouched(r, i, b)'
  <2>1. Untouched(r, i, b)
    BY <1>1, <1>3, <1>8 DEF DeleteKnows
  <2> QED
    BY <1>8, <2>1, NoRowChanges, UntouchedStays DEF SameRows
<1>9. ASSUME NEW pc \in {"check", "unindex", "restore"}, Goto(t, pc), op[t].pc # "backup",
              SameRows, pc = "unindex" => store'[k] = NoObj,
              pc = "check" => store'[k] \in {NoObj, b}
       PROVE  Cares(t)
  BY <1>4, <1>5, <1>8, <1>9
<1>10. ASSUME Return(t, "error"), SameRows, op[t].pc # "backup", store'[k] = b
       PROVE  Cares(t)
  BY <1>2, <1>3, <1>6, <1>8, <1>10, UntouchedSettles
<1>11. CASE DeleteBackup(t)
  <2>1. Fresh(r, i) /\ Reads
    BY <1>3, <1>11 DEF DeleteBackup, At, DeleteKnows
  <2>2. Settled(k)
    BY <2>1 DEF Fresh
  <2>3. ASSUME store[k] # NoObj, UNCHANGED <<locks, flagged>>,
               op' = [op EXCEPT ![t].backup = store[k], ![t].pc = "remove"]
        PROVE  Cares(t)
    <3> SUFFICES ASSUME NEW c, c = store[k]
                 PROVE  Cares(t)
      OBVIOUS
    <3>1. c \in Content /\ c # NoObj /\ store'[k] = c
      BY <1>2, <2>1, <2>3 DEF IInv, Stores, Reads, SameObjects
    <3>2. Keeps(t) /\ op'[t].pc = "remove" /\ op'[t].backup = c
      <4>1. op' = [op EXCEPT ![t].backup = c, ![t].pc = "remove"] /\ locks' = locks
        BY <2>3
      <4>2. /\ "remove" \in Places \ (Unlocked \cup {"readBack", "reread"}) /\ "remove" \in DeletePlaces
            /\ "remove" \notin Early
        BY DEF Places, DeletePlaces, Unlocked, Early
      <4>3. Operations /\ op[t].pc \notin Unlocked /\ c \in Content \cup {NoObj} /\ c # NoObj
        BY <1>1, <1>2, <3>1 DEF IInv
      <4> QED
        BY <1>1, <1>2, <4>1, <4>2, <4>3, BackingUp
    <3>3. Untouched(r, i, c)
      BY <2>1, <3>1, BackupIsFaithful
    <3>4. Untouched(r, i, c)'
      BY <2>1, <3>3, ReadsOnly, UntouchedStays
    <3> QED
      BY <1>4, <2>3, <3>1, <3>2, <3>4
  <2>4. Settled(k)'
    BY <2>1, <2>2, ReadsOnly, SettledStays
  <2> QED
    BY <1>6, <1>11, <2>3, <2>4 DEF DeleteBackup
<1>12. CASE DeleteObject(t)
  <2>1. /\ store[k] = b /\ op[t].pc # "backup" /\ SameRows
        /\ \/ Write(k, NoObj) /\ Goto(t, "unindex")
           \/ (Write(k, NoObj) \/ SameObjects) /\ Goto(t, "check")
    BY <1>3, <1>12 DEF DeleteObject, At, DeleteKnows, FailedDelete
  <2>2. \/ store'[k] = NoObj /\ Goto(t, "unindex")
        \/ store'[k] \in {NoObj, b} /\ Goto(t, "check")
    BY <1>2, <2>1, Written DEF IInv, SameObjects
  <2> QED
    BY <1>9, <2>1, <2>2
<1>13. CASE DeleteCheck(t)
  <2>1. store[k] \in {NoObj, b} /\ op[t].pc # "backup" /\ SameRows /\ store'[k] = store[k]
    BY <1>3, <1>13 DEF DeleteCheck, At, DeleteKnows, Reads, SameObjects
  <2> QED
    BY <1>9, <1>10, <1>13, <2>1 DEF DeleteCheck
<1>14. CASE DeleteUnindex(t)
  <2>1. /\ Untouched(r, i, b) /\ store[k] = NoObj /\ op[t].pc # "backup" /\ store'[k] = store[k]
    BY <1>3, <1>14 DEF DeleteUnindex, At, DeleteKnows, SameObjects
  <2>2. CASE SameRows /\ Goto(t, "restore")
    BY <1>9, <2>1, <2>2
  <2>3. CASE DeleteRows({i}) /\ Return(t, "ok")
    <3>1. tracks'[i] = NoRow /\ \A j \in Id \ {i} : tracks'[j] = tracks[j]
      BY <1>2, <2>3, DeleteRowsRows DEF IInv
    <3>2. Bare(k)'
      BY <2>1, <3>1, Disturbs DEF Untouched, Says, Bare, RowsAt
    <3> QED
      BY <1>6, <2>1, <2>3, <3>2, NothingSettles
  <2> QED
    BY <1>14, <2>2, <2>3 DEF DeleteUnindex
<1>15. CASE DeleteRestore(t)
  <2>1. op[t].pc # "backup" /\ SameRows
    BY <1>15 DEF DeleteRestore, At
  <2>2. CASE Write(k, b) /\ Return(t, "error")
    <3>1. store'[k] = b
      BY <1>2, <1>3, <2>1, <2>2, Written DEF IInv
    <3> QED
      BY <1>10, <2>1, <2>2, <3>1
  <2> QED
    BY <1>7, <1>15, <2>2 DEF DeleteRestore
<1> QED
  BY <1>11, <1>12, <1>13, <1>14, <1>15 DEF DeleteStep

-----------------------------------------------------------------------------
(***************************************************************************)
(* The move.                                                               *)
(***************************************************************************)
\* A row that is moved leaves nothing at its old key.
LEMMA CasGives ==
  ASSUME Rows, NEW i \in Id, NEW k \in ObjKey, NEW f, NEW to \in ObjKey, NEW e \in Etags,
         CasMatches(i, k, f, to), CasMove(i, to, e), k # to
  PROVE  /\ RowsAt(to)' = {i} /\ RowsAt(k)' = {}
         /\ tracks'[i].etag = e /\ tracks'[i].tags = tracks[i].tags
<1>1. tracks[i] \in Row /\ tracks[i] # NoRow /\ tracks[i].key = k
  BY DEF CasMatches, Rows
<1> DEFINE n == [tracks[i] EXCEPT !.key = to, !.etag = e]
<1>2. n.key = to /\ n.etag = e /\ n.tags = tracks[i].tags /\ n \in Row
  BY <1>1 DEF Row
<1>3. tracks' = [tracks EXCEPT ![i] = n]
  BY DEF CasMove
<1> HIDE DEF n
<1>4. tracks'[i] = n /\ \A j \in Id \ {i} : tracks'[j] = tracks[j]
  BY <1>3 DEF Rows
<1>5. \A j \in Id : tracks[j] # NoRow => tracks[j].key # to
  BY DEF CasMatches, RowsAt
<1> QED
  BY <1>1, <1>2, <1>4, <1>5, RowAssumption DEF Rows, RowsAt

\* A moved row was at an undisturbed key, if it is at one now.
LEMMA MovesFrom ==
  ASSUME Rows, Disturb, NEW i \in Id, NEW k \in ObjKey, NEW f, NEW to \in ObjKey, NEW e \in Etags,
         CasMatches(i, k, f, to), CasMove(i, to, e), k # to, to \notin disturbed'
  PROVE  k \notin disturbed
<1>1. tracks[i] # NoRow /\ tracks[i].key = k
  BY DEF CasMatches
<1>2. tracks'[i] # NoRow /\ tracks'[i].key = to
  BY CasGives DEF RowsAt
<1> QED
  BY <1>1, <1>2, Reaches

\* move: copy, row, delete, and the way back from each.
LEMMA MoveCares ==
  ASSUME IInv, Careful, Disturb, NEW t \in Task, MoveStep(t)
  PROVE  Cares(t)
<1> SUFFICES ASSUME NEW r, r = op[t].src, NEW i, i = op[t].id, NEW b, b = op[t].backup,
                    NEW k, k = r.key, NEW l, l = op[t].key
             PROVE  Cares(t)
  OBVIOUS
<1>1. /\ op[t] \in OpRecord /\ Operation(op[t]) /\ op[t].kind = "move"
      /\ op[t].pc \in {"head", "copy", "put", "cas", "remove", "check", "rollback", "cleanup", "discard"}
  BY Given DEF MoveStep, MoveHead, MoveCopy, MovePut, MoveCas, MoveRemove, MoveCheck,
       MoveRollback, MoveCleanup, MoveDiscard, At
<1>2. /\ op[t].pc \notin Unlocked /\ Owned(t) = {k, l} /\ k \in ObjKey /\ l \in ObjKey
      /\ i \in Id /\ r \in Row
  BY <1>1, OwnedExactly, OwnedKeys DEF Unlocked, IInv, Owned, OnSource, Operation
<1>3. /\ MoveKnows(t) /\ l # k
      /\ op[t].pc \notin {"head", "copy"} => b \in Content /\ b # NoObj
  BY <1>1, <1>2, ContentAssumption DEF Careful, Knows, MoveKnows, Operation, OpRecord, OnSource,
     Early
<1> DEFINE Moved(c) == /\ Keeps(t) /\ UNCHANGED <<locks, flagged>> /\ op'[t].backup = c
                       /\ op'[t].kind = "move" /\ op'[t].src = r /\ op'[t].id = i
                       /\ op'[t].key = l
<1>4. ASSUME NEW c, Moved(c), op'[t].pc \in {"put", "cas", "cleanup", "discard"},
             Untouched(r, i, c)', store'[k] = c,
             IF op'[t].pc = "put" THEN Settled(l)' /\ store'[l] = NoObj
             ELSE store'[l] = c /\ Bare(l)'
      PROVE  Cares(t)
  <2>1. MoveKnows(t)'
    BY <1>3, <1>4 DEF MoveKnows
  <2> QED
    BY <1>4, <2>1, ContinueCares DEF Knows, Continues
<1>5. ASSUME Moved(b), op'[t].pc \in {"remove", "check", "rollback"},
             Bare(k)', Says(l, i, b)', store'[l] = b,
             op'[t].pc = "check" => store'[k] \in {NoObj, b},
             op'[t].pc # "check" => store'[k] = b,
             op'[t].pc = "rollback" => r.etag = Etag(b)
      PROVE  Cares(t)
  <2>1. MoveKnows(t)'
    BY <1>3, <1>5 DEF MoveKnows
  <2> QED
    BY <1>5, <2>1, ContinueCares DEF Knows, Continues
<1>6. ASSUME NEW pc \in {"copy", "cas", "remove", "check", "rollback", "cleanup", "discard"},
             Goto(t, pc), op[t].pc \in {"head", "copy"} <=> pc = "copy"
      PROVE  Moved(b) /\ op'[t].pc = pc
  <2>1. Reach(op[t], pc)
    BY <1>1, <1>6 DEF Reach, Places, MovePlaces, Unlocked, OnSource, Early
  <2>2. Continues(t) /\ op'[t].pc = pc /\ op'[t].backup = b
    BY <1>2, <1>6, <2>1, GoesOn
  <2> QED
    BY <1>1, <1>6, <2>2 DEF Continues, Keeps, Goto
<1>7. ASSUME NEW result \in {"ok", "error", "exists"}, Return(t, result), Settled(k)', Settled(l)'
      PROVE  Cares(t)
  BY <1>1, <1>2, <1>7, ReturnCares DEF Results
<1>8. ASSUME ReturnFlagged(t)
      PROVE  Cares(t)
  BY <1>1, <1>2, <1>8, FlagCares
<1>11. CASE MoveHead(t)
  <2>1. Fresh(r, i) /\ Settled(k) /\ Settled(l) /\ Reads
    BY <1>3, <1>11 DEF MoveHead, At, MoveKnows, Fresh
  <2>2. Fresh(r, i)' /\ Settled(k)' /\ Settled(l)'
    BY <2>1, ReadsOnly, SettledStays, FreshStays
  <2>3. CASE store[l] = NoObj /\ Goto(t, "copy")
    <3>1. Moved(b) /\ op'[t].pc = "copy" /\ store'[l] = NoObj
      BY <1>6, <1>11, <2>1, <2>3 DEF MoveHead, At, Reads, SameObjects
    <3>2. MoveKnows(t)'
      BY <1>3, <2>2, <3>1 DEF MoveKnows
    <3> QED
      BY <3>1, <3>2, ContinueCares DEF Knows, Continues
  <2> QED
    BY <1>7, <1>11, <2>2, <2>3 DEF MoveHead
<1>12. CASE MoveCopy(t)
  <2>1. Fresh(r, i) /\ Settled(k) /\ Settled(l) /\ store[l] = NoObj /\ Reads
    BY <1>3, <1>12 DEF MoveCopy, At, MoveKnows, Fresh
  <2>2. Settled(k)' /\ Settled(l)'
    BY <2>1, ReadsOnly, SettledStays
  <2>3. ASSUME store[k] # NoObj, UNCHANGED <<locks, flagged>>,
               op' = [op EXCEPT ![t].backup = store[k], ![t].pc = "put"]
        PROVE  Cares(t)
    <3> SUFFICES ASSUME NEW c, c = store[k]
                 PROVE  Cares(t)
      OBVIOUS
    <3>1. c \in Content /\ c # NoObj /\ store'[k] = c /\ store'[l] = NoObj
      BY <1>2, <2>1, <2>3 DEF IInv, Stores, Reads, SameObjects
    <3>2. Keeps(t) /\ op'[t].pc = "put" /\ op'[t].backup = c
      <4>1. op' = [op EXCEPT ![t].backup = c, ![t].pc = "put"] /\ locks' = locks
        BY <2>3
      <4>2. /\ "put" \in Places \ (Unlocked \cup {"readBack", "reread"}) /\ "put" \in MovePlaces
            /\ "put" \notin Early
        BY DEF Places, MovePlaces, Unlocked, Early
      <4>3. Operations /\ op[t].pc \notin Unlocked /\ c \in Content \cup {NoObj} /\ c # NoObj
        BY <1>1, <1>2, <3>1 DEF IInv
      <4> QED
        BY <1>1, <1>2, <4>1, <4>2, <4>3, BackingUp
    <3>3. Untouched(r, i, c)
      BY <2>1, <3>1, BackupIsFaithful
    <3>4. Untouched(r, i, c)'
      BY <2>1, <3>3, ReadsOnly, UntouchedStays
    <3>5. Moved(c)
      BY <1>1, <2>3, <3>2 DEF Keeps
    <3> QED
      BY <1>4, <2>2, <2>3, <3>1, <3>2, <3>4, <3>5
  <2> QED
    BY <1>7, <1>12, <2>2, <2>3 DEF MoveCopy
<1>13. CASE MovePut(t)
  <2>1. /\ Untouched(r, i, b) /\ Settled(l) /\ store[k] = b /\ store[l] = NoObj /\ SameRows
        /\ op[t].pc = "put"
    BY <1>3, <1>13 DEF MovePut, At, MoveKnows
  <2>2. Untouched(r, i, b)' /\ RowsKept(k) /\ RowsKept(l)
    BY <2>1, NoRowChanges, UntouchedStays DEF SameRows
  <2>3. CASE Write(l, b) /\ Goto(t, "cas")
    <3>1. store'[l] = b /\ store'[k] = b
      BY <1>2, <1>3, <2>1, <2>3, Written DEF IInv
    <3>2. Bare(l)'
      BY <2>1, <2>2, BareStays DEF Settled, Bare
    <3>3. Moved(b) /\ op'[t].pc = "cas"
      BY <1>6, <2>1, <2>3
    <3> QED
      BY <1>4, <2>2, <3>1, <3>2, <3>3
  <2>4. CASE FailedPut(l, b) /\ Return(t, "error")
    <3>1. store'[k] = b /\ (l \in disturbed' \/ store'[l] = store[l])
      BY <1>2, <1>3, <2>1, <2>4, PutFails
    <3>2. Settled(k)'
      BY <1>2, <1>3, <2>1, <2>2, <3>1, UntouchedSettles
    <3>3. Settled(l)'
      BY <2>1, <2>2, <3>1, DisturbedSettles, SettledStays DEF Kept
    <3> QED
      BY <1>7, <2>4, <3>2, <3>3
  <2> QED
    BY <1>13, <2>3, <2>4 DEF MovePut
<1>14. CASE MoveCas(t)
  <2>1. /\ Untouched(r, i, b) /\ store'[k] = b /\ store'[l] = b /\ op[t].pc = "cas"
        /\ Bare(l)
    BY <1>3, <1>14 DEF MoveCas, At, MoveKnows, SameObjects
  <2>2. CASE SameRows /\ Goto(t, "cleanup")
    <3>1. Untouched(r, i, b)' /\ Bare(l)'
      BY <2>1, <2>2, NoRowChanges, UntouchedStays, BareStays DEF SameRows
    <3>2. Moved(b) /\ op'[t].pc = "cleanup"
      BY <1>6, <2>1, <2>2
    <3> QED
      BY <1>4, <2>1, <3>1, <3>2
  <2>3. CASE CasMatches(i, k, r.etag, l) /\ CasMove(i, l, Etag(b)) /\ Goto(t, "remove")
    <3> SUFFICES ASSUME NEW e, e = Etag(b), NEW f, f = r.etag
                 PROVE  Cares(t)
      OBVIOUS
    <3>1. e \in Etags /\ CasMatches(i, k, f, l) /\ CasMove(i, l, e)
      BY <1>3, <2>1, <2>3 DEF Etag, Etags
    <3>2. /\ RowsAt(l)' = {i} /\ RowsAt(k)' = {}
          /\ tracks'[i].etag = e /\ tracks'[i].tags = tracks[i].tags
      BY <1>2, <1>3, <3>1, CasGives DEF IInv
    <3>3. l \notin disturbed' => k \notin disturbed
      BY <1>2, <1>3, <3>1, MovesFrom DEF IInv
    <3>4. Says(l, i, b)' /\ Bare(k)'
      BY <2>1, <3>2, <3>3 DEF Says, Untouched, Bare
    <3>5. Moved(b) /\ op'[t].pc = "remove"
      BY <1>6, <2>1, <2>3
    <3> QED
      BY <1>5, <2>1, <3>4, <3>5
  <2> QED
    BY <1>14, <2>2, <2>3 DEF MoveCas, MetaEtag
<1>15. ASSUME op[t].pc \in {"remove", "check", "rollback"}, SameRows
       PROVE  Bare(k)' /\ Says(l, i, b)'
  <2>1. Bare(k) /\ Says(l, i, b)
    BY <1>3, <1>15 DEF MoveKnows
  <2> QED
    BY <1>15, <2>1, NoRowChanges, SaysStays, BareStays DEF SameRows
<1>16. ASSUME op[t].pc \in {"remove", "check", "rollback"}, SameRows, Return(t, "ok"),
              store'[k] = NoObj, store'[l] = b
       PROVE  Cares(t)
  BY <1>2, <1>3, <1>7, <1>15, <1>16, NothingSettles, SaysSettles
<1>17. CASE MoveRemove(t)
  <2>1. store[k] = b /\ store[l] = b /\ op[t].pc = "remove" /\ SameRows
    BY <1>3, <1>17 DEF MoveRemove, At, MoveKnows
  <2>2. CASE Write(k, NoObj) /\ Return(t, "ok")
    <3>1. store'[k] = NoObj /\ store'[l] = b
      BY <1>2, <1>3, <2>1, <2>2, Written DEF IInv
    <3> QED
      BY <1>16, <2>1, <2>2, <3>1
  <2>3. CASE (Write(k, NoObj) \/ SameObjects) /\ Goto(t, "check")
    <3>1. store'[k] \in {NoObj, b} /\ store'[l] = b
      BY <1>2, <1>3, <2>1, <2>3, Written DEF IInv, SameObjects
    <3>2. Moved(b) /\ op'[t].pc = "check"
      BY <1>6, <2>1, <2>3
    <3> QED
      BY <1>5, <1>15, <2>1, <3>1, <3>2
  <2> QED
    BY <1>17, <2>2, <2>3 DEF MoveRemove, FailedDelete
<1>18. CASE MoveCheck(t)
  <2>1. /\ store[k] \in {NoObj, b} /\ store'[l] = b /\ op[t].pc = "check" /\ SameRows
        /\ store'[k] = store[k]
    BY <1>3, <1>18 DEF MoveCheck, At, MoveKnows, Reads, SameObjects
  <2>2. CASE store[k] # NoObj /\ Etag(store[k]) = r.etag /\ Goto(t, "rollback")
    <3>1. Moved(b) /\ op'[t].pc = "rollback" /\ store'[k] = b /\ r.etag = Etag(b)
      BY <1>6, <2>1, <2>2
    <3> QED
      BY <1>5, <1>15, <2>1, <3>1
  <2>3. CASE store[k] = NoObj /\ Return(t, "ok")
    BY <1>16, <2>1, <2>3
  <2> QED
    BY <1>8, <1>18, <2>2, <2>3 DEF MoveCheck
<1>19. CASE MoveRollback(t)
  <2>1. /\ Says(l, i, b) /\ store'[k] = b /\ store'[l] = b /\ op[t].pc = "rollback"
        /\ r.etag = Etag(b)
    BY <1>3, <1>19 DEF MoveRollback, At, MoveKnows, SameObjects
  <2>2. CASE CasMatches(i, l, Etag(b), k) /\ CasMove(i, k, r.etag) /\ Goto(t, "cleanup")
    <3> SUFFICES ASSUME NEW e, e = r.etag, NEW f, f = Etag(b)
                 PROVE  Cares(t)
      OBVIOUS
    <3>1. e \in Etags /\ CasMatches(i, l, f, k) /\ CasMove(i, k, e)
      BY <1>2, <2>2 DEF Row
    <3>2. /\ RowsAt(k)' = {i} /\ RowsAt(l)' = {}
          /\ tracks'[i].etag = e /\ tracks'[i].tags = tracks[i].tags
      BY <1>2, <1>3, <3>1, CasGives DEF IInv
    <3>3. k \notin disturbed' => l \notin disturbed
      BY <1>2, <1>3, <3>1, MovesFrom DEF IInv
    <3>4. Untouched(r, i, b)' /\ Bare(l)'
      BY <2>1, <3>2, <3>3 DEF Says, Untouched, Backs, Bare
    <3>5. Moved(b) /\ op'[t].pc = "cleanup"
      BY <1>6, <2>1, <2>2
    <3> QED
      BY <1>4, <2>1, <3>4, <3>5
  <2> QED
    BY <1>8, <1>19, <2>2 DEF MoveRollback, MetaEtag
<1>20. CASE MoveCleanup(t)
  <2>1. /\ Untouched(r, i, b) /\ store[l] = b /\ store'[k] = b /\ store'[l] = b
        /\ op[t].pc = "cleanup" /\ SameRows /\ b # NoObj
        /\ Bare(l)
    BY <1>3, <1>20 DEF MoveCleanup, At, MoveKnows, Reads, SameObjects
  <2>2. CASE Goto(t, "discard")
    <3>1. Untouched(r, i, b)' /\ Bare(l)'
      BY <2>1, <2>2, NoRowChanges, UntouchedStays, BareStays DEF SameRows
    <3>2. Moved(b) /\ op'[t].pc = "discard"
      BY <1>6, <2>1, <2>2
    <3> QED
      BY <1>4, <2>1, <3>1, <3>2
  <2> QED
    BY <1>8, <1>20, <2>1, <2>2 DEF MoveCleanup
<1>21. CASE MoveDiscard(t)
  <2>1. /\ Untouched(r, i, b) /\ store[k] = b /\ SameRows /\ op[t].pc = "discard"
        /\ Bare(l)
    BY <1>3, <1>21 DEF MoveDiscard, At, MoveKnows
  <2>2. CASE Write(l, NoObj) /\ Return(t, "error")
    <3>1. store'[l] = NoObj /\ store'[k] = b
      BY <1>2, <1>3, <2>1, <2>2, Written DEF IInv
    <3>2. Untouched(r, i, b)' /\ Bare(l)'
      BY <2>1, <2>2, NoRowChanges, UntouchedStays, BareStays DEF SameRows
    <3>3. Settled(k)'
      BY <1>2, <1>3, <2>1, <3>1, <3>2, UntouchedSettles
    <3>4. Settled(l)'
      BY <3>1, <3>2, NothingSettles
    <3> QED
      BY <1>7, <2>2, <3>3, <3>4
  <2> QED
    BY <1>8, <1>21, <2>2 DEF MoveDiscard
<1> QED
  BY <1>11, <1>12, <1>13, <1>14, <1>17, <1>18, <1>19, <1>20, <1>21 DEF MoveStep

-----------------------------------------------------------------------------
(***************************************************************************)
(* The write-back, but for its scans.                                      *)
(***************************************************************************)
LEMMA WriteBackCares ==
  ASSUME IInv, Careful, Disturb, NEW t \in Task,
         WriteBackBackup(t) \/ WriteBackPut(t) \/ WriteBackClear(t) \/ WriteBackRestore(t)
  PROVE  Cares(t)
<1> SUFFICES ASSUME NEW r, r = op[t].src, NEW i, i = op[t].id, NEW b, b = op[t].backup,
                    NEW k, k = r.key, NEW c, c = op[t].new
             PROVE  Cares(t)
  OBVIOUS
<1>1. /\ op[t] \in OpRecord /\ Operation(op[t]) /\ op[t].kind = "writeBack"
      /\ op[t].pc \in {"backup", "put", "clear", "restore"}
  BY Given DEF WriteBackBackup, WriteBackPut, WriteBackClear, WriteBackRestore, At
<1>2. /\ op[t].pc \notin Unlocked /\ Owned(t) = {k} /\ k \in ObjKey /\ i \in Id
      /\ c \in Content /\ c # NoObj
  BY <1>1, OwnedExactly, OwnedKeys, ContentAssumption
     DEF Unlocked, IInv, Owned, OnSource, Operation
<1>3. WriteBackKnows(t) /\ (op[t].pc # "backup" => b \in Content /\ b # NoObj)
  BY <1>1, ContentAssumption DEF Careful, Knows, Operation, OpRecord, OnSource, Early
<1> DEFINE Moved(bb) == /\ Keeps(t) /\ UNCHANGED <<locks, flagged>> /\ op'[t].backup = bb
                        /\ op'[t].kind = "writeBack" /\ op'[t].src = r /\ op'[t].id = i
                        /\ op'[t].new = c
<1>4. ASSUME NEW bb, Moved(bb), op'[t].pc \in {"put", "scan"}, Untouched(r, i, bb)',
             op'[t].pc = "put" => store'[k] = bb, op'[t].pc = "scan" => store'[k] = c
      PROVE  Cares(t)
  <2>1. WriteBackKnows(t)'
    BY <1>4 DEF WriteBackKnows
  <2> QED
    BY <1>4, <2>1, ContinueCares DEF Knows, Continues
<1>5. ASSUME Moved(b), op'[t].pc \in {"restore", "rescan"}, Either(r, i, b, c)',
             op'[t].pc = "rescan" => store'[k] = b
      PROVE  Cares(t)
  <2>1. WriteBackKnows(t)'
    BY <1>5 DEF WriteBackKnows
  <2> QED
    BY <1>5, <2>1, ContinueCares DEF Knows, Continues
<1>6. ASSUME NEW pc \in {"scan", "restore", "rescan"}, Goto(t, pc), op[t].pc # "backup"
      PROVE  Moved(b) /\ op'[t].pc = pc
  <2>1. Reach(op[t], pc)
    BY <1>1, <1>6 DEF Reach, Places, WriteBackPlaces, Unlocked, OnSource, Early
  <2>2. Continues(t) /\ op'[t].pc = pc /\ op'[t].backup = b
    BY <1>2, <1>6, <2>1, GoesOn
  <2> QED
    BY <1>1, <1>6, <2>2 DEF Continues, Keeps, Goto
<1>7. ASSUME NEW result \in {"ok", "error", "invalid"}, Return(t, result), Settled(k)'
      PROVE  Cares(t)
  BY <1>1, <1>2, <1>7, ReturnCares DEF Results
<1>8. ASSUME ReturnFlagged(t)
      PROVE  Cares(t)
  BY <1>1, <1>2, <1>8, FlagCares
<1>9. CASE WriteBackBackup(t)
  <2>1. Fresh(r, i) /\ Settled(k) /\ Reads
    BY <1>3, <1>9 DEF WriteBackBackup, At, WriteBackKnows, Fresh
  <2>2. Settled(k)'
    BY <2>1, ReadsOnly, SettledStays
  <2>3. ASSUME store[k] # NoObj, UNCHANGED <<locks, flagged>>,
               op' = [op EXCEPT ![t].backup = store[k], ![t].pc = "put"]
        PROVE  Cares(t)
    <3> SUFFICES ASSUME NEW bb, bb = store[k]
                 PROVE  Cares(t)
      OBVIOUS
    <3>1. bb \in Content /\ bb # NoObj /\ store'[k] = bb
      BY <1>2, <2>1, <2>3 DEF IInv, Stores, Reads, SameObjects
    <3>2. Keeps(t) /\ op'[t].pc = "put" /\ op'[t].backup = bb
      <4>1. op' = [op EXCEPT ![t].backup = bb, ![t].pc = "put"] /\ locks' = locks
        BY <2>3
      <4>2. /\ "put" \in Places \ (Unlocked \cup {"readBack", "reread"}) /\ "put" \in WriteBackPlaces
            /\ "put" \notin Early
        BY DEF Places, WriteBackPlaces, Unlocked, Early
      <4>3. Operations /\ op[t].pc \notin Unlocked /\ bb \in Content \cup {NoObj} /\ bb # NoObj
        BY <1>1, <1>2, <3>1 DEF IInv
      <4> QED
        BY <1>1, <1>2, <4>1, <4>2, <4>3, BackingUp
    <3>3. Untouched(r, i, bb)
      BY <2>1, <3>1, BackupIsFaithful
    <3>4. Untouched(r, i, bb)'
      BY <2>1, <3>3, ReadsOnly, UntouchedStays
    <3>5. Moved(bb)
      BY <1>1, <2>3, <3>2 DEF Keeps
    <3> QED
      BY <1>4, <3>1, <3>2, <3>4, <3>5
  <2> QED
    BY <1>7, <1>9, <2>2, <2>3 DEF WriteBackBackup
<1>10. CASE WriteBackPut(t)
  <2>1. Untouched(r, i, b) /\ store[k] = b /\ SameRows /\ op[t].pc = "put"
    BY <1>3, <1>10 DEF WriteBackPut, At, WriteBackKnows
  <2>2. Untouched(r, i, b)'
    BY <2>1, NoRowChanges, UntouchedStays DEF SameRows
  <2>3. CASE Write(k, c) /\ Goto(t, "scan")
    <3>1. store'[k] = c
      BY <1>2, <2>3, Written DEF IInv
    <3>2. Moved(b) /\ op'[t].pc = "scan"
      BY <1>6, <2>1, <2>3
    <3> QED
      BY <1>4, <2>2, <3>1, <3>2
  <2>4. CASE FailedPut(k, c) /\ Return(t, "error")
    <3>0. k \in disturbed' \/ store'[k] = b
      BY <1>2, <2>1, <2>4, PutFails
    <3>1. Settled(k)'
      BY <1>2, <1>3, <2>1, <2>2, <3>0, UntouchedSettles, DisturbedSettles
    <3> QED
      BY <1>7, <2>4, <3>1
  <2> QED
    BY <1>10, <2>3, <2>4 DEF WriteBackPut
<1>11. CASE WriteBackClear(t)
  <2>1. Backs(r, b) /\ Says(k, i, c) /\ store'[k] = c /\ op[t].pc = "clear" /\ tracks' = tracks
    BY <1>3, <1>11 DEF WriteBackClear, At, WriteBackKnows, SameObjects, SameRows
  <2>2. RowsKept(k)
    BY <2>1, NoRowChanges
  <2>3. Says(k, i, c)' /\ Either(r, i, b, c)'
    BY <2>1, <2>2, SaysStays, EitherStays DEF Either
  <2>4. CASE Return(t, "ok")
    BY <1>2, <1>7, <2>1, <2>3, <2>4, SaysSettles
  <2>5. CASE Goto(t, "restore")
    <3>1. Moved(b) /\ op'[t].pc = "restore"
      BY <1>6, <2>1, <2>5
    <3> QED
      BY <1>5, <2>3, <3>1
  <2> QED
    BY <1>11, <2>4, <2>5 DEF WriteBackClear
<1>12. CASE WriteBackRestore(t)
  <2>1. Either(r, i, b, c) /\ SameRows /\ op[t].pc = "restore"
    BY <1>3, <1>12 DEF WriteBackRestore, At, WriteBackKnows
  <2>2. CASE Write(k, b) /\ Goto(t, "rescan")
    <3>1. store'[k] = b
      BY <1>2, <1>3, <2>1, <2>2, Written DEF IInv
    <3>2. Moved(b) /\ op'[t].pc = "rescan"
      BY <1>6, <2>1, <2>2
    <3>3. Either(r, i, b, c)'
      BY <2>1, NoRowChanges, EitherStays DEF SameRows
    <3> QED
      BY <1>5, <3>1, <3>2, <3>3
  <2> QED
    BY <1>8, <1>12, <2>2 DEF WriteBackRestore
<1> QED
  BY <1>9, <1>10, <1>11, <1>12

-----------------------------------------------------------------------------
(***************************************************************************)
(* Submitting, locking and rechecking.                                     *)
(***************************************************************************)
\* An operation that owns no key knows nothing yet.
LEMMA UnlockedKnows ==
  ASSUME NEW t \in Task, op[t].pc \in Unlocked
  PROVE  Knows(t)
  BY DEF Unlocked, Knows, UploadKnows, WriteBackKnows, DeleteKnows, MoveKnows

\* ... and gives none back.
LEMMA UnlockedCares ==
  ASSUME IInv, NEW t \in Task, op[t].pc \in Unlocked, op'[t].pc \in Unlocked
  PROVE  Cares(t)
<1>1. Owned(t) = {}
  BY DEF IInv, Operations, Held, Owned
<1>2. Knows(t)'
  BY DEF Unlocked, Knows, UploadKnows, WriteBackKnows, DeleteKnows, MoveKnows
<1> QED
  BY <1>1, <1>2 DEF Cares, Releases

\* A request knows nothing yet.
LEMMA SubmitCares ==
  ASSUME IInv, NEW t \in Task, SubmitStep(t)
  PROVE  Cares(t) /\ SameProgress
<1>1. op[t] = Idle /\ op'[t].pc \in Unlocked
      /\ scan' = [scan EXCEPT !.quiet = FALSE]
  <2>1. ASSUME NEW o, Submit(t, o), o.pc \in Unlocked
        PROVE  op[t] = Idle /\ op'[t].pc \in Unlocked
               /\ scan' = [scan EXCEPT !.quiet = FALSE]
    BY <2>1 DEF Submit, IInv, Operations
  <2>2. \A k \in ObjKey, c \in Content :
          [Idle EXCEPT !.kind = "upload", !.pc = "lock", !.key = k, !.new = c].pc \in Unlocked
    BY DEF Idle, Unlocked
  <2>3. \A i \in Id, c \in Content, fields \in SUBSET Field :
          [Idle EXCEPT !.kind = "writeBack", !.pc = "source", !.id = i, !.new = c,
                       !.fields = fields].pc \in Unlocked
    BY DEF Idle, Unlocked
  <2>4. \A i \in Id :
          [Idle EXCEPT !.kind = "delete", !.pc = "source", !.id = i].pc \in Unlocked
    BY DEF Idle, Unlocked
  <2>5. \A i \in Id, k \in ObjKey :
          [Idle EXCEPT !.kind = "move", !.pc = "source", !.id = i, !.key = k].pc \in Unlocked
    BY DEF Idle, Unlocked
  <2>6. \A i \in 1..(nextId - 1) : i \in Id
    BY SizeAssumption DEF IInv, Rows, Id
  <2>7. CASE SubmitUpload(t)
    BY <2>1, <2>2, <2>7 DEF SubmitUpload
  <2>8. CASE SubmitWriteBack(t)
    BY <2>1, <2>3, <2>6, <2>8 DEF SubmitWriteBack
  <2>9. CASE SubmitDelete(t)
    BY <2>1, <2>4, <2>6, <2>9 DEF SubmitDelete
  <2>10. CASE SubmitMove(t)
    BY <2>1, <2>5, <2>6, <2>10 DEF SubmitMove
  <2> QED
    BY <2>7, <2>8, <2>9, <2>10 DEF SubmitStep
<1>2. Cares(t)
  BY <1>1, UnlockedCares DEF Idle, Unlocked
<1>3. scan \in ScanRecord
  BY DEF IInv, Scanner
<1> QED
  BY <1>1, <1>2, <1>3 DEF SameProgress, ScanRecord

\* The row an operation reads before it has a lock is no knowledge yet.
LEMMA ReadSourceCares ==
  ASSUME IInv, NEW t \in Task, ReadSource(t)
  PROVE  Cares(t)
<1>1. op[t].pc = "source" /\ op[t].kind # "none" /\ op[t] \in OpRecord
  BY Given DEF ReadSource
<1>2. ASSUME NEW result \in Results, Return(t, result)
      PROVE  op'[t].pc = "done"
  BY <1>1, <1>2, Finishing DEF IInv, Return, Ended
<1>3. op'[t].pc \in Unlocked
  <2>1. CASE op' = [op EXCEPT ![t].src = tracks[op[t].id], ![t].pc = "lock"]
    BY <1>1, <2>1 DEF IInv, Operations, OpRecord, Unlocked
  <2>2. CASE Return(t, "notFound") \/ Return(t, "error")
    BY <1>2, <2>2 DEF Results, Unlocked
  <2> QED
    BY <2>1, <2>2 DEF ReadSource
<1> QED
  BY <1>1, <1>3, UnlockedCares DEF Unlocked

\* The keys that are locked were settled, as nobody held them.
LEMMA LockCares ==
  ASSUME IInv, Careful, Disturb, NEW t \in Task, Lock(t)
  PROVE  Cares(t)
<1>1. IInv' /\ Within(t)
  BY LockForm
<1>2. /\ op[t] \in OpRecord /\ Operation(op[t]) /\ op[t].pc = "lock" /\ op[t].kind # "none"
      /\ Reads
  BY Given DEF Lock
<1> DEFINE pc == IF op[t].kind = "upload" THEN "backup" ELSE "recheck"
<1>3. /\ op'[t].kind = op[t].kind /\ op'[t].pc = pc /\ op'[t].src = op[t].src
      /\ op'[t].key = op[t].key
  BY <1>2 DEF Lock, IInv, Operations, OpRecord
<1>4. ASSUME NEW k \in ObjKey, <<"object", k>> \in OperationKeys(op[t])
      PROVE  Settled(k)'
  <2>1. locks[t] = {}
    BY <1>2 DEF IInv, Operations, Held, Unlocked
  <2>2. ~Locked(k)
    BY <1>4, <2>1 DEF Locked, Lock
  <2> QED
    BY <1>2, <2>2, ReadsOnly, SettledStays DEF Careful
<1>5. /\ op[t].kind \in OnSource => op[t].src \in Row
      /\ op[t].kind \in {"upload", "move"} => op[t].key \in ObjKey
  BY <1>2 DEF Operation, OnSource
<1>6. \A k \in KeysOf(op[t]) : k \in ObjKey /\ <<"object", k>> \in OperationKeys(op[t])
  BY <1>2 DEF OpRecord, KeysOf, Source, Row, OperationKeys
<1>7. 0 \notin ObjKey
  BY SizeAssumption DEF ObjKey
<1>8. ASSUME NEW k, \/ op[t].kind \in OnSource /\ k = op[t].src.key
                    \/ op[t].kind \in {"upload", "move"} /\ k = op[t].key
      PROVE  Settled(k)'
  <2>1. k \in KeysOf(op[t])
    BY <1>5, <1>7, <1>8, RowAssumption DEF KeysOf, Source
  <2> QED
    BY <1>4, <1>6, <2>1
<1>9. Knows(t)'
  <2> SUFFICES ASSUME NEW k, k = op[t].src.key, NEW l, l = op[t].key
               PROVE  Knows(t)'
    OBVIOUS
  <2>1. CASE op[t].kind = "upload"
    <3>1. Settled(l)' /\ op'[t].kind = "upload" /\ op'[t].key = l
      BY <1>3, <1>8, <2>1
    <3> QED
      BY <3>1 DEF Knows, UploadKnows
  <2>2. CASE op[t].kind \in OnSource
    <3>1. /\ Settled(k)' /\ op'[t].kind = op[t].kind /\ op'[t].src.key = k
          /\ op'[t].key = l /\ op'[t].pc = "recheck" /\ op'[t].kind # "upload"
      BY <1>3, <1>8, <2>2 DEF OnSource
    <3>2. op[t].kind = "move" => Settled(l)'
      BY <1>8
    <3> QED
      BY <3>1, <3>2 DEF Knows, WriteBackKnows, DeleteKnows, MoveKnows, Unlocked
  <2> QED
    BY <1>2, <2>1, <2>2 DEF OpRecord
<1>10. Owned(t) = {}
  BY <1>2 DEF IInv, Operations, Held, Unlocked, Owned
<1> QED
  BY <1>9, <1>10 DEF Cares, Releases

\* Under the lock it is read again.
LEMMA RecheckCares ==
  ASSUME IInv, Careful, Disturb, NEW t \in Task, Recheck(t)
  PROVE  Cares(t)
<1> SUFFICES ASSUME NEW r, r = op[t].src, NEW i, i = op[t].id,
                    NEW k, k = r.key, NEW l, l = op[t].key
             PROVE  Cares(t)
  OBVIOUS
<1>1. /\ op[t] \in OpRecord /\ Operation(op[t]) /\ op[t].pc = "recheck" /\ op[t].kind \in OnSource
      /\ op[t].kind # "none" /\ Reads
  BY Given DEF Recheck, Operation, OpRecord, UploadPlaces, OnSource
<1>2. /\ op[t].pc \notin Unlocked /\ r \in Row /\ i \in Id /\ Owned(t) = KeysOf(op[t])
      /\ op[t].kind = "move" => Owned(t) = {k, l}
      /\ op[t].kind # "move" => Owned(t) = {k}
  BY <1>1, OwnedExactly DEF Unlocked, Operation, OnSource
<1>3. Settled(k) /\ (op[t].kind = "move" => Settled(l))
  BY <1>1 DEF Careful, Knows, WriteBackKnows, DeleteKnows, MoveKnows, OnSource
<1>4. ASSUME NEW result \in {"notFound", "ok", "error"}, Return(t, result)
      PROVE  Cares(t)
  BY <1>1, <1>2, <1>3, <1>4, ReturnSettled DEF Results
<1>5. ASSUME tracks[i] # NoRow, SameSource(tracks[i], r)
      PROVE  Fresh(r, i)' /\ (op[t].kind = "move" => Settled(l)')
  <2>1. Fresh(r, i)
    BY <1>2, <1>3, <1>5, RecheckIsFresh DEF IInv
  <2> QED
    BY <1>1, <1>3, <2>1, ReadsOnly, FreshStays, SettledStays
<1>6. CASE /\ tracks[i] # NoRow /\ SameSource(tracks[i], r)
           /\ op[t].kind # "move" /\ Goto(t, "backup")
  <2>1. Reach(op[t], "backup")
    BY <1>1, <1>6 DEF Reach, Places, UploadPlaces, WriteBackPlaces, DeletePlaces, Unlocked,
       OnSource, Early
  <2>2. Continues(t) /\ op'[t].pc = "backup"
    BY <1>2, <1>6, <2>1, GoesOn
  <2>3. op'[t].kind = op[t].kind /\ op'[t].src = r /\ op'[t].id = i /\ Fresh(r, i)'
    BY <1>5, <1>6, <2>2 DEF Continues, Keeps
  <2>4. Knows(t)'
    BY <1>1, <1>6, <2>2, <2>3 DEF Knows, WriteBackKnows, DeleteKnows, OnSource
  <2> QED
    BY <2>2, <2>4, ContinueCares
<1>7. CASE /\ tracks[i] # NoRow /\ SameSource(tracks[i], r) /\ l # tracks[i].key
           /\ op[t].kind = "move" /\ Goto(t, "head")
  <2>1. Reach(op[t], "head")
    BY <1>1, <1>7 DEF Reach, Places, MovePlaces, Unlocked, OnSource, Early
  <2>2. Continues(t) /\ op'[t].pc = "head"
    BY <1>2, <1>7, <2>1, GoesOn
  <2>3. /\ op'[t].kind = "move" /\ op'[t].src = r /\ op'[t].id = i /\ op'[t].key = l
        /\ Fresh(r, i)' /\ Settled(l)' /\ l # k
    BY <1>5, <1>7, <2>2 DEF Continues, Keeps, SameSource
  <2>4. MoveKnows(t)'
    BY <2>2, <2>3 DEF MoveKnows
  <2> QED
    BY <2>2, <2>3, <2>4, ContinueCares DEF Knows
<1>8. CASE /\ op' = [op EXCEPT ![t].src = NoRow, ![t].pc = "source"]
           /\ locks' = [locks EXCEPT ![t] = {}] /\ UNCHANGED flagged
           /\ op[t].kind = "move"
  <2>1. op'[t].pc \in Unlocked
    BY <1>1, <1>8 DEF IInv, Operations, OpRecord, Unlocked
  <2>2. Knows(t)'
    BY <2>1 DEF Unlocked, Knows, UploadKnows, WriteBackKnows, DeleteKnows, MoveKnows
  <2>3. Settled(k)' /\ Settled(l)'
    BY <1>1, <1>3, <1>8, ReadsOnly, SettledStays
  <2> QED
    BY <1>2, <1>8, <2>2, <2>3 DEF Cares, Releases
<1> QED
  BY <1>4, <1>6, <1>7, <1>8 DEF Recheck, Return, Finish

-----------------------------------------------------------------------------
(***************************************************************************)
(* The scans of a write-back.                                              *)
(***************************************************************************)
LEMMA WriteBackScanCares ==
  ASSUME IInv, Careful, Disturb, NEW t \in Task, WriteBackScan(t)
  PROVE  Cares(t) /\ scan.pc = "idle"
<1> SUFFICES ASSUME NEW r, r = op[t].src, NEW i, i = op[t].id, NEW b, b = op[t].backup,
                    NEW k, k = r.key, NEW c, c = op[t].new
             PROVE  Cares(t) /\ scan.pc = "idle"
  OBVIOUS
<1> DEFINE pc == IF op[t].pc = "scan" THEN "scanning" ELSE "rescanning"
<1>1. /\ op[t] \in OpRecord /\ Operation(op[t]) /\ op[t].pc \in {"scan", "rescan"}
      /\ op[t].pc \notin Unlocked
  BY Given DEF WriteBackScan, Unlocked
<1>2. op[t].kind = "writeBack" /\ op[t].pc \notin Early
  BY <1>1 DEF Operation, OpRecord, OnSource, UploadPlaces, DeletePlaces, MovePlaces, Early
<1>3. k \in ObjKey /\ i \in Id
  BY <1>1, <1>2, OwnedKeys DEF IInv, OnSource, Owned, Operation
<1>4. Goto(t, pc) /\ BeginScan(t, LikePrefix[k], ListPrefix[k]) /\ Reads /\ scan.pc = "idle"
  BY DEF WriteBackScan, BeginScan, Goto
<1>5. Reach(op[t], pc)
  BY <1>1, <1>2 DEF Reach, Places, WriteBackPlaces, Unlocked, OnSource, Early
<1>6. Continues(t) /\ op'[t].pc = pc /\ op'[t].backup = b
  BY <1>1, <1>4, <1>5, GoesOn
<1>7. Either(r, i, b, c) /\ Backs(r, b)
  <2>1. WriteBackKnows(t)
    BY <1>2 DEF Careful, Knows
  <2> QED
    BY <1>1, <2>1 DEF WriteBackKnows, Either, Untouched
<1>8. Either(r, i, b, c)' /\ Backs(r, b)' /\ tracks' = tracks
  BY <1>4, <1>7, ReadsOnly, EitherStays, BacksStays DEF Reads, SameRows
<1>9. /\ scan'.pc = "list" /\ scan'.cursor = 0 /\ scan'.seen = {} /\ scan'.todo = {}
      /\ \A x \in scan'.existing :
           \E j \in Id : tracks[j] # NoRow /\ x = [key |-> tracks[j].key, etag |-> tracks[j].etag]
  <2> SUFFICES ASSUME NEW rows \in SUBSET ObjKey, NEW lists \in SUBSET ObjKey,
                      BeginScan(t, rows, lists)
               PROVE  /\ scan'.pc = "list" /\ scan'.cursor = 0 /\ scan'.seen = {}
                      /\ scan'.todo = {}
                      /\ \A x \in scan'.existing : \E j \in Id :
                           tracks[j] # NoRow /\ x = [key |-> tracks[j].key, etag |-> tracks[j].etag]
    BY <1>3, <1>4, PrefixAssumption
  <2>1. /\ scan'.pc = "list" /\ scan'.cursor = 0 /\ scan'.seen = {} /\ scan'.todo = {}
        /\ scan'.existing = {[key |-> tracks[j].key, etag |-> tracks[j].etag] :
                               j \in UNION {RowsAt(kk) : kk \in rows}}
    BY BeginForm
  <2>2. \A j \in UNION {RowsAt(kk) : kk \in rows} : j \in Id /\ tracks[j] # NoRow
    BY DEF RowsAt
  <2> QED
    BY <2>1, <2>2
<1>10. ASSUME k \notin disturbed'
       PROVE  Unread(r, i, b, c)'
  <2>1. RowsAt(k) = {i}
    BY <1>7, <1>10, Disturbs DEF Either, Says
  <2>2. ASSUME NEW x \in scan'.existing, x.key = k
        PROVE  x.etag = tracks'[i].etag
    <3>1. PICK j \in Id : tracks[j] # NoRow /\ x = [key |-> tracks[j].key, etag |-> tracks[j].etag]
      BY <1>9, <2>2
    <3>2. j \in RowsAt(k)
      BY <2>2, <3>1 DEF RowsAt
    <3> QED
      BY <1>8, <2>1, <3>1, <3>2
  <2>3. 0 < k /\ k \notin scan'.seen /\ Mine(k)' = {}
    BY <1>3, <1>9 DEF ObjKey, Mine
  <2> QED
    BY <1>8, <1>9, <2>2, <2>3 DEF Unread
<1>11. \A d : Scanned(r, i, b, c, d)'
  BY <1>8, <1>10 DEF Scanned
<1>12. /\ op'[t].kind = "writeBack" /\ op'[t].src = r /\ op'[t].id = i /\ op'[t].new = c
       /\ store' = store
  BY <1>2, <1>4, <1>6 DEF Continues, Keeps, Reads, SameObjects
<1>13. IF op[t].pc = "scan" THEN store[k] = c ELSE store[k] = b
  BY <1>1, <1>2 DEF Careful, Knows, WriteBackKnows
<1>14. WriteBackKnows(t)'
  BY <1>6, <1>11, <1>12, <1>13 DEF WriteBackKnows
<1>15. Knows(t)'
  BY <1>12, <1>14 DEF Knows
<1> QED
  BY <1>4, <1>6, <1>15, ContinueCares

\* Two contents a row may have, and the ETag of one of them.
LEMMA EtagSays ==
  ASSUME NEW r, NEW i, NEW b \in Content, NEW c \in Content, NEW d \in {b, c},
         Either(r, i, b, c), r.key \notin disturbed => tracks[i].etag = Etag(d), Etag(d) # NoEtag
  PROVE  Says(r.key, i, d)
<1>1. CASE Says(r.key, i, b)
  BY <1>1, EtagTells DEF Says
<1>2. CASE Says(r.key, i, c)
  BY <1>2, EtagTells DEF Says
<1> QED
  BY <1>1, <1>2 DEF Either

\* What the scan of a write-back works on: key k, whose object is d.
LEMMA ScansWhat ==
  ASSUME IInv, Careful, scan.owner # Nobody
  PROVE  \E t \in Task, r \in Row, i \in Id, b \in Content, c \in Content, d \in Content :
           /\ scan.owner = t /\ op[t].src = r /\ op[t].id = i /\ op[t].backup = b
           /\ op[t].new = c /\ op[t].kind = "writeBack" /\ r.key \in ObjKey
           /\ op[t].pc \notin Unlocked /\ Owned(t) = {r.key}
           /\ Scanned(r, i, b, c, d) /\ store[r.key] = d
           /\ \/ op[t].pc = "scanning" /\ d = c
              \/ op[t].pc = "rescanning" /\ d = b
<1> DEFINE t == scan.owner
<1>1. t \in Task /\ op[t].pc \in Scanning
  BY DEF IInv, Scanner, ScanRecord
<1> HIDE DEF t
<1>2. op[t] \in OpRecord /\ Operation(op[t]) /\ op[t].pc \notin Unlocked /\ op[t].kind = "writeBack"
  BY <1>1, Given DEF Scanning, Unlocked, Operation, OpRecord, OnSource, UploadPlaces,
     DeletePlaces, MovePlaces
<1>3. Owned(t) = {op[t].src.key} /\ op[t].src \in Row /\ op[t].src.key \in ObjKey
  BY <1>1, <1>2, OwnedExactly, OwnedKeys DEF IInv, OnSource, Owned
<1>4. op[t].id \in Id /\ op[t].backup \in Content /\ op[t].new \in Content
  BY <1>1, <1>2 DEF Operation, OpRecord, OnSource, Scanning, Early
<1>5. WriteBackKnows(t)
  BY <1>1, <1>2 DEF Careful, Knows
<1>6. CASE op[t].pc = "scanning"
  BY <1>1, <1>2, <1>3, <1>4, <1>5, <1>6 DEF WriteBackKnows, t
<1>7. CASE op[t].pc = "rescanning"
  BY <1>1, <1>2, <1>3, <1>4, <1>5, <1>7 DEF WriteBackKnows, t
<1> QED
  BY <1>1, <1>6, <1>7 DEF Scanning

\* A row that changes belies nothing that is known of a key no row of which
\* changes.
LEMMA RowsStand ==
  ASSUME NEW k, ~RowChanges(k)
  PROVE  SameRowsAt(k)
<1>1. \A i \in Id : tracks[i] # NoRow /\ tracks[i].key = k => tracks'[i] = tracks[i]
  BY DEF RowChanges
<1>2. \A i \in Id : tracks'[i] # NoRow /\ tracks'[i].key = k => tracks'[i] = tracks[i]
  BY DEF RowChanges
<1> QED
  BY <1>1, <1>2 DEF SameRowsAt, RowsAt

\* A scan leaves the keys its caller does not hold as they are, or disturbs them.
LEMMA ScanAside ==
  ASSUME Disturb, ScanOnly, scan' # scan \/ tracks' = tracks, NEW k \in ObjKey, ~HeldByScan(k)
  PROVE  Kept(k)
<1>1. store'[k] = store[k]
  BY DEF ScanOnly, SameObjects
<1>2. CASE tracks' = tracks
  BY <1>1, <1>2, NoRowChanges DEF Kept
<1>3. CASE scan' # scan
  <2>1. RowChanges(k) => k \in ScannedAt
    BY <1>3 DEF ScannedAt
  <2> QED
    BY <1>1, <2>1, RowsStand, Disturbs DEF Kept, RowsKept
<1> QED
  BY <1>2, <1>3

\* The listing finds the key, and skips it if its row is in step.
LEMMA ListingScanned ==
  ASSUME IInv, Careful, Disturb, ScanList, NEW t \in Task, scan.owner = t,
         NEW r \in Row, NEW i \in Id, NEW b \in Content, NEW c \in Content, NEW d \in {b, c},
         op[t].src = r, r.key \in ObjKey, Scanned(r, i, b, c, d), store[r.key] = d
  PROVE  Scanned(r, i, b, c, d)'
<1> SUFFICES ASSUME NEW k, k = r.key
             PROVE  Scanned(r, i, b, c, d)'
  OBVIOUS
<1>1. /\ scan \in ScanRecord /\ scan.pc = "list" /\ tracks' = tracks
      /\ RowsKept(k)
  BY NoRowChanges DEF IInv, Scanner, ScanList, SameRows
<1>2. /\ Backs(r, b)' /\ (Either(r, i, b, c) => Either(r, i, b, c)')
      /\ (Says(k, i, d) => Says(k, i, d)')
  BY <1>1, BacksStays, EitherStays, SaysStays DEF Scanned
<1> SUFFICES ASSUME k \notin disturbed'
             PROVE  Unread(r, i, b, c)' \/ Read(r, i, b, c, d)'
  BY <1>2 DEF Scanned
<1>3. /\ k \notin disturbed /\ k \in Audio /\ k \in scan.lists /\ listed[k] = d
  <2>1. k \notin disturbed /\ k \notin MisledAt
    BY Disturbs
  <2> QED
    BY <1>1, <2>1 DEF MisledAt, Careful
<1>4. /\ d \in Content /\ d # NoObj /\ k \in Nat /\ scan.cursor \in Nat /\ Ahead \in SUBSET ObjKey
      /\ ObjKey \subseteq Nat
  BY <1>1, SizeAssumption, ContentAssumption DEF ObjKey, Ahead, ScanRecord
<1>5. scan.cursor < k => k \in Ahead
  BY <1>3, <1>4 DEF Ahead
<1>6. CASE Ahead = {} /\ scan' = [scan EXCEPT !.pc = "ingest"]
  <2>1. Read(r, i, b, c, d)
    BY <1>3, <1>5, <1>6 DEF Scanned, Unread
  <2>2. /\ scan'.cursor = scan.cursor /\ scan'.seen = scan.seen /\ scan'.todo = scan.todo
    BY <1>1, <1>6 DEF ScanRecord
  <2> QED
    BY <1>2, <2>1, <2>2 DEF Read, Mine
<1>7. CASE Ahead # {}
  <2> SUFFICES ASSUME NEW l \in Ahead, l = First(Ahead), \A m \in Ahead : l <= m
               PROVE  Unread(r, i, b, c)' \/ Read(r, i, b, c, d)'
    BY <1>4, <1>7, AheadFirst
  <2> DEFINE e == Etag(listed[l])
             new == [key |-> l, etag |-> e, tags |-> NoObj]
             todo == IF Unchanged(l) THEN scan.todo ELSE scan.todo \cup {new}
  <2>1. scan' = [scan EXCEPT !.cursor = l, !.seen = scan.seen \cup {l}, !.todo = todo]
    BY <1>7 DEF ScanList
  <2> HIDE DEF todo
  <2>2. /\ scan'.pc = "list" /\ scan'.cursor = l /\ scan'.seen = scan.seen \cup {l}
        /\ scan'.todo = todo /\ scan'.existing = scan.existing
    BY <1>1, <2>1 DEF ScanRecord
  <2>3. l > scan.cursor /\ l \in Nat
    BY <1>4 DEF Ahead
  <2>4. l # k => Mine(k)' = Mine(k)
    BY <2>2 DEF Mine, todo
  <2>5. CASE Read(r, i, b, c, d)
    <3>1. l # k /\ scan'.cursor >= k
      BY <1>4, <2>2, <2>3, <2>5 DEF Read
    <3> QED
      BY <1>2, <2>2, <2>4, <2>5, <3>1 DEF Read
  <2>6. CASE Unread(r, i, b, c) /\ l # k
    <3>1. l < k
      BY <1>4, <1>5, <2>3, <2>6 DEF Unread
    <3> QED
      BY <1>1, <1>2, <2>2, <2>4, <2>6, <3>1 DEF Unread
  <2>7. CASE Unread(r, i, b, c) /\ l = k
    <3>1. scan'.cursor >= k /\ k \in scan'.seen /\ e = Etag(d)
      BY <1>3, <1>4, <2>2, <2>7
    <3>2. CASE Unchanged(k)
      <4>1. Etag(d) # NoEtag /\ [key |-> k, etag |-> Etag(d)] \in scan.existing
        BY <1>3, <3>2 DEF Unchanged
      <4>2. Etag(d) = tracks[i].etag
        BY <2>7, <4>1 DEF Unread
      <4>3. Says(k, i, d)
        BY <2>7, <4>1, <4>2, EtagSays DEF Unread
      <4>4. Mine(k)' = {}
        BY <2>2, <2>7, <3>2 DEF Mine, todo, Unread
      <4> QED
        BY <1>2, <3>1, <4>3, <4>4 DEF Read
    <3>3. CASE ~Unchanged(k)
      <4>1. Mine(k)' = {new}
        BY <2>2, <2>7, <3>3 DEF Mine, todo, Unread
      <4>2. new = [key |-> k, etag |-> Etag(d), tags |-> NoObj]
        BY <2>7, <3>1
      <4> QED
        BY <1>2, <2>7, <3>1, <4>1, <4>2 DEF Read, Unread
    <3> QED
      BY <3>2, <3>3
  <2> QED
    BY <1>3, <2>5, <2>6, <2>7 DEF Scanned
<1> QED
  BY <1>6, <1>7 DEF ScanList

\* Once the listing is over, an undisturbed key has been read.
LEMMA HasRead ==
  ASSUME NEW r, NEW i, NEW b, NEW c, NEW d, Scanned(r, i, b, c, d), scan.pc # "list",
         r.key \notin disturbed
  PROVE  Read(r, i, b, c, d)
  BY DEF Scanned, Unread

\* parse_all reads what the object contains.
LEMMA ParsingScanned ==
  ASSUME IInv, Disturb, ScanParse,
         NEW r \in Row, NEW i \in Id, NEW b \in Content, NEW c \in Content, NEW d \in {b, c},
         r.key \in ObjKey, Scanned(r, i, b, c, d), store[r.key] = d
  PROVE  Scanned(r, i, b, c, d)'
<1> SUFFICES ASSUME NEW k, k = r.key
             PROVE  Scanned(r, i, b, c, d)'
  OBVIOUS
<1>1. scan \in ScanRecord /\ scan.pc = "ingest" /\ RowsKept(k)
  BY NoRowChanges DEF IInv, Scanner, ScanParse, SameRows
<1>2. /\ Backs(r, b)' /\ (Either(r, i, b, c) => Either(r, i, b, c)')
      /\ (Says(k, i, d) => Says(k, i, d)')
  BY <1>1, BacksStays, EitherStays, SaysStays DEF Scanned
<1> SUFFICES ASSUME k \notin disturbed'
             PROVE  Read(r, i, b, c, d)'
  BY <1>2 DEF Scanned
<1>3. Read(r, i, b, c, d)
  BY <1>1, HasRead, Disturbs
<1>4. PICK x \in Unparsed :
        scan' = [scan EXCEPT !.todo = (@ \ {x}) \cup {[x EXCEPT !.tags = store[x.key]]}]
  BY DEF ScanParse
<1>5. x \in Item /\ x \in scan.todo /\ x.tags = NoObj
  BY <1>1, <1>4 DEF Unparsed, ScanRecord
<1> DEFINE y == [x EXCEPT !.tags = store[x.key]]
<1>6. y = [key |-> x.key, etag |-> x.etag, tags |-> store[x.key]]
  BY <1>5 DEF Item
<1> HIDE DEF y
<1>7. /\ scan'.cursor = scan.cursor /\ scan'.seen = scan.seen
      /\ scan'.todo = (scan.todo \ {x}) \cup {y}
  BY <1>1, <1>4 DEF ScanRecord, y
<1>8. y.key = x.key
  BY <1>6
<1>9. CASE x.key # k
  <2>1. Mine(k)' = Mine(k)
    BY <1>7, <1>8, <1>9 DEF Mine
  <2> QED
    BY <1>2, <1>3, <1>7, <2>1 DEF Read
<1>10. CASE x.key = k
  <2>1. PICK g \in {NoObj, d} : Mine(k) = {[key |-> k, etag |-> Etag(d), tags |-> g]}
    BY <1>3, <1>5, <1>10 DEF Read, Mine
  <2>2. Mine(k) = {x} /\ x = [key |-> k, etag |-> Etag(d), tags |-> g]
    BY <1>5, <1>10, <2>1 DEF Mine
  <2>3. x.etag = Etag(d)
    BY <2>2
  <2>4. y = [key |-> k, etag |-> Etag(d), tags |-> d]
    BY <1>6, <1>10, <2>3
  <2>5. Mine(k)' = {y}
    BY <1>7, <1>8, <1>10, <2>2 DEF Mine
  <2>6. Either(r, i, b, c)
    BY <1>3, <2>2 DEF Read
  <2> QED
    BY <1>2, <1>3, <1>7, <2>4, <2>5, <2>6 DEF Read
<1> QED
  BY <1>9, <1>10

\* The row that is written says what the object is.
LEMMA WritingScanned ==
  ASSUME IInv, Disturb, ScanWrite,
         NEW r \in Row, NEW i \in Id, NEW b \in Content, NEW c \in Content, NEW d \in {b, c},
         r.key \in ObjKey, Scanned(r, i, b, c, d), store[r.key] = d
  PROVE  Scanned(r, i, b, c, d)'
<1> SUFFICES ASSUME NEW k, k = r.key
             PROVE  Scanned(r, i, b, c, d)'
  OBVIOUS
<1>1. scan \in ScanRecord /\ scan.pc = "ingest" /\ Unparsed = {}
  BY DEF IInv, Scanner, ScanWrite
<1>2. Backs(r, b)'
  BY BacksStays DEF Scanned
<1> SUFFICES ASSUME k \notin disturbed'
             PROVE  Read(r, i, b, c, d)'
  BY <1>2 DEF Scanned
<1>3. Read(r, i, b, c, d) /\ k \notin disturbed
  BY <1>1, HasRead, Disturbs
<1>4. PICK x \in scan.todo :
        /\ Upsert(x.key, x.etag, x.tags)
        /\ scan' = [scan EXCEPT !.pc = "reread", !.todo = @ \ {x}, !.wrote = IngestedId(x.key)]
  BY DEF ScanWrite
<1>5. x \in Item /\ x.tags # NoObj
  BY <1>1, <1>4 DEF Unparsed, ScanRecord
<1>6. /\ scan'.cursor = scan.cursor /\ scan'.seen = scan.seen /\ scan'.todo = scan.todo \ {x}
  BY <1>1, <1>4 DEF ScanRecord
<1> SUFFICES ASSUME NEW l \in ObjKey, NEW e \in Etags, NEW g \in Content, NEW j,
                    x.key = l, x.etag = e, x.tags = g, Upsert(l, e, g), j = IngestedId(l)
             PROVE  Read(r, i, b, c, d)'
  BY <1>4, <1>5 DEF Item
<1>7. /\ OnlyRowsOf({l}) /\ RowsAt(l)' = {j} /\ tracks'[j] = [key |-> l, etag |-> e, tags |-> g]
  BY UpsertRows DEF IInv
<1>8. CASE l # k
  <2>1. Mine(k)' = Mine(k)
    BY <1>6, <1>8 DEF Mine
  <2>2. RowsKept(k)
    BY <1>7, <1>8, RowsElsewhere DEF RowsKept
  <2>3. (Either(r, i, b, c) => Either(r, i, b, c)') /\ (Says(k, i, d) => Says(k, i, d)')
    BY <2>2, EitherStays, SaysStays
  <2> QED
    BY <1>3, <1>6, <2>1, <2>3 DEF Read
<1>9. CASE l = k
  <2>1. PICK h \in {NoObj, d} : Mine(k) = {[key |-> k, etag |-> Etag(d), tags |-> h]}
    BY <1>3, <1>4, <1>9 DEF Read, Mine
  <2>2. Mine(k) = {x} /\ x = [key |-> k, etag |-> Etag(d), tags |-> h]
    BY <1>4, <1>9, <2>1 DEF Mine
  <2>3. e = Etag(d) /\ g = d
    BY <1>5, <2>2
  <2>4. Mine(k)' = {}
    BY <1>6, <2>2 DEF Mine
  <2>5. RowsAt(k) = {i}
    BY <1>3, <2>2 DEF Read, Either, Says
  <2>6. j = i
    BY <1>9, <2>5 DEF IngestedId
  <2>7. tracks'[i].etag = Etag(d) /\ tracks'[i].tags = d
    BY <1>7, <2>3, <2>6
  <2>8. Says(k, i, d)'
    BY <1>7, <1>9, <2>6, <2>7 DEF Says
  <2> QED
    BY <1>3, <1>6, <2>4, <2>8 DEF Read
<1> QED
  BY <1>8, <1>9

\* A row that is read back, and a row that is pruned, are not the key's.
LEMMA OtherScanned ==
  ASSUME IInv, Disturb, ScanReread \/ ScanPrune,
         NEW r \in Row, NEW i \in Id, NEW b \in Content, NEW c \in Content, NEW d \in {b, c},
         r.key \in ObjKey, Scanned(r, i, b, c, d), store[r.key] = d
  PROVE  Scanned(r, i, b, c, d)'
<1> SUFFICES ASSUME NEW k, k = r.key
             PROVE  Scanned(r, i, b, c, d)'
  OBVIOUS
<1>1. scan \in ScanRecord /\ scan.pc \in {"ingest", "reread"}
  BY DEF IInv, Scanner, ScanReread, ScanPrune
<1>2. Backs(r, b)'
  BY BacksStays DEF Scanned
<1> SUFFICES ASSUME k \notin disturbed'
             PROVE  Read(r, i, b, c, d)'
  BY <1>2 DEF Scanned
<1>3. Read(r, i, b, c, d)
  BY <1>1, HasRead, Disturbs
<1>4. scan'.cursor = scan.cursor /\ scan'.seen = scan.seen /\ scan'.todo = scan.todo
  BY <1>1 DEF ScanRecord, ScanReread, ScanPrune
<1>5. RowsKept(k)
  <2>1. CASE ScanReread
    BY <2>1, NoRowChanges DEF ScanReread, SameRows
  <2>2. CASE ScanPrune
    <3>1. PICK x \in Vanished : DeleteRows(RowsAt(x.key))
      BY <2>2 DEF ScanPrune
    <3>2. x.key # k
      BY <1>3, <3>1 DEF Read, Vanished
    <3> DEFINE ids == RowsAt(x.key)
    <3>3. /\ ids \in SUBSET Id /\ DeleteRows(ids)
          /\ \A j \in ids : tracks[j] # NoRow => tracks[j].key \in {x.key}
      BY <3>1 DEF RowsAt
    <3> HIDE DEF ids
    <3>4. OnlyRowsOf({x.key})
      BY <3>3, DeleteRowsRows DEF IInv
    <3> QED
      BY <3>2, <3>4, RowsElsewhere DEF RowsKept
  <2> QED
    BY <2>1, <2>2
<1>6. (Either(r, i, b, c) => Either(r, i, b, c)') /\ (Says(k, i, d) => Says(k, i, d)')
  BY <1>5, EitherStays, SaysStays
<1> QED
  BY <1>3, <1>4, <1>6 DEF Read, Mine

\* A step of the scan.
LEMMA ScanningCareful ==
  ASSUME IInv, Careful, Disturb,
         ScanList \/ ScanParse \/ ScanWrite \/ ScanReread \/ ScanPrune
  PROVE  Careful'
<1>1. ScanOnly /\ scan \in ScanRecord
  BY DEF ScanList, ScanParse, ScanWrite, ScanReread, ScanPrune, IInv, Scanner
<1>2. /\ op' = op /\ locks' = locks /\ store' = store
  BY <1>1 DEF ScanOnly, SameObjects
<1>3. scan' # scan \/ tracks' = tracks
  <2>1. CASE ScanWrite
    BY <1>1, <2>1 DEF ScanWrite, ScanRecord
  <2>2. CASE ScanPrune
    <3>1. PICK x \in Vanished : scan' = [scan EXCEPT !.existing = @ \ {x}]
      BY <2>2 DEF ScanPrune
    <3>2. x \in scan.existing /\ scan'.existing = scan.existing \ {x}
      BY <1>1, <3>1 DEF Vanished, ScanRecord
    <3> QED
      BY <3>2
  <2> QED
    BY <2>1, <2>2 DEF ScanList, ScanParse, ScanReread, SameRows
<1>4. CASE scan.owner = Nobody
  <2>1. \A k \in ObjKey : ~HeldByScan(k)
    BY <1>4, NobodyAssumption DEF HeldByScan
  <2>2. Aside({})
    BY <1>1, <1>3, <2>1, ScanAside DEF Aside
  <2>3. \A u \in Task : op[u].pc \notin Scanning
    BY <1>4, NobodyAssumption DEF IInv, Scanner
  <2> QED
    BY <1>2, <2>2, <2>3, NobodyCares
<1>5. CASE scan.owner # Nobody
  <2>1. PICK t \in Task, r \in Row, i \in Id, b \in Content, c \in Content, d \in Content :
           /\ scan.owner = t /\ op[t].src = r /\ op[t].id = i /\ op[t].backup = b
           /\ op[t].new = c /\ op[t].kind = "writeBack" /\ r.key \in ObjKey
           /\ op[t].pc \notin Unlocked /\ Owned(t) = {r.key}
           /\ Scanned(r, i, b, c, d) /\ store[r.key] = d
           /\ \/ op[t].pc = "scanning" /\ d = c
              \/ op[t].pc = "rescanning" /\ d = b
    BY <1>5, ScansWhat
  <2>2. d \in {b, c}
    BY <2>1
  <2>3. Scanned(r, i, b, c, d)'
    BY <2>1, <2>2, ListingScanned, ParsingScanned, WritingScanned, OtherScanned
  <2>4. WriteBackKnows(t)'
    BY <1>2, <2>1, <2>3 DEF WriteBackKnows
  <2>5. Cares(t) /\ OthersStay(t)
    BY <1>2, <2>1, <2>4 DEF Knows, Cares, Releases, Owned, OthersStay
  <2>6. \A k \in ObjKey \ Owned(t) : ~HeldByScan(k)
    BY <2>1 DEF HeldByScan, Owned
  <2>7. Aside(Owned(t))
    BY <1>1, <1>3, <2>6, ScanAside DEF Aside
  <2>8. \A u \in Task \ {t} : op[u].pc \notin Scanning
    BY <2>1 DEF IInv, Scanner
  <2> QED
    BY <2>5, <2>7, <2>8, CareIsKept
<1> QED
  BY <1>4, <1>5

\* The scan ends: its write-back goes on, restores, or returns.
LEMMA ScanEndCares ==
  ASSUME IInv, Careful, Disturb, ScanFinish \/ ScanFails, NEW t \in Task, scan.owner = t
  PROVE  Within(t) /\ Cares(t)
<1>1. SameRows /\ SameObjects
  BY DEF ScanFinish, ScanFails, ScanReturns
<1>2. PICK r \in Row, i \in Id, b \in Content, c \in Content, d \in Content :
           /\ op[t].src = r /\ op[t].id = i /\ op[t].backup = b
           /\ op[t].new = c /\ op[t].kind = "writeBack" /\ r.key \in ObjKey
           /\ op[t].pc \notin Unlocked /\ Owned(t) = {r.key}
           /\ Scanned(r, i, b, c, d) /\ store[r.key] = d
           /\ \/ op[t].pc = "scanning" /\ d = c
              \/ op[t].pc = "rescanning" /\ d = b
  BY ScansWhat, NobodyAssumption
<1> SUFFICES ASSUME NEW k, k = r.key
             PROVE  Within(t) /\ Cares(t)
  BY <1>2
<1>3. t # Nobody /\ b # NoObj /\ c # NoObj /\ store' = store /\ RowsKept(k)
  BY <1>1, NobodyAssumption, ContentAssumption, NoRowChanges DEF SameObjects, SameRows
<1>4. PICK ok \in BOOLEAN :
        /\ ok => scan.pc = "ingest" /\ scan.todo = {}
        /\ \/ op[t].pc = "scanning" /\ Goto(t, IF ok THEN "clear" ELSE "restore")
           \/ op[t].pc = "rescanning" /\ IF ok THEN Return(t, "error") ELSE ReturnFlagged(t)
  BY <1>3 DEF ScanFinish, ScanFails, ScanReturns
<1>5. ok => Says(k, i, d)
  <2> SUFFICES ASSUME ok, k \notin disturbed
               PROVE  Says(k, i, d)
    BY DEF Says
  <2>1. Read(r, i, b, c, d)
    BY <1>2, <1>4, HasRead
  <2>2. Mine(k) = {}
    BY <1>4 DEF Mine
  <2> QED
    BY <2>1, <2>2 DEF Read
<1>6. Backs(r, b) /\ Either(r, i, b, c)
  BY <1>2 DEF Scanned, Unread, Read, Either, Says
<1>7. op[t].pc \notin Early /\ op[t].pc \in Scanning
  BY <1>2 DEF Early, Scanning
<1>8. Backs(r, b)' /\ Either(r, i, b, c)' /\ (ok => Says(k, i, d)')
  BY <1>3, <1>5, <1>6, BacksStays, EitherStays, SaysStays
<1>9. CASE op[t].pc = "scanning"
  <2> DEFINE pc == IF ok THEN "clear" ELSE "restore"
  <2>1. Goto(t, pc) /\ d = c
    BY <1>2, <1>4, <1>9
  <2>2. Reach(op[t], pc)
    BY <1>2, <1>7 DEF Reach, Places, WriteBackPlaces, Unlocked, OnSource, Early
  <2>3. Continues(t) /\ op'[t].pc = pc /\ op'[t].backup = b /\ OthersStay(t)
    BY <1>2, <2>1, <2>2, GoesOn, Going DEF IInv, Continues
  <2>4. /\ op'[t].kind = "writeBack" /\ op'[t].src = r /\ op'[t].id = i /\ op'[t].new = c
    BY <1>2, <2>3 DEF Continues, Keeps
  <2>5. store'[k] = c
    BY <1>2, <1>3, <2>1
  <2>6. WriteBackKnows(t)'
    BY <1>8, <2>1, <2>3, <2>4, <2>5 DEF WriteBackKnows
  <2>7. Cares(t)
    BY <2>3, <2>4, <2>6, ContinueCares DEF Knows
  <2> QED
    BY <1>1, <2>3, <2>7 DEF Within, SameObjects, SameRows, OnlyRowsOf
<1>10. CASE op[t].pc = "rescanning"
  <2>1. OthersStay(t)
    BY <1>2, <1>4, <1>10, Finishing DEF IInv, Return, ReturnFlagged, Results
  <2>2. CASE ok
    <3>1. Return(t, "error") /\ Says(k, i, b)'
      BY <1>2, <1>4, <1>8, <1>10, <2>2
    <3>2. Settled(k)'
      BY <1>2, <1>3, <1>10, <3>1, SaysSettles
    <3>3. Cares(t)
      BY <1>2, <3>1, <3>2, ReturnCares DEF Results
    <3> QED
      BY <1>1, <2>1, <3>3 DEF Within, SameObjects, SameRows, OnlyRowsOf
  <2>3. CASE ~ok
    <3>1. Cares(t)
      BY <1>2, <1>4, <1>10, <2>3, FlagCares
    <3> QED
      BY <1>1, <2>1, <3>1 DEF Within, SameObjects, SameRows, OnlyRowsOf
  <2> QED
    BY <2>2, <2>3
<1> QED
  BY <1>7, <1>9, <1>10 DEF Scanning

-----------------------------------------------------------------------------
(***************************************************************************)
(* The invariant.                                                          *)
(***************************************************************************)
\* Any step of the four kinds of operations, but for the start of a scan.
Proper(t) ==
  \/ ReadSource(t) \/ Lock(t) \/ Recheck(t) \/ UploadStep(t) \/ DeleteStep(t) \/ MoveStep(t)
  \/ WriteBackBackup(t) \/ WriteBackPut(t) \/ WriteBackClear(t) \/ WriteBackRestore(t)

\* Every step of an operation itself, the scan of a write-back apart.
LEMMA ProperCares ==
  ASSUME IInv, Careful, Disturb, NEW t \in Task, Proper(t)
  PROVE  Cares(t) /\ Within(t) /\ SameScan
<1>1. Cares(t)
  BY ReadSourceCares, LockCares, RecheckCares, UploadCares, DeleteCares, MoveCares, WriteBackCares
     DEF Proper
<1>2. Within(t)
  BY TaskStepForm DEF Proper, TaskStep, WriteBackStep
<1>3. SameScan
  <2>1. CASE ReadSource(t) \/ Lock(t) \/ Recheck(t)
    BY <2>1 DEF ReadSource, Lock, Recheck
  <2>2. CASE UploadStep(t)
    BY <2>2 DEF UploadStep, UploadBackup, UploadPut, UploadIngest, UploadReadBack, UploadSelect,
         UploadUndo, UploadReingest, UploadReread
  <2>3. CASE DeleteStep(t)
    BY <2>3 DEF DeleteStep, DeleteBackup, DeleteObject, DeleteCheck, DeleteUnindex, DeleteRestore
  <2>4. CASE MoveStep(t)
    BY <2>4 DEF MoveStep, MoveHead, MoveCopy, MovePut, MoveCas, MoveRemove, MoveCheck,
         MoveRollback, MoveCleanup, MoveDiscard
  <2>5. CASE WriteBackBackup(t) \/ WriteBackPut(t) \/ WriteBackClear(t) \/ WriteBackRestore(t)
    BY <2>5 DEF WriteBackBackup, WriteBackPut, WriteBackClear, WriteBackRestore
  <2> QED
    BY <2>1, <2>2, <2>3, <2>4, <2>5 DEF Proper
<1> QED
  BY <1>1, <1>2, <1>3

\* The library starts with a row for each of its tracks.
LEMMA InitCareful ==
  ASSUME HInit
  PROVE  Careful
<1> DEFINE len == Len(Initial)
           there == {Initial[i] : i \in 1..len}
<1>1. IInv
  BY InitIInv DEF HInit
<1>2. /\ len \in Nat /\ len <= MaxId /\ MaxId \in Nat
      /\ \A i \in 1..len : Initial[i] \in Audio \X (Content \ Broken)
      /\ \A i, j \in 1..len : Initial[i][1] = Initial[j][1] => i = j
  BY InitialAssumption, SizeAssumption
<1>3. ASSUME NEW k \in ObjKey
      PROVE  Settled(k)
  <2> DEFINE e == CHOOSE e \in there : e[1] = k
  <2>1. store[k] = IF \E i \in 1..len : Initial[i][1] = k THEN e[2] ELSE NoObj
    BY DEF HInit, Init
  <2>2. \A i \in Id : i <= len =>
          tracks[i] = [key |-> Initial[i][1], etag |-> Etag(Initial[i][2]), tags |-> Initial[i][2]]
    BY DEF HInit, Init
  <2>3. \A i \in Id : tracks[i] # NoRow => i \in 1..len /\ i <= len
    BY <1>2 DEF HInit, Init, Id
  <2>4. CASE \E i \in 1..len : Initial[i][1] = k
    <3>1. \E x \in there : x[1] = k
      BY <2>4
    <3>2. e \in there /\ e[1] = k
      BY <3>1
    <3> HIDE DEF e
    <3>3. PICK j \in 1..len : e = Initial[j]
      BY <3>2
    <3>4. j \in Id /\ j <= len
      BY <1>2 DEF Id
    <3>5. /\ store[k] = e[2] /\ e[2] \in Content
          /\ tracks[j] = [key |-> k, etag |-> Etag(e[2]), tags |-> e[2]]
      BY <1>2, <2>1, <2>2, <2>4, <3>2, <3>3, <3>4
    <3>6. tracks[j] \in Row
      BY <3>5 DEF Row, Etag, Etags
    <3>7. j \in RowsAt(k)
      BY <3>4, <3>5, <3>6, RowAssumption DEF RowsAt
    <3>8. RowsAt(k) = {j}
      BY <1>1, <3>7, OneRow DEF IInv
    <3> QED
      BY <3>4, <3>5, <3>8, ContentAssumption DEF Settled, Says
  <2>5. CASE ~\E i \in 1..len : Initial[i][1] = k
    <3>1. store[k] = NoObj
      BY <2>1, <2>5
    <3>2. \A i \in Id : tracks[i] # NoRow => tracks[i].key # k
      <4>1. ASSUME NEW i \in Id, tracks[i] # NoRow
            PROVE  tracks[i].key = Initial[i][1]
        <5>1. tracks[i] = [key |-> Initial[i][1], etag |-> Etag(Initial[i][2]),
                           tags |-> Initial[i][2]]
          BY <2>2, <2>3, <4>1
        <5> QED
          BY <5>1
      <4> QED
        BY <2>3, <2>5, <4>1
    <3>3. RowsAt(k) = {}
      BY <3>2 DEF RowsAt
    <3> QED
      BY <3>1, <3>3 DEF Settled
  <2> QED
    BY <2>4, <2>5
<1>4. \A t \in Task : Knows(t)
  BY UnlockedKnows DEF HInit, Init, Idle, Unlocked
<1> QED
  BY <1>3, <1>4 DEF Careful, HInit

\* The server stops: the keys that were held are disturbed.
LEMMA CrashCareful ==
  ASSUME IInv, Careful, Disturb, Crash
  PROVE  Careful'
<1>1. Reads /\ crashes' # crashes
  <2>1. crashes \in 0..MaxCrashes /\ MaxCrashes \in Nat /\ crashes' = crashes + 1
    BY BoundsAssumption DEF Crash, IInv, Counted
  <2>2. crashes' # crashes
    BY <2>1
  <2>3. Reads
    BY DEF Crash
  <2> QED
    BY <2>2, <2>3
<1>2. ASSUME NEW k \in ObjKey
      PROVE  Settled(k)'
  <2>1. CASE Locked(k)
    <3>1. k \in CrashedAt
      BY <1>1, <2>1 DEF CrashedAt
    <3> QED
      BY <3>1, Disturbs, DisturbedSettles
  <2>2. CASE ~Locked(k)
    BY <1>1, <2>2, ReadsOnly, SettledStays DEF Careful
  <2> QED
    BY <2>1, <2>2
<1>3. ASSUME NEW t \in Task
      PROVE  Knows(t)'
  <2>1. op'[t].pc \in {"new", "done"}
    BY DEF Crash, Active, Idle
  <2> QED
    BY <2>1 DEF Knows, UploadKnows, WriteBackKnows, DeleteKnows, MoveKnows, Unlocked
<1>4. ObjKey \ Audio \subseteq disturbed'
  BY Disturbs DEF Careful
<1> QED
  BY <1>2, <1>3, <1>4 DEF Careful

\* Nobody's step that changes no object and no row.
LEMMA IdleCareful ==
  ASSUME IInv, Careful, Disturb, store' = store, tracks' = tracks, op' = op, locks' = locks,
         \A u \in Task : op[u].pc \in Scanning => SameProgress
  PROVE  Careful'
<1>1. Aside({})
  BY NoRowChanges DEF Aside, Kept
<1> QED
  BY <1>1, NobodyCares

\* Every step keeps what is known.
LEMMA NextCareful ==
  ASSUME IInv, Careful, HNext
  PROVE  Careful'
<1>0. Next /\ Disturb
  BY DEF HNext
<1>1. ASSUME NEW t \in Task, SubmitStep(t)
      PROVE  Careful'
  <2>1. Cares(t) /\ SameProgress
    BY <1>1, SubmitCares
  <2>2. OthersStay(t) /\ Aside(Owned(t))
    BY <1>1, TaskStepForm, Elsewhere
  <2> QED
    BY <1>0, <2>1, <2>2, CareIsKept
<1>2. ASSUME NEW t \in Task, Proper(t)
      PROVE  Careful'
  <2>1. Cares(t) /\ SameProgress /\ OthersStay(t) /\ Aside(Owned(t))
    BY <1>0, <1>2, ProperCares, Elsewhere DEF SameScan, SameProgress
  <2> QED
    BY <1>0, <2>1, CareIsKept
<1>3. ASSUME NEW t \in Task, WriteBackScan(t)
      PROVE  Careful'
  <2>1. Cares(t) /\ scan.pc = "idle"
    BY <1>0, <1>3, WriteBackScanCares
  <2>2. OthersStay(t) /\ Aside(Owned(t))
    BY <1>3, TaskStepForm, Elsewhere DEF TaskStep, WriteBackStep
  <2>3. \A u \in Task : op[u].pc \notin Scanning
    BY <2>1, NoScanForm, NobodyAssumption DEF IInv, Scanner
  <2> QED
    BY <1>0, <2>1, <2>2, <2>3, CareIsKept
<1>4. CASE ScanList \/ ScanParse \/ ScanWrite \/ ScanReread \/ ScanPrune
  BY <1>0, <1>4, ScanningCareful
<1>5. CASE (ScanFinish \/ ScanFails) /\ scan.owner # Nobody
  <2>1. PICK t \in Task : scan.owner = t
    BY <1>5 DEF IInv, Scanner, ScanRecord
  <2>2. Cares(t) /\ OthersStay(t) /\ Aside(Owned(t))
    BY <1>0, <1>5, <2>1, ScanEndCares, Elsewhere
  <2>3. \A u \in Task \ {t} : op[u].pc \notin Scanning
    BY <2>1 DEF IInv, Scanner
  <2> QED
    BY <1>0, <2>2, <2>3, CareIsKept
<1>6. CASE (ScanFinish \/ ScanFails \/ ScanDropped) /\ scan.owner = Nobody
  <2>1. \A u \in Task : op[u].pc \notin Scanning
    BY <1>6, NobodyAssumption DEF IInv, Scanner
  <2>2. op' = op /\ locks' = locks /\ store' = store /\ tracks' = tracks
    BY <1>6, NobodyAssumption DEF ScanFinish, ScanFails, ScanDropped, ScanReturns, SameRows,
       SameObjects
  <2> QED
    BY <1>0, <2>1, <2>2, IdleCareful
<1>7. CASE ScanDropped /\ scan.owner # Nobody
  BY <1>7 DEF ScanDropped
<1>8. CASE BackgroundScan
  <2>1. scan.pc = "idle" /\ op' = op /\ locks' = locks /\ store' = store /\ tracks' = tracks
    BY <1>8 DEF BackgroundScan, BeginScan, Reads, SameRows, SameObjects
  <2>2. \A u \in Task : op[u].pc \notin Scanning
    BY <2>1, NoScanForm, NobodyAssumption DEF IInv, Scanner
  <2> QED
    BY <1>0, <2>1, <2>2, IdleCareful
<1>9. CASE (\E i \in Id : UpdateTags(i)) \/ ListCatchesUp \/ Rest
  BY <1>0, <1>9, IdleCareful DEF UpdateTags, ListCatchesUp, Rest, vars, SameObjects, SameScan,
     SameProgress
<1>10. CASE Crash
  BY <1>0, <1>10, CrashCareful
<1> QED
  BY <1>0, <1>1, <1>2, <1>3, <1>4, <1>5, <1>6, <1>7, <1>8, <1>9, <1>10
     DEF Next, TaskStep, WriteBackStep, ScanStep, Proper

\* A step that changes nothing.
LEMMA StutterCareful ==
  ASSUME Careful, UNCHANGED hvars
  PROVE  Careful'
<1>1. /\ store' = store /\ tracks' = tracks /\ op' = op /\ locks' = locks /\ scan' = scan
      /\ disturbed' = disturbed
  BY DEF hvars, vars
<1>2. \A k : RowsAt(k)' = RowsAt(k)
  BY <1>1 DEF RowsAt
<1>3. \A k, i, c : Says(k, i, c) => Says(k, i, c)'
  BY <1>1, <1>2 DEF Says
<1>4. \A k : (Bare(k) => Bare(k)') /\ (Settled(k) => Settled(k)')
  BY <1>1, <1>2, <1>3 DEF Bare, Settled
<1>5. \A r, i, b : /\ Backs(r, b) => Backs(r, b)'
                   /\ Fresh(r, i) => Fresh(r, i)'
                   /\ Untouched(r, i, b) => Untouched(r, i, b)'
  BY <1>1, <1>2, <1>3, <1>4 DEF Backs, Fresh, Untouched
<1>6. \A r, i, b, c : Either(r, i, b, c) => Either(r, i, b, c)'
  BY <1>3, <1>5 DEF Either
<1>7. \A r, i, b, n, c : Scanned(r, i, b, n, c) => Scanned(r, i, b, n, c)'
  BY <1>1, <1>3, <1>5, <1>6 DEF Scanned, Unread, Read, Mine
<1>8. ASSUME NEW t \in Task
      PROVE  Knows(t)'
  <2>1. UploadKnows(t) => UploadKnows(t)'
    BY <1>1, <1>4 DEF UploadKnows
  <2>2. WriteBackKnows(t) => WriteBackKnows(t)'
    BY <1>1, <1>3, <1>4, <1>5, <1>6, <1>7 DEF WriteBackKnows
  <2>3. DeleteKnows(t) => DeleteKnows(t)'
    BY <1>1, <1>4, <1>5 DEF DeleteKnows
  <2>4. MoveKnows(t) => MoveKnows(t)'
    BY <1>1, <1>3, <1>4, <1>5 DEF MoveKnows
  <2> QED
    BY <1>1, <2>1, <2>2, <2>3, <2>4 DEF Knows, Careful
<1> QED
  BY <1>1, <1>4, <1>8 DEF Careful, Locked

\* Whatever fails, a key nobody holds is settled, and whoever holds keys
\* knows what is there.
THEOREM Carefully == HSpec => [](IInv /\ Careful)
<1>1. HInit => IInv /\ Careful
  BY InitIInv, InitCareful DEF HInit
<1>2. IInv /\ Careful /\ [HNext]_hvars => (IInv /\ Careful)'
  <2> SUFFICES ASSUME IInv, Careful, [HNext]_hvars
               PROVE  (IInv /\ Careful)'
    OBVIOUS
  <2>1. IInv'
    BY NextIInv DEF HNext, hvars
  <2>2. Careful'
    BY NextCareful, StutterCareful
  <2> QED
    BY <2>1, <2>2
<1> QED
  BY <1>1, <1>2, PTL DEF HSpec

-----------------------------------------------------------------------------
(***************************************************************************)
(* What a reader of the library relies on.                                 *)
(***************************************************************************)
\* operation.rs: however many calls fail, whatever a failing put has done,
\* whatever the prefixes match and wherever the server stops, the index and
\* the store agree at every key nobody holds, unless the key is disturbed.
THEOREM Compensated == HSpec => []Consistent
<1>1. ASSUME IInv, Careful
      PROVE  Consistent
  <2> SUFFICES ASSUME NEW k \in ObjKey, k \notin disturbed, ~Locked(k)
               PROVE  Indexed(k)
    BY DEF Consistent
  <2>1. Settled(k)
    BY <1>1 DEF Careful
  <2>2. CASE store[k] = NoObj
    BY <2>1, <2>2 DEF Settled, Indexed
  <2>3. CASE store[k] # NoObj
    <3>1. PICK i \in Id : Says(k, i, store[k])
      BY <2>1, <2>3 DEF Settled
    <3>2. RowsAt(k) = {i} /\ tracks[i].etag = Etag(store[k]) /\ tracks[i].tags = store[k]
      BY <3>1 DEF Says
    <3>3. tracks[i] # NoRow /\ tracks[i].key = k
      BY <3>2 DEF RowsAt
    <3> QED
      BY <2>3, <3>2, <3>3 DEF Indexed, Healthy
  <2> QED
    BY <2>2, <2>3
<1> QED
  BY <1>1, Carefully, PTL

\* The operation of t fails, and none of its keys is disturbed.
Quiet(t) ==
  /\ op[t].backup # NoObj /\ op[t].kind # "upload"
  /\ op'[t].result = "error" /\ KeysOf(op[t]) \cap disturbed' = {}

\* It has not gone on, has returned nothing else, and has asked for nothing.
LEMMA FailsQuietly ==
  ASSUME IInv, Disturb, NEW t \in Task, op[t].kind \in OnSource, op[t].pc \notin Unlocked, Quiet(t)
  PROVE  /\ ~ReturnFlagged(t) /\ \A pc : ~Goto(t, pc)
         /\ \A result \in Results : Return(t, result) => result = "error"
         /\ op[t].src.key \in ObjKey \ disturbed'
         /\ op[t].kind = "move" => op[t].key \in ObjKey \ disturbed'
<1>1. op[t] \in OpRecord /\ op[t].result = "none" /\ op[t].kind # "none"
  BY Given DEF Operation, Unlocked, OnSource
<1>2. /\ op[t].src.key \in KeysOf(op[t]) \cap ObjKey
      /\ op[t].kind = "move" => op[t].key \in KeysOf(op[t]) \cap ObjKey
  BY OwnedKeys, OwnedExactly DEF IInv, Owned
<1>3. ~ReturnFlagged(t)
  BY <1>2, Disturbs DEF ReturnFlagged, Quiet
<1>4. \A pc : ~Goto(t, pc)
  <2>1. ASSUME NEW pc, Goto(t, pc)
        PROVE  op'[t].result = "none"
    BY <1>1, <2>1 DEF Goto, IInv, Operations, OpRecord
  <2> QED
    BY <2>1 DEF Quiet
<1>5. \A result \in Results : Return(t, result) => op'[t].result = result
  BY <1>1, Finishing DEF IInv, Return, Ended
<1> QED
  BY <1>2, <1>3, <1>4, <1>5 DEF Quiet

\* What a failure leaves of the operation o: nothing.
Restored(o) ==
  /\ store'[o.src.key] = o.backup
  /\ tracks'[o.id] # NoRow /\ SameSource(tracks'[o.id], o.src)
  /\ o.kind = "move" => store'[o.key] = NoObj

\* The row that was read, with the object that was backed up.
LEMMA UntouchedRestored ==
  ASSUME NEW o, Untouched(o.src, o.id, o.backup), o.src.key \notin disturbed, tracks' = tracks,
         store'[o.src.key] = o.backup, o.kind = "move" => store'[o.key] = NoObj
  PROVE  Restored(o)
<1>1. /\ RowsAt(o.src.key) = {o.id} /\ tracks[o.id].etag = Etag(o.backup)
      /\ o.src.etag = Etag(o.backup)
  BY DEF Untouched, Says, Backs
<1>2. o.id \in RowsAt(o.src.key)
  BY <1>1
<1>3. tracks[o.id] # NoRow /\ tracks[o.id].key = o.src.key
  BY <1>2 DEF RowsAt
<1> QED
  BY <1>1, <1>3 DEF Restored, SameSource

\* The failures of a write-back, but for those of its scans.
LEMMA WriteBackRestores ==
  ASSUME IInv, Careful, Disturb, NEW t \in Task, Quiet(t),
         WriteBackBackup(t) \/ WriteBackPut(t) \/ WriteBackClear(t) \/ WriteBackRestore(t)
  PROVE  Restored(op[t])
<1>1. /\ op[t].kind = "writeBack" /\ op[t].kind \in OnSource /\ op[t].pc \notin Unlocked
      /\ Operation(op[t])
  BY Given DEF WriteBackBackup, WriteBackPut, WriteBackClear, WriteBackRestore, At, OnSource,
     Unlocked
<1>2. ~WriteBackBackup(t)
  BY <1>1 DEF Operation, WriteBackBackup, At, Early, Quiet
<1>3. /\ ~ReturnFlagged(t) /\ \A pc : ~Goto(t, pc)
      /\ \A result \in Results : Return(t, result) => result = "error"
      /\ op[t].src.key \in ObjKey \ disturbed'
  BY <1>1, FailsQuietly
<1>4. ~WriteBackClear(t) /\ ~WriteBackRestore(t)
  BY <1>3 DEF WriteBackClear, WriteBackRestore, Results
<1>5. op[t].pc = "put" /\ tracks' = tracks /\ FailedPut(op[t].src.key, op[t].new)
  BY <1>2, <1>3, <1>4 DEF WriteBackPut, At, SameRows
<1>6. op[t].new \in Content
  BY <1>1, <1>5 DEF Operation, OnSource
<1>7. store'[op[t].src.key] = store[op[t].src.key]
  BY <1>3, <1>5, <1>6, PutFails
<1>8. Untouched(op[t].src, op[t].id, op[t].backup) /\ store[op[t].src.key] = op[t].backup
  BY <1>1, <1>5 DEF Careful, Knows, WriteBackKnows
<1> QED
  BY <1>1, <1>3, <1>5, <1>7, <1>8, UntouchedRestored, Disturbs

\* The failures of a delete.
LEMMA DeleteRestores ==
  ASSUME IInv, Careful, Disturb, NEW t \in Task, Quiet(t), DeleteStep(t)
  PROVE  Restored(op[t])
<1>1. /\ op[t].kind = "delete" /\ op[t].kind \in OnSource /\ op[t].pc \notin Unlocked
      /\ Operation(op[t])
  BY Given DEF DeleteStep, DeleteBackup, DeleteObject, DeleteCheck, DeleteUnindex, DeleteRestore,
     At, OnSource, Unlocked
<1>2. ~DeleteBackup(t)
  BY <1>1 DEF Operation, DeleteBackup, At, Early, Quiet
<1>3. /\ ~ReturnFlagged(t) /\ \A pc : ~Goto(t, pc)
      /\ \A result \in Results : Return(t, result) => result = "error"
      /\ op[t].src.key \in ObjKey \ disturbed' /\ op[t].src.key \notin disturbed
  BY <1>1, FailsQuietly, Disturbs
<1>4. ~DeleteObject(t) /\ ~DeleteUnindex(t)
  BY <1>3 DEF DeleteObject, DeleteUnindex, Results
<1>5. DeleteKnows(t)
  BY <1>1 DEF Careful, Knows
<1>6. CASE DeleteCheck(t)
  <2>1. /\ op[t].pc = "check" /\ tracks' = tracks /\ store' = store /\ store[op[t].src.key] # NoObj
    BY <1>3, <1>6 DEF DeleteCheck, At, Reads, SameRows, SameObjects
  <2>2. Untouched(op[t].src, op[t].id, op[t].backup) /\ store[op[t].src.key] = op[t].backup
    BY <1>5, <2>1 DEF DeleteKnows
  <2> QED
    BY <1>1, <1>3, <2>1, <2>2, UntouchedRestored
<1>7. CASE DeleteRestore(t)
  <2>1. op[t].pc = "restore" /\ tracks' = tracks /\ Write(op[t].src.key, op[t].backup)
    BY <1>3, <1>7 DEF DeleteRestore, At, SameRows
  <2>2. Untouched(op[t].src, op[t].id, op[t].backup)
    BY <1>5, <2>1 DEF DeleteKnows
  <2>3. store'[op[t].src.key] = op[t].backup
    BY <1>3, <2>1 DEF Write, IInv, Stores
  <2> QED
    BY <1>1, <1>3, <2>1, <2>2, <2>3, UntouchedRestored
<1> QED
  BY <1>2, <1>4, <1>6, <1>7 DEF DeleteStep

\* The failures of a move.
LEMMA MoveRestores ==
  ASSUME IInv, Careful, Disturb, NEW t \in Task, Quiet(t), MoveStep(t)
  PROVE  Restored(op[t])
<1>1. /\ op[t].kind = "move" /\ op[t].kind \in OnSource /\ op[t].pc \notin Unlocked
      /\ Operation(op[t])
  BY Given DEF MoveStep, MoveHead, MoveCopy, MovePut, MoveCas, MoveRemove, MoveCheck, MoveRollback,
     MoveCleanup, MoveDiscard, At, OnSource, Unlocked
<1>2. ~MoveHead(t) /\ ~MoveCopy(t)
  BY <1>1 DEF Operation, MoveHead, MoveCopy, At, Early, Quiet
<1>3. /\ ~ReturnFlagged(t) /\ \A pc : ~Goto(t, pc)
      /\ \A result \in Results : Return(t, result) => result = "error"
      /\ op[t].src.key \in ObjKey \ disturbed' /\ op[t].src.key \notin disturbed
      /\ op[t].key \in ObjKey \ disturbed'
  BY <1>1, FailsQuietly, Disturbs
<1>4. ~MoveCas(t) /\ ~MoveRemove(t) /\ ~MoveCheck(t) /\ ~MoveRollback(t)
  BY <1>3 DEF MoveCas, MoveRemove, MoveCheck, MoveRollback, Results
<1>5. MoveKnows(t) /\ op[t].backup \in Content
  BY <1>1, Given DEF Careful, Knows, Quiet, OpRecord
<1>6. CASE MovePut(t)
  <2>1. op[t].pc = "put" /\ tracks' = tracks /\ FailedPut(op[t].key, op[t].backup)
    BY <1>3, <1>6 DEF MovePut, At, SameRows
  <2>2. /\ Untouched(op[t].src, op[t].id, op[t].backup) /\ store[op[t].src.key] = op[t].backup
        /\ store[op[t].key] = NoObj /\ op[t].key # op[t].src.key
    BY <1>5, <2>1 DEF MoveKnows, Unlocked
  <2>3. /\ store'[op[t].key] = store[op[t].key] /\ store'[op[t].src.key] = store[op[t].src.key]
    BY <1>3, <1>5, <2>1, <2>2, PutFails
  <2> QED
    BY <1>3, <2>1, <2>2, <2>3, UntouchedRestored
<1>7. ~MoveCleanup(t)
  <2>1. op[t].pc = "cleanup" => store[op[t].key] = op[t].backup
    BY <1>5 DEF MoveKnows
  <2> QED
    BY <1>3, <2>1 DEF MoveCleanup, At, Quiet
<1>8. CASE MoveDiscard(t)
  <2>1. op[t].pc = "discard" /\ tracks' = tracks /\ Write(op[t].key, NoObj)
    BY <1>3, <1>8 DEF MoveDiscard, At, SameRows
  <2>2. /\ Untouched(op[t].src, op[t].id, op[t].backup) /\ store[op[t].src.key] = op[t].backup
        /\ op[t].key # op[t].src.key
    BY <1>5, <2>1 DEF MoveKnows, Unlocked
  <2>3. store'[op[t].key] = NoObj /\ store'[op[t].src.key] = op[t].backup
    BY <1>3, <2>1, <2>2 DEF Write, IInv, Stores
  <2> QED
    BY <1>3, <2>1, <2>2, <2>3, UntouchedRestored
<1> QED
  BY <1>2, <1>4, <1>6, <1>7, <1>8 DEF MoveStep

\* The failure that ends a write-back when its object has been put back and
\* scanned again.
LEMMA RescanRestores ==
  ASSUME IInv, Careful, Disturb, NEW u \in Task, Quiet(u), op'[u] # op[u], ScanFinish \/ ScanFails
  PROVE  Restored(op[u])
<1>1. scan.owner # Nobody /\ tracks' = tracks /\ store' = store
  BY NobodyAssumption DEF ScanFinish, ScanFails, ScanReturns, SameRows, SameObjects
<1>2. PICK t \in Task, r \in Row, i \in Id, b \in Content, c \in Content, d \in Content :
           /\ scan.owner = t /\ op[t].src = r /\ op[t].id = i /\ op[t].backup = b
           /\ op[t].new = c /\ op[t].kind = "writeBack" /\ r.key \in ObjKey
           /\ op[t].pc \notin Unlocked /\ Owned(t) = {r.key}
           /\ Scanned(r, i, b, c, d) /\ store[r.key] = d
           /\ \/ op[t].pc = "scanning" /\ d = c
              \/ op[t].pc = "rescanning" /\ d = b
  BY <1>1, ScansWhat
<1>3. u = t
  BY <1>2, ScanEndCares DEF Within, OthersStay
<1>4. /\ ~ReturnFlagged(t) /\ \A pc : ~Goto(t, pc)
      /\ r.key \notin disturbed
  BY <1>2, <1>3, FailsQuietly, Disturbs DEF OnSource
<1>5. t # Nobody
  BY NobodyAssumption
<1>6. ScanFinish /\ op[t].pc = "rescanning"
  BY <1>2, <1>4, <1>5 DEF ScanFinish, ScanFails, ScanReturns
<1>7. Read(r, i, b, c, d) /\ Backs(r, b) /\ Mine(r.key) = {} /\ d = b
  BY <1>2, <1>4, <1>6, HasRead DEF ScanFinish, Mine, Scanned
<1>8. Untouched(r, i, b)
  BY <1>7 DEF Read, Untouched
<1> QED
  BY <1>1, <1>2, <1>3, <1>4, <1>7, <1>8, UntouchedRestored

\* operation.rs: a write-back, delete or move that fails has left its keys as
\* it found them, unless one of them is disturbed.
THEOREM FailuresRestore == HSpec => FailureRestores
<1> DEFINE Act == \A t \in Task :
                    LET o == op[t] IN
                    /\ o.backup # NoObj /\ o.kind # "upload"
                    /\ op'[t].result = "error" /\ KeysOf(o) \cap disturbed' = {}
                    => /\ store'[o.src.key] = o.backup
                       /\ tracks'[o.id] # NoRow /\ SameSource(tracks'[o.id], o.src)
                       /\ o.kind = "move" => store'[o.key] = NoObj
<1>1. ASSUME IInv, Careful, Next, Disturb, NEW t \in Task, Quiet(t)
      PROVE  Restored(op[t])
  <2>1. Operation(op[t]) /\ op[t] \in OpRecord
    BY <1>1, Given
  <2>2. op[t].pc # "done" /\ op'[t] # op[t]
    BY <1>1, <2>1 DEF Operation, OnSource, Early, OpRecord, Quiet
  <2>3. CASE \E u \in Task : SubmitStep(u) \/ TaskStep(u)
    <3>1. PICK u \in Task : SubmitStep(u) \/ TaskStep(u)
      BY <2>3
    <3>2. u = t
      BY <1>1, <2>2, <3>1, TaskStepForm DEF Within, OthersStay
    <3>3. ~SubmitStep(t)
      <4>1. op[t] # Idle
        BY <1>1 DEF Idle, Quiet
      <4> QED
        BY <4>1 DEF SubmitStep, SubmitUpload, SubmitWriteBack, SubmitDelete, SubmitMove, Submit
    <3>4. ~ReadSource(t) /\ ~Lock(t) /\ ~Recheck(t) /\ ~UploadStep(t)
      <4>1. op[t].pc \notin {"source", "lock", "recheck"}
        BY <1>1, <2>1 DEF Operation, OnSource, Early, OpRecord, Quiet
      <4> QED
        BY <1>1, <4>1 DEF ReadSource, Lock, Recheck, UploadStep, UploadBackup, UploadPut,
           UploadIngest, UploadReadBack, UploadSelect, UploadUndo, UploadReingest, UploadReread, At,
           Quiet
    <3>5. ~WriteBackScan(t)
      <4>1. ASSUME WriteBackScan(t)
            PROVE  FALSE
        <5>1. op'[t].result = op[t].result
          BY <1>1, <2>1, <4>1 DEF WriteBackScan, IInv, Operations, OpRecord
        <5> QED
          BY <1>1, <2>1, <2>2, <5>1 DEF Operation, Quiet
      <4> QED
        BY <4>1
    <3> QED
      BY <1>1, <3>1, <3>2, <3>3, <3>4, <3>5, WriteBackRestores, DeleteRestores, MoveRestores
         DEF TaskStep, WriteBackStep
  <2>4. CASE ScanFinish \/ ScanFails
    BY <1>1, <2>2, <2>4, RescanRestores
  <2>5. ~Crash
    <3>1. ASSUME Crash
          PROVE  op'[t].result = "lost" \/ op'[t] = op[t]
      BY <3>1 DEF Crash, Idle
    <3> QED
      BY <1>1, <2>2, <3>1 DEF Quiet
  <2>6. ~ScanDropped /\ op' # op
    BY <2>2, NobodyAssumption DEF ScanDropped, ScanReturns
  <2> QED
    BY <1>1, <2>3, <2>4, <2>5, <2>6
       DEF Next, ScanStep, ScanList, ScanParse, ScanWrite, ScanReread, ScanPrune, ScanOnly,
           UpdateTags, ListCatchesUp, Rest, BackgroundScan, vars
<1>2. ASSUME IInv, Careful, [HNext]_hvars
      PROVE  [Act]_hvars
  <2>1. CASE UNCHANGED hvars
    BY <2>1
  <2>2. CASE HNext
    BY <1>1, <1>2, <2>2 DEF Restored, Quiet, HNext
  <2> QED
    BY <1>2, <2>1, <2>2
<1> QED
  BY <1>2, Carefully, PTL DEF HSpec, FailureRestores

\* Who loses a row loses its overrides, and nobody else does.
LEMMA OverridesGoWithRows ==
  ASSUME IInv, NEW ids \in SUBSET Id, DeleteRows(ids), NEW e \in overrides, e \notin overrides'
  PROVE  tracks'[e[1]] = NoRow
  BY DeleteRowsRows DEF IInv, DeleteRows

\* Reconciling an object drops overrides only with their rows.
LEMMA IngestKeepsEdits ==
  ASSUME IInv, NEW k \in ObjKey, Ingest(k), NEW e \in overrides, e \notin overrides'
  PROVE  tracks'[e[1]] = NoRow
<1>1. RowsAt(k) \in SUBSET Id
  BY DEF RowsAt
<1>2. overrides' = overrides \/ DeleteRows(RowsAt(k))
  BY DEF Ingest, SameRows, Upsert
<1> QED
  BY <1>1, <1>2, OverridesGoWithRows

\* The step of an operation that drops an override without its row is the last
\* one of a write-back.
LEMMA EditsDropped ==
  ASSUME IInv, NEW t \in Task, SubmitStep(t) \/ TaskStep(t), NEW e \in overrides,
         e \notin overrides', tracks'[e[1]] # NoRow
  PROVE  WriteBackClear(t)
<1>1. overrides' # overrides
  OBVIOUS
<1>2. ~SameRows
  BY <1>1 DEF SameRows
<1>3. ~SubmitStep(t) /\ ~ReadSource(t) /\ ~Lock(t) /\ ~Recheck(t)
  BY <1>2 DEF SubmitStep, SubmitUpload, SubmitWriteBack, SubmitDelete, SubmitMove, Submit,
     ReadSource, Lock, Recheck, Reads
<1>4. ~UploadStep(t)
  <2>1. ASSUME UploadIngest(t) \/ UploadReingest(t)
        PROVE  FALSE
    <3>1. op[t].kind = "upload" /\ op[t].pc \notin Unlocked /\ Ingest(op[t].key)
      BY <1>2, <2>1 DEF UploadIngest, UploadReingest, At, Unlocked
    <3>2. op[t].key \in ObjKey
      BY <3>1, OwnedKeys DEF IInv, Owned
    <3> QED
      BY <3>1, <3>2, IngestKeepsEdits
  <2> QED
    BY <1>2, <2>1 DEF UploadStep, UploadBackup, UploadPut, UploadReadBack, UploadSelect,
       UploadUndo, UploadReread, Reads
<1>5. ~DeleteStep(t)
  <2>1. ASSUME DeleteUnindex(t)
        PROVE  FALSE
    <3>1. DeleteRows({op[t].id}) /\ op[t].kind = "delete" /\ op[t].pc \notin Unlocked
      BY <1>2, <2>1 DEF DeleteUnindex, At, Unlocked
    <3>2. {op[t].id} \in SUBSET Id
      BY <3>1, Given DEF Operation, OnSource, Unlocked
    <3> QED
      BY <3>1, <3>2, OverridesGoWithRows
  <2> QED
    BY <1>2, <2>1 DEF DeleteStep, DeleteBackup, DeleteObject, DeleteCheck, DeleteRestore, Reads
<1>6. ~MoveStep(t)
  BY <1>1, <1>2 DEF MoveStep, MoveHead, MoveCopy, MovePut, MoveCas, MoveRemove, MoveCheck,
     MoveRollback, MoveCleanup, MoveDiscard, CasMove, Reads
<1>7. ~WriteBackBackup(t) /\ ~WriteBackPut(t) /\ ~WriteBackScan(t) /\ ~WriteBackRestore(t)
  BY <1>2 DEF WriteBackBackup, WriteBackPut, WriteBackScan, WriteBackRestore, BeginScan, Reads
<1> QED
  BY <1>3, <1>4, <1>5, <1>6, <1>7 DEF TaskStep, WriteBackStep

\* A scan drops overrides only with their rows.
LEMMA ScanKeepsEdits ==
  ASSUME IInv, ScanList \/ ScanParse \/ ScanWrite \/ ScanReread \/ ScanPrune,
         NEW e \in overrides, e \notin overrides'
  PROVE  tracks'[e[1]] = NoRow
<1>1. CASE ScanPrune
  <2>1. PICK x \in Vanished : DeleteRows(RowsAt(x.key))
    BY <1>1 DEF ScanPrune
  <2>2. RowsAt(x.key) \in SUBSET Id
    BY DEF RowsAt
  <2> QED
    BY <2>1, <2>2, OverridesGoWithRows
<1>2. ~(ScanList \/ ScanParse \/ ScanWrite \/ ScanReread)
  BY DEF ScanList, ScanParse, ScanWrite, ScanReread, SameRows, Upsert
<1> QED
  BY <1>1, <1>2

\* Write-back: a tag edit is dropped only with its row, or when the write-back
\* has written its field; and then the file and the row have what was written,
\* unless their key is disturbed.
THEOREM EditsReach == HSpec => EditsReachTheFile
<1> DEFINE Act == \A e \in overrides \ overrides' :
                    \/ tracks'[e[1]] = NoRow
                    \/ \E t \in Task :
                         LET o == op[t] IN
                         /\ At(t, "writeBack", "clear") /\ o.id = e[1] /\ e[2] \in o.fields
                         /\ o.src.key \notin disturbed' =>
                              /\ store'[o.src.key] = o.new
                              /\ tracks'[o.id] # NoRow /\ tracks'[o.id].key = o.src.key
                              /\ tracks'[o.id].tags = o.new
<1>1. ASSUME IInv, Careful, Next, Disturb, NEW e \in overrides, e \notin overrides',
             tracks'[e[1]] # NoRow
      PROVE  \E t \in Task :
               LET o == op[t] IN
               /\ At(t, "writeBack", "clear") /\ o.id = e[1] /\ e[2] \in o.fields
               /\ o.src.key \notin disturbed' =>
                    /\ store'[o.src.key] = o.new
                    /\ tracks'[o.id] # NoRow /\ tracks'[o.id].key = o.src.key
                    /\ tracks'[o.id].tags = o.new
  <2>1. CASE \E t \in Task : SubmitStep(t) \/ TaskStep(t)
    <3>1. PICK t \in Task : WriteBackClear(t)
      BY <1>1, <2>1, EditsDropped
    <3>2. /\ At(t, "writeBack", "clear") /\ tracks' = tracks /\ store' = store
          /\ e \in {op[t].id} \X op[t].fields
      BY <1>1, <3>1 DEF WriteBackClear, SameObjects, SameRows
    <3>3. ASSUME op[t].src.key \notin disturbed'
          PROVE  /\ store'[op[t].src.key] = op[t].new
                 /\ tracks'[op[t].id] # NoRow /\ tracks'[op[t].id].key = op[t].src.key
                 /\ tracks'[op[t].id].tags = op[t].new
      <4>1. Says(op[t].src.key, op[t].id, op[t].new) /\ store[op[t].src.key] = op[t].new
        BY <1>1, <3>2 DEF Careful, Knows, WriteBackKnows, At
      <4>2. RowsAt(op[t].src.key) = {op[t].id} /\ tracks[op[t].id].tags = op[t].new
        BY <1>1, <3>3, <4>1, Disturbs DEF Says
      <4> QED
        BY <3>2, <4>1, <4>2 DEF RowsAt
    <3> QED
      BY <3>2, <3>3
  <2>2. CASE ScanList \/ ScanParse \/ ScanWrite \/ ScanReread \/ ScanPrune
    BY <1>1, <2>2, ScanKeepsEdits
  <2>3. CASE \E j \in Id : UpdateTags(j)
    BY <1>1, <2>3 DEF UpdateTags
  <2>4. CASE BackgroundScan \/ ScanFinish \/ ScanFails \/ ScanDropped \/ ListCatchesUp \/ Crash \/ Rest
    BY <1>1, <2>4 DEF BackgroundScan, BeginScan, ScanFinish, ScanFails, ScanDropped,
       ListCatchesUp, Crash, Rest, Reads, SameRows, vars
  <2> QED
    BY <1>1, <2>1, <2>2, <2>3, <2>4 DEF Next, ScanStep
<1>2. ASSUME IInv, Careful, [HNext]_hvars
      PROVE  [Act]_hvars
  <2>1. CASE UNCHANGED hvars
    BY <2>1
  <2>2. CASE HNext
    BY <1>1, <1>2, <2>2 DEF HNext
  <2> QED
    BY <1>2, <2>1, <2>2
<1> QED
  BY <1>2, Carefully, PTL DEF HSpec, EditsReachTheFile

-----------------------------------------------------------------------------
(***************************************************************************)
(* What a scan prunes.                                                     *)
(***************************************************************************)
\* Every audio key the listing has passed is one it has shown, or one it did
\* not show at some moment.
Listing ==
  /\ scan.pc = "list" =>
       Hidden \subseteq unlisted /\ \A k \in Audio : k <= scan.cursor => k \in scan.seen \cup unlisted
  /\ scan.pc \in {"ingest", "reread"} => Audio \subseteq scan.seen \cup unlisted

\* The listing goes on, or ends.
LEMMA ListStepListing ==
  ASSUME IInv, Listing, Unlist, ScanList
  PROVE  Listing'
<1>1. /\ scan \in ScanRecord /\ scan.pc = "list" /\ Hidden \subseteq unlisted
      /\ \A k \in Audio : k <= scan.cursor => k \in scan.seen \cup unlisted
  BY DEF IInv, Scanner, ScanList, Listing
<1>2. \A k \in Audio : k \in Int /\ k \in ObjKey
  BY SizeAssumption DEF ObjKey
<1>3. scan.cursor \in Int
  BY <1>1 DEF ScanRecord, ObjKey
<1>4. ASSUME NEW k \in Audio, k > scan.cursor, k \notin Ahead
      PROVE  k \in unlisted
  BY <1>1, <1>2, <1>4 DEF Ahead, Hidden
<1>5. CASE scan' = [scan EXCEPT !.pc = "ingest"] /\ Ahead = {}
  <2>1. scan'.pc = "ingest" /\ scan'.seen = scan.seen /\ unlisted' = unlisted
    BY <1>1, <1>5 DEF ScanRecord, Unlist
  <2>2. \A k \in Audio : k <= scan.cursor \/ k > scan.cursor
    BY <1>2, <1>3
  <2> QED
    BY <1>1, <1>4, <1>5, <2>1, <2>2 DEF Listing
<1>6. CASE Ahead # {}
  <2> DEFINE k == First(Ahead)
             todo == IF Unchanged(k) THEN scan.todo
                     ELSE scan.todo \cup {[key |-> k, etag |-> Etag(listed[k]), tags |-> NoObj]}
  <2>1. Ahead \in SUBSET ObjKey /\ Ahead \subseteq Audio
    BY <1>1 DEF Ahead, ScanRecord
  <2>2. k \in Ahead /\ k \in Audio /\ \A l \in Ahead : k <= l
    BY <1>6, <2>1, AheadFirst
  <2>3. scan' = [scan EXCEPT !.cursor = k, !.seen = scan.seen \cup {k}, !.todo = todo]
    BY <1>6 DEF ScanList
  <2> HIDE DEF k, todo
  <2>4. /\ scan'.pc = "list" /\ scan'.cursor = k /\ scan'.seen = scan.seen \cup {k}
    BY <1>1, <2>3 DEF ScanRecord
  <2>5. unlisted' = unlisted \cup Hidden'
    BY <2>4 DEF Unlist
  <2>6. ASSUME NEW l \in Audio, l <= k
        PROVE  l \in scan'.seen \cup unlisted'
    <3>1. CASE l <= scan.cursor
      BY <1>1, <2>4, <2>5, <3>1
    <3>2. CASE l = k
      BY <2>4, <3>2
    <3>3. CASE l > scan.cursor /\ l # k
      <4>1. l \notin Ahead
        BY <1>2, <2>2, <2>6, <3>3
      <4> QED
        BY <1>4, <2>5, <3>3, <4>1
    <3> QED
      BY <1>2, <1>3, <3>1, <3>2, <3>3
  <2> QED
    BY <2>4, <2>5, <2>6 DEF Listing
<1> QED
  BY <1>5, <1>6 DEF ScanList

\* A scan that is idle has shown nothing, one that begins has passed nothing.
LEMMA EdgeListing ==
  ASSUME Unlist, scan'.pc = "idle" \/ (scan'.pc = "list" /\ scan'.cursor = 0)
  PROVE  Listing'
<1>1. \A k \in Audio : ~(k <= 0)
  BY SizeAssumption DEF ObjKey
<1> QED
  BY <1>1 DEF Listing, Unlist

\* Past the listing, what has been seen stays.
LEMMA ParsedListing ==
  ASSUME Listing, Unlist, scan.pc \in {"ingest", "reread"}, scan'.pc \in {"ingest", "reread"},
         scan'.seen = scan.seen
  PROVE  Listing'
  BY DEF Listing, Unlist

\* The steps of others, while the listing stands still.
LEMMA StillListing ==
  ASSUME Listing, Unlist, scan'.pc = scan.pc, scan'.cursor = scan.cursor, scan'.seen = scan.seen,
         scan.pc \in {"idle", "list", "ingest", "reread"}
  PROVE  Listing'
  BY DEF Listing, Unlist

\* Every step keeps it.
LEMMA NextListing ==
  ASSUME IInv, Careful, Listing, HNext
  PROVE  Listing'
<1>1. Unlist /\ Next /\ Disturb /\ scan \in ScanRecord
      /\ scan.pc \in {"idle", "list", "ingest", "reread"}
  BY DEF HNext, IInv, Scanner, ScanRecord
<1>2. ASSUME NEW t \in Task, SubmitStep(t) \/ Proper(t)
      PROVE  Listing'
  <2>1. SameProgress
    BY <1>1, <1>2, SubmitCares, ProperCares DEF SameScan, SameProgress
  <2> QED
    BY <1>1, <2>1, StillListing DEF SameProgress
<1>3. ASSUME BackgroundScan \/ \E t \in Task : WriteBackScan(t)
      PROVE  Listing'
  <2>1. scan'.pc = "list" /\ scan'.cursor = 0
    BY <1>3 DEF BackgroundScan, WriteBackScan, BeginScan, NoScan
  <2> QED
    BY <1>1, <2>1, EdgeListing
<1>4. CASE ScanList
  BY <1>1, <1>4, ListStepListing
<1>5. CASE ScanParse \/ ScanWrite \/ ScanReread \/ ScanPrune
  <2>1. /\ scan.pc \in {"ingest", "reread"} /\ scan'.pc \in {"ingest", "reread"}
        /\ scan'.seen = scan.seen
    BY <1>1, <1>5 DEF ScanParse, ScanWrite, ScanReread, ScanPrune, ScanRecord
  <2> QED
    BY <1>1, <2>1, ParsedListing
<1>6. CASE ScanFinish \/ ScanFails \/ ScanDropped \/ Crash
  <2>1. scan' = NoScan
    BY <1>6 DEF ScanFinish, ScanFails, ScanDropped, ScanReturns, Crash
  <2>2. scan'.pc = "idle"
    BY <2>1 DEF NoScan
  <2> QED
    BY <1>1, <2>2, EdgeListing
<1>7. CASE (\E i \in Id : UpdateTags(i)) \/ ListCatchesUp \/ Rest
  <2>1. scan' = scan
    BY <1>7 DEF UpdateTags, ListCatchesUp, Rest, vars, SameScan
  <2> QED
    BY <1>1, <2>1, StillListing
<1> QED
  BY <1>1, <1>2, <1>3, <1>4, <1>5, <1>6, <1>7
     DEF Next, TaskStep, WriteBackStep, ScanStep, Proper

\* The step of a scan that deletes a row deletes that of a key it has not seen.
LEMMA PrunesUnseen ==
  ASSUME IInv, Careful, Next, Disturb, NEW i \in Id, tracks[i] # NoRow, tracks'[i] = NoRow,
         scan' # scan
  PROVE  scan.pc = "ingest" /\ tracks[i].key \notin scan.seen
<1>1. tracks' # tracks
  OBVIOUS
<1>2. ~\E t \in Task : SubmitStep(t) \/ TaskStep(t)
  <2>1. ASSUME NEW t \in Task, SubmitStep(t) \/ TaskStep(t)
        PROVE  FALSE
    <3>1. ~SubmitStep(t) /\ ~WriteBackScan(t)
      BY <1>1 DEF SubmitStep, SubmitUpload, SubmitWriteBack, SubmitDelete, SubmitMove, Submit,
         WriteBackScan, BeginScan, Reads, SameRows
    <3>2. Proper(t)
      BY <2>1, <3>1 DEF Proper, TaskStep, WriteBackStep
    <3> QED
      BY <3>2, ProperCares DEF SameScan
  <2> QED
    BY <2>1
<1>3. ~ScanWrite
  <2>1. ASSUME ScanWrite
        PROVE  FALSE
    <3>1. PICK x \in scan.todo : x.tags # NoObj /\ Upsert(x.key, x.etag, x.tags)
      BY <2>1 DEF ScanWrite, Unparsed
    <3>2. x.key \in ObjKey /\ x.etag \in Etags /\ x.tags \in Content
      BY <3>1 DEF IInv, Scanner, ScanRecord, Item
    <3> QED
      BY <3>1, <3>2, UpsertRows DEF IInv
  <2> QED
    BY <2>1
<1>4. ~(\/ \E j \in Id : UpdateTags(j)
        \/ ScanList \/ ScanParse \/ ScanReread
        \/ BackgroundScan \/ ScanFinish \/ ScanFails \/ ScanDropped \/ ListCatchesUp \/ Crash
        \/ Rest)
  BY <1>1 DEF UpdateTags, ScanList, ScanParse, ScanReread, BackgroundScan, BeginScan, ScanFinish,
     ScanFails, ScanDropped, ListCatchesUp, Crash, Rest, Reads, SameRows, vars
<1>5. ScanPrune
  BY <1>2, <1>3, <1>4 DEF Next, ScanStep
<1>6. PICK x \in Vanished : DeleteRows(RowsAt(x.key))
  BY <1>5 DEF ScanPrune
<1>7. i \in RowsAt(x.key)
  BY <1>6 DEF DeleteRows
<1> QED
  BY <1>5, <1>6, <1>7 DEF ScanPrune, Vanished, RowsAt

\* ScanReport::deleted: whatever the scan is given to list, whoever changes
\* the store beside it and however LIST lags, it deletes the row of an audio
\* key only if LIST did not show the key at some moment of the scan.
THEOREM ScansPruneUnlisted == HSpec => ScanPrunesUnlisted
<1> DEFINE Act == \A i \in Id :
                    tracks[i] # NoRow /\ tracks'[i] = NoRow /\ scan' # scan /\ tracks[i].key \in Audio =>
                      tracks[i].key \in unlisted
<1>1. HInit => Listing
  BY DEF HInit, Init, NoScan, Listing
<1>2. ASSUME IInv, Careful, Listing, [HNext]_hvars
      PROVE  Listing'
  <2>1. CASE UNCHANGED hvars
    BY <1>2, <2>1 DEF hvars, vars, Listing, Hidden
  <2> QED
    BY <1>2, <2>1, NextListing
<1>3. ASSUME IInv, Careful, Listing, [HNext]_hvars
      PROVE  [Act]_hvars
  <2>1. CASE UNCHANGED hvars
    BY <2>1
  <2>2. CASE HNext
    BY <1>3, <2>2, PrunesUnseen DEF HNext, Listing
  <2> QED
    BY <1>3, <2>1, <2>2
<1> QED
  BY <1>1, <1>2, <1>3, Carefully, PTL DEF HSpec, ScanPrunesUnlisted
=============================================================================
