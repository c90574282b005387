--------------------------- MODULE LibraryHistory ---------------------------
(***************************************************************************)
(* LibraryOps with two history variables that its properties need and no   *)
(* step reads: the keys at which something has happened that no operation  *)
(* can compensate for, and the keys a scan has not been shown.             *)
(***************************************************************************)
EXTENDS LibraryOps

VARIABLES
  disturbed,  \* the keys whose agreement nobody promises any more
  unlisted    \* the keys LIST did not show to the scan at some moment of it

hvars == <<vars, disturbed, unlisted>>

\* Keys without an audio extension are outside the index from the start.
HInit == Init /\ disturbed = ObjKey \ Audio /\ unlisted = {}
-----------------------------------------------------------------------------
(* What disturbs a key in a step.                                          *)

\* The server stops while an operation holds it.
CrashedAt == {k \in ObjKey : crashes' # crashes /\ Locked(k)}

\* A put there has reported an error and taken effect.
LostAt == {k \in ObjKey : faults' # faults /\ store'[k] \notin {store[k], NoObj}}

\* A scan changes its rows, and the scan's caller does not hold it: a
\* background scan, or the scan of a write-back that reaches other keys.
RowChanges(k) ==
  \E i \in Id : tracks'[i] # tracks[i] /\ \E r \in {tracks[i], tracks'[i]} \ {NoRow} : r.key = k
HeldByScan(k) == \E t \in Task : t = scan.owner /\ <<"object", k>> \in locks[t]
ScannedAt == {k \in ObjKey : scan' # scan /\ RowChanges(k) /\ ~HeldByScan(k)}

\* A write-back scans it, and LIST does not show the object that is there.
MisledAt ==
  {k \in ObjKey :
     /\ scan.pc = "list" /\ (k \in scan.lists => listed[k] # store[k])
     /\ \E t \in Task : t = scan.owner /\ op[t].src.key = k}

\* A row moves to it from a disturbed key.
ReachedAt ==
  {k \in ObjKey : \E i \in Id :
     /\ tracks[i] # NoRow /\ tracks[i].key \in disturbed
     /\ tracks'[i] # NoRow /\ tracks'[i].key = k}

\* Or the log asks for its reconciliation by hand.
Disturb ==
  disturbed' = disturbed \cup flagged' \cup CrashedAt \cup LostAt \cup ScannedAt
                 \cup MisledAt \cup ReachedAt

Hidden == {k \in ObjKey : k \in scan.lists => listed[k] = NoObj}
Unlist ==
  unlisted' = IF scan'.pc = "idle" THEN {}
              ELSE IF scan'.pc = "list" THEN unlisted \cup Hidden' ELSE unlisted

HNext == Next /\ Disturb /\ Unlist
HSpec == HInit /\ [][HNext]_hvars
-----------------------------------------------------------------------------
(* Properties.                                                             *)

\* The index and the store agree at every undisturbed key that no operation
\* holds: each compensation of operation.rs restores the agreement or logs.
Consistent == \A k \in ObjKey \ disturbed : ~Locked(k) => Indexed(k)

\* A write-back, delete or move that fails at undisturbed keys, and so without
\* asking for reconciliation, has changed nothing: the object it had backed up
\* is at its key, the row is as it was, and a move leaves nothing behind at its
\* destination.
FailureRestores ==
  [][\A t \in Task :
       LET o == op[t] IN
       /\ o.backup # NoObj /\ o.kind # "upload"
       /\ op'[t].result = "error" /\ KeysOf(o) \cap disturbed' = {}
       => /\ store'[o.src.key] = o.backup
          /\ tracks'[o.id] # NoRow /\ SameSource(tracks'[o.id], o.src)
          /\ o.kind = "move" => store'[o.key] = NoObj]_hvars

\* A tag edit leaves the overlay only with its row, or by a write-back that
\* wrote its field; and then, if the key of the write-back is undisturbed, its
\* object and its row have what was written.
EditsReachTheFile ==
  [][\A e \in overrides \ overrides' :
       \/ tracks'[e[1]] = NoRow
       \/ \E t \in Task :
            LET o == op[t] IN
            /\ At(t, "writeBack", "clear") /\ o.id = e[1] /\ e[2] \in o.fields
            /\ o.src.key \notin disturbed' =>
                 /\ store'[o.src.key] = o.new
                 /\ tracks'[o.id] # NoRow /\ tracks'[o.id].key = o.src.key
                 /\ tracks'[o.id].tags = o.new]_hvars

\* A scan deletes the row of an audio key only if LIST did not show the key at
\* some moment of the scan, however the keys come and go between its pages.
ScanPrunesUnlisted ==
  [][\A i \in Id :
       tracks[i] # NoRow /\ tracks'[i] = NoRow /\ scan' # scan /\ tracks[i].key \in Audio =>
         tracks[i].key \in unlisted]_hvars
=============================================================================
