--------------------------- MODULE TranscodeCache ---------------------------
(***************************************************************************)
(* On-demand transcoding and its cache (server/src/transcode): a request   *)
(* takes the lock of its cache key, looks for a finished product, and      *)
(* otherwise waits for a permit, runs FFmpeg while the client listens,     *)
(* and, when the client has consumed everything, stores the product and    *)
(* registers it.  A client may leave at any moment; whatever its request   *)
(* has put into the cache by then has to go again.                         *)
(*                                                                         *)
(* One target format is modelled, so a cache key is a track.  The locks    *)
(* and the permits are fair queues: the heads of a queue own them.  Each   *)
(* await on a store or on SQLite is a step and may fail, within a budget.  *)
(* The operations of the library change the sources beside it, each as a   *)
(* single step here.                                                       *)
(***************************************************************************)
EXTENDS Integers, Sequences, FiniteSets

CONSTANTS
  Request,     \* the stream requests of a run
  Track,       \* track ids; ids are never reused (AUTOINCREMENT)
  Path,        \* object keys of the library
  Homes,       \* libraries to start with: the path of each track, or Unborn
  Shard,       \* Shard[t]: the mutex the hash of the cache key selects
  Permits,     \* FFmpeg processes allowed at once
  MaxFaults,   \* bound: failing calls in a behaviour
  MaxChanges,  \* bound: changes of the library in a behaviour
  MaxCrashes,  \* bound: crashes of the server
  Ranged,      \* the requests with a Range header
  Unborn, Deleted, Nothing

ASSUME PermitsAssumption == Permits \in Nat \ {0}
ASSUME HomeAssumption == Homes \subseteq [Track -> Path \cup {Unborn}]
ASSUME NamesAssumption == {Unborn, Deleted} \cap Path = {} /\ Unborn # Deleted
ASSUME BoundsAssumption == {MaxFaults, MaxChanges, MaxCrashes} \subseteq Nat

VARIABLES
  source,     \* source[t]: the path of track t, Unborn or Deleted
  objects,    \* objects[p]: the audio object at p: <<its track, its version>>
  rows,       \* the tracks with a row in transcode_cache
  cache,      \* cache[t]: the object at the cache key of t
  req,        \* req[r]: the local state of request r
  connected,  \* connected[r]: the client of r still holds its stream
  lines,      \* lines[s]: the queue of mutex s, its owner first
  permits,    \* the queue of the semaphore, the holders first
  unclean,    \* the tracks for which the log reports a failed clean-up
  changes, faults, crashes

vars == <<source, objects, rows, cache, req, connected, lines, permits, unclean,
          changes, faults, crashes>>
library == <<source, objects, changes>>
stored == <<rows, cache, unclean>>

Contents == Track \X (0..MaxChanges)
Product == [by : Request, from : SUBSET Contents, whole : BOOLEAN]
ASSUME NothingAssumption == Nothing \notin Contents \cup Product

Idle == [pc |-> "idle", track |-> Nothing, path |-> Nothing, fed |-> 0,
         product |-> Nothing, put |-> "none", cancel |-> FALSE,
         after |-> "none", outcome |-> "none"]
Places == {"idle", "rangeGet", "rangeHead", "rangeRead", "line", "head", "forget", "pump",
           "permit", "run", "terminal", "persist", "cancelled", "dropRow",
           "dropObject", "finalize", "done"}
Persisted == {"committed", "cancelled", "failed"}
Persisting == {"put", "upsert", "undo", "check", "dropRow", "dropObject"}

TypeOK ==
  /\ source \in [Track -> Path \cup {Unborn, Deleted}]
  /\ objects \in [Path -> Contents \cup {Nothing}]
  /\ rows \subseteq Track /\ unclean \subseteq Track
  /\ cache \in [Track -> Product \cup {Nothing}]
  /\ \A r \in Request :
       /\ req[r].pc \in Places /\ req[r].fed \in 0..2
       /\ req[r].pc \notin {"idle", "done"} => req[r].track \in Track /\ req[r].path \in Path
       /\ req[r].put \in Persisting \cup Persisted \cup {"none"}
       /\ req[r].product \in Product \cup {Nothing}
       /\ req[r].after \in {"none", "done", "finalize"}
       /\ req[r].outcome \in {"none", "served", "failed", "interrupted", "lost"}
  /\ connected \in [Request -> BOOLEAN]
  /\ \A t \in Track : lines[Shard[t]] \in Seq(Request)
  /\ permits \in Seq(Request)
  /\ changes \in 0..MaxChanges /\ faults \in 0..MaxFaults /\ crashes \in 0..MaxCrashes

Init ==
  /\ source \in Homes
  /\ objects = [p \in Path |->
       IF \E t \in Track : source[t] = p THEN <<CHOOSE t \in Track : source[t] = p, 0>> ELSE Nothing]
  /\ rows = {} /\ unclean = {}
  /\ cache = [t \in Track |-> Nothing]
  /\ req = [r \in Request |-> Idle]
  /\ connected = [r \in Request |-> FALSE]
  /\ lines = [s \in {Shard[t] : t \in Track} |-> <<>>]
  /\ permits = <<>>
  /\ changes = 0 /\ faults = 0 /\ crashes = 0
-----------------------------------------------------------------------------
Fault == faults < MaxFaults /\ faults' = faults + 1
NoFault == UNCHANGED faults

At(r, pc) == req[r].pc = pc
Goto(r, pc) == req' = [req EXCEPT ![r].pc = pc]
\* The queue s without r, which waits in it at most once.
Without(s, r) ==
  IF \E i \in DOMAIN s : s[i] = r
  THEN LET at == CHOOSE i \in DOMAIN s : s[i] = r
       IN SubSeq(s, 1, at - 1) \o SubSeq(s, at + 1, Len(s))
  ELSE s
OwnsKey(r) == LET line == lines[Shard[req[r].track]] IN line # <<>> /\ Head(line) = r
HasPermit(r) == \E i \in 1..Len(permits) : i <= Permits /\ permits[i] = r
Product0(r) == [by |-> r, from |-> {}, whole |-> FALSE]

Ended(outcome) == [Idle EXCEPT !.pc = "done", !.outcome = outcome]

\* Mutant: the permit stays with a request that has ended.
Return_KeepsPermit(r, outcome) ==
  /\ req' = [req EXCEPT ![r] = Ended(outcome)]
  /\ lines' = [lines EXCEPT ![Shard[req[r].track]] = Without(@, r)]
  /\ UNCHANGED permits
\* The task ends: its key guard and its permit, or its place in their queues, drop.
Return(r, outcome) ==
  /\ req' = [req EXCEPT ![r] = Ended(outcome)]
  /\ lines' = [lines EXCEPT ![Shard[req[r].track]] = Without(@, r)]
  /\ permits' = Without(permits, r)

Waits(r, pc) == Goto(r, pc) /\ UNCHANGED <<lines, permits>>
\* send_error, then the end.
Fails(r) == Return(r, "failed")

\* The wait for a permit starts.
AwaitPermit(r) ==
  /\ Goto(r, "permit")
  /\ permits' = Append(permits, r)
  /\ UNCHANGED lines
-----------------------------------------------------------------------------
(* The handler of /rest/stream and the start of the task it spawns.        *)

\* A track is found and its object key read; the task queues for its cache
\* key, except that a Range request looks for the product itself first.
Stream(r, t) ==
  /\ At(r, "idle") /\ source[t] \in Path
  /\ connected' = [connected EXCEPT ![r] = TRUE]
  /\ req' = [req EXCEPT ![r].pc = IF r \in Ranged THEN "rangeGet" ELSE "line",
                        ![r].track = t, ![r].path = source[t],
                        ![r].product = Product0(r)]
  /\ lines' = IF r \in Ranged THEN lines
              ELSE [lines EXCEPT ![Shard[t]] = Append(@, r)]
  /\ UNCHANGED <<library, stored, permits, faults, crashes>>

EnterLine(r) ==
  /\ Goto(r, "line")
  /\ lines' = [lines EXCEPT ![Shard[req[r].track]] = Append(@, r)]
  /\ UNCHANGED permits

\* A failing lookup of the index, or a failing head, falls back to the task.
RangeGet(r) ==
  /\ At(r, "rangeGet")
  /\ \/ Fault /\ EnterLine(r)
     \/ NoFault /\ IF req[r].track \in rows THEN Waits(r, "rangeHead") ELSE EnterLine(r)
  /\ UNCHANGED <<library, stored, connected, crashes>>

RangeHead(r) ==
  /\ At(r, "rangeHead")
  /\ \/ Fault /\ EnterLine(r)
     \/ NoFault /\ IF cache[req[r].track] # Nothing THEN Waits(r, "rangeRead") ELSE EnterLine(r)
  /\ UNCHANGED <<library, stored, connected, crashes>>

\* object_response: the product is read without the lock of its key.
RangeRead(r) ==
  /\ At(r, "rangeRead")
  /\ \/ Fault /\ Fails(r)
     \/ NoFault /\ Return(r, IF cache[req[r].track] = Nothing THEN "failed" ELSE "served")
  /\ UNCHANGED <<library, stored, connected, crashes>>

\* tx.closed() while the task waits for the lock or for a permit; the handler
\* of a Range request is dropped with its connection.
GiveUp(r) ==
  /\ req[r].pc \in {"rangeGet", "rangeHead", "rangeRead", "line", "permit"} /\ ~connected[r]
  /\ Return(r, "interrupted")
  /\ UNCHANGED <<library, stored, connected, faults, crashes>>

\* The client drops its stream.
Disconnect(r) ==
  /\ connected[r] /\ ~At(r, "done")
  /\ connected' = [connected EXCEPT ![r] = FALSE]
  /\ UNCHANGED <<library, stored, req, lines, permits, faults, crashes>>
-----------------------------------------------------------------------------
(* cached_object and the hit.                                              *)

\* Mutant: the row is looked up before the lock of the key is there.
Lookup_Unlocked(r) ==
  /\ At(r, "line")
  /\ \/ Fault /\ Fails(r)
     \/ NoFault /\ IF req[r].track \in rows THEN Waits(r, "head") ELSE AwaitPermit(r)
  /\ UNCHANGED <<library, stored, connected, crashes>>
Lookup(r) ==
  /\ At(r, "line") /\ OwnsKey(r)
  /\ \/ Fault /\ Fails(r)
     \/ NoFault /\ IF req[r].track \in rows THEN Waits(r, "head") ELSE AwaitPermit(r)
  /\ UNCHANGED <<library, stored, connected, crashes>>

HeadCached(r) ==
  /\ At(r, "head")
  /\ \/ Fault /\ Fails(r)
     \/ NoFault /\ Waits(r, IF cache[req[r].track] # Nothing THEN "pump" ELSE "forget")
  /\ UNCHANGED <<library, stored, connected, crashes>>

\* The object of a row is gone: the row goes too, and the request is a miss.
Forget(r) ==
  /\ At(r, "forget")
  /\ \/ Fault /\ Fails(r) /\ UNCHANGED rows
     \/ NoFault /\ AwaitPermit(r) /\ rows' = rows \ {req[r].track}
  /\ UNCHANGED <<library, cache, unclean, connected, crashes>>

\* pump_object: the product goes to the client chunk by chunk.
Pump(r) ==
  /\ At(r, "pump")
  /\ \/ Fault /\ Fails(r)
     \/ NoFault /\ Return(r, IF ~connected[r] THEN "interrupted"
                             ELSE IF cache[req[r].track] = Nothing THEN "failed" ELSE "served")
  /\ UNCHANGED <<library, stored, connected, crashes>>
-----------------------------------------------------------------------------
(* ffmpeg::run: the source is fed in ranges, the output goes to the client *)
(* and to a temporary file.                                                *)

\* Mutant: nobody counts the processes.
Start_Unlimited(r) ==
  /\ At(r, "permit")
  /\ Waits(r, "run")
  /\ UNCHANGED <<library, stored, connected, faults, crashes>>
Start(r) ==
  /\ At(r, "permit") /\ HasPermit(r)
  /\ Waits(r, "run")
  /\ UNCHANGED <<library, stored, connected, faults, crashes>>

\* Mutant: the end of the source is not noticed.
Feed_PastTheEnd(r) ==
  /\ At(r, "run") /\ objects[req[r].path] # Nothing
  /\ req' = [req EXCEPT ![r].fed = @ + 1,
                        ![r].product.from = @ \cup {objects[req[r].path]}]
  /\ UNCHANGED <<library, stored, connected, lines, permits, faults, crashes>>
\* The next range of the source; the path is the one the request began with.
Feed(r) ==
  /\ At(r, "run") /\ req[r].fed < 2 /\ objects[req[r].path] # Nothing
  /\ req' = [req EXCEPT ![r].fed = @ + 1,
                        ![r].product.from = @ \cup {objects[req[r].path]}]
  /\ UNCHANGED <<library, stored, connected, lines, permits, faults, crashes>>

RunEnds(r) ==
  /\ At(r, "run") /\ req[r].fed = 2
  /\ req' = [req EXCEPT ![r].pc = "terminal", ![r].product.whole = TRUE]
  /\ permits' = Without(permits, r)
  /\ UNCHANGED <<library, stored, connected, lines, faults, crashes>>

\* Mutant: the exit status of FFmpeg is not looked at.
RunFails_AsSuccess(r) ==
  /\ At(r, "run")
  /\ \/ Fault
     \/ NoFault /\ req[r].fed < 2 /\ objects[req[r].path] = Nothing
  /\ Goto(r, "terminal")
  /\ permits' = Without(permits, r)
  /\ UNCHANGED <<library, stored, connected, lines, crashes>>
\* The source is gone, a read or the process fails: the permit comes back,
\* the client gets the error.
RunFails(r) ==
  /\ At(r, "run")
  /\ \/ Fault
     \/ NoFault /\ req[r].fed < 2 /\ objects[req[r].path] = Nothing
  /\ Fails(r)
  /\ UNCHANGED <<library, stored, connected, crashes>>

\* The client is gone: the process is killed.
RunAborted(r) ==
  /\ At(r, "run") /\ ~connected[r]
  /\ Return(r, "interrupted")
  /\ UNCHANGED <<library, stored, connected, faults, crashes>>
-----------------------------------------------------------------------------
(* The end of the stream, and the product on its way into the cache.       *)

\* send_terminal: only a client that has polled past the last chunk goes on.
Terminal(r) ==
  /\ At(r, "terminal")
  /\ IF connected[r]
     THEN /\ req' = [req EXCEPT ![r].pc = "persist", ![r].put = "put"]
          /\ UNCHANGED <<lines, permits>>
     ELSE Return(r, "interrupted")
  /\ UNCHANGED <<library, stored, connected, faults, crashes>>

Sub(r, put) == req[r].put = put /\ req[r].pc \in {"persist", "cancelled"}
SubGoto(r, put) == req' = [req EXCEPT ![r].put = put]
SameTask == UNCHANGED <<library, connected, lines, permits, crashes>>
Stores(r) == cache' = [cache EXCEPT ![req[r].track] = req[r].product]
Deletes(r) == cache' = [cache EXCEPT ![req[r].track] = Nothing]
MarksUnclean(r) == unclean' = unclean \cup {req[r].track}

\* put_file; a put that fails, or that cancellation drops, may have landed.
PersistPut(r) ==
  /\ Sub(r, "put")
  /\ \/ NoFault /\ ~req[r].cancel /\ Stores(r) /\ SubGoto(r, "upsert")
     \/ Fault /\ ~req[r].cancel /\ (Stores(r) \/ UNCHANGED cache) /\ SubGoto(r, "failed")
     \/ NoFault /\ req[r].cancel /\ (Stores(r) \/ UNCHANGED cache) /\ SubGoto(r, "cancelled")
  /\ SameTask /\ UNCHANGED <<rows, unclean>>

\* The row refers to the track: no track, no row.
PersistUpsert(r) ==
  /\ Sub(r, "upsert")
  /\ \/ NoFault /\ source[req[r].track] # Deleted
        /\ rows' = rows \cup {req[r].track} /\ SubGoto(r, "check")
     \/ NoFault /\ source[req[r].track] = Deleted /\ UNCHANGED rows /\ SubGoto(r, "undo")
     \/ Fault /\ UNCHANGED rows /\ SubGoto(r, "undo")
  /\ SameTask /\ UNCHANGED <<cache, unclean>>

PersistUndo(r) ==
  /\ Sub(r, "undo")
  /\ SubGoto(r, "failed")
  /\ \/ NoFault /\ Deletes(r)
     \/ Fault /\ (Deletes(r) \/ UNCHANGED cache)
  /\ SameTask /\ UNCHANGED <<rows, unclean>>

PersistCheck(r) ==
  /\ Sub(r, "check")
  /\ SubGoto(r, IF req[r].cancel THEN "dropRow" ELSE "committed")
  /\ SameTask /\ NoFault /\ UNCHANGED stored

\* discard removes the row, then the object, whatever the first attempt gave.
RemoveRow(r) ==
  \/ NoFault /\ rows' = rows \ {req[r].track} /\ UNCHANGED unclean
  \/ Fault /\ UNCHANGED rows /\ MarksUnclean(r)
RemoveObject(r) ==
  \/ NoFault /\ Deletes(r) /\ UNCHANGED unclean
  \/ Fault /\ (Deletes(r) \/ UNCHANGED cache) /\ MarksUnclean(r)

PersistDiscard(r) ==
  \/ /\ Sub(r, "dropRow") /\ RemoveRow(r) /\ SubGoto(r, "dropObject")
     /\ SameTask /\ UNCHANGED cache
  \/ /\ Sub(r, "dropObject") /\ RemoveObject(r) /\ SubGoto(r, "cancelled")
     /\ SameTask /\ UNCHANGED rows
-----------------------------------------------------------------------------
(* The task of the request, beside the one that persists its product.      *)

\* tx.closed() comes before the result in the biased select.
Cancel(r) ==
  /\ At(r, "persist") /\ ~connected[r]
  /\ req' = [req EXCEPT ![r].pc = "cancelled", ![r].cancel = TRUE]
  /\ UNCHANGED <<library, stored, connected, lines, permits, faults, crashes>>

Discards(r, after) == req' = [req EXCEPT ![r].pc = "dropRow", ![r].after = after]

\* Mutant: the cancelled product is left to the task that persists it.
AwaitCancelled_Trusts(r) ==
  /\ At(r, "cancelled") /\ req[r].put \in Persisted
  /\ Return(r, "interrupted")
  /\ UNCHANGED <<library, stored, connected, faults, crashes>>
\* The persisting task has answered the cancellation: discard in any case.
AwaitCancelled(r) ==
  /\ At(r, "cancelled") /\ req[r].put \in Persisted
  /\ Discards(r, "done")
  /\ UNCHANGED <<library, stored, connected, lines, permits, faults, crashes>>

AwaitPersisted(r) ==
  /\ At(r, "persist") /\ connected[r] /\ req[r].put \in Persisted
  /\ IF req[r].put = "failed" THEN Discards(r, "finalize") ELSE Goto(r, "finalize")
  /\ UNCHANGED <<library, stored, connected, lines, permits, faults, crashes>>

\* Mutant: nobody looks whether the client was still there.
Finalize_Always(r) ==
  /\ At(r, "finalize")
  /\ Return(r, IF connected[r] THEN "served" ELSE "interrupted")
  /\ UNCHANGED <<library, stored, connected, faults, crashes>>
\* finalized.send: the client gets its end of stream, or it was gone.
Finalize(r) ==
  /\ At(r, "finalize")
  /\ IF connected[r] THEN Return(r, "served")
     ELSE Discards(r, "done") /\ UNCHANGED <<lines, permits>>
  /\ UNCHANGED <<library, stored, connected, faults, crashes>>

DiscardRow(r) ==
  /\ At(r, "dropRow") /\ RemoveRow(r) /\ Goto(r, "dropObject")
  /\ UNCHANGED <<library, cache, connected, lines, permits, crashes>>

DiscardObject(r) ==
  /\ At(r, "dropObject") /\ RemoveObject(r)
  /\ IF req[r].after = "finalize"
     THEN Waits(r, "finalize") ELSE Return(r, "interrupted")
  /\ UNCHANGED <<library, rows, connected, crashes>>
-----------------------------------------------------------------------------
(* The library's operations, and a crash of the server.                    *)

Changes == changes < MaxChanges /\ changes' = changes + 1
SameServer == UNCHANGED <<cache, unclean, req, connected, lines, permits, faults, crashes>>

\* An upload over a track, or a write-back, replaces its object.
Replace(t) ==
  /\ source[t] \in Path /\ Changes
  /\ objects' = [objects EXCEPT ![source[t]] = <<t, changes + 1>>]
  /\ SameServer /\ UNCHANGED <<source, rows>>

Move(t, p) ==
  /\ source[t] \in Path /\ objects[p] = Nothing /\ Changes
  /\ objects' = [objects EXCEPT ![p] = objects[source[t]], ![source[t]] = Nothing]
  /\ source' = [source EXCEPT ![t] = p]
  /\ SameServer /\ UNCHANGED rows

\* The row of the track takes its transcode_cache row with it.
Delete(t) ==
  /\ source[t] \in Path /\ Changes
  /\ objects' = [objects EXCEPT ![source[t]] = Nothing]
  /\ source' = [source EXCEPT ![t] = Deleted]
  /\ rows' = rows \ {t}
  /\ SameServer

Upload(t, p) ==
  /\ source[t] = Unborn /\ objects[p] = Nothing /\ Changes
  /\ objects' = [objects EXCEPT ![p] = <<t, changes + 1>>]
  /\ source' = [source EXCEPT ![t] = p]
  /\ SameServer /\ UNCHANGED rows

LibraryStep ==
  \/ \E t \in Track : Replace(t) \/ Delete(t)
  \/ \E t \in Track, p \in Path : Move(t, p) \/ Upload(t, p)

\* Every task ends where it is; files of the process are gone.
Crash ==
  /\ crashes < MaxCrashes /\ crashes' = crashes + 1
  /\ req' = [r \in Request |->
       IF req[r].pc \in {"idle", "done"} THEN req[r]
       ELSE Ended("lost")]
  /\ connected' = [r \in Request |-> FALSE]
  /\ lines' = [s \in DOMAIN lines |-> <<>>]
  /\ permits' = <<>>
  /\ UNCHANGED <<library, stored, faults>>

\* What one request does next by itself.
TaskStep(r) ==
  \/ RangeGet(r) \/ RangeHead(r) \/ RangeRead(r) \/ GiveUp(r)
  \/ Lookup(r) \/ HeadCached(r) \/ Forget(r) \/ Pump(r)
  \/ Start(r) \/ Feed(r) \/ RunEnds(r) \/ RunFails(r) \/ RunAborted(r)
  \/ Terminal(r) \/ PersistPut(r) \/ PersistUpsert(r) \/ PersistUndo(r)
  \/ PersistCheck(r) \/ PersistDiscard(r)
  \/ Cancel(r) \/ AwaitCancelled(r) \/ AwaitPersisted(r) \/ Finalize(r)
  \/ DiscardRow(r) \/ DiscardObject(r)

\* No request is under way.
Active(r) == req[r].pc \notin {"idle", "done"}
Rest == (\A r \in Request : ~Active(r)) /\ UNCHANGED vars

Next ==
  \/ \E r \in Request : TaskStep(r) \/ Disconnect(r) \/ (\E t \in Track : Stream(r, t))
  \/ LibraryStep \/ Crash \/ Rest

Spec == Init /\ [][Next]_vars

\* The runtime polls every task that can move; the mutexes and the semaphore
\* of tokio are fair queues.  A client reads on or leaves: its reads are part
\* of the steps it waits for.
FairSpec == Spec /\ \A r \in Request : WF_vars(TaskStep(r))
-----------------------------------------------------------------------------
\* A registered product is there and whole at every moment, whatever fails or
\* crashes, unless the log reports that its clean-up failed: the row is
\* written after the object and removed before it (cache.rs).
RegisteredIsWhole ==
  \A t \in rows \ unclean : cache[t] # Nothing /\ cache[t].whole

\* What stays in the cache is registered and was made for a client that
\* consumed all of it: what a request that was interrupted or failed has put
\* there is gone when the request has ended, unless the server crashed, the
\* track was deleted or the log reports a failed clean-up.
OnlyServedIsKept ==
  \A t \in Track \ unclean : cache[t] # Nothing =>
    LET maker == req[cache[t].by] IN
    \/ Active(cache[t].by) \/ maker.outcome = "lost"
    \/ maker.outcome = "served" /\ (t \in rows \/ source[t] = Deleted)

\* No more than Permits processes run, and never two for one cache key.
RunsAreLimited ==
  LET running == {r \in Request : At(r, "run")} IN
  /\ Cardinality(running) <= Permits
  /\ \A r, s \in running : req[r].track = req[s].track => r = s

\* FFmpeg is never started for a product that is already registered: whoever
\* waited for the lock of the key looks again.
NoSecondTranscode ==
  [][\A r \in Request : ~At(r, "run") /\ req'[r].pc = "run" => req[r].track \notin rows]_vars

\* A request that has found the product under the lock of its key never finds
\* it gone while it reads.
HitsAreServed ==
  [][\A r \in Request : At(r, "pump") /\ connected[r] /\ req'[r].outcome = "failed"
       => faults' > faults]_vars

\* Every request ends: no lock and no permit is lost on the way.
RequestsEnd == \A r \in Request : Active(r) ~> At(r, "done")

\* What is registered for a track was made from the audio of that track.
ProductIsOfItsTrack ==
  \A t \in rows : \A c \in cache[t].from : c[1] = t
=============================================================================
