# Yevune: TLA+ models, checks and proofs

Yevune is a personal music service: a Rust server (`server/`) that keeps audio
files in a Garage (S3) bucket and an index of them in SQLite, speaks the
OpenSubsonic API with extensions, and transcodes on the fly; a Rust client
library (`core/`); and an Apple client (`clients/apple`). These modules model
the parts of it where several actors change shared state, where a call can fail
half way, or where a restart must find its way back.

## Inventory

| Component | State | Operations | What is hard | What makes it correct |
|---|---|---|---|---|
| Keyed operation locks (`api/mod.rs`) | weak table key -> mutex, tokio mutexes with FIFO queues | `lock(keys)`, dropping `KeyGuards` | weak entries dropped and upgraded while others wait; several keys one at a time | one owner per key, no deadlock, no starvation, no garbage: **KeyLocks**, **AtomicLocks** |
| Library operations (`api/ext/library*`) | objects in Garage, rows of `tracks`, tag overrides | upload, write-back, delete, move, tag edit | two stores without a common transaction; failures with unknown effect; compensation that fails; crash | after any failure nothing changed or an administrator is told; index and store agree: **LibraryOps** |
| Scanner (`scanner/`) | single-flight flag, snapshot, listing, parsed headers | full and prefix scans, `ingest_object` | takes no lock, works on what it read earlier; LIST lags | repairs what a crash left; deletes only what has vanished: **LibraryOps** |
| Transcoding (`transcode/`) | permits, one lock per cache key, cache objects and rows | stream, persist, discard, cancel | cancellation racing the store and the index write; permits; stale products | a row implies a complete object; permits come back: **TranscodeCache** |
| Playlists and folders (`index/repo_playlist.rs`, `api/playlist.rs`, `api/ext/playlist_tree.rs`) | folder parents, playlists, ordered tracks | create, move, delete, update | check-then-act on parents; read-modify-write of track lists | trees stay private, whole and acyclic; an update edits what it read: **PlaylistTree** |
| Access control (`index/repo_access.rs`, `index/access.rs`, `api/ext/access.rs`, `api/ext/role.rs`) | rules per scope, their grants, roles, who has them | set, get, delete a rule; create, delete, assign a role; the clause in every query | the most specific rule wins; a viewer is read by two queries, an answer by more; principals deleted under a rule | what is shown was allowed, by rules and roles of the time of the request: **AccessControl**, **MediaIndex** |
| Users and start (`auth/`, `api/user.rs`, `setup.rs`) | users, roles of users | authenticate, create, update, delete, first administrator | several statements per request without a transaction; crash between them; tokens that outlive their user | there is an administrator, users have roles, ids and grants die with their owner, or it is known why not: **AccessControl** |
| Annotations, covers (`api/annotation.rs`, `api/ext/cover.rs`, `scanner/cover.rs`) | stars, ratings, play counts, cover objects named by content | star, rate, scrobble, set cover, scan | cover objects are shared; the undoing of a failed upload | a cover that is shown is there: **AccessControl** |
| Media delivery, browsing, search (`api/media.rs`, `api/browsing.rs`, `api/search.rs`, `index/repo_media.rs`) | none | read-only, several queries each | every query has a clause of its own, over tables that change | the queries tell one story; an answer holds nothing hidden: **MediaIndex**, **AccessControl** |
| Apple client: playback (`Audio/`) | queue, shuffle order, generation, player state | play, next, fail, seek | late answers of an earlier load; retries | a late answer never changes the current track |
| Apple client: view models, core client, wire contract | UI state; none | requests | late responses | - |

The server is one process: requests run as tasks on tokio, the four library
operations are spawned as owned tasks that outlive their request, and the
components share `AppState`. Library operations serialise on the keyed locks;
the scanner does not take them. ADR-0006 makes the server the only writer of
the bucket.

## Modules

| Module | Models | Correspondence |
|---|---|---|
| `AtomicLocks` | what an operation may assume of the locks | `Request`, `Enter`, `Leave`: a whole key set is owned in one step |
| `KeyLocks` | `KeyedOperationLocks` | `Lock` is the critical section of the std mutex (retain, upgrade or create), `AcquireFree`/`Enqueue`/`Wake` one `lock_owned().await`, `Release` the drop of one guard |
| `KeyLocksProofs` | theorems about `KeyLocks` | see Proofs |
| `LibraryOps` | the two stores, the four operations, tag edits, the scanner, crashes | one action per await of `operation.rs` (`UploadPut`, `MoveCas`, ...) and per step of `run_scan` |
| `LibraryHistory` | no code: `LibraryOps` with two history variables, and the properties that need them | `disturbed` are the keys at which something happened that no operation compensates for, `unlisted` the keys LIST has not shown to the scan in progress |
| `LibraryOpsProofs`, `CompensationProofs` | theorems about `LibraryOps` and `LibraryHistory`: locks and reconciliation; what compensations restore, what scans prune | see Proofs |
| `TranscodeCache` | `/rest/stream`: `api/media.rs`, `transcode/mod.rs`, `transcode/cache.rs`, `index/repo_transcode_cache.rs` | one action per await of `transcode_stream` and of the task that persists its product; permits and key locks are the queues `permits` and `lines` |
| `TranscodeCacheProofs` | theorems about `TranscodeCache` | see Proofs |
| `PlaylistTree` | the handlers of playlists and playlist folders, and their tables | one action per query of a handler; `Walk` is one turn of the loop of `move_folder` |
| `PlaylistTreeProofs` | theorems about `PlaylistTree` | see Proofs |
| `MediaIndex` | the tables of the library and of its users, and every query that reads them for a viewer (`repo_media.rs`, `repo_access.rs`, `access.rs`, `repo_annotation.rs`, `repo_user.rs`) | a query is a state function; a clause (`Visible`, `AlbumVisibleHaving`, `HasVisibleTrack`) is the SQL fragment of that name |
| `AccessControl` | the handlers of users, roles, rules, annotations, covers and reads; authentication; `ensure_admin`; the scanner's writes to artists, albums and covers | one action per query of a handler; `Stages` is the order of the queries of a reading endpoint |
| `AccessControlProofs`, `RulesProofs`, `AnswersProofs` | theorems about `AccessControl`: principals and covers; keys, rules, refusals and administrators; answers and listings | see Proofs |
| `MC*` | instances for TLC | |

`KeyLocks` numbers the keys in their lexicographic order. A mutex has an
identity that is reused once nobody references it, as the heap does. The pair
"`pc` is `wait`, `holder` is the task" is a waiter that was handed the mutex and
has not been polled yet.

`LibraryOps` takes its locks in one step (`Lock`), which is what `KeyLocks` is
proved to implement. An object is its content; its ETag is a function of the
content (`Tagless` contents have none); a row's tags are the content they were
parsed from; the overlay is a set of pairs of a track and a tag `Field`, and a
write-back drops the pairs of the fields it was given; a `Broken` content cannot be parsed. A call on Garage or SQLite
fails only within the budget `MaxFaults`; a failed delete may or may not have
removed the object, a failed put has taken effect only when `LostPuts`.
`ReturnFlagged` stands for the log lines that ask for manual reconciliation and
records the keys in `flagged`. A crash ends every task, drops their locks and
keeps the stores; stopping the runtime with operations under way is the same.
The multipart body, temporary files, albums, artists, covers and the report of a
scan are left out. `LikePrefix` and `ListPrefix` say which rows and which objects
a scan of one key's prefix sees; in the in-memory store and in the storage
trait's words both are that key.

`TranscodeCache` has one target format, so that a cache key is a track, and two
reads of the source per transcode: enough for the source to change between
them. A product records which contents it was made `from`, whether it is
`whole`, and the request it was made `by`. The tokio semaphore and mutexes are
fair queues whose heads own them (two cache keys may share a shard of the lock
table: `Shard`). The client is `connected` until it drops its stream, which it
may do at any moment. The task that persists a product is the field `put`
of its request: it runs beside the request's own task, which may cancel it. A
put that fails or is dropped has landed by then or never does. `unclean` is the
log line that a clean-up failed. A request with a Range header goes through the
`range...` states: it looks the product up without the lock of its key. The
operations of the library, which `LibraryOps` has in detail, are single steps
here: what matters is that a path may change its content or its track while a
request waits.

`PlaylistTree` has what a handler checked and read in `req`, and the statement
or transaction at its end as one action. Names, comments, dates and the
read-only handlers are left out; ids are never reused. `DropTrack` and
`DropUser` stand for the library and the administration, and do to these tables
what `ON DELETE CASCADE` does. `updatePlaylist` takes an index that is given twice
two tracks down (`api/playlist.rs:178` sorts but does not remove duplicates), so
`UpdateEditsWhatItRead` speaks of requests whose indices are distinct. `overlap` is history: it says that two moves of
folders had read the tree before either wrote.

`AccessControl` extends `MediaIndex` by what changes its tables. A handler is in
`task`: who it runs for (`me`, `name`, `admin`: `CurrentUser`), the viewer it
resolved (`view`, `bypass`: two queries, so two fields), the queries it has
left (`todo` in any order, as `tokio::join!` runs them, `later` after them) and
what the answer holds so far (`got`). A transaction is one action, and so is a
single statement; two queries are two actions, with everything in between. A
query may fail and a client may leave at any step (`Abort`); a crash ends all
requests and starts the process anew with `ensure_admin` (`Boot`). Tokens of
deleted users are among the requests: a token holds the id of a user that was
created (`token <= last.users`) and need not exist. `wrote`, `held`, `lapses` and
`undone` are history. `held` collects what roles and what standing the user of a
reading request had at each moment since it began to read: `AnswersAreAllowed`
measures an answer by it. Covers are named by the hash of their bytes: an image
stands for its name. Names and passwords are values; `"malformed"` is a password
that does not decode, `Null` a parameter that is not given. Paging, order and
decoration of lists, read-only administration lists, the expiry of tokens and
e-mail addresses are left out.

Operators named `X_Something` above an operator `X`, or marked
`mutant` in `MediaIndex` and `AccessControl`, are mutants: plausible bugs by
which each property was seen to fail.

## Runs

| Run | Question | Bounds |
|---|---|---|
| `locks` | exclusion, one mutex per key, no deadlock, no garbage, every `lock` returns, refinement of `AtomicLocks` | three tasks for ever; key sets one, two and three large, the pairs closing a cycle; as many mutexes as can be alive |
| `ops_failures` | do index and store agree, has a write-back, delete or move that fails changed nothing, does an edit reach the file? | two operations of any kind, three keys, two tag fields, two failing calls, a put that fails may take effect: enough for a failure and the failure of its compensation |
| `ops_recovery` | do index and store agree in spite of a crash and a background scan, what does a scan prune, and does a full scan repair what is left? | two operations (no moves), a crash at any step, one failing call, one background scan |
| `ops_liveness` | does every operation return? | two operations of any kind, one content, one background scan, one failing call, one crash, lagging LIST |
| `ops_ingest_beside_scan` (violation) | "safe beside a concurrent full scan" (`scanner/mod.rs:187`) | |
| `ops_prefix_by_segment` (violation) | a scan deletes what disappeared (`scanner/mod.rs:86`), with the listing of `GarageStore` | |
| `ops_move_hides_staleness` (violation) | rescanning after an interruption is safe (`scanner/mod.rs:6`) | |
| `transcode` | do only whole products of served clients stay in the cache, is nothing transcoded twice, do permits and locks come back? | two requests, one of them with a Range header, two tracks in a full library or one with room to move and upload, one permit; one failing call, one change of the library, one crash |
| `transcode_of_another_track` (violation) | the row's track is "the original's key" (`index/repo_transcode_cache.rs:10`) | one request, a move and an upload |
| `playlists` | do trees stay private, whole and acyclic, does an update edit what it read, does every request return? | two requests of any kind by two users, three folders, two playlists, two tracks, every query may fail, tracks and users may be deleted |
| `playlist_folder_cycle` (violation) | "A folder cannot contain itself" (`api/ext/playlist_tree.rs:303`) | two moves |
| `access` | is an answer allowed, do the queries agree, do grants and tokens die with their owners, do rules stay with their items, are covers kept, is there an administrator, do refusals change nothing? | two requests beside the first start, each one of about thirty, from four databases (a fresh one and three with rules of every level), one crash, failures anywhere; `SearchCount = 1` |

Two requests are enough for `transcode`, too: with one permit and two tracks they
meet at the permit, at the lock of a key, or nowhere. A third would only wait.
`playlists` starts with a chain or a pair of folders: the two requests and three
folders give walks of up to three levels, and moves into a folder that is being
deleted with its parent.

`access`: one request writes while the other reads or writes; what they can
disagree about is one album of two tracks, a track without album and an album
without tracks, three users (one of them deleted long ago) and four kinds of
scope, with rules about a track that a scan may drop and a file that it may add. `SearchCount = 1` asks for one hit, so the cut of three is below the
number of tracks once a scan has added one. One crash suffices: a crash changes
no table, so a second one meets the states that the first start can meet.

`ops_liveness` has one content. A move starts over when its track has another key
or another ETag: with one content only the first happens, by another move. Every
other step that finds a changed content returns or goes on as it does when the
object is gone, which the run has.

Two tasks show every interference by keys: an operation conflicts through its
keys, and a third one only repeats a conflict. What takes more is left to the
proofs, which know no number of tasks; they found one such case. A write-back that
had to restore the file and then failed to rescan leaves a row with the old ETag
and the new tags and asks for reconciliation; a later write-back of the same tags
finds the ETag of its own upload in place and clears the edit without looking at
the tags. So a key whose reconciliation was asked for stays disturbed.

What disturbs a key (`Disturb` in `LibraryHistory`): the server stops while an
operation holds it; a put there fails and takes effect all the same; a scan whose
caller does not hold the key changes its row; LIST does not show its object to
the scan of a write-back; the log asks for its reconciliation by hand; a row comes to it
from a disturbed key; or it has no audio extension. The code promises nothing at
such a key before the next full scan, and `Consistent`, `FailureRestores` and
`EditsReachTheFile` speak of the others. Each reason is needed: without it TLC
finds a step of the code that breaks one of the three. `ops_failures` meets lost puts and
requests for reconciliation, `ops_recovery` crashes and background scans; a LIST that lags or
does not show a key, keys without an audio extension and prefixes that match
other keys are met by the theorems, which exclude nothing, and by the findings.

One background scan and no moves limit `ops_recovery`: two overlapping scans can
leave a row whose ETag matches an object with other tags (hazard at
`scanner/mod.rs:323`), and so can a move (`ops_move_hides_staleness`).
`ScanPrunesUnlisted` says what holds of every scan: what it prunes it was not
shown. That the object is gone, as `ScanReport` has it, is
`ScanPrunesOnlyVanished`, which the listing of `GarageStore` breaks
(`ops_prefix_by_segment`), and so does a delete and re-upload beside a scan. With
`LikePrefix <- FoldedCase` (SQLite's LIKE ignores case) `ops_failures` breaks
`WritersHoldTheLock`.

### Fairness

`KeyLocks`: weak fairness of `Advance` and `Release` of every task: tokio polls
a task that was woken, and an operation that owns its keys ends (which
`ops_liveness` checks). Tasks need not ever ask for a lock. `LibraryOps`: weak
fairness of every spawned task and of the scan under way: store and database
calls return, with or without an error. Submissions, tag edits, background
scans, crashes and lost requests are not fair, nor are failures as such.

`TranscodeCache`: weak fairness of every request's `TaskStep`. tokio's semaphore
and mutexes are fair queues, calls return, and a client either reads on or
leaves; leaving, changes of the library and crashes are not fair.
`PlaylistTree`: weak fairness of every request's `HandlerStep`: queries return.
No lock is waited for. `RequestsReturn` ends at `overlap` because of the finding:
the walk up a cycle does not end.

`AccessControl` states no fairness: its handlers neither wait nor repeat, and
nothing there is promised to happen later. Requests end where they are
(`CHECK_DEADLOCK FALSE`: each is handled once).

## Proofs

Every invariant and every action property of a run that is expected to pass is
also a theorem, for every value of the constants that the named assumptions
allow; only `WritersLocked` and `Reconciles` have a hypothesis besides. TLC checked each strengthened
invariant on the run's instance before it was proved.

### KeyLocks

`KeyLocksProofs`, for every set of tasks, number of keys, choice of key sets and
set of mutexes:

- `Typing`, `Exclusion`, `OneMutex`: the inductive invariant `IInv` says that a
  referenced mutex is the one in the table (`TableAgrees`), that different keys
  have different entries (`EntriesDistinct`), that who has a guard holds the
  mutex (`GuardsGranted`) and what the phases of a task mean (`Phases`).
  `MutualExclusion` is not inductive: it does not know that the mutexes of two
  tasks for one key are the same.
- `Reclaim`: after a `Lock`, what is in the table is referenced.
- `Refinement`: `KeyLocks` implements `AtomicLocks`; the last `Push` of a task
  maps to `Enter`, the first `Release` to `Leave`, the rest stutters.
- `DeadlockFreedom`: with `Queues` (the waiters of a mutex are exactly the
  tasks in `wait` for it, each once, and a free mutex has none), the task that
  waits for the greatest key waits for one that can move.

Assumed: `KeyCount` is a natural number, the key sets are non-empty sets of keys,
and `NoMutex`, `NoTask` are not mutexes or tasks.

### LibraryOps

`LibraryOpsProofs`, for every set of tasks, every number of keys and ids, all
contents and bounds:

- `Typing` (`TypeOK`), from `IInv`: where the task of each kind of operation can be
  and what it carries there (`Operation`), which keys it owns there (`Held`: locks
  are exactly those, and no two tasks share one), that a key has at most one row,
  and whose scan is in progress.
- `WritersLocked` (`WritersHoldTheLock`) if `OwnPrefixes`: the prefix of a key
  shows no other key. The scan of a write-back runs under the lock of one key;
  with a listing that shows a neighbour TLC finds it writing the neighbour's row.
- `Reconciles` (`ScanReconciles`) if `Recoverable`; crashes, lost puts and failing calls
  are not limited. `Honest` says of the quiet scan what it has seen and what is
  `Due`, and that rows and list entries carry the ETag of the tags they carry
  (`HonestRows`), because the scan leaves a row alone whose ETag fits. That fails
  with a move (run `ops_move_hides_staleness`), with a second background scan
  beside operations (it may write an old ETag with newer tags) and with a LIST
  that lags: TLC refutes each. `OwnPrefixes` is used by the proof; no instance
  that was tried needs it.

`CompensationProofs`, with no hypothesis: any tasks, keys, contents, prefixes,
failing calls, lost puts, crashes and scans, and a LIST that may lag:

- `Compensated` (`Consistent`), `FailuresRestore` (`FailureRestores`), `EditsReach`
  (`EditsReachTheFile`), all three about undisturbed keys. The invariant
  `Careful` says that a key nobody holds is `Settled` (its row and its object agree, or
  both are missing), and at each place of each operation what it `Knows` of the
  keys it owns: which object it has backed up, whether the row is the one from
  before or the new one, what its scan has listed. What it knows of an object
  needs no condition, since objects change only under locks (or, for a put that
  fails, before the operation ends); what it knows of a row it knows while the key
  is undisturbed. That is what makes each compensation the right one. A task's
  knowledge survives the steps of others since those write other keys
  (`CareIsKept`), that of a write-back the steps of its scan (`ScanningCareful`).
- `ScansPruneUnlisted` (`ScanPrunesUnlisted`), strengthened by `Listing`: every audio
  key up to the cursor of a scan was seen or was at some moment not shown.

Assumed: the bounds are natural numbers; the two prefix functions give sets of keys;
the library starts with one row for each of its readable audio objects;
`NoObj`, `NoEtag`, `NoRow` and `Nobody` are no content, ETag, row or task.

### TranscodeCache

`TranscodeCacheProofs`, for every set of requests, tracks and paths, any
`Permits`, shards and bounds:

- `Typing`, `RegisteredProductsAreWhole` (`RegisteredIsWhole`), `KeptIsServed`
  (`OnlyServedIsKept`), `RunsLimited` (`RunsAreLimited`), `NoTranscodeTwice`
  (`NoSecondTranscode`), `HitsServed` (`HitsAreServed`). `IInv` adds to the types
  that queues hold those who wait or own, each once, owners first (`Queued`,
  `Permitted`); what the owner of a key knows of the object and the row at each of
  its places (`Staged`); and that whoever made what is in the cache still works on
  it or ended in one of the ways that may leave it (`Accounted`). Every step of a
  request is shown to have one form (`RequestStep`), for which the invariant is
  proved once. `RunsLimited` counts: running requests map one to one to places
  of the permit queue.

Assumed: `Permits` is positive; the names of what is missing are no paths or
products.

### PlaylistTree

`PlaylistTreeProofs`, for every set of users, folders, playlists, tracks and
requests, every length of lists and every well-formed start:

- `Privacy` (`PrivateTrees`) and `Wholeness` (`NothingDangles`). Neither is
  inductive, because the write of a handler rests on what its queries found
  before. The invariant `IInv` adds `ChecksHold`: a row that a check has found to
  be the user's own is still the user's own or gone, which needs ids that are
  never handed out again (`AUTOINCREMENT`); and what is gone, the references of
  the tables refuse. `DropUser` leaves no orphan only because trees are private.
- `StaysAForest` (`ForestUnlessMovesOverlap`). A forest is stated without paths:
  in every set of folders one has its parent outside. `Untangled` adds that one
  move at most has read the tree, that the parents it read still stand or are gone
  (`Walked`) and that the folders its walk passed lead to its cursor without the
  folder that moves (`Climbed`); creation and deletion beside it only add and take
  leaves and branches.
- `Typing` (`TypeOK`) and `OnlyTracksThatExist` (`TracksExist`), from `Furnished`.
- `UpdatesEdit` (`UpdateEditsWhatItRead`): the loop of `updatePlaylist`, which sorts the
  indices and removes from the greatest down, gives the list without the entries
  at these indices, for every list and any distinct indices (`ShrunkIsKept`).
  This is an induction over data, done without the library's induction
  theorems: a recursive function exists and is unique up to every `n`
  (`Iteration`), because a least counterexample (`Least`, from the well-founded
  order of the natural numbers) would have a predecessor.

Assumed: the folders, playlists and `Root`, `Nothing` are different ids; the lists
and edits of requests are sequences of tracks and of integers; every start has
rows of the right form in trees of their owners, without cycles; the kinds of requests
are those of the module.

### AccessControl

`AccessControlProofs`, `RulesProofs` and `AnswersProofs`, for every set of requests
and of requests offered to them, every start and every bound:

- `MostSpecificRuleDecides`: the nested `COALESCE` of `visibility_sql` shows a
  track exactly when the first rule on the way track, album, artist, genre grants
  to the viewer, or there is none. A lemma about operators: it holds in every
  state, well-formed or not.
- `Grants` (`GrantsNamePrincipals`): inductive as it stands, since the
  transaction of `set_rule` looks and writes under one lock; the proof goes
  through every action that removes a user, a role or a rule.
- `Tokens` (`TokensDieWithUsers`): strengthened by `Strangers`: whoever comes
  with the token of a deleted user is at the door (`idle`, `loadUser`) or turned
  away, and its id is not among the users and below the counter. This is where
  `AUTOINCREMENT` is needed.
- `Covers` (`CoversAreKept`): strengthened by `CoversInHand`: between the put of
  an object and the statement that names it the object is there or was taken back
  by a failed `setCoverArt`.
- `Wholeness` (`UsersAreWhole`): every user without a role is accounted for by
  a creation under way or by `lapses`.
- `NewItems` (`NewItemsHaveNoRules`): strengthened by `RulesOfIssued`: ids of
  items and of rules about items are behind the counters, the scope between
  `checkScope` and the transaction included.
- `Typing` (`TypeOK`): strengthened by `Keyed`: what a scan has in hand between its
  upserts (`CatalogKeys`) and a handler between its queries (`RolesIssued`) has an
  id that was issued, and only a scan inserts into the library.
- `Refused` (`RefusalsChangeNothing`): strengthened by `Blameless`: at every place
  where a handler can still refuse it has not written. It needs the keys and
  `Grants`: to delete a role that is gone deletes no pair and no grant, because
  none names it.
- `Administrators` (`SomeoneAdministers`): strengthened by `Headed` (somebody has the
  built-in role named admin, which no handler deletes), `Founding` (the places of
  the first start) and `StartsAlone` (nobody is served before it has ended).
- `Answered` (`AnswersAreAllowed`): strengthened by `ReadersAreReady`. Every
  stage a handler has left is `Cleared`: its queries are filtered by the viewer,
  or follow a gate that was passed (`stream`, `download`, `getLyrics` read the
  source by id after `can_access_track`; the lookup of a title, of an object).
  And every reader holds the roles and the standing of moments within `held`.
  Then what a query finds is `Allowed`: that the `SELECT`s with `HAVING` and
  `EXISTS` give the items and the counts which the rules of the tracks give is
  proved query by query.
- `OneStory` (`ListingsAgree`): a fact about the queries in every state whose keys
  hold and whose tables are finite, both of which are invariants (`Typing`,
  `RulesOfIssued`). `HavingIsExists` is its core; counts are compared by
  bijections between rows and items.

Assumed there: `Boot` is not a request, the kinds of requests are those of
`FirstStep` (`OfferedAssumption`), `Null` is not a verdict (`NullAssumption`), and
the databases a run starts from are ones the program leaves behind
(`StartsAssumption`: users have roles, grants name somebody, covers exist,
counters are ahead of the ids of rows and of rules, tracks are finitely many;
`KeysAssumption`: rows have their columns and foreign keys name rows;
`FoundedAssumption`: the role named admin is the built-in one, and a database with
users has one who has it). TLC evaluates all of these on the starts of `access`.

### What stays with TLC

The liveness properties `EveryLockReturns`, `OperationsReturn`, `RequestsEnd` and
`RequestsReturn`: liveness under fairness, and the `ENABLED` it rests on, are out of
reach of the provers used here. The runs that are expected to fail refute a
sentence of the code, and a theorem could only say so again.

## Where code and words differ

Found while modelling, without a run of their own:

- `search3` says that it pages after filtering and takes enough visible hits
  (`api/search.rs:47`, `:70`); `search_visible` takes `LIMIT` hits and filters them
  afterwards (`repo_media.rs`), so a user whose rules hide more than two thirds of
  the first hits gets fewer than there are. `SearchIds` models it.
- `updateUser` writes the e-mail before it finds the password malformed
  (`api/user.rs:260`) and `createUser` answers 70 for a user that was deleted
  before its e-mail was set: the two exceptions in `RefusalsChangeNothing`.
- A failed `setCoverArt` deletes the object by its content hash though other
  albums may show the same picture: the exception `undone` in `CoversAreKept`.
- A crash or failure between the first user and its role leaves a server that
  `ensure_admin` calls initialised and nobody administers: the exception
  `lapses` in `SomeoneAdministers` and `UsersAreWhole`.
- `setAccessRule` reads the rule back after it has written it and asserts that it
  has the id it wrote (`api/ext/access.rs:80`, debug builds only). Another request
  that deletes the rule and sets it anew in between fails the assertion and cuts
  the request off, which in `AccessControl` is the step `Abort`; a release build
  answers with the other rule (`GetRule`).
- `createRole` accepts the name `member`, or `admin` while it does not exist; the
  role it makes is not built in and can be deleted.
- A track that is deleted and uploaded again has a new id: its rule stays behind
  and the new row is open to all. `NewItemsHaveNoRules` says that the rule at
  least never comes to hide another track.
- Albums without an artist are inserted again by each scan: the `UNIQUE` of
  `albums` treats `NULL`s as different.
- The cover of an album without tracks is answered with 404 although the album is
  listed (`cover_key_visible` has no arm for it): `ListingsAgree` asks covers of
  visible tracks only. The `albumCount` of an artist leaves out albums without
  tracks that the artist's page lists.

## Not modelled

The order, paging and decoration of lists, full-text matching, wire formats,
tag parsing, cryptography, and the user interface. Components
without a module in the plan below are listed in `PROJECT.json` with the reason.

## Plan

1. `KeyLocks`, `AtomicLocks`, their proofs: done.
2. `LibraryOps`, `LibraryHistory`: done, their safety proved; next the values of
   tag edits (`clear_tag_overrides` after a write-back).
3. `TranscodeCache`: done, its safety proved.
4. `PlaylistTree`: done, its safety proved.
5. `MediaIndex`, `AccessControl`: done, their safety proved; next what moves that
   overlap leave of the forest, and what an answer holds at least, not only at most.
6. `PlaybackController`: queue, shuffle, generations, retries and automatic
   advance of the Apple client, with the answers of `resolve` and the events of
   the player arriving late; a reference definition of the queue.
7. View models.
