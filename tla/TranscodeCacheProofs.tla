------------------------- MODULE TranscodeCacheProofs -------------------------
(***************************************************************************)
(* Proofs about TranscodeCache, for any number of requests, tracks, paths, *)
(* permits, failing calls, library changes and crashes.                    *)
(***************************************************************************)
EXTENDS TranscodeCache, FiniteSetTheorems, SequenceTheorems, TLAPS

\* Where a task is: it persists its product; it has missed the cache; it owns
\* the lock of its key; it is in the queue of that lock.
Storing == {"persist", "cancelled"}
Stored == Storing \cup {"dropRow", "dropObject", "finalize"}
Missed == {"permit", "run", "terminal"} \cup Stored
Owners == {"head", "forget", "pump"} \cup Missed
InLine == {"line"} \cup Owners
\* The steps of the persisting task before there is a row.
Registering == {"put", "upsert", "undo", "failed"}

Task == [pc : Places, track : Track \cup {Nothing}, path : Path \cup {Nothing}, fed : 0..2,
         product : Product \cup {Nothing}, put : Persisting \cup Persisted \cup {"none"},
         cancel : BOOLEAN, after : {"none", "done", "finalize"},
         outcome : {"none", "served", "failed", "interrupted", "lost"}]
Shards == {Shard[t] : t \in Track}
Distinct(s) == \A i, j \in DOMAIN s : s[i] = s[j] => i = j

Typed ==
  /\ source \in [Track -> Path \cup {Unborn, Deleted}]
  /\ objects \in [Path -> Contents \cup {Nothing}]
  /\ rows \subseteq Track /\ unclean \subseteq Track
  /\ cache \in [Track -> Product \cup {Nothing}]
  /\ req \in [Request -> Task]
  /\ \A r \in Request : Active(r) =>
       /\ req[r].track \in Track /\ req[r].path \in Path
       /\ req[r].product \in Product /\ req[r].product.by = r
  /\ connected \in [Request -> BOOLEAN]
  /\ lines \in [Shards -> Seq(Request)]
  /\ permits \in Seq(Request)
  /\ changes \in 0..MaxChanges /\ faults \in 0..MaxFaults /\ crashes \in 0..MaxCrashes

\* The queue of a mutex holds the requests that wait for it or own it, each
\* once, and whoever works on a key is at its head.
Queued ==
  /\ \A s \in Shards : Distinct(lines[s])
  /\ \A s \in Shards : \A i \in DOMAIN lines[s] :
       req[lines[s][i]].pc \in InLine /\ Shard[req[lines[s][i]].track] = s
  /\ \A r \in Request : req[r].pc \in Owners => OwnsKey(r)

\* The queue of the semaphore holds those that wait for a permit or have one.
Permitted ==
  /\ Distinct(permits)
  /\ \A i \in DOMAIN permits : req[permits[i]].pc \in {"permit", "run"}
  /\ \A r \in Request : At(r, "run") => HasPermit(r)

Registered(t) == t \in rows \ unclean

\* What a request knows of its key at each place.
Staged(r) ==
  LET q == req[r]  t == q.track IN
  /\ q.pc # "done" => q.outcome = "none"
  /\ q.pc \notin Stored => ~q.cancel /\ q.put = "none"
  /\ q.pc = "forget" => cache[t] = Nothing
  /\ q.pc = "pump" => cache[t] # Nothing
  /\ q.pc \in {"permit", "run", "terminal"} => t \notin rows
  /\ q.pc \in {"terminal"} \cup Storing => q.product.whole
  /\ q.pc \in Missed /\ Registered(t) => cache[t] # Nothing /\ cache[t].by = r
  /\ q.pc = "persist" => ~q.cancel /\ q.put \in Registering \cup {"check", "committed"}
  /\ q.pc \in Storing => q.put # "none"
  /\ q.pc \in Stored \ Storing => q.put \in Persisted
  /\ q.pc \in Storing =>
       /\ q.put \in Registering => t \notin rows
       /\ q.put \in {"upsert", "check", "dropRow"} => cache[t] = q.product
       /\ q.put \in {"check", "committed"} => t \in rows \/ source[t] = Deleted
       /\ q.put \in {"dropObject", "cancelled"} => ~Registered(t)
  /\ q.pc = "dropObject" => ~Registered(t)
  /\ q.pc = "finalize" =>
       cache[t] = Nothing \/ t \in unclean \/ t \in rows \/ source[t] = Deleted

\* Whoever made what is at a key still works on it, or has ended in one of the
\* ways that may leave it there.
Accounted(t) ==
  cache[t] # Nothing =>
    LET m == cache[t].by IN
    \/ req[m].track = t /\ req[m].pc \in Stored /\ req[m].put # "put"
    \/ /\ req[m].pc = "done"
       /\ \/ t \in unclean \/ req[m].outcome = "lost"
          \/ req[m].outcome = "served" /\ (t \in rows \/ source[t] = Deleted)

IInv ==
  /\ Typed /\ Queued /\ Permitted
  /\ \A r \in Request : Staged(r)
  /\ \A t \in Track : Accounted(t)
  /\ RegisteredIsWhole
-----------------------------------------------------------------------------
(* Queues.                                                                 *)

\* Leaving a queue keeps the others in it, in their order, and none twice.
LEMMA WithoutProperties ==
  ASSUME NEW S, NEW s \in Seq(S), Distinct(s), NEW r
  PROVE  /\ Without(s, r) \in Seq(S)
         /\ Distinct(Without(s, r))
         /\ \A i \in DOMAIN Without(s, r) :
              Without(s, r)[i] # r /\ \E j \in DOMAIN s : Without(s, r)[i] = s[j]
         /\ \A j \in DOMAIN s : s[j] # r =>
              \E i \in DOMAIN Without(s, r) : i <= j /\ Without(s, r)[i] = s[j]
<1> DEFINE w == Without(s, r)
<1>1. CASE ~ \E i \in DOMAIN s : s[i] = r
  <2>1. w = s
    BY <1>1 DEF Without
  <2> QED
    BY <2>1, <1>1, LenProperties
<1>2. CASE \E i \in DOMAIN s : s[i] = r
  <2> DEFINE Before(at) == SubSeq(s, 1, at - 1)
             After(at) == SubSeq(s, at + 1, Len(s))
  <2>1. PICK at \in DOMAIN s : s[at] = r /\ w = Before(at) \o After(at)
    BY <1>2 DEF Without
  <2>2. at \in 1..Len(s) /\ Len(s) \in Nat /\ DOMAIN s = 1..Len(s)
    BY <2>1
  <2>3. Before(at) \in Seq(S) /\ Len(Before(at)) = at - 1
        /\ \A i \in 1..at - 1 : Before(at)[i] = s[i]
    BY <2>2
  <2>4. After(at) \in Seq(S) /\ Len(After(at)) = Len(s) - at
        /\ \A i \in 1..Len(s) - at : After(at)[i] = s[at + i]
    BY <2>2
  <2> HIDE DEF Before, After, w
  <2>5. w \in Seq(S) /\ Len(w) = Len(s) - 1 /\ DOMAIN w = 1..Len(s) - 1
    <3>1. w \in Seq(S) /\ Len(w) = Len(Before(at)) + Len(After(at))
      BY <2>1, <2>3, <2>4, ConcatProperties
    <3> QED
      BY <3>1, <2>2, <2>3, <2>4
  <2>6. \A i \in 1..Len(s) - 1 : w[i] = IF i < at THEN s[i] ELSE s[i + 1]
    <3> SUFFICES ASSUME NEW i \in 1..Len(s) - 1
                 PROVE  w[i] = IF i < at THEN s[i] ELSE s[i + 1]
      OBVIOUS
    <3>1. w[i] = IF i <= at - 1 THEN Before(at)[i] ELSE After(at)[i - (at - 1)]
      BY <2>1, <2>2, <2>3, <2>4, ConcatProperties
    <3> QED
      <4>1. CASE i < at
        BY <4>1, <3>1, <2>2, <2>3
      <4>2. CASE i >= at
        <5>1. i - (at - 1) \in 1..Len(s) - at /\ at + (i - (at - 1)) = i + 1
          BY <4>2, <2>2
        <5>2. After(at)[i - (at - 1)] = s[i + 1]
          BY <5>1, <2>4
        <5> QED
          BY <5>2, <4>2, <3>1, <2>2
      <4> QED
        BY <4>1, <4>2, <2>2
  <2> DEFINE from(i) == IF i < at THEN i ELSE i + 1
  <2>a. \A i \in DOMAIN w : from(i) \in DOMAIN s /\ from(i) # at /\ w[i] = s[from(i)]
    BY <2>2, <2>5, <2>6
  <2>b. \A i, j \in DOMAIN w : from(i) = from(j) => i = j
    BY <2>2, <2>5
  <2> HIDE DEF from
  <2>7. Distinct(w)
    BY <2>a, <2>b DEF Distinct
  <2>8. \A i \in DOMAIN w : w[i] # r /\ \E j \in DOMAIN s : w[i] = s[j]
    BY <2>1, <2>a DEF Distinct
  <2>9. ASSUME NEW j \in DOMAIN s, s[j] # r
        PROVE  \E i \in DOMAIN w : i <= j /\ w[i] = s[j]
    <3>1. CASE j < at
      BY <3>1, <2>2, <2>5, <2>6
    <3>2. CASE j > at
      <4>1. j - 1 \in DOMAIN w /\ w[j - 1] = s[j]
        BY <3>2, <2>2, <2>5, <2>6
      <4> QED
        BY <4>1, <2>2
    <3> QED
      BY <3>1, <3>2, <2>1, <2>2, <2>9
  <2> QED
    BY <2>5, <2>7, <2>8, <2>9 DEF w
<1> QED
  BY <1>1, <1>2

\* Leaving a queue does not take the head from another request.
LEMMA WithoutHead ==
  ASSUME NEW S, NEW s \in Seq(S), Distinct(s), NEW r, s # <<>>, Head(s) # r
  PROVE  Without(s, r) # <<>> /\ Head(Without(s, r)) = Head(s)
<1>1. 1 \in DOMAIN s /\ s[1] = Head(s)
  BY LenProperties
<1>2. PICK i \in DOMAIN Without(s, r) : i <= 1 /\ Without(s, r)[i] = s[1]
  <2>1. \A j \in DOMAIN s : s[j] # r =>
          \E i \in DOMAIN Without(s, r) : i <= j /\ Without(s, r)[i] = s[j]
    BY WithoutProperties
  <2> QED
    BY <2>1, <1>1
<1>3. Without(s, r) \in Seq(S)
  BY WithoutProperties
<1>4. i = 1 /\ Without(s, r) # <<>>
  BY <1>2, <1>3
<1> QED
  BY <1>1, <1>2, <1>3, <1>4

\* Joining the end of a queue.
LEMMA AppendToQueue ==
  ASSUME NEW S, NEW s \in Seq(S), NEW r \in S, Distinct(s), \A i \in DOMAIN s : s[i] # r
  PROVE  /\ Append(s, r) \in Seq(S) /\ Distinct(Append(s, r))
         /\ DOMAIN Append(s, r) = DOMAIN s \cup {Len(s) + 1}
         /\ \A i \in DOMAIN s : Append(s, r)[i] = s[i]
         /\ Append(s, r)[Len(s) + 1] = r
         /\ s # <<>> => Append(s, r) # <<>> /\ Head(Append(s, r)) = Head(s)
  BY DEF Distinct

\* What one request's step does with the queue of its key: it stays as it is
\* in it, or outside; it leaves; it joins.
LineStep(r) ==
  \/ /\ lines' = lines
     /\ req[r].pc \in InLine => req'[r].pc \in InLine /\ req'[r].track = req[r].track
     /\ req'[r].pc \in Owners => OwnsKey(r) /\ req'[r].track = req[r].track
  \/ /\ req[r].track \in Track /\ req'[r].pc = "done"
     /\ lines' = [lines EXCEPT ![Shard[req[r].track]] = Without(@, r)]
  \/ /\ req[r].pc \notin InLine /\ req'[r].pc = "line" /\ req'[r].track \in Track
     /\ lines' = [lines EXCEPT ![Shard[req'[r].track]] = Append(@, r)]

PermitStep(r) ==
  \/ /\ permits' = permits
     /\ req[r].pc \in {"permit", "run"} => req'[r].pc \in {"permit", "run"}
     /\ req'[r].pc = "run" => HasPermit(r)
  \/ req'[r].pc # "run" /\ permits' = Without(permits, r)
  \/ /\ req[r].pc \notin {"permit", "run"} /\ req'[r].pc = "permit"
     /\ permits' = Append(permits, r)

OthersStay(r) == \A q \in Request \ {r} : req'[q] = req[q]

\* Each step of a request keeps the queues of the keys in order.
LEMMA LineStepQueued ==
  ASSUME Typed, Queued, NEW r \in Request, OthersStay(r), LineStep(r)
  PROVE  lines' \in [Shards -> Seq(Request)] /\ Queued'
<1>1. CASE /\ lines' = lines
           /\ req[r].pc \in InLine => req'[r].pc \in InLine /\ req'[r].track = req[r].track
           /\ req'[r].pc \in Owners => OwnsKey(r) /\ req'[r].track = req[r].track
  <2>1. lines' \in [Shards -> Seq(Request)] /\ \A s \in Shards : Distinct(lines[s])'
    BY <1>1 DEF Typed, Queued, Distinct
  <2>2. ASSUME NEW s \in Shards, NEW i \in DOMAIN lines[s]
        PROVE  req'[lines[s][i]].pc \in InLine /\ Shard[req'[lines[s][i]].track] = s
    <3>1. lines[s][i] \in Request
      BY DEF Typed
    <3> QED
      BY <3>1, <1>1 DEF Queued, OthersStay
  <2>3. ASSUME NEW q \in Request, req'[q].pc \in Owners
        PROVE  OwnsKey(q)'
    BY <2>3, <1>1 DEF Queued, OthersStay, OwnsKey
  <2> QED
    BY <1>1, <2>1, <2>2, <2>3 DEF Queued
<1>2. CASE /\ req[r].track \in Track /\ req'[r].pc = "done"
           /\ lines' = [lines EXCEPT ![Shard[req[r].track]] = Without(@, r)]
  <2> DEFINE here == Shard[req[r].track]
  <2>0. here \in Shards /\ lines[here] \in Seq(Request) /\ Distinct(lines[here])
    BY <1>2 DEF Typed, Queued, Shards
  <2>1. /\ Without(lines[here], r) \in Seq(Request)
        /\ Distinct(Without(lines[here], r))
        /\ \A i \in DOMAIN Without(lines[here], r) :
             /\ Without(lines[here], r)[i] # r
             /\ \E j \in DOMAIN lines[here] : Without(lines[here], r)[i] = lines[here][j]
    BY <2>0, WithoutProperties
  <2>2. \A s \in Shards : lines'[s] = IF s = here THEN Without(lines[here], r) ELSE lines[s]
    BY <1>2 DEF Typed
  <2>3. lines' \in [Shards -> Seq(Request)]
    BY <1>2, <2>1 DEF Typed
  <2>4. \A s \in Shards : Distinct(lines'[s])
    BY <2>1, <2>2 DEF Queued
  <2>5. ASSUME NEW s \in Shards, NEW i \in DOMAIN lines'[s]
        PROVE  req'[lines'[s][i]].pc \in InLine /\ Shard[req'[lines'[s][i]].track] = s
    <3>1. PICK j \in DOMAIN lines[s] : lines'[s][i] = lines[s][j] /\ lines'[s][i] # r
      <4>1. CASE s = here
        BY <4>1, <2>1, <2>2
      <4>2. CASE s # here
        BY <4>2, <2>2 DEF Queued
      <4> QED
        BY <4>1, <4>2
    <3>2. lines[s][j] \in Request
      BY DEF Typed
    <3> QED
      BY <3>1, <3>2 DEF Queued, OthersStay
  <2>6. ASSUME NEW q \in Request, req'[q].pc \in Owners
        PROVE  OwnsKey(q)'
    <3>1. q # r /\ req'[q] = req[q] /\ OwnsKey(q)
      BY <2>6, <1>2 DEF Queued, OthersStay, Owners, Missed, Stored, Storing
    <3> DEFINE s == Shard[req[q].track]
    <3>2. CASE s = here
      BY <3>1, <3>2, <2>0, <2>2, WithoutHead DEF OwnsKey
    <3>3. CASE s # here
      <4>1. lines'[s] = lines[s]
        BY <3>3, <1>2 DEF Typed
      <4> QED
        BY <4>1, <3>1 DEF OwnsKey
    <3> QED
      BY <3>2, <3>3
  <2> HIDE DEF here
  <2> QED
    BY <2>3, <2>4, <2>5, <2>6 DEF Queued
<1>3. CASE /\ req[r].pc \notin InLine /\ req'[r].pc = "line" /\ req'[r].track \in Track
           /\ lines' = [lines EXCEPT ![Shard[req'[r].track]] = Append(@, r)]
  <2> DEFINE here == Shard[req'[r].track]
             line == lines[here]
  <2>0. here \in Shards /\ line \in Seq(Request) /\ Distinct(line)
    BY <1>3 DEF Typed, Queued, Shards
  <2>a. \A i \in DOMAIN line : line[i] # r
    BY <2>0, <1>3 DEF Queued
  <2>1. /\ Append(line, r) \in Seq(Request) /\ Distinct(Append(line, r))
        /\ DOMAIN Append(line, r) = DOMAIN line \cup {Len(line) + 1}
        /\ \A i \in DOMAIN line : Append(line, r)[i] = line[i]
        /\ Append(line, r)[Len(line) + 1] = r
        /\ line # <<>> => Append(line, r) # <<>> /\ Head(Append(line, r)) = Head(line)
    BY <2>0, <2>a, AppendToQueue
  <2>2. \A s \in Shards : lines'[s] = IF s = here THEN Append(line, r) ELSE lines[s]
    BY <1>3 DEF Typed
  <2>3. lines' \in [Shards -> Seq(Request)]
    BY <1>3, <2>1 DEF Typed
  <2>4. \A s \in Shards : Distinct(lines'[s])
    BY <2>1, <2>2 DEF Queued
  <2>5. ASSUME NEW s \in Shards, NEW i \in DOMAIN lines'[s]
        PROVE  req'[lines'[s][i]].pc \in InLine /\ Shard[req'[lines'[s][i]].track] = s
    <3>1. CASE s = here /\ i = Len(line) + 1
      BY <3>1, <2>1, <2>2, <1>3 DEF InLine
    <3>2. CASE ~ (s = here /\ i = Len(line) + 1)
      <4>1. i \in DOMAIN lines[s] /\ lines'[s][i] = lines[s][i]
        BY <3>2, <2>1, <2>2
      <4>2. lines[s][i] \in Request /\ lines[s][i] # r
        BY <4>1, <1>3 DEF Typed, Queued
      <4> QED
        BY <4>1, <4>2 DEF Queued, OthersStay
    <3> QED
      BY <3>1, <3>2
  <2>6. ASSUME NEW q \in Request, req'[q].pc \in Owners
        PROVE  OwnsKey(q)'
    <3>1. q # r /\ req'[q] = req[q] /\ OwnsKey(q)
      BY <2>6, <1>3 DEF Queued, OthersStay, Owners, Missed, Stored, Storing
    <3> DEFINE s == Shard[req[q].track]
    <3>2. CASE s = here
      BY <3>1, <3>2, <2>0, <2>1, <2>2 DEF OwnsKey
    <3>3. CASE s # here
      <4>1. lines'[s] = lines[s]
        BY <3>3, <1>3 DEF Typed
      <4> QED
        BY <4>1, <3>1 DEF OwnsKey
    <3> QED
      BY <3>2, <3>3
  <2> HIDE DEF here, line
  <2> QED
    BY <2>3, <2>4, <2>5, <2>6 DEF Queued
<1> QED
  BY <1>1, <1>2, <1>3 DEF LineStep

\* Each step of a request keeps the queue of the semaphore in order.
LEMMA PermitStepPermitted ==
  ASSUME Typed, Permitted, NEW r \in Request, OthersStay(r), PermitStep(r)
  PROVE  permits' \in Seq(Request) /\ Permitted'
<1>0. permits \in Seq(Request) /\ Distinct(permits)
  BY DEF Typed, Permitted
<1>1. CASE /\ permits' = permits
           /\ req[r].pc \in {"permit", "run"} => req'[r].pc \in {"permit", "run"}
           /\ req'[r].pc = "run" => HasPermit(r)
  <2>1. ASSUME NEW i \in DOMAIN permits
        PROVE  req'[permits[i]].pc \in {"permit", "run"}
    BY <1>0, <1>1 DEF Permitted, OthersStay
  <2>2. ASSUME NEW q \in Request, At(q, "run")'
        PROVE  HasPermit(q)'
    BY <2>2, <1>1 DEF Permitted, OthersStay, At, HasPermit
  <2> QED
    BY <1>0, <1>1, <2>1, <2>2 DEF Permitted
<1>2. CASE req'[r].pc # "run" /\ permits' = Without(permits, r)
  <2>1. /\ permits' \in Seq(Request) /\ Distinct(permits')
        /\ \A i \in DOMAIN permits' :
             permits'[i] # r /\ \E j \in DOMAIN permits : permits'[i] = permits[j]
        /\ \A j \in DOMAIN permits : permits[j] # r =>
             \E i \in DOMAIN permits' : i <= j /\ permits'[i] = permits[j]
    BY <1>0, <1>2, WithoutProperties
  <2>2. ASSUME NEW i \in DOMAIN permits'
        PROVE  req'[permits'[i]].pc \in {"permit", "run"}
    BY <2>1, <1>0 DEF Permitted, OthersStay
  <2>3. ASSUME NEW q \in Request, At(q, "run")'
        PROVE  HasPermit(q)'
    <3>1. q # r /\ At(q, "run")
      BY <2>3, <1>2 DEF OthersStay, At
    <3>2. PICK j \in 1..Len(permits) : j <= Permits /\ permits[j] = q
      BY <3>1 DEF Permitted, HasPermit
    <3>3. PICK i \in DOMAIN permits' : i <= j /\ permits'[i] = q
      BY <3>1, <3>2, <2>1, <1>0
    <3>4. i \in 1..Len(permits')
      BY <3>3, <2>1
    <3>5. i <= Permits
      BY <3>2, <3>3, <3>4, <2>1, <1>0, PermitsAssumption
    <3> QED
      BY <3>3, <3>4, <3>5 DEF HasPermit
  <2> QED
    BY <2>1, <2>2, <2>3 DEF Permitted
<1>3. CASE /\ req[r].pc \notin {"permit", "run"} /\ req'[r].pc = "permit"
           /\ permits' = Append(permits, r)
  <2>0. \A i \in DOMAIN permits : permits[i] # r
    BY <1>3 DEF Permitted
  <2>1. /\ permits' \in Seq(Request) /\ Distinct(permits')
        /\ DOMAIN permits' = DOMAIN permits \cup {Len(permits) + 1}
        /\ \A i \in DOMAIN permits : permits'[i] = permits[i]
        /\ permits'[Len(permits) + 1] = r
    BY <1>0, <1>3, <2>0, AppendToQueue
  <2>2. ASSUME NEW i \in DOMAIN permits'
        PROVE  req'[permits'[i]].pc \in {"permit", "run"}
    BY <2>0, <2>1, <1>0, <1>3 DEF Permitted, OthersStay
  <2>3. ASSUME NEW q \in Request, At(q, "run")'
        PROVE  HasPermit(q)'
    <3>1. q # r /\ At(q, "run")
      BY <2>3, <1>3 DEF OthersStay, At
    <3>2. PICK j \in 1..Len(permits) : j <= Permits /\ permits[j] = q
      BY <3>1 DEF Permitted, HasPermit
    <3>3. j \in 1..Len(permits') /\ permits'[j] = q
      BY <3>2, <2>1, <1>0
    <3> QED
      BY <3>2, <3>3 DEF HasPermit
  <2> QED
    BY <2>1, <2>2, <2>3 DEF Permitted
<1> QED
  BY <1>1, <1>2, <1>3 DEF PermitStep

\* A key has one owner.
LEMMA OneOwner ==
  ASSUME Queued, NEW r \in Request, NEW q \in Request,
         req[r].pc \in Owners, req[q].pc \in Owners, req[r].track = req[q].track
  PROVE  r = q
  BY DEF Queued, OwnsKey
-----------------------------------------------------------------------------
(* The step of one request, seen from the others.                          *)

Whole(t) == Registered(t) => cache[t] # Nothing /\ cache[t].whole

\* Only the owner of a key touches what is stored at it.
StoreStep(r) ==
  /\ req[r].pc \notin Owners => UNCHANGED stored
  /\ \A u \in Track \ {req[r].track} :
       /\ cache'[u] = cache[u] /\ (u \in rows' <=> u \in rows)
       /\ u \in unclean' <=> u \in unclean
  /\ cache' \in [Track -> Product \cup {Nothing}] /\ rows' \subseteq Track /\ unclean' \subseteq Track

\* The request's own state, and the product at the key it owns.
OwnStep(r) ==
  /\ Active(r) \/ req[r].pc = "idle"
  /\ req' \in [Request -> Task] /\ OthersStay(r)
  /\ Active(r)' => /\ req'[r].track \in Track /\ req'[r].path \in Path
                   /\ req'[r].product \in Product /\ req'[r].product.by = r
  /\ Staged(r)'
  /\ req[r].pc \in Owners =>
       \A u \in Track : u = req[r].track => Accounted(u)' /\ Whole(u)'

RequestStep(r) ==
  /\ OwnStep(r) /\ StoreStep(r) /\ LineStep(r) /\ PermitStep(r)
  /\ UNCHANGED library /\ connected' \in [Request -> BOOLEAN]
  /\ faults' \in 0..MaxFaults /\ UNCHANGED crashes

\* A step of a request leaves every other request where its key lets it be.
LEMMA StagedElsewhere ==
  ASSUME IInv, NEW r \in Request, RequestStep(r), NEW q \in Request, q # r
  PROVE  Staged(q)'
<1>1. req'[q] = req[q] /\ source' = source /\ Staged(q)
  BY DEF RequestStep, OwnStep, OthersStay, library, IInv
<1>2. CASE req[q].pc \in Owners
  <2>1. req[q].track \in Track
    BY <1>2 DEF IInv, Typed, Active, Owners, Missed, Stored, Storing
  <2>2. /\ cache'[req[q].track] = cache[req[q].track]
        /\ req[q].track \in rows' <=> req[q].track \in rows
        /\ req[q].track \in unclean' <=> req[q].track \in unclean
    <3>1. CASE req[r].pc \in Owners
      <4>1. req[r].track # req[q].track
        BY <1>2, <3>1, OneOwner DEF IInv
      <4> QED
        BY <4>1, <2>1 DEF RequestStep, StoreStep
    <3>2. CASE req[r].pc \notin Owners
      BY <3>2 DEF RequestStep, StoreStep, stored
    <3> QED
      BY <3>1, <3>2
  <2> QED
    BY <1>1, <2>2 DEF Staged, Active, Registered
<1>3. CASE req[q].pc \notin Owners
  BY <1>1, <1>3 DEF Staged, Active, Registered, Owners, Missed, Stored, Storing
<1> QED
  BY <1>2, <1>3

\* ... and what is stored at the other keys as sound and accounted for as it was.
LEMMA StoresElsewhere ==
  ASSUME IInv, NEW r \in Request, RequestStep(r), NEW u \in Track,
         u # req[r].track \/ req[r].pc \notin Owners
  PROVE  Accounted(u)' /\ Whole(u)'
<1>1. /\ cache'[u] = cache[u] /\ source' = source
      /\ u \in rows' <=> u \in rows
      /\ u \in unclean' <=> u \in unclean
  BY DEF RequestStep, StoreStep, stored, library
<1>2. Whole(u)'
  <2>1. Whole(u)
    BY DEF IInv, RegisteredIsWhole, Whole, Registered
  <2> QED
    BY <2>1, <1>1 DEF Whole, Registered
<1>3. Accounted(u)'
  <2>1. CASE cache[u] = Nothing
    BY <2>1, <1>1 DEF Accounted
  <2>2. CASE cache[u] # Nothing
    <3>1. Accounted(u) /\ cache[u].by \in Request
      BY <2>2 DEF IInv, Typed, Product
    <3>2. cache[u].by # r
      BY <3>1, <2>2 DEF Accounted, RequestStep, OwnStep, Active, Owners, Missed
    <3>3. req'[cache[u].by] = req[cache[u].by]
      BY <3>1, <3>2 DEF RequestStep, OwnStep, OthersStay
    <3> QED
      BY <3>1, <3>3, <1>1 DEF Accounted
  <2> QED
    BY <2>1, <2>2
<1> QED
  BY <1>2, <1>3

\* Every step that has the form of RequestStep keeps the invariant.
LEMMA RequestStepIInv ==
  ASSUME IInv, NEW r \in Request, RequestStep(r)
  PROVE  IInv'
<1>1. Queued' /\ lines' \in [Shards -> Seq(Request)]
  BY LineStepQueued DEF IInv, RequestStep, OwnStep
<1>2. Permitted' /\ permits' \in Seq(Request)
  BY PermitStepPermitted DEF IInv, RequestStep, OwnStep
<1>3. Typed'
  <2>1. ASSUME NEW q \in Request, Active(q)'
        PROVE  /\ req'[q].track \in Track /\ req'[q].path \in Path
               /\ req'[q].product \in Product /\ req'[q].product.by = q
    BY <2>1 DEF IInv, Typed, RequestStep, OwnStep, OthersStay, Active
  <2> QED
    BY <2>1, <1>1, <1>2 DEF IInv, Typed, RequestStep, OwnStep, StoreStep, library
<1>4. ASSUME NEW q \in Request
      PROVE  Staged(q)'
  BY StagedElsewhere DEF RequestStep, OwnStep
<1>5. ASSUME NEW u \in Track
      PROVE  Accounted(u)' /\ Whole(u)'
  BY StoresElsewhere DEF RequestStep, OwnStep
<1>6. RegisteredIsWhole'
  BY <1>3, <1>5 DEF RegisteredIsWhole, Whole, Registered, Typed
<1> QED
  BY <1>1, <1>2, <1>3, <1>4, <1>5, <1>6 DEF IInv
-----------------------------------------------------------------------------
(* The forms the steps of a request take.                                  *)

Outcomes == {"none", "served", "failed", "interrupted", "lost"}

\* The task of r is at pc next, the rest of its state as before.
Moved(r, pc) ==
  /\ req'[r].pc = pc /\ req'[r].track = req[r].track /\ req'[r].path = req[r].path
  /\ req'[r].product = req[r].product /\ req'[r].put = req[r].put
  /\ req'[r].cancel = req[r].cancel /\ req'[r].outcome = req[r].outcome
  /\ req'[r].after = req[r].after

\* A change of the state of r alone.
LEMMA GotoMoves ==
  ASSUME IInv, NEW r \in Request, NEW pc \in Places, Goto(r, pc)
  PROVE  req' \in [Request -> Task] /\ OthersStay(r) /\ Moved(r, pc)
<1>1. req \in [Request -> Task] /\ req[r] \in Task
  BY DEF IInv, Typed
<1>2. [req[r] EXCEPT !.pc = pc] \in Task
  BY <1>1 DEF Task
<1>3. req'[r] = [req[r] EXCEPT !.pc = pc] /\ OthersStay(r) /\ req' \in [Request -> Task]
  BY <1>1, <1>2 DEF Goto, OthersStay
<1> QED
  BY <1>1, <1>3 DEF Moved, Task

\* The task of r ends: it leaves both queues and knows nothing any more.
LEMMA ReturnForm ==
  ASSUME IInv, NEW r \in Request, NEW o \in Outcomes, Return(r, o), Active(r)
  PROVE  /\ req' \in [Request -> Task] /\ OthersStay(r)
         /\ req'[r].pc = "done" /\ req'[r].outcome = o
         /\ LineStep(r) /\ PermitStep(r) /\ Staged(r)'
<1>1. req \in [Request -> Task] /\ req[r].track \in Track
  BY DEF IInv, Typed
<1>2. Ended(o) \in Task /\ Ended(o).pc = "done" /\ Ended(o).outcome = o
      /\ ~Ended(o).cancel /\ Ended(o).put = "none"
  <2>1. Ended(o) = [Idle EXCEPT !.pc = "done", !.outcome = o]
    BY DEF Ended
  <2>2. Idle \in Task /\ ~Idle.cancel /\ Idle.put = "none"
    BY DEF Idle, Task, Places, Outcomes
  <2> QED
    <3>1. Ended(o) \in Task
      <4> DEFINE e == [Idle EXCEPT !.pc = "done"]
      <4>1. e \in Task
        BY <2>2 DEF Task, Places
      <4>2. Ended(o) = [e EXCEPT !.outcome = o]
        BY <2>1, <2>2 DEF Task
      <4> HIDE DEF e
      <4> QED
        BY <4>1, <4>2 DEF Task, Outcomes
    <3>2. Ended(o).pc = "done" /\ Ended(o).outcome = o /\ ~Ended(o).cancel /\ Ended(o).put = "none"
      BY <2>1, <2>2 DEF Task
    <3> QED
      BY <3>1, <3>2
<1>3. req' \in [Request -> Task] /\ OthersStay(r) /\ req'[r] = Ended(o)
  BY <1>1, <1>2 DEF Return, OthersStay
<1>4. LineStep(r) /\ PermitStep(r)
  BY <1>1, <1>2, <1>3 DEF Return, LineStep, PermitStep
<1>5. Staged(r)'
  BY <1>2, <1>3 DEF Staged, Active, Missed, Stored, Storing
<1> QED
  BY <1>2, <1>3, <1>4, <1>5

\* A task that owns its key, or stands outside the queues, goes on.
LEMMA WaitsForm ==
  ASSUME IInv, NEW r \in Request, NEW pc \in Places, Waits(r, pc),
         req[r].pc \in InLine => pc \in InLine,
         pc \in Owners => OwnsKey(r),
         req[r].pc \in {"permit", "run"} => pc \in {"permit", "run"},
         pc = "run" => HasPermit(r)
  PROVE  /\ req' \in [Request -> Task] /\ OthersStay(r) /\ Moved(r, pc)
         /\ LineStep(r) /\ PermitStep(r)
<1>1. req' \in [Request -> Task] /\ OthersStay(r) /\ Moved(r, pc)
  BY GotoMoves DEF Waits
<1> QED
  BY <1>1 DEF Waits, Moved, LineStep, PermitStep

\* A request queues for the lock of its key.
LEMMA EnterLineForm ==
  ASSUME IInv, NEW r \in Request, EnterLine(r), Active(r), req[r].pc \notin InLine
  PROVE  /\ req' \in [Request -> Task] /\ OthersStay(r) /\ Moved(r, "line")
         /\ LineStep(r) /\ PermitStep(r)
<1>1. req' \in [Request -> Task] /\ OthersStay(r) /\ Moved(r, "line")
  BY GotoMoves DEF EnterLine, Places
<1>2. req[r].track \in Track
  BY DEF IInv, Typed
<1> QED
  BY <1>1, <1>2 DEF EnterLine, Moved, LineStep, PermitStep, InLine, Owners, Missed

\* The owner of a key queues for a permit.
LEMMA AwaitPermitForm ==
  ASSUME IInv, NEW r \in Request, AwaitPermit(r), req[r].pc \in {"line", "forget"}, OwnsKey(r)
  PROVE  /\ req' \in [Request -> Task] /\ OthersStay(r) /\ Moved(r, "permit")
         /\ LineStep(r) /\ PermitStep(r)
<1>1. req' \in [Request -> Task] /\ OthersStay(r) /\ Moved(r, "permit")
  BY GotoMoves DEF AwaitPermit, Places
<1> QED
  BY <1>1 DEF AwaitPermit, Moved, LineStep, PermitStep, InLine, Owners, Missed

\* A step that leaves what is stored alone leaves it sound; and accounted for,
\* if the request did not make it or still answers for it.
LEMMA QuietStores ==
  ASSUME IInv, NEW r \in Request, OthersStay(r), UNCHANGED <<library, stored>>,
         \/ req[r].pc \notin Stored \cup {"done"}
         \/ /\ req[r].pc \in Stored /\ req'[r].pc \in Stored
            /\ req'[r].track = req[r].track /\ req'[r].put = req[r].put
  PROVE  StoreStep(r) /\ \A u \in Track : Accounted(u)' /\ Whole(u)'
<1>1. StoreStep(r)
  BY DEF StoreStep, stored, IInv, Typed
<1>2. ASSUME NEW u \in Track
      PROVE  Accounted(u)' /\ Whole(u)'
  <2>1. Whole(u)'
    BY DEF IInv, RegisteredIsWhole, Whole, Registered, stored
  <2>2. CASE cache[u] = Nothing
    BY <2>1, <2>2 DEF Accounted, stored
  <2>3. CASE cache[u] # Nothing
    <3>1. Accounted(u) /\ cache[u].by \in Request
      BY <2>3 DEF IInv, Typed, Product
    <3>2. CASE cache[u].by # r
      BY <2>1, <2>3, <3>1, <3>2 DEF Accounted, OthersStay, stored, library
    <3>3. CASE cache[u].by = r
      <4>1. req[r].track = u /\ req[r].pc \in Stored /\ req[r].put # "put"
        BY <2>3, <3>1, <3>3 DEF Accounted, Stored, Storing
      <4> QED
        BY <2>1, <2>3, <3>3, <4>1 DEF Accounted, stored, library
    <3> QED
      BY <3>2, <3>3
  <2> QED
    BY <2>2, <2>3
<1> QED
  BY <1>1, <1>2
-----------------------------------------------------------------------------
(* One lemma per group of operations.                                      *)

\* A step that ends the task before it has stored anything.
LEMMA EndsEarly ==
  ASSUME IInv, NEW r \in Request, NEW o \in Outcomes, Return(r, o), Active(r),
         req[r].pc \notin Stored, UNCHANGED <<library, stored, connected, crashes>>,
         faults' \in 0..MaxFaults
  PROVE  RequestStep(r)
<1>1. /\ req' \in [Request -> Task] /\ OthersStay(r) /\ req'[r].pc = "done"
      /\ LineStep(r) /\ PermitStep(r) /\ Staged(r)'
  BY ReturnForm
<1>2. StoreStep(r) /\ \A u \in Track : Accounted(u)' /\ Whole(u)'
  BY <1>1, QuietStores DEF Active
<1>3. connected' \in [Request -> BOOLEAN]
  BY DEF IInv, Typed
<1> QED
  BY <1>1, <1>2, <1>3 DEF RequestStep, OwnStep, Active, library

\* A step that stores nothing and takes the task to a place whose conditions hold.
LEMMA GoesOn ==
  ASSUME IInv, NEW r \in Request, NEW pc \in Places \ {"idle", "done"}, Active(r),
         req' \in [Request -> Task], OthersStay(r), Moved(r, pc),
         LineStep(r), PermitStep(r), Staged(r)',
         req[r].pc \in Stored => pc \in Stored,
         UNCHANGED <<library, stored, crashes>>, connected' \in [Request -> BOOLEAN],
         faults' \in 0..MaxFaults
  PROVE  RequestStep(r)
<1>1. StoreStep(r) /\ \A u \in Track : Accounted(u)' /\ Whole(u)'
  BY QuietStores DEF Active, Moved
<1>2. Active(r)' => /\ req'[r].track \in Track /\ req'[r].path \in Path
                    /\ req'[r].product \in Product /\ req'[r].product.by = r
  BY DEF Moved, IInv, Typed
<1> QED
  BY <1>1, <1>2 DEF RequestStep, OwnStep, library

\* A failing call stays within the budget.
LEMMA FaultTyped ==
  ASSUME IInv, Fault \/ NoFault
  PROVE  faults' \in 0..MaxFaults
  BY BoundsAssumption DEF IInv, Typed, Fault, NoFault

\* A request with a Range header looks up the product without the lock of its
\* key.
LEMMA RangeStep ==
  ASSUME IInv, NEW r \in Request, RangeGet(r) \/ RangeHead(r) \/ RangeRead(r) \/ GiveUp(r)
  PROVE  RequestStep(r)
<1>1. ASSUME EnterLine(r), UNCHANGED <<library, stored, connected, crashes>>,
             faults' \in 0..MaxFaults, req[r].pc \in {"rangeGet", "rangeHead"}
      PROVE  RequestStep(r)
  <2>1. /\ req' \in [Request -> Task] /\ OthersStay(r) /\ Moved(r, "line")
        /\ LineStep(r) /\ PermitStep(r)
    BY <1>1, EnterLineForm DEF Active, InLine, Owners, Missed, Stored, Storing
  <2>2. Staged(r)'
    BY <2>1, <1>1 DEF IInv, Staged, Moved, Active, Missed, Stored, Storing
  <2>3. connected' \in [Request -> BOOLEAN]
    BY <1>1 DEF IInv, Typed
  <2> QED
    BY <1>1, <2>1, <2>2, <2>3, GoesOn DEF Active, Places, Stored, Storing
<1>2. ASSUME NEW pc \in {"rangeHead", "rangeRead"}, Waits(r, pc),
             UNCHANGED <<library, stored, connected, crashes>>,
             faults' \in 0..MaxFaults, req[r].pc \in {"rangeGet", "rangeHead"}
      PROVE  RequestStep(r)
  <2>1. /\ req' \in [Request -> Task] /\ OthersStay(r) /\ Moved(r, pc)
        /\ LineStep(r) /\ PermitStep(r)
    BY <1>2, WaitsForm DEF Places, InLine, Owners, Missed, Stored, Storing
  <2>2. Staged(r)'
    BY <2>1, <1>2 DEF IInv, Staged, Moved, Active, Missed, Stored, Storing
  <2>3. connected' \in [Request -> BOOLEAN]
    BY <1>2 DEF IInv, Typed
  <2> QED
    BY <1>2, <2>1, <2>2, <2>3, GoesOn DEF Active, Places, Stored, Storing
<1>3. CASE RangeGet(r)
  BY <1>1, <1>2, <1>3, FaultTyped DEF RangeGet, At
<1>4. CASE RangeHead(r)
  BY <1>1, <1>2, <1>4, FaultTyped DEF RangeHead, At
<1>5. CASE RangeRead(r)
  <2>1. faults' \in 0..MaxFaults
    BY <1>5, FaultTyped DEF RangeRead
  <2>2. \E o \in Outcomes : Return(r, o)
    BY <1>5 DEF RangeRead, Fails, Outcomes
  <2> QED
    BY <1>5, <2>1, <2>2, EndsEarly DEF RangeRead, At, Active, Stored, Storing
<1>6. CASE GiveUp(r)
  <2>1. faults' \in 0..MaxFaults
    BY <1>6 DEF GiveUp, IInv, Typed
  <2> QED
    BY <1>6, <2>1, EndsEarly DEF GiveUp, Active, Stored, Storing, Outcomes
<1> QED
  BY <1>3, <1>4, <1>5, <1>6

\* The lookup under the lock, the head of the product, and its delivery.
LEMMA LookupStep ==
  ASSUME IInv, NEW r \in Request, Lookup(r) \/ HeadCached(r) \/ Pump(r)
  PROVE  RequestStep(r)
<1>1. /\ faults' \in 0..MaxFaults /\ connected' \in [Request -> BOOLEAN] /\ Active(r)
      /\ UNCHANGED <<library, stored, connected, crashes>>
      /\ req[r].pc \notin Stored
  BY FaultTyped DEF Lookup, HeadCached, Pump, IInv, Typed, At, Active, Stored, Storing
<1>2. CASE \E o \in Outcomes : Return(r, o)
  BY <1>1, <1>2, EndsEarly
<1>3. CASE Lookup(r) /\ ~Fails(r)
  <2>1. OwnsKey(r) /\ req[r].pc = "line"
    BY <1>3 DEF Lookup, At
  <2>2. CASE req[r].track \in rows /\ Waits(r, "head")
    <3>1. /\ req' \in [Request -> Task] /\ OthersStay(r) /\ Moved(r, "head")
          /\ LineStep(r) /\ PermitStep(r)
      BY <2>1, <2>2, WaitsForm DEF Places, InLine, Owners
    <3>2. Staged(r)'
      BY <3>1, <2>1 DEF IInv, Staged, Moved, Active, Missed, Stored, Storing
    <3> QED
      BY <1>1, <3>1, <3>2, GoesOn DEF Places
  <2>3. CASE req[r].track \notin rows /\ AwaitPermit(r)
    <3>1. /\ req' \in [Request -> Task] /\ OthersStay(r) /\ Moved(r, "permit")
          /\ LineStep(r) /\ PermitStep(r)
      BY <2>1, <2>3, AwaitPermitForm
    <3>2. Staged(r)'
      BY <3>1, <2>1, <2>3, <1>1 DEF IInv, Staged, Moved, Active, Missed, Stored, Storing, Registered, stored
    <3> QED
      BY <1>1, <3>1, <3>2, GoesOn DEF Places
  <2> QED
    BY <1>3, <2>2, <2>3 DEF Lookup
<1>4. CASE HeadCached(r) /\ ~Fails(r)
  <2>1. OwnsKey(r) /\ req[r].pc = "head"
    BY <1>4 DEF HeadCached, At, IInv, Queued, Owners
  <2> DEFINE pc == IF cache[req[r].track] # Nothing THEN "pump" ELSE "forget"
  <2>2. Waits(r, pc) /\ pc \in {"pump", "forget"}
    BY <1>4 DEF HeadCached
  <2>3. /\ req' \in [Request -> Task] /\ OthersStay(r) /\ Moved(r, pc)
        /\ LineStep(r) /\ PermitStep(r)
    BY <2>1, <2>2, WaitsForm DEF Places, InLine, Owners
  <2>4. Staged(r)'
    BY <2>1, <2>3, <1>1 DEF IInv, Staged, Moved, Active, Missed, Stored, Storing, stored
  <2> HIDE DEF pc
  <2> QED
    BY <1>1, <2>2, <2>3, <2>4, GoesOn DEF Places
<1> QED
  BY <1>2, <1>3, <1>4 DEF Pump, Lookup, HeadCached, Fails, Outcomes

\* The row of a product that is gone goes too.
LEMMA ForgetStep ==
  ASSUME IInv, NEW r \in Request, Forget(r)
  PROVE  RequestStep(r)
<1>1. /\ faults' \in 0..MaxFaults /\ connected' \in [Request -> BOOLEAN] /\ Active(r)
      /\ UNCHANGED <<library, connected, crashes, cache, unclean>>
      /\ req[r].pc = "forget" /\ OwnsKey(r) /\ req[r].track \in Track
  BY FaultTyped DEF Forget, IInv, Typed, Queued, Owners, At, Active
<1>2. CASE Fails(r) /\ UNCHANGED rows
  BY <1>1, <1>2, EndsEarly DEF Fails, Outcomes, Stored, Storing, stored
<1>3. CASE AwaitPermit(r) /\ rows' = rows \ {req[r].track}
  <2>1. /\ req' \in [Request -> Task] /\ OthersStay(r) /\ Moved(r, "permit")
        /\ LineStep(r) /\ PermitStep(r)
    BY <1>1, <1>3, AwaitPermitForm
  <2>2. Staged(r)'
    BY <2>1, <1>1, <1>3 DEF IInv, Staged, Moved, Active, Missed, Stored, Storing, Registered
  <2>3. StoreStep(r)
    BY <1>1, <1>3 DEF StoreStep, IInv, Typed, Owners
  <2>4. cache[req[r].track] = Nothing
    BY <1>1 DEF IInv, Staged
  <2>5. ASSUME NEW u \in Track, u = req[r].track
        PROVE  Accounted(u)' /\ Whole(u)'
    BY <2>4, <2>5, <1>1, <1>3 DEF Accounted, Whole, Registered
  <2>6. Active(r)' => /\ req'[r].track \in Track /\ req'[r].path \in Path
                      /\ req'[r].product \in Product /\ req'[r].product.by = r
    BY <1>1, <2>1 DEF Moved, IInv, Typed
  <2> QED
    BY <1>1, <2>1, <2>2, <2>3, <2>5, <2>6 DEF RequestStep, OwnStep, library
<1> QED
  BY <1>2, <1>3 DEF Forget

\* The process starts; it fails, or is killed with the client gone.
LEMMA RunStep ==
  ASSUME IInv, NEW r \in Request, Start(r) \/ RunFails(r) \/ RunAborted(r)
  PROVE  RequestStep(r)
<1>1. /\ faults' \in 0..MaxFaults /\ connected' \in [Request -> BOOLEAN] /\ Active(r)
      /\ UNCHANGED <<library, stored, connected, crashes>>
      /\ req[r].pc \in {"permit", "run"} /\ OwnsKey(r)
  BY FaultTyped DEF Start, RunFails, RunAborted, IInv, Typed, Queued, Owners, Missed, At, Active
<1>2. CASE \E o \in Outcomes : Return(r, o)
  BY <1>1, <1>2, EndsEarly DEF Stored, Storing
<1>3. CASE Start(r)
  <2>1. /\ req' \in [Request -> Task] /\ OthersStay(r) /\ Moved(r, "run")
        /\ LineStep(r) /\ PermitStep(r)
    BY <1>1, <1>3, WaitsForm DEF Start, Places, InLine, Owners, Missed
  <2>2. Staged(r)'
    BY <2>1, <1>1 DEF IInv, Staged, Moved, Active, Missed, Stored, Storing, Registered, stored
  <2> QED
    BY <1>1, <2>1, <2>2, GoesOn DEF Places, Stored, Storing
<1> QED
  BY <1>2, <1>3 DEF RunFails, RunAborted, Fails, Outcomes

\* A range of the source is fed, or the process has ended well.
LEMMA RunningStep ==
  ASSUME IInv, NEW r \in Request, Feed(r) \/ RunEnds(r)
  PROVE  RequestStep(r)
<1> DEFINE q == req[r]
<1>1. /\ faults' \in 0..MaxFaults /\ connected' \in [Request -> BOOLEAN] /\ Active(r)
      /\ UNCHANGED <<library, stored, connected, crashes>>
      /\ q.pc = "run" /\ OwnsKey(r) /\ HasPermit(r)
      /\ q \in Task /\ q.product \in Product /\ q.product.by = r
      /\ req \in [Request -> Task]
  BY DEF Feed, RunEnds, IInv, Typed, Queued, Permitted, Owners, Missed, At, Active
<1>2. ASSUME NEW pc \in {"run", "terminal"}, NEW fed \in 0..2, NEW from \in SUBSET Contents,
             NEW whole \in BOOLEAN, pc = "terminal" => whole,
             req' = [req EXCEPT ![r] = [q EXCEPT !.pc = pc, !.fed = fed,
                       !.product = [q.product EXCEPT !.from = from, !.whole = whole]]],
             lines' = lines, pc = "run" => permits' = permits,
             pc = "terminal" => permits' = Without(permits, r)
      PROVE  RequestStep(r)
  <2> DEFINE p == [q.product EXCEPT !.from = from, !.whole = whole]
             n == [q EXCEPT !.pc = pc, !.fed = fed, !.product = p]
  <2>1. p \in Product /\ p.by = r /\ p.whole = whole
    BY <1>1 DEF Product
  <2> HIDE DEF p
  <2>2. n \in Task /\ n.pc = pc /\ n.product = p /\ n.track = q.track /\ n.path = q.path
        /\ n.put = q.put /\ n.cancel = q.cancel /\ n.outcome = q.outcome
    <3>1. n \in Task
      <4> DEFINE e == [q EXCEPT !.pc = pc, !.fed = fed]
      <4>1. e \in Task
        BY <1>1 DEF Task, Places
      <4>2. n = [e EXCEPT !.product = p]
        BY <1>1 DEF Task
      <4> HIDE DEF e, n
      <4> QED
        BY <2>1, <4>1, <4>2 DEF Task
    <3>2. /\ n.pc = pc /\ n.product = p /\ n.track = q.track /\ n.path = q.path
          /\ n.put = q.put /\ n.cancel = q.cancel /\ n.outcome = q.outcome
      BY <1>1 DEF Task
    <3> QED
      BY <3>1, <3>2
  <2> HIDE DEF n
  <2>3. req' \in [Request -> Task] /\ OthersStay(r) /\ req'[r] = n
    BY <1>1, <1>2, <2>2 DEF OthersStay, n, p
  <2>4. LineStep(r) /\ PermitStep(r)
    BY <1>1, <1>2, <2>2, <2>3 DEF LineStep, PermitStep, InLine, Owners, Missed
  <2>5. Staged(r)'
    <3>1. Staged(r)
      BY DEF IInv
    <3> QED
      BY <1>1, <1>2, <2>1, <2>2, <2>3, <3>1
         DEF Staged, Active, Missed, Stored, Storing, Registered, stored
  <2>6. StoreStep(r) /\ \A u \in Track : Accounted(u)' /\ Whole(u)'
    BY <1>1, <2>3, QuietStores DEF Stored, Storing
  <2>7. Active(r)' => /\ req'[r].track \in Track /\ req'[r].path \in Path
                      /\ req'[r].product \in Product /\ req'[r].product.by = r
    BY <1>1, <2>1, <2>2, <2>3 DEF IInv, Typed
  <2> QED
    BY <1>1, <2>3, <2>4, <2>5, <2>6, <2>7 DEF RequestStep, OwnStep, library
<1>3. CASE Feed(r)
  <2> DEFINE from == q.product.from \cup {objects[q.path]}
             fed == q.fed + 1
             whole == q.product.whole
             p == [q.product EXCEPT !.from = from, !.whole = whole]
  <2>1. from \in SUBSET Contents /\ whole \in BOOLEAN
    BY <1>1, <1>3 DEF Feed, IInv, Typed, Product
  <2>2. fed \in 0..2
    BY <1>1, <1>3 DEF Feed, Task
  <2>3. req' = [req EXCEPT ![r] = [q EXCEPT !.pc = "run", !.fed = fed, !.product = p]]
    <3>1. req' = [req EXCEPT ![r] = [q EXCEPT !.fed = q.fed + 1,
                                              !.product = [q.product EXCEPT !.from = from]]]
      BY <1>3 DEF Feed
    <3>2. [q.product EXCEPT !.from = from] = p
      BY <1>1 DEF Product
    <3>3. [q EXCEPT !.fed = fed, !.product = p]
            = [q EXCEPT !.pc = "run", !.fed = fed, !.product = p]
      BY <1>1 DEF Task
    <3> QED
      BY <3>1, <3>2, <3>3
  <2> HIDE DEF from, fed, whole
  <2>4. lines' = lines /\ permits' = permits
    BY <1>3 DEF Feed
  <2> QED
    BY <1>2, <2>1, <2>2, <2>3, <2>4
<1>4. CASE RunEnds(r)
  <2> DEFINE from == q.product.from
             fed == q.fed
             whole == TRUE
             p == [q.product EXCEPT !.from = from, !.whole = whole]
  <2>1. from \in SUBSET Contents /\ fed \in 0..2 /\ whole \in BOOLEAN /\ whole
    BY <1>1 DEF Product, Task
  <2>2. req' = [req EXCEPT ![r] = [q EXCEPT !.pc = "terminal", !.fed = fed, !.product = p]]
    <3>1. req' = [req EXCEPT ![r] = [q EXCEPT !.pc = "terminal",
                                              !.product = [q.product EXCEPT !.whole = TRUE]]]
      BY <1>4 DEF RunEnds
    <3>2. [q.product EXCEPT !.whole = TRUE] = p
      BY <1>1 DEF Product
    <3>3. [q EXCEPT !.pc = "terminal", !.product = p]
            = [q EXCEPT !.pc = "terminal", !.fed = fed, !.product = p]
      BY <1>1 DEF Task
    <3> QED
      BY <3>1, <3>2, <3>3
  <2> HIDE DEF from, fed, whole
  <2>3. lines' = lines /\ permits' = Without(permits, r)
    BY <1>4 DEF RunEnds
  <2> QED
    BY <1>2, <2>1, <2>2, <2>3
<1> QED
  BY <1>3, <1>4
-----------------------------------------------------------------------------
(* The product on its way into the cache, and out of it.                   *)

\* What the owner of a key may do to what is stored at it.
KeyStep(r) ==
  /\ \/ UNCHANGED cache
     \/ \E x \in Product \cup {Nothing} : cache' = [cache EXCEPT ![req[r].track] = x]
  /\ rows' \in {rows, rows \cup {req[r].track}, rows \ {req[r].track}}
  /\ unclean' \in {unclean, unclean \cup {req[r].track}}

\* Who owns a key changes the cache at that key only.
LEMMA KeyStepStores ==
  ASSUME IInv, NEW r \in Request, req[r].pc \in Owners, KeyStep(r)
  PROVE  StoreStep(r) /\ req[r].track \in Track
<1>1. req[r].track \in Track
  BY DEF IInv, Typed, Active, Owners, Missed, Stored, Storing
<1>2. /\ cache' \in [Track -> Product \cup {Nothing}]
      /\ \A u \in Track \ {req[r].track} : cache'[u] = cache[u]
  BY <1>1 DEF KeyStep, IInv, Typed
<1>3. /\ rows' \subseteq Track /\ unclean' \subseteq Track
      /\ \A u \in Track \ {req[r].track} :
           (u \in rows' <=> u \in rows) /\ (u \in unclean' <=> u \in unclean)
  BY <1>1 DEF KeyStep, IInv, Typed
<1> QED
  BY <1>1, <1>2, <1>3 DEF StoreStep

\* The state of the task that persists, after a step of its own.
Advanced(r, put) ==
  /\ req'[r].put = put /\ req'[r].pc = req[r].pc /\ req'[r].track = req[r].track
  /\ req'[r].path = req[r].path /\ req'[r].product = req[r].product
  /\ req'[r].cancel = req[r].cancel /\ req'[r].outcome = req[r].outcome

\* A step of the persisting task leaves the rest of its request.
LEMMA SubForm ==
  ASSUME IInv, NEW r \in Request, NEW put \in Persisting \cup Persisted,
         req[r].pc \in Storing, SubGoto(r, put), SameTask
  PROVE  /\ req' \in [Request -> Task] /\ OthersStay(r) /\ Advanced(r, put)
         /\ LineStep(r) /\ PermitStep(r)
<1>1. req \in [Request -> Task] /\ req[r] \in Task /\ OwnsKey(r)
  BY DEF IInv, Typed, Queued, Owners, Missed, Stored
<1>2. [req[r] EXCEPT !.put = put] \in Task
  BY <1>1 DEF Task
<1>3. req'[r] = [req[r] EXCEPT !.put = put] /\ OthersStay(r) /\ req' \in [Request -> Task]
  BY <1>1, <1>2 DEF SubGoto, OthersStay
<1>4. Advanced(r, put)
  BY <1>1, <1>3 DEF Advanced, Task
<1> QED
  BY <1>1, <1>3, <1>4 DEF SameTask, LineStep, PermitStep, Advanced, Storing

\* A step of the task that persists, once its effects are known to be right.
LEMMA SubStep ==
  ASSUME IInv, NEW r \in Request, NEW put \in Persisting \cup Persisted,
         req[r].pc \in Storing, SubGoto(r, put), SameTask, faults' \in 0..MaxFaults,
         KeyStep(r), Staged(r)',
         \A u \in Track : u = req[r].track => Accounted(u)' /\ Whole(u)'
  PROVE  RequestStep(r)
<1>1. /\ req' \in [Request -> Task] /\ OthersStay(r) /\ Advanced(r, put)
      /\ LineStep(r) /\ PermitStep(r)
  BY SubForm
<1>2. StoreStep(r)
  BY KeyStepStores DEF Owners, Missed, Stored
<1>3. Active(r) /\ req'[r].track \in Track /\ req'[r].path \in Path
      /\ req'[r].product \in Product /\ req'[r].product.by = r
  BY <1>1 DEF Advanced, IInv, Typed, Active, Storing
<1> QED
  BY <1>1, <1>2, <1>3 DEF RequestStep, OwnStep, SameTask, library, IInv, Typed

\* put: a product lands, or does not, where no row is.
LEMMA PersistPutStep ==
  ASSUME IInv, NEW r \in Request, PersistPut(r)
  PROVE  RequestStep(r)
<1> DEFINE t == req[r].track
<1>1. /\ faults' \in 0..MaxFaults /\ SameTask /\ UNCHANGED <<rows, unclean>>
      /\ req[r].pc \in Storing /\ req[r].put = "put" /\ source' = source
      /\ t \in Track /\ req[r].product \in Product /\ req[r].product.by = r
  BY FaultTyped DEF PersistPut, Sub, Storing, SameTask, library, IInv, Typed, Active
<1>2. /\ Staged(r) /\ Accounted(t) /\ Whole(t) /\ t \notin rows /\ req[r].product.whole
      /\ cache \in [Track -> Product \cup {Nothing}]
  BY <1>1 DEF IInv, Typed, Staged, Whole, Registering, Storing, RegisteredIsWhole, Registered
<1>3. PICK put \in {"upsert", "failed", "cancelled"} :
        /\ SubGoto(r, put)
        /\ Stores(r) \/ (put # "upsert" /\ UNCHANGED cache)
        /\ put = "cancelled" <=> req[r].cancel
  BY <1>1 DEF PersistPut
<1>4. OthersStay(r) /\ Advanced(r, put)
  BY <1>1, <1>3, SubForm DEF Persisting, Persisted
<1>5. KeyStep(r)
  BY <1>1, <1>3 DEF KeyStep, Stores
<1>6. Stores(r) => cache'[t] = req[r].product
  BY <1>1, <1>2 DEF Stores
<1>7. Staged(r)'
  BY <1>1, <1>2, <1>3, <1>4, <1>6
     DEF Staged, Advanced, Active, Registered, Missed, Stored, Storing, Registering
<1>8. ASSUME NEW u \in Track, u = t
      PROVE  Accounted(u)' /\ Whole(u)'
  <2>1. Whole(u)'
    BY <1>1, <1>2, <1>8 DEF Whole, Registered
  <2>2. CASE Stores(r)
    BY <2>1, <2>2, <1>1, <1>3, <1>4, <1>6, <1>8 DEF Accounted, Advanced, Stored
  <2>3. CASE UNCHANGED cache /\ cache[t] # Nothing
    <3>1. cache[t].by \in Request /\ cache[t].by # r
      BY <2>3, <1>1, <1>2 DEF Accounted, Product, Storing
    <3> QED
      BY <2>1, <2>3, <3>1, <1>1, <1>2, <1>4, <1>8 DEF Accounted, OthersStay
  <2>4. CASE UNCHANGED cache /\ cache[t] = Nothing
    BY <2>1, <2>4, <1>8 DEF Accounted
  <2> QED
    BY <2>2, <2>3, <2>4, <1>3
<1> QED
  BY <1>1, <1>3, <1>5, <1>7, <1>8, SubStep DEF Persisting, Persisted

\* upsert: the row comes once the object is there and whole.
LEMMA PersistUpsertStep ==
  ASSUME IInv, NEW r \in Request, PersistUpsert(r)
  PROVE  RequestStep(r)
<1> DEFINE t == req[r].track
<1>1. /\ faults' \in 0..MaxFaults /\ SameTask /\ UNCHANGED <<cache, unclean>>
      /\ req[r].pc \in Storing /\ req[r].put = "upsert" /\ source' = source
      /\ t \in Track /\ req[r].product \in Product /\ req[r].product.by = r
  BY FaultTyped DEF PersistUpsert, Sub, Storing, SameTask, library, IInv, Typed, Active
<1>2. /\ Staged(r) /\ Accounted(t) /\ Whole(t) /\ t \notin rows /\ req[r].product.whole
      /\ cache[t] = req[r].product /\ cache[t] # Nothing
  BY <1>1, NothingAssumption
     DEF IInv, Typed, Staged, Whole, Registering, Storing, RegisteredIsWhole, Registered
<1>3. PICK put \in {"check", "undo"} :
        /\ SubGoto(r, put)
        /\ IF put = "check" THEN rows' = rows \cup {t} ELSE UNCHANGED rows
  BY <1>1 DEF PersistUpsert
<1>4. OthersStay(r) /\ Advanced(r, put)
  BY <1>1, <1>3, SubForm DEF Persisting, Persisted
<1>5. KeyStep(r)
  BY <1>1, <1>3 DEF KeyStep
<1>6. Staged(r)'
  BY <1>1, <1>2, <1>3, <1>4
     DEF Staged, Advanced, Active, Registered, Missed, Stored, Storing, Registering
<1>7. ASSUME NEW u \in Track, u = t
      PROVE  Accounted(u)' /\ Whole(u)'
  BY <1>1, <1>2, <1>3, <1>4, <1>7 DEF Accounted, Advanced, Whole, Registered, Stored
<1> QED
  BY <1>1, <1>3, <1>5, <1>6, <1>7, SubStep DEF Persisting, Persisted

\* A product whose row could not be written is deleted, or the log says so.
LEMMA PersistUndoStep ==
  ASSUME IInv, NEW r \in Request, PersistUndo(r)
  PROVE  RequestStep(r)
<1> DEFINE t == req[r].track
<1>1. /\ faults' \in 0..MaxFaults /\ SameTask /\ UNCHANGED <<rows, unclean>>
      /\ req[r].pc \in Storing /\ req[r].put = "undo" /\ source' = source
      /\ t \in Track /\ SubGoto(r, "failed")
      /\ Deletes(r) \/ UNCHANGED cache
  BY FaultTyped DEF PersistUndo, Sub, Storing, SameTask, library, IInv, Typed, Active
<1>2. /\ Staged(r) /\ Accounted(t) /\ t \notin rows
      /\ cache \in [Track -> Product \cup {Nothing}]
  BY <1>1 DEF IInv, Typed, Staged, Registering, Storing
<1>3. OthersStay(r) /\ Advanced(r, "failed")
  BY <1>1, SubForm DEF Persisting, Persisted
<1>4. KeyStep(r)
  BY <1>1 DEF KeyStep, Deletes
<1>5. Staged(r)'
  BY <1>1, <1>2, <1>3
     DEF Staged, Advanced, Active, Registered, Missed, Stored, Storing, Registering
<1>6. ASSUME NEW u \in Track, u = t
      PROVE  Accounted(u)' /\ Whole(u)'
  <2>1. cache'[t] \in {Nothing, cache[t]}
    BY <1>1, <1>2 DEF Deletes
  <2>2. cache[t] # Nothing => cache[t].by \in Request
    BY <1>1, <1>2 DEF Product
  <2> QED
    BY <1>1, <1>2, <1>3, <1>6, <2>1, <2>2
       DEF Accounted, Advanced, OthersStay, Whole, Registered, Stored
<1> QED
  BY <1>1, <1>4, <1>5, <1>6, SubStep DEF Persisting, Persisted

\* After the row is written the persisting task looks whether it was cancelled.
LEMMA PersistCheckStep ==
  ASSUME IInv, NEW r \in Request, PersistCheck(r)
  PROVE  RequestStep(r)
<1> DEFINE t == req[r].track
<1>1. /\ faults' \in 0..MaxFaults /\ SameTask /\ UNCHANGED <<rows, unclean, cache>>
      /\ req[r].pc \in Storing /\ req[r].put = "check" /\ source' = source
      /\ t \in Track
  BY FaultTyped DEF PersistCheck, Sub, Storing, SameTask, stored, library, IInv, Typed, Active
<1>2. Staged(r) /\ Accounted(t) /\ Whole(t) /\ cache \in [Track -> Product \cup {Nothing}]
  BY <1>1 DEF IInv, Typed, Whole, RegisteredIsWhole, Registered
<1>3. PICK put \in {"dropRow", "committed"} :
        SubGoto(r, put) /\ (put = "dropRow" <=> req[r].cancel)
  BY <1>1 DEF PersistCheck
<1>4. OthersStay(r) /\ Advanced(r, put)
  BY <1>1, <1>3, SubForm DEF Persisting, Persisted
<1>5. KeyStep(r)
  BY <1>1 DEF KeyStep
<1>6. Staged(r)'
  BY <1>1, <1>2, <1>3, <1>4
     DEF Staged, Advanced, Active, Registered, Missed, Stored, Storing, Registering
<1>7. ASSUME NEW u \in Track, u = t
      PROVE  Accounted(u)' /\ Whole(u)'
  <2>1. cache[t] # Nothing => cache[t].by \in Request
    BY <1>1, <1>2 DEF Product
  <2> QED
    BY <1>1, <1>2, <1>3, <1>4, <1>7, <2>1
       DEF Accounted, Advanced, OthersStay, Whole, Registered, Stored
<1> QED
  BY <1>1, <1>3, <1>5, <1>6, <1>7, SubStep DEF Persisting, Persisted

\* The row of a key may go while its owner discards: what another request has
\* made there was not registered, or its track is gone.
LEMMA RowRemoved ==
  ASSUME IInv, NEW r \in Request, req[r].pc \in Missed, RemoveRow(r),
         UNCHANGED <<cache, source>>, OthersStay(r),
         req'[r].track = req[r].track, req'[r].pc \in Stored, req'[r].put # "put",
         req[r].put # "put", req[r].pc \in Stored
  PROVE  \A u \in Track : u = req[r].track =>
           Accounted(u)' /\ Whole(u)' /\ ~Registered(u)'
<1> SUFFICES ASSUME NEW u \in Track, u = req[r].track
             PROVE  Accounted(u)' /\ Whole(u)' /\ ~Registered(u)'
  OBVIOUS
<1>1. Staged(r) /\ Accounted(u) /\ cache \in [Track -> Product \cup {Nothing}]
  BY DEF IInv, Typed
<1>2. ~Registered(u)' /\ unclean \subseteq unclean'
      /\ (u \notin unclean' => rows' = rows \ {u})
  BY DEF RemoveRow, MarksUnclean, Registered
<1>3. u \in rows /\ u \notin unclean => cache[u].by = r
  BY <1>1 DEF Staged, Registered
<1>4. Accounted(u)'
  <2>1. CASE cache[u] = Nothing
    BY <2>1 DEF Accounted
  <2>2. CASE cache[u] # Nothing /\ cache[u].by = r
    BY <2>2 DEF Accounted
  <2>3. CASE cache[u] # Nothing /\ cache[u].by # r
    <3>1. req'[cache[u].by] = req[cache[u].by]
      BY <2>3, <1>1 DEF Product, OthersStay
    <3> QED
      BY <2>3, <3>1, <1>1, <1>2, <1>3 DEF Accounted
  <2> QED
    BY <2>1, <2>2, <2>3
<1> QED
  BY <1>2, <1>4 DEF Whole

\* The object goes, or stays with a report.
LEMMA ObjectRemoved ==
  ASSUME IInv, NEW r \in Request, req[r].pc \in Stored, RemoveObject(r),
         UNCHANGED <<rows, source>>, OthersStay(r), ~Registered(req[r].track),
         \/ req'[r].pc = "done"
         \/ req'[r].track = req[r].track /\ req'[r].pc \in Stored /\ req'[r].put # "put"
  PROVE  \A u \in Track : u = req[r].track =>
           /\ Accounted(u)' /\ Whole(u)' /\ ~Registered(u)'
           /\ cache'[u] = Nothing \/ u \in unclean'
<1> SUFFICES ASSUME NEW u \in Track, u = req[r].track
             PROVE  /\ Accounted(u)' /\ Whole(u)' /\ ~Registered(u)'
                    /\ cache'[u] = Nothing \/ u \in unclean'
  OBVIOUS
<1>1. Accounted(u) /\ cache \in [Track -> Product \cup {Nothing}]
  BY DEF IInv, Typed
<1>2. /\ cache'[u] = Nothing \/ u \in unclean'
      /\ cache'[u] \in {Nothing, cache[u]} /\ unclean \subseteq unclean'
  BY <1>1 DEF RemoveObject, Deletes, MarksUnclean
<1>3. ~Registered(u)'
  BY <1>2 DEF Registered
<1>4. Accounted(u)'
  <2>1. CASE cache'[u] = Nothing
    BY <2>1 DEF Accounted
  <2>2. CASE cache'[u] # Nothing /\ cache[u].by = r
    BY <2>2, <1>2 DEF Accounted
  <2>3. CASE cache'[u] # Nothing /\ cache[u].by # r
    <3>1. req'[cache[u].by] = req[cache[u].by]
      BY <2>3, <1>1, <1>2 DEF Product, OthersStay
    <3> QED
      BY <2>3, <3>1, <1>1, <1>2 DEF Accounted
  <2> QED
    BY <2>1, <2>2, <2>3
<1> QED
  BY <1>2, <1>3, <1>4 DEF Whole

\* Removing a row or an object concerns one key.
LEMMA RemovalIsKeyStep ==
  ASSUME IInv, NEW r \in Request, req[r].track \in Track,
         \/ RemoveRow(r) /\ UNCHANGED cache
         \/ RemoveObject(r) /\ UNCHANGED rows
  PROVE  KeyStep(r) /\ faults' \in 0..MaxFaults
<1>1. faults' \in 0..MaxFaults
  BY FaultTyped DEF RemoveRow, RemoveObject
<1> QED
  BY <1>1 DEF KeyStep, RemoveRow, RemoveObject, Deletes, MarksUnclean

\* A cancelled persist discards its row before its object.
LEMMA PersistDiscardStep ==
  ASSUME IInv, NEW r \in Request, PersistDiscard(r)
  PROVE  RequestStep(r)
<1> DEFINE t == req[r].track
<1>1. /\ SameTask /\ source' = source /\ req[r].pc \in Storing /\ t \in Track
      /\ Staged(r) /\ req[r].put \in {"dropRow", "dropObject"}
  BY DEF PersistDiscard, Sub, Storing, SameTask, library, IInv, Typed, Active
<1>2. KeyStep(r) /\ faults' \in 0..MaxFaults
  BY <1>1, RemovalIsKeyStep DEF PersistDiscard
<1>3. CASE req[r].put = "dropRow"
  <2>1. RemoveRow(r) /\ SubGoto(r, "dropObject") /\ UNCHANGED cache
    BY <1>3 DEF PersistDiscard, Sub
  <2>2. OthersStay(r) /\ Advanced(r, "dropObject")
    BY <1>1, <2>1, SubForm DEF Persisting, Persisted
  <2>3. \A u \in Track : u = t => Accounted(u)' /\ Whole(u)' /\ ~Registered(u)'
    BY <1>1, <1>3, <2>1, <2>2, RowRemoved DEF Advanced, Missed, Stored
  <2>4. Staged(r)'
    BY <1>1, <1>3, <2>1, <2>2, <2>3
       DEF Staged, Advanced, Active, Registered, Missed, Stored, Storing, Registering
  <2> QED
    BY <1>1, <1>2, <2>1, <2>3, <2>4, SubStep DEF Persisting, Persisted
<1>4. CASE req[r].put = "dropObject"
  <2>1. RemoveObject(r) /\ SubGoto(r, "cancelled") /\ UNCHANGED rows
    BY <1>4 DEF PersistDiscard, Sub
  <2>2. OthersStay(r) /\ Advanced(r, "cancelled") /\ ~Registered(t)
    BY <1>1, <1>4, <2>1, SubForm DEF Persisting, Persisted, Staged
  <2>3. \A u \in Track : u = t => Accounted(u)' /\ Whole(u)' /\ ~Registered(u)'
    BY <1>1, <2>1, <2>2, ObjectRemoved DEF Advanced, Stored
  <2>4. Staged(r)'
    BY <1>1, <1>4, <2>1, <2>2, <2>3
       DEF Staged, Advanced, Active, Registered, Missed, Stored, Storing, Registering
  <2> QED
    BY <1>1, <1>2, <2>1, <2>3, <2>4, SubStep DEF Persisting, Persisted
<1> QED
  BY <1>1, <1>3, <1>4
-----------------------------------------------------------------------------
(* The task beside the one that persists.                                  *)

\* The client has the end of its stream before anything is persisted.
LEMMA TerminalStep ==
  ASSUME IInv, NEW r \in Request, Terminal(r)
  PROVE  RequestStep(r)
<1>1. /\ faults' \in 0..MaxFaults /\ connected' \in [Request -> BOOLEAN] /\ Active(r)
      /\ UNCHANGED <<library, stored, connected, crashes>> /\ source' = source
      /\ req[r].pc = "terminal" /\ OwnsKey(r) /\ Staged(r)
      /\ req \in [Request -> Task] /\ req[r] \in Task
  BY DEF Terminal, IInv, Typed, Queued, Owners, Missed, At, Active, library
<1>2. CASE ~connected[r]
  BY <1>1, <1>2, EndsEarly DEF Terminal, Outcomes, Stored, Storing
<1>3. CASE connected[r]
  <2> DEFINE n == [req[r] EXCEPT !.pc = "persist", !.put = "put"]
  <2>1. req' = [req EXCEPT ![r] = n] /\ UNCHANGED <<lines, permits>>
    BY <1>3 DEF Terminal
  <2>2. n \in Task /\ n.pc = "persist" /\ n.put = "put" /\ n.product = req[r].product
        /\ n.track = req[r].track /\ n.path = req[r].path
        /\ n.cancel = req[r].cancel /\ n.outcome = req[r].outcome
    BY <1>1 DEF Task, Places, Persisting
  <2> HIDE DEF n
  <2>3. req' \in [Request -> Task] /\ OthersStay(r) /\ req'[r] = n
    BY <1>1, <2>1, <2>2 DEF OthersStay
  <2>4. LineStep(r) /\ PermitStep(r)
    BY <1>1, <2>1, <2>2, <2>3 DEF LineStep, PermitStep, InLine, Owners, Missed, Stored, Storing
  <2>5. Staged(r)'
    BY <1>1, <2>2, <2>3
       DEF Staged, Active, Registered, Missed, Stored, Storing, Registering, stored
  <2>6. StoreStep(r) /\ \A u \in Track : Accounted(u)' /\ Whole(u)'
    BY <1>1, <2>3, QuietStores DEF Stored, Storing
  <2>7. /\ req'[r].track \in Track /\ req'[r].path \in Path
        /\ req'[r].product \in Product /\ req'[r].product.by = r
    BY <1>1, <2>2, <2>3 DEF IInv, Typed
  <2> QED
    BY <1>1, <2>3, <2>4, <2>5, <2>6, <2>7 DEF RequestStep, OwnStep, library
<1> QED
  BY <1>2, <1>3

\* A task that answers for a stored product goes on to another such place.
LEMMA StoredStep ==
  ASSUME IInv, NEW r \in Request, req[r].pc \in Stored, NEW n \in Task,
         req' = [req EXCEPT ![r] = n], n.pc \in Stored,
         n.track = req[r].track, n.path = req[r].path, n.product = req[r].product,
         n.put = req[r].put, UNCHANGED <<connected, lines, permits, library, crashes>>,
         faults' \in 0..MaxFaults, Staged(r)',
         \/ UNCHANGED stored
         \/ /\ KeyStep(r)
            /\ \A u \in Track : u = req[r].track => Accounted(u)' /\ Whole(u)'
  PROVE  RequestStep(r)
<1>1. /\ connected' \in [Request -> BOOLEAN] /\ Active(r) /\ OwnsKey(r)
      /\ req \in [Request -> Task]
  BY DEF IInv, Typed, Queued, Owners, Missed, Active, Stored, Storing
<1>2. req' \in [Request -> Task] /\ OthersStay(r) /\ req'[r] = n
  BY <1>1 DEF OthersStay
<1>3. LineStep(r) /\ PermitStep(r)
  BY <1>1, <1>2 DEF LineStep, PermitStep, InLine, Owners, Missed, Stored, Storing
<1>4. StoreStep(r) /\ \A u \in Track : u = req[r].track => Accounted(u)' /\ Whole(u)'
  BY <1>2, QuietStores, KeyStepStores DEF Owners, Missed
<1>5. /\ req'[r].track \in Track /\ req'[r].path \in Path
      /\ req'[r].product \in Product /\ req'[r].product.by = r
  BY <1>1, <1>2 DEF IInv, Typed
<1> QED
  BY <1>1, <1>2, <1>3, <1>4, <1>5 DEF RequestStep, OwnStep

\* Waiting for the persisting task, with a client or without.
LEMMA AwaitStep ==
  ASSUME IInv, NEW r \in Request,
         Cancel(r) \/ AwaitCancelled(r) \/ AwaitPersisted(r) \/ (Finalize(r) /\ ~connected[r])
  PROVE  RequestStep(r)
<1>1. /\ faults' \in 0..MaxFaults /\ Staged(r) /\ req[r] \in Task
      /\ UNCHANGED <<library, stored, connected, lines, permits, crashes>>
      /\ req[r].pc \in Stored /\ source' = source
      /\ req \in [Request -> Task]
  BY DEF Cancel, AwaitCancelled, AwaitPersisted, Finalize, IInv, Typed, At, Stored, Storing, library
<1>2. CASE Cancel(r)
  <2> DEFINE n == [req[r] EXCEPT !.pc = "cancelled", !.cancel = TRUE]
  <2>1. req' = [req EXCEPT ![r] = n] /\ req[r].pc = "persist"
    BY <1>2 DEF Cancel, At
  <2>2. n \in Task /\ n.pc = "cancelled" /\ n.put = req[r].put /\ n.product = req[r].product
        /\ n.track = req[r].track /\ n.path = req[r].path /\ n.outcome = req[r].outcome
    <3>1. n \in Task
      BY <1>1 DEF Task, Places
    <3>2. /\ n.pc = "cancelled" /\ n.put = req[r].put /\ n.product = req[r].product
          /\ n.track = req[r].track /\ n.path = req[r].path /\ n.outcome = req[r].outcome
      BY <1>1 DEF Task
    <3> QED
      BY <3>1, <3>2
  <2> HIDE DEF n
  <2>3. req'[r] = n
    BY <1>1, <2>1
  <2>4. Staged(r)'
    BY <1>1, <2>1, <2>2, <2>3
       DEF Staged, Active, Registered, Missed, Stored, Storing, Registering, stored
  <2> QED
    BY <1>1, <2>1, <2>2, <2>4, StoredStep DEF Stored, Storing
<1>3. ASSUME NEW after \in {"done", "finalize"}, Discards(r, after), req[r].put \in Persisted
      PROVE  RequestStep(r)
  <2> DEFINE n == [req[r] EXCEPT !.pc = "dropRow", !.after = after]
  <2>1. req' = [req EXCEPT ![r] = n]
    BY <1>3 DEF Discards
  <2>2. n \in Task /\ n.pc = "dropRow" /\ n.put = req[r].put /\ n.product = req[r].product
        /\ n.track = req[r].track /\ n.path = req[r].path /\ n.outcome = req[r].outcome
    <3>1. n \in Task
      BY <1>1, <1>3 DEF Task, Places
    <3>2. /\ n.pc = "dropRow" /\ n.put = req[r].put /\ n.product = req[r].product
          /\ n.track = req[r].track /\ n.path = req[r].path /\ n.outcome = req[r].outcome
      BY <1>1 DEF Task
    <3> QED
      BY <3>1, <3>2
  <2> HIDE DEF n
  <2>3. req'[r] = n
    BY <1>1, <2>1
  <2>4. Staged(r)'
    BY <1>1, <1>3, <2>2, <2>3
       DEF Staged, Active, Registered, Missed, Stored, Storing, Registering, stored
  <2> QED
    BY <1>1, <2>1, <2>2, <2>4, StoredStep DEF Stored
<1>4. CASE AwaitCancelled(r)
  BY <1>3, <1>4 DEF AwaitCancelled
<1>5. CASE AwaitPersisted(r)
  <2>1. req[r].pc = "persist" /\ req[r].put \in {"failed", "committed"}
    BY <1>1, <1>5 DEF AwaitPersisted, At, Staged, Persisted, Registering
  <2>2. CASE Goto(r, "finalize") /\ req[r].put = "committed"
    <3> DEFINE n == [req[r] EXCEPT !.pc = "finalize"]
    <3>1. req' = [req EXCEPT ![r] = n]
      BY <1>1, <2>2 DEF Goto
    <3>2. n \in Task /\ n.pc = "finalize" /\ n.put = req[r].put /\ n.product = req[r].product
          /\ n.track = req[r].track /\ n.path = req[r].path /\ n.outcome = req[r].outcome
      BY <1>1 DEF Task, Places
    <3> HIDE DEF n
    <3>3. req'[r] = n
      BY <1>1, <3>1
    <3>4. Staged(r)'
      BY <1>1, <2>1, <2>2, <3>2, <3>3
         DEF Staged, Active, Registered, Missed, Stored, Storing, Registering, Persisted, stored
    <3> QED
      BY <1>1, <3>1, <3>2, <3>4, StoredStep DEF Stored
  <2> QED
    BY <1>3, <1>5, <2>1, <2>2 DEF AwaitPersisted
<1>6. CASE Finalize(r) /\ ~connected[r]
  <2>1. req[r].put \in Persisted
    BY <1>1, <1>6 DEF Finalize, At, Staged, Stored, Storing, Persisted
  <2> QED
    BY <1>3, <1>6, <2>1 DEF Finalize
<1> QED
  BY <1>2, <1>4, <1>5, <1>6

\* The task ends, and what it leaves at its key is accounted for.
LEMMA EndsLate ==
  ASSUME IInv, NEW r \in Request, NEW o \in Outcomes, Return(r, o), req[r].pc \in Stored,
         UNCHANGED <<library, connected, crashes>>, faults' \in 0..MaxFaults, KeyStep(r),
         \A u \in Track : u = req[r].track => Accounted(u)' /\ Whole(u)'
  PROVE  RequestStep(r)
<1>1. /\ req' \in [Request -> Task] /\ OthersStay(r) /\ req'[r].pc = "done"
      /\ LineStep(r) /\ PermitStep(r) /\ Staged(r)'
  BY ReturnForm DEF Active, Stored, Storing
<1>2. StoreStep(r)
  BY KeyStepStores DEF Owners, Missed
<1>3. connected' \in [Request -> BOOLEAN]
  BY DEF IInv, Typed
<1> QED
  BY <1>1, <1>2, <1>3 DEF RequestStep, OwnStep, Active, Stored, Storing, library

\* A client that took all leaves a registered product.
LEMMA FinalizeServes ==
  ASSUME IInv, NEW r \in Request, Finalize(r), connected[r]
  PROVE  RequestStep(r)
<1> DEFINE t == req[r].track
<1>1. /\ Return(r, "served") /\ req[r].pc = "finalize" /\ Staged(r)
      /\ UNCHANGED <<library, stored, connected, crashes>> /\ faults' \in 0..MaxFaults
      /\ source' = source /\ cache' = cache /\ rows' = rows /\ unclean' = unclean
      /\ cache \in [Track -> Product \cup {Nothing}]
  BY DEF Finalize, At, IInv, Typed, library, stored
<1>2. OthersStay(r) /\ req'[r].pc = "done" /\ req'[r].outcome = "served"
  BY <1>1, ReturnForm DEF Active, Outcomes
<1>3. KeyStep(r)
  BY <1>1 DEF KeyStep
<1>4. ASSUME NEW u \in Track, u = t
      PROVE  Accounted(u)' /\ Whole(u)'
  <2>1. Accounted(u) /\ Whole(u)
    BY DEF IInv, RegisteredIsWhole, Whole, Registered
  <2>2. Whole(u)'
    BY <1>1, <2>1 DEF Whole, Registered
  <2>3. CASE cache[u] = Nothing
    BY <1>1, <2>2, <2>3 DEF Accounted
  <2>4. CASE cache[u] # Nothing /\ cache[u].by = r
    BY <1>1, <1>2, <1>4, <2>2, <2>4 DEF Accounted, Staged
  <2>5. CASE cache[u] # Nothing /\ cache[u].by # r
    <3>1. req'[cache[u].by] = req[cache[u].by]
      BY <2>5, <1>1, <1>2 DEF Product, OthersStay
    <3> QED
      BY <2>2, <2>5, <3>1, <1>1, <2>1 DEF Accounted
  <2> QED
    BY <2>2, <2>3, <2>4, <2>5
<1> QED
  BY <1>1, <1>3, <1>4, EndsLate DEF Outcomes, Stored

\* The discard of a product nobody took begins with its row.
LEMMA DiscardRowStep ==
  ASSUME IInv, NEW r \in Request, DiscardRow(r)
  PROVE  RequestStep(r)
<1> DEFINE t == req[r].track
           n == [req[r] EXCEPT !.pc = "dropObject"]
<1>1. /\ RemoveRow(r) /\ req[r].pc = "dropRow" /\ Staged(r) /\ t \in Track
      /\ UNCHANGED <<library, cache, connected, lines, permits, crashes>>
      /\ source' = source /\ req[r] \in Task
      /\ req \in [Request -> Task] /\ req' = [req EXCEPT ![r] = n]
  BY DEF DiscardRow, At, Goto, IInv, Typed, Active, library
<1>2. KeyStep(r) /\ faults' \in 0..MaxFaults
  BY <1>1, RemovalIsKeyStep
<1>3. n \in Task /\ n.pc = "dropObject" /\ n.put = req[r].put /\ n.product = req[r].product
      /\ n.track = t /\ n.path = req[r].path /\ n.outcome = req[r].outcome
  BY <1>1 DEF Task, Places
<1> HIDE DEF n
<1>4. req'[r] = n /\ OthersStay(r)
  BY <1>1 DEF OthersStay
<1>5. \A u \in Track : u = t => Accounted(u)' /\ Whole(u)' /\ ~Registered(u)'
  BY <1>1, <1>3, <1>4, RowRemoved DEF Missed, Stored, Storing, Staged, Persisted
<1>6. Staged(r)'
  BY <1>1, <1>3, <1>4, <1>5 DEF Staged, Active, Registered, Missed, Stored, Storing
<1> QED
  BY <1>1, <1>2, <1>3, <1>5, <1>6, StoredStep DEF Stored

\* It ends with the object, whose row is gone.
LEMMA DiscardObjectStep ==
  ASSUME IInv, NEW r \in Request, DiscardObject(r)
  PROVE  RequestStep(r)
<1> DEFINE t == req[r].track
           n == [req[r] EXCEPT !.pc = "finalize"]
<1>1. /\ RemoveObject(r) /\ req[r].pc = "dropObject" /\ Staged(r) /\ t \in Track
      /\ UNCHANGED <<library, rows, connected, crashes>> /\ ~Registered(t)
      /\ source' = source /\ req[r] \in Task /\ req \in [Request -> Task]
  BY DEF DiscardObject, At, IInv, Typed, Active, library, Staged
<1>2. KeyStep(r) /\ faults' \in 0..MaxFaults
  BY <1>1, RemovalIsKeyStep
<1>3. CASE Return(r, "interrupted")
  <2>1. OthersStay(r) /\ req'[r].pc = "done"
    BY <1>1, <1>3, ReturnForm DEF Active, Outcomes
  <2>2. \A u \in Track : u = t => Accounted(u)' /\ Whole(u)'
    BY <1>1, <2>1, ObjectRemoved DEF Stored
  <2> QED
    BY <1>1, <1>2, <1>3, <2>2, EndsLate DEF Outcomes, Stored
<1>4. CASE Waits(r, "finalize")
  <2>1. req' = [req EXCEPT ![r] = n] /\ UNCHANGED <<lines, permits>>
    BY <1>4 DEF Waits, Goto
  <2>2. n \in Task /\ n.pc = "finalize" /\ n.put = req[r].put /\ n.product = req[r].product
        /\ n.track = t /\ n.path = req[r].path /\ n.outcome = req[r].outcome
    BY <1>1 DEF Task, Places
  <2> HIDE DEF n
  <2>3. req'[r] = n /\ OthersStay(r)
    BY <1>1, <2>1 DEF OthersStay
  <2>4. \A u \in Track : u = t =>
          /\ Accounted(u)' /\ Whole(u)' /\ ~Registered(u)'
          /\ cache'[u] = Nothing \/ u \in unclean'
    BY <1>1, <2>2, <2>3, ObjectRemoved DEF Stored, Storing, Staged, Persisted
  <2>5. Staged(r)'
    BY <1>1, <2>2, <2>3, <2>4 DEF Staged, Active, Registered, Missed, Stored, Storing
  <2> QED
    BY <1>1, <1>2, <2>1, <2>2, <2>4, <2>5, StoredStep DEF Stored
<1> QED
  BY <1>3, <1>4 DEF DiscardObject

\* Every step of a request's task is one.
LEMMA TaskStepIsRequestStep ==
  ASSUME IInv, NEW r \in Request, TaskStep(r)
  PROVE  RequestStep(r)
<1>1. Finalize(r) => RequestStep(r)
  BY FinalizeServes, AwaitStep
<1>2. RangeGet(r) \/ RangeHead(r) \/ RangeRead(r) \/ GiveUp(r) => RequestStep(r)
  BY RangeStep
<1>3. Lookup(r) \/ HeadCached(r) \/ Forget(r) \/ Pump(r) => RequestStep(r)
  BY LookupStep, ForgetStep
<1>4. Start(r) \/ Feed(r) \/ RunEnds(r) \/ RunFails(r) \/ RunAborted(r) => RequestStep(r)
  BY RunStep, RunningStep
<1>5. Terminal(r) \/ PersistPut(r) \/ PersistUpsert(r) \/ PersistUndo(r) => RequestStep(r)
  BY TerminalStep, PersistPutStep, PersistUpsertStep, PersistUndoStep
<1>6. PersistCheck(r) \/ PersistDiscard(r) => RequestStep(r)
  BY PersistCheckStep, PersistDiscardStep
<1>7. Cancel(r) \/ AwaitCancelled(r) \/ AwaitPersisted(r) => RequestStep(r)
  BY AwaitStep
<1>8. DiscardRow(r) \/ DiscardObject(r) => RequestStep(r)
  BY DiscardRowStep, DiscardObjectStep
<1> QED
  BY <1>1, <1>2, <1>3, <1>4, <1>5, <1>6, <1>7, <1>8 DEF TaskStep

\* A request begins with the row of its track.
LEMMA StreamStep ==
  ASSUME IInv, NEW r \in Request, NEW t \in Track, Stream(r, t)
  PROVE  RequestStep(r)
<1> DEFINE pc == IF r \in Ranged THEN "rangeGet" ELSE "line"
           n == [req[r] EXCEPT !.pc = pc, !.track = t, !.path = source[t],
                               !.product = Product0(r)]
<1>1. /\ req[r].pc = "idle" /\ source[t] \in Path /\ connected' \in [Request -> BOOLEAN]
      /\ UNCHANGED <<library, stored, permits, faults, crashes>> /\ faults' \in 0..MaxFaults
      /\ req \in [Request -> Task] /\ req[r] \in Task /\ req' = [req EXCEPT ![r] = n]
      /\ lines' = IF r \in Ranged THEN lines
                  ELSE [lines EXCEPT ![Shard[t]] = Append(@, r)]
  BY DEF Stream, At, IInv, Typed
<1>2. Product0(r) \in Product /\ Product0(r).by = r
  BY DEF Product0, Product
<1>3. /\ n \in Task /\ n.pc \in {"rangeGet", "line"} /\ n.track = t /\ n.path = source[t]
      /\ n.pc = (IF r \in Ranged THEN "rangeGet" ELSE "line")
      /\ n.product = Product0(r)
      /\ n.put = req[r].put /\ n.cancel = req[r].cancel /\ n.outcome = req[r].outcome
  BY <1>1, <1>2 DEF Task, Places
<1> HIDE DEF n
<1>4. req' \in [Request -> Task] /\ OthersStay(r) /\ req'[r] = n
  BY <1>1, <1>3 DEF OthersStay
<1>5. LineStep(r) /\ PermitStep(r)
  BY <1>1, <1>3, <1>4 DEF LineStep, PermitStep, InLine, Owners, Missed, Stored, Storing
<1>6. req[r].outcome = "none" => Staged(r)'
  BY <1>1, <1>3, <1>4 DEF IInv, Staged, Active, Missed, Stored, Storing
<1>7. StoreStep(r) /\ \A u \in Track : Accounted(u)' /\ Whole(u)'
  BY <1>1, <1>4, QuietStores DEF Stored, Storing
<1>8. req[r].outcome = "none"
  BY <1>1 DEF IInv, Staged
<1> QED
  BY <1>1, <1>2, <1>3, <1>4, <1>5, <1>6, <1>7, <1>8 DEF RequestStep, OwnStep, library
-----------------------------------------------------------------------------
(* The client, the library and a crash.                                    *)

\* A client may drop its stream at any moment.
LEMMA DisconnectIInv ==
  ASSUME IInv, NEW r \in Request, Disconnect(r)
  PROVE  IInv'
<1>1. /\ UNCHANGED <<library, stored, req, lines, permits, faults, crashes>>
      /\ connected' \in [Request -> BOOLEAN]
  BY DEF Disconnect, IInv, Typed
<1>2. Typed' /\ Queued' /\ Permitted' /\ RegisteredIsWhole'
  BY <1>1 DEF IInv, Typed, Active, Queued, OwnsKey, Permitted, At, HasPermit,
              RegisteredIsWhole, library, stored
<1>3. \A q \in Request : Staged(q)'
  BY <1>1 DEF IInv, Staged, Registered, library, stored
<1>4. \A t \in Track : Accounted(t)'
  BY <1>1 DEF IInv, Accounted, library, stored
<1> QED
  BY <1>2, <1>3, <1>4 DEF IInv

\* A change of the library takes rows only of tracks it deletes, and a deleted
\* track stays deleted.
LEMMA LibraryForgets ==
  ASSUME Typed, LibraryStep
  PROVE  /\ SameServer /\ rows' \subseteq rows
         /\ \A t \in Track : t \in rows \/ source[t] = Deleted
                               => t \in rows' \/ source'[t] = Deleted
         /\ source' \in [Track -> Path \cup {Unborn, Deleted}]
         /\ objects' \in [Path -> Contents \cup {Nothing}]
         /\ changes' \in 0..MaxChanges
<1>1. ASSUME Changes
      PROVE  changes' \in 0..MaxChanges /\ changes + 1 \in 0..MaxChanges
  BY <1>1, BoundsAssumption DEF Changes, Typed
<1>2. ASSUME NEW t \in Track, Replace(t)
      PROVE  /\ objects' \in [Path -> Contents \cup {Nothing}] /\ changes' \in 0..MaxChanges
             /\ SameServer /\ rows' = rows /\ source' = source
  BY <1>1, <1>2 DEF Replace, Typed, Contents
<1>3. ASSUME NEW t \in Track, Delete(t)
      PROVE  /\ objects' \in [Path -> Contents \cup {Nothing}] /\ changes' \in 0..MaxChanges
             /\ SameServer /\ rows' = rows \ {t} /\ source' = [source EXCEPT ![t] = Deleted]
  BY <1>1, <1>3 DEF Delete, Typed
<1>4. ASSUME NEW t \in Track, NEW p \in Path, Move(t, p)
      PROVE  /\ objects' \in [Path -> Contents \cup {Nothing}] /\ changes' \in 0..MaxChanges
             /\ SameServer /\ rows' = rows /\ source' = [source EXCEPT ![t] = p]
             /\ source[t] # Deleted
  BY <1>1, <1>4, NamesAssumption DEF Move, Typed
<1>5. ASSUME NEW t \in Track, NEW p \in Path, Upload(t, p)
      PROVE  /\ objects' \in [Path -> Contents \cup {Nothing}] /\ changes' \in 0..MaxChanges
             /\ SameServer /\ rows' = rows /\ source' = [source EXCEPT ![t] = p]
             /\ source[t] # Deleted
  BY <1>1, <1>5, NamesAssumption DEF Upload, Typed, Contents
<1>6. source \in [Track -> Path \cup {Unborn, Deleted}]
  BY DEF Typed
<1>7. CASE \E t \in Track : Replace(t) \/ Delete(t)
  BY <1>2, <1>3, <1>6, <1>7
<1>8. CASE \E t \in Track, p \in Path : Move(t, p) \/ Upload(t, p)
  BY <1>4, <1>5, <1>6, <1>8
<1> QED
  BY <1>7, <1>8 DEF LibraryStep

\* Files and tracks of the library may change at any moment.
LEMMA LibraryIInv ==
  ASSUME IInv, LibraryStep
  PROVE  IInv'
<1>1. /\ UNCHANGED <<cache, unclean, req, connected, lines, permits, faults, crashes>>
      /\ rows' \subseteq rows
      /\ \A t \in Track : t \in rows \/ source[t] = Deleted
                            => t \in rows' \/ source'[t] = Deleted
      /\ source' \in [Track -> Path \cup {Unborn, Deleted}]
      /\ objects' \in [Path -> Contents \cup {Nothing}]
      /\ changes' \in 0..MaxChanges
  BY LibraryForgets DEF SameServer, IInv
<1>2. Typed' /\ Queued' /\ Permitted' /\ RegisteredIsWhole'
  BY <1>1 DEF IInv, Typed, Active, Queued, OwnsKey, Permitted, At, HasPermit,
              RegisteredIsWhole
<1>3. ASSUME NEW q \in Request
      PROVE  Staged(q)'
  <2>1. Staged(q) /\ (req[q].pc \in Stored => req[q].track \in Track)
    BY DEF IInv, Typed, Active, Stored, Storing
  <2>2. req'[q] = req[q] /\ cache' = cache /\ unclean' = unclean
        /\ \A t : Registered(t)' => Registered(t)
    BY <1>1 DEF Registered
  <2>3. Active(q)' <=> Active(q)
    BY <1>1 DEF Active
  <2> QED
    BY <1>1, <2>1, <2>2, <2>3 DEF Staged, Stored, Storing
<1>4. \A t \in Track : Accounted(t)'
  BY <1>1 DEF IInv, Accounted
<1> QED
  BY <1>2, <1>3, <1>4 DEF IInv

\* A crash ends all requests, their queues and permits, and keeps the stores.
LEMMA CrashIInv ==
  ASSUME IInv, Crash
  PROVE  IInv'
<1>1. /\ req' = [r \in Request |-> IF req[r].pc \in {"idle", "done"} THEN req[r] ELSE Ended("lost")]
      /\ connected' = [r \in Request |-> FALSE]
      /\ lines' = [s \in Shards |-> <<>>] /\ permits' = <<>>
      /\ UNCHANGED <<library, stored, faults>> /\ crashes' \in 0..MaxCrashes
  BY BoundsAssumption DEF Crash, IInv, Typed
<1>2. /\ Ended("lost") \in Task /\ Ended("lost").pc = "done" /\ Ended("lost").outcome = "lost"
      /\ ~Ended("lost").cancel /\ Ended("lost").put = "none"
  <2>1. Ended("lost") = [Idle EXCEPT !.pc = "done", !.outcome = "lost"]
    BY DEF Ended
  <2>2. Idle \in Task /\ ~Idle.cancel /\ Idle.put = "none"
    BY DEF Idle, Task, Places
  <2> QED
    BY <2>1, <2>2 DEF Task, Places
<1>3. \A r \in Request : /\ req'[r] \in Task /\ req'[r].pc \in {"idle", "done"}
                         /\ req'[r] = req[r] \/ req'[r] = Ended("lost")
                         /\ req[r].pc \notin {"idle", "done"} => req'[r] = Ended("lost")
                         /\ req[r].pc \in {"idle", "done"} => req'[r] = req[r]
  BY <1>1, <1>2 DEF IInv, Typed
<1>4. Typed'
  BY <1>1, <1>3 DEF IInv, Typed, Active, library, stored
<1>5. Queued' /\ Permitted'
  BY <1>1, <1>3 DEF Queued, Permitted, Distinct, Owners, Missed, Stored, Storing, At, Typed
<1>6. RegisteredIsWhole'
  BY <1>1 DEF IInv, RegisteredIsWhole, stored
<1>7. ASSUME NEW q \in Request
      PROVE  Staged(q)'
  BY <1>2, <1>3 DEF IInv, Staged, Missed, Stored, Storing
<1>8. ASSUME NEW t \in Track
      PROVE  Accounted(t)'
  <2>1. Accounted(t) /\ (cache[t] # Nothing => cache[t].by \in Request)
    BY DEF IInv, Typed, Product
  <2> QED
    BY <1>1, <1>2, <1>3, <2>1 DEF Accounted, Stored, Storing, library, stored
<1> QED
  BY <1>4, <1>5, <1>6, <1>7, <1>8 DEF IInv
-----------------------------------------------------------------------------
(* The invariant holds initially and is inductive.                         *)

\* Init has an empty cache.
LEMMA InitIInv == Init => IInv
<1> SUFFICES ASSUME Init
             PROVE  IInv
  OBVIOUS
<1>1. Idle \in Task /\ Idle.pc = "idle" /\ ~Idle.cancel /\ Idle.put = "none" /\ Idle.outcome = "none"
  BY DEF Idle, Task, Places
<1>2. /\ req \in [Request -> Task] /\ \A r \in Request : req[r] = Idle
      /\ lines = [s \in Shards |-> <<>>] /\ permits = <<>>
      /\ cache = [t \in Track |-> Nothing] /\ rows = {} /\ unclean = {}
  BY <1>1 DEF Init, Shards
<1>3. Typed
  <2>1. objects \in [Path -> Contents \cup {Nothing}]
    BY BoundsAssumption DEF Init, Contents
  <2>2. source \in [Track -> Path \cup {Unborn, Deleted}]
    BY HomeAssumption DEF Init
  <2> QED
    BY <1>1, <1>2, <2>1, <2>2, BoundsAssumption DEF Init, Typed, Active
<1>4. Queued /\ Permitted
  BY <1>1, <1>2 DEF Queued, Permitted, Distinct, Owners, Missed, Stored, Storing, At
<1>5. \A r \in Request : Staged(r)
  BY <1>1, <1>2 DEF Staged, Missed, Stored, Storing
<1>6. \A t \in Track : Accounted(t)
  BY <1>2 DEF Accounted
<1> QED
  BY <1>2, <1>3, <1>4, <1>5, <1>6 DEF IInv, RegisteredIsWhole

\* Every step keeps the invariant.
LEMMA NextIInv == IInv /\ [Next]_vars => IInv'
<1> SUFFICES ASSUME IInv, [Next]_vars
             PROVE  IInv'
  OBVIOUS
<1>1. ASSUME NEW r \in Request, TaskStep(r)
      PROVE  IInv'
  BY <1>1, TaskStepIsRequestStep, RequestStepIInv
<1>2. ASSUME NEW r \in Request, NEW t \in Track, Stream(r, t)
      PROVE  IInv'
  BY <1>2, StreamStep, RequestStepIInv
<1>3. CASE UNCHANGED vars
  <2>1. Typed' /\ Queued' /\ Permitted' /\ RegisteredIsWhole'
    BY <1>3 DEF vars, IInv, Typed, Active, Queued, OwnsKey, Permitted, At, HasPermit,
                RegisteredIsWhole
  <2>2. \A q \in Request : Staged(q)'
    BY <1>3 DEF vars, IInv, Staged, Registered
  <2>3. \A t \in Track : Accounted(t)'
    BY <1>3 DEF vars, IInv, Accounted
  <2> QED
    BY <2>1, <2>2, <2>3 DEF IInv
<1> QED
  BY <1>1, <1>2, <1>3, DisconnectIInv, LibraryIInv, CrashIInv DEF Next, Rest

\* In every reachable state the invariant holds.
THEOREM Inductive == Spec => []IInv
<1> QED
  BY InitIInv, NextIInv, PTL DEF Spec
-----------------------------------------------------------------------------
(* What it says about the cache.                                           *)

\* The variables keep the shapes TypeOK gives them.
THEOREM Typing == Spec => []TypeOK
<1>1. IInv => TypeOK
  BY DEF IInv, Typed, TypeOK, Task, Active, Shards
<1> QED
  BY <1>1, Inductive, PTL

\* A registered product is there and whole at every moment (cache.rs).
THEOREM RegisteredProductsAreWhole == Spec => []RegisteredIsWhole
<1>1. IInv => RegisteredIsWhole
  BY DEF IInv
<1> QED
  BY <1>1, Inductive, PTL

\* What stays in the cache was made for a client that consumed all of it.
THEOREM KeptIsServed == Spec => []OnlyServedIsKept
<1>1. IInv => OnlyServedIsKept
  <2> SUFFICES ASSUME IInv, NEW t \in Track \ unclean, cache[t] # Nothing
               PROVE  \/ Active(cache[t].by) \/ req[cache[t].by].outcome = "lost"
                      \/ /\ req[cache[t].by].outcome = "served"
                         /\ t \in rows \/ source[t] = Deleted
    BY DEF OnlyServedIsKept
  <2> QED
    BY DEF IInv, Accounted, Active, Stored, Storing
<1> QED
  BY <1>1, Inductive, PTL

\* The processes that run are among the first of the permit queue, so there are
\* at most Permits of them; and the owner of a key is alone with it.
THEOREM RunsLimited == Spec => []RunsAreLimited
<1>1. IInv => RunsAreLimited
  <2> SUFFICES ASSUME IInv
               PROVE  RunsAreLimited
    OBVIOUS
  <2> DEFINE running == {r \in Request : At(r, "run")}
             place == [r \in running |-> CHOOSE i \in 1..Permits : i \in 1..Len(permits) /\ permits[i] = r]
  <2>1. \A r, s \in running : req[r].track = req[s].track => r = s
    BY OneOwner DEF IInv, At, Owners, Missed
  <2>2. \A r \in running : \E i \in 1..Permits : i \in 1..Len(permits) /\ permits[i] = r
    BY PermitsAssumption DEF IInv, Permitted, HasPermit
  <2>3. place \in Injection(running, 1..Permits)
    BY <2>2 DEF Injection, IsInjective
  <2>4. Cardinality(running) <= Permits
    BY <2>3, FS_Injection, FS_Interval, PermitsAssumption
  <2> QED
    BY <2>1, <2>4 DEF RunsAreLimited
<1> QED
  BY <1>1, Inductive, PTL

\* FFmpeg is never started for a product that is registered: who starts it
\* holds a permit, and who waits for one has missed the cache under the lock.
THEOREM NoTranscodeTwice == Spec => NoSecondTranscode
<1> DEFINE A == \A r \in Request : ~At(r, "run") /\ req'[r].pc = "run" => req[r].track \notin rows
<1>1. IInv /\ [Next]_vars => [A]_vars
  <2> SUFFICES ASSUME IInv, Next, NEW r \in Request, ~At(r, "run"), req'[r].pc = "run"
               PROVE  req[r].track \notin rows
    OBVIOUS
  <2>1. ASSUME RequestStep(r)
        PROVE  req[r].track \notin rows
    <3>1. HasPermit(r)
      BY <2>1 DEF RequestStep, PermitStep
    <3>2. req[r].pc = "permit"
      BY <3>1 DEF IInv, Permitted, HasPermit, At
    <3> QED
      BY <3>2 DEF IInv, Staged
  <2>2. ASSUME NEW q \in Request, RequestStep(q)
        PROVE  req[r].track \notin rows
    <3>1. CASE q = r
      BY <2>1, <2>2, <3>1
    <3>2. CASE q # r
      BY <2>2, <3>2 DEF RequestStep, OwnStep, OthersStay, At
    <3> QED
      BY <3>1, <3>2
  <2>3. CASE \E q \in Request : TaskStep(q) \/ \E t \in Track : Stream(q, t)
    BY <2>2, <2>3, TaskStepIsRequestStep, StreamStep
  <2>4. CASE LibraryStep \/ Rest \/ \E q \in Request : Disconnect(q)
    BY <2>4, LibraryForgets DEF IInv, SameServer, Rest, vars, Disconnect, At
  <2>5. CASE Crash
    <3>1. Ended("lost").pc = "done"
      BY DEF Ended, Idle
    <3> QED
      BY <2>5, <3>1 DEF Crash, At
  <2> QED
    BY <2>3, <2>4, <2>5 DEF Next
<1> QED
  BY <1>1, Inductive, PTL DEF Spec, NoSecondTranscode

\* Whoever has found the product under the lock of its key finds it while it
\* reads, unless a call fails.
THEOREM HitsServed == Spec => HitsAreServed
<1> DEFINE A == \A r \in Request : At(r, "pump") /\ connected[r] /\ req'[r].outcome = "failed"
                  => faults' > faults
<1>1. IInv /\ [Next]_vars => [A]_vars
  <2> SUFFICES ASSUME IInv, Next, NEW r \in Request, At(r, "pump"), connected[r],
                      req'[r].outcome = "failed"
               PROVE  faults' > faults
    OBVIOUS
  <2>1. req[r].outcome = "none" /\ req[r].pc = "pump" /\ cache[req[r].track] # Nothing
        /\ faults \in Int
    BY DEF IInv, Typed, Staged, At
  <2>2. CASE TaskStep(r)
    <3>1. Pump(r)
      BY <2>1, <2>2 DEF TaskStep, RangeGet, RangeHead, RangeRead, GiveUp, Lookup, HeadCached,
           Forget, Start, Feed, RunEnds, RunFails, RunAborted, Terminal, PersistPut,
           PersistUpsert, PersistUndo, PersistCheck, PersistDiscard, Sub, Cancel,
           AwaitCancelled, AwaitPersisted, Finalize, DiscardRow, DiscardObject, At
    <3>2. CASE NoFault
      <4>1. Return(r, "served") \/ Fault
        BY <3>1, <2>1 DEF Pump
      <4>2. ~Return(r, "served")
        BY <2>1, ReturnForm DEF Outcomes, Active
      <4> QED
        BY <4>1, <4>2, <2>1 DEF Fault
    <3> QED
      BY <3>1, <3>2, <2>1 DEF Pump, Fault
  <2>3. ASSUME NEW q \in Request, q # r, RequestStep(q)
        PROVE  FALSE
    BY <2>1, <2>3 DEF RequestStep, OwnStep, OthersStay
  <2>4. CASE \E q \in Request : TaskStep(q) \/ \E t \in Track : Stream(q, t)
    BY <2>1, <2>2, <2>3, <2>4, TaskStepIsRequestStep, StreamStep DEF Stream, At
  <2>5. CASE LibraryStep \/ Rest \/ \E q \in Request : Disconnect(q)
    BY <2>1, <2>5, LibraryForgets DEF IInv, SameServer, Rest, vars, Disconnect
  <2>6. CASE Crash
    <3>1. req'[r] = Ended("lost") /\ Ended("lost").outcome = "lost"
      BY <2>1, <2>6 DEF Crash, Ended, Idle
    <3> QED
      BY <3>1
  <2> QED
    BY <2>4, <2>5, <2>6 DEF Next
<1> QED
  BY <1>1, Inductive, PTL DEF Spec, HitsAreServed
=============================================================================
