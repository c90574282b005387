----------------------------- MODULE KeyLocks ------------------------------
(***************************************************************************)
(* KeyedOperationLocks (server/src/api/mod.rs): the in-process table of    *)
(* per-key locks under which library operations change objects.            *)
(*                                                                         *)
(* `locks` maps a key to a Weak reference; a task that asks for a set of   *)
(* keys sorts it, then in one critical section of the table's std mutex    *)
(* drops the entries nobody references, upgrades the entries it finds and  *)
(* creates a mutex for the others.  It then awaits the mutexes one by one. *)
(*                                                                         *)
(* A mutex is tokio's: a holder and a FIFO queue of waiters, and a release *)
(* hands it to the first waiter, which notices when it is next polled.     *)
(* Keys are strings compared lexicographically; here they are their ranks. *)
(***************************************************************************)
EXTENDS Integers, Sequences

CONSTANTS
  Task,      \* the tasks that run library operations
  KeyCount,  \* how many keys there are
  KeySets,   \* the sets of keys the operations ask for
  Mutex,     \* identities of the heap allocated mutexes
  NoMutex,   \* "no reference"
  NoTask     \* "nobody"

ASSUME KeyCountAssumption == KeyCount \in Nat

\* The keys, numbered in lexicographic order.
Key == 1..KeyCount

ASSUME KeySetsAssumption == KeySets \subseteq (SUBSET Key) \ {{}}
ASSUME MutexAssumption == NoMutex \notin Mutex
ASSUME TaskAssumption == NoTask \notin Task

VARIABLES
  pc,        \* where each task stands in lock() or in the life of its guards
  refs,      \* refs[t][k]: the strong reference t has to the mutex of key k
  held,      \* held[t]: the keys whose guard t has
  table,     \* table[k]: the mutex the table's weak entry for k points to
  holder,    \* holder[m]: the task to which mutex m is granted
  waiters    \* waiters[m]: the tasks queued on mutex m, first come first

vars == <<pc, refs, held, table, holder, waiters>>

NoRefs == [k \in Key |-> NoMutex]

Typed ==
  /\ pc \in [Task -> {"idle", "acquire", "wait", "locked", "release"}]
  /\ refs \in [Task -> [Key -> Mutex \cup {NoMutex}]]
  /\ held \in [Task -> SUBSET Key]
  /\ table \in [Key -> Mutex \cup {NoMutex}]
  /\ holder \in [Mutex -> Task \cup {NoTask}]
  /\ waiters \in [Mutex -> Seq(Task)]
\* Two entries never name one mutex: a task asking for both keys would wait for
\* itself.
EntriesDistinct ==
  \A j, k \in Key : table[j] = table[k] /\ table[j] # NoMutex => j = k
TypeOK == Typed /\ EntriesDistinct

Init ==
  /\ pc = [t \in Task |-> "idle"]
  /\ refs = [t \in Task |-> NoRefs]
  /\ held = [t \in Task |-> {}]
  /\ table = NoRefs
  /\ holder = [m \in Mutex |-> NoTask]
  /\ waiters = [m \in Mutex |-> <<>>]
-----------------------------------------------------------------------------
\* The keys t has asked for, and those of them whose guard it still lacks.
Asked(t) == {k \in Key : refs[t][k] # NoMutex}
Remaining(t) == Asked(t) \ held[t]

\* The order of sort_unstable.
Least(S) == CHOOSE k \in S : \A j \in S : k <= j
\* Mutant: the keys are locked in the order the operation names them.
NextKey_Unsorted(t) ==
  IF {1, KeyCount} \subseteq Asked(t) THEN CHOOSE k \in Remaining(t) : \A j \in Remaining(t) : j <= k
  ELSE Least(Remaining(t))
NextKey(t) == Least(Remaining(t))
NextMutex(t) == refs[t][NextKey(t)]

\* strong_count() > 0
Live(m) == \E t \in Task, k \in Key : refs[t][k] = m

\* Mutants: every entry is forgotten; an entry only waited for is forgotten;
\* an entry nobody references stays.
Retained_Forgets == NoRefs
Retained_GuardsOnly ==
  [k \in Key |->
     IF table[k] \in Mutex /\ \E t \in Task : k \in held[t] /\ refs[t][k] = table[k]
     THEN table[k] ELSE NoMutex]
Retained_KeepsExpired == table
\* The table after `retain`: an entry stays only while somebody references it.
Retained ==
  [k \in Key |-> IF table[k] \in Mutex /\ Live(table[k]) THEN table[k] ELSE NoMutex]

\* Mutant: the new mutex is made before the loop over the keys.
Lookup_MakesOne(t, K) ==
  \E fresh \in {m \in Mutex : ~ Live(m)} :
    /\ table' = [k \in Key |-> IF k \in K /\ Retained[k] = NoMutex THEN fresh ELSE Retained[k]]
    /\ refs' = [refs EXCEPT ![t] = [k \in Key |-> IF k \in K THEN table'[k] ELSE NoMutex]]
    /\ holder' = [holder EXCEPT ![fresh] = NoTask]
    /\ waiters' = [waiters EXCEPT ![fresh] = <<>>]
\* One critical section of the table's std mutex: retain, then for every key
\* of K the entry's mutex if it can be upgraded, else a new one.
Lookup(t, K) ==
  \E fresh \in [{k \in K : Retained[k] = NoMutex} -> {m \in Mutex : ~ Live(m)}] :
    LET Made == {fresh[k] : k \in DOMAIN fresh} IN
    /\ \A j, k \in DOMAIN fresh : fresh[j] = fresh[k] => j = k
    /\ table' = [k \in Key |-> IF k \in DOMAIN fresh THEN fresh[k] ELSE Retained[k]]
    /\ refs' = [refs EXCEPT ![t] = [k \in Key |-> IF k \in K THEN table'[k] ELSE NoMutex]]
    /\ holder' = [m \in Mutex |-> IF m \in Made THEN NoTask ELSE holder[m]]
    /\ waiters' = [m \in Mutex |-> IF m \in Made THEN <<>> ELSE waiters[m]]

\* lock(keys) up to its first await.
Lock(t) ==
  /\ pc[t] = "idle"
  /\ \E K \in KeySets : Lookup(t, K)
  /\ pc' = [pc EXCEPT ![t] = "acquire"]
  /\ UNCHANGED held

\* guards.push(...): the loop goes on, or lock() returns.
Push(t) ==
  /\ held' = [held EXCEPT ![t] = @ \cup {NextKey(t)}]
  /\ pc' = [pc EXCEPT ![t] = IF Remaining(t) = {NextKey(t)} THEN "locked" ELSE "acquire"]

\* mutex.lock_owned() finds the mutex free.
AcquireFree(t) ==
  /\ pc[t] = "acquire"
  /\ holder[NextMutex(t)] = NoTask
  /\ holder' = [holder EXCEPT ![NextMutex(t)] = t]
  /\ Push(t)
  /\ UNCHANGED <<refs, table, waiters>>

\* mutex.lock_owned() finds it taken and queues the task.
Enqueue(t) ==
  /\ pc[t] = "acquire"
  /\ holder[NextMutex(t)] # NoTask
  /\ waiters' = [waiters EXCEPT ![NextMutex(t)] = Append(@, t)]
  /\ pc' = [pc EXCEPT ![t] = "wait"]
  /\ UNCHANGED <<refs, held, table, holder>>

\* The queued task is polled again after the mutex was handed to it.
Wake(t) ==
  /\ pc[t] = "wait"
  /\ holder[NextMutex(t)] = t
  /\ Push(t)
  /\ UNCHANGED <<refs, table, holder, waiters>>

\* Mutant: only the last guard of the vector hands its mutex on.
Release_LastHandsOn(t) ==
  /\ pc[t] \in {"locked", "release"}
  /\ LET k == Least(held[t])
         m == refs[t][k]
         handsOn == held[t] = {k} /\ waiters[m] # <<>>
     IN /\ held' = [held EXCEPT ![t] = @ \ {k}]
        /\ refs' = [refs EXCEPT ![t][k] = NoMutex]
        /\ pc' = [pc EXCEPT ![t] = IF held[t] = {k} THEN "idle" ELSE "release"]
        /\ holder' = [holder EXCEPT ![m] = IF handsOn THEN Head(waiters[m]) ELSE NoTask]
        /\ waiters' = [waiters EXCEPT ![m] = IF handsOn THEN Tail(@) ELSE @]
  /\ UNCHANGED table
\* Dropping KeyGuards drops its guards in the order of the vector: each one
\* hands its mutex to the first waiter and gives up its strong reference.
Release(t) ==
  /\ pc[t] \in {"locked", "release"}
  /\ LET k == Least(held[t])
         m == refs[t][k]
     IN /\ held' = [held EXCEPT ![t] = @ \ {k}]
        /\ refs' = [refs EXCEPT ![t][k] = NoMutex]
        /\ pc' = [pc EXCEPT ![t] = IF held[t] = {k} THEN "idle" ELSE "release"]
        /\ holder' = [holder EXCEPT ![m] = IF waiters[m] = <<>> THEN NoTask ELSE Head(waiters[m])]
        /\ waiters' = [waiters EXCEPT ![m] = IF @ = <<>> THEN <<>> ELSE Tail(@)]
  /\ UNCHANGED table

Advance(t) == AcquireFree(t) \/ Enqueue(t) \/ Wake(t)

Next == \E t \in Task : Lock(t) \/ Advance(t) \/ Release(t)

Spec == Init /\ [][Next]_vars

\* Tasks that can run are polled; an operation that owns its keys ends.
Fairness == \A t \in Task : WF_vars(Advance(t)) /\ WF_vars(Release(t))
FairSpec == Spec /\ Fairness
-----------------------------------------------------------------------------
\* Two tasks never have a guard for the same key, whatever mutexes the weak
\* table made for them: the purpose of the table (library operations on the
\* same object or track never overlap).
MutualExclusion ==
  \A t, u \in Task : t # u => held[t] \cap held[u] = {}

\* Two live references for one key are to the same mutex: an entry is never
\* replaced while a task still holds or awaits the mutex it named.
OneMutexPerKey ==
  \A t, u \in Task : \A k \in Asked(t) \cap Asked(u) : refs[t][k] = refs[u][k]

\* Whenever some task is inside lock() or has guards, some task can take a
\* step of its own: "hold all keys in a stable order, so that operations of
\* several keys do not deadlock each other" (the comment on lock).
SomeoneCanMove ==
  (\E t \in Task : pc[t] # "idle") =>
    \E t \in Task :
      \/ pc[t] \in {"acquire", "locked", "release"}
      \/ pc[t] = "wait" /\ holder[NextMutex(t)] = t

\* A call of lock leaves no entry in the table that nobody references, so the
\* table cannot grow with the keys ever used (the test
\* keyed_lock_table_reclaims_expired_entries_on_next_acquire).
ReclaimsExpired ==
  [][\A t \in Task : pc[t] = "idle" /\ pc'[t] = "acquire" =>
       \A k \in Key : table'[k] # NoMutex => \E u \in Task : refs'[u][k] = table'[k]]_vars

\* A task that asked for its keys gets all of them: no deadlock among any
\* subset of the tasks, and no starvation.
EveryLockReturns == \A t \in Task : pc[t] = "acquire" ~> pc[t] = "locked"

\* The promise the operations build on: a task owns its whole set at once, and
\* only while no other owner overlaps it.
Atomic == INSTANCE AtomicLocks WITH
  wants <- [t \in Task |-> IF pc[t] \in {"acquire", "wait"} THEN Asked(t) ELSE {}],
  holds <- [t \in Task |-> IF pc[t] = "locked" THEN held[t] ELSE {}]

ImplementsAtomicLocks == Atomic!Spec
=============================================================================
