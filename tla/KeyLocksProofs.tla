--------------------------- MODULE KeyLocksProofs --------------------------
(***************************************************************************)
(* Proofs about KeyLocks for every set of tasks, every number of keys and  *)
(* every set of mutexes.                                                   *)
(*                                                                         *)
(* Mutual exclusion rests on three facts that no single step breaks:       *)
(* whoever references a mutex for a key references the one in the table    *)
(* (TableAgrees), two entries of the table never name the same mutex       *)
(* (EntriesDistinct), and whoever has a guard is the holder of its mutex   *)
(* (GuardsGranted).  That several keys cannot deadlock rests on the order  *)
(* of acquisition (Phases) and on the bookkeeping of the queues (Queues).  *)
(***************************************************************************)
EXTENDS KeyLocks, FiniteSetTheorems, WellFoundedInduction, TLAPS

TableAgrees ==
  \A t \in Task, k \in Key : refs[t][k] # NoMutex => table[k] = refs[t][k]

GuardsGranted ==
  \A t \in Task : \A k \in held[t] : refs[t][k] # NoMutex /\ holder[refs[t][k]] = t

Phases ==
  \A t \in Task :
    /\ pc[t] = "idle" => held[t] = {} /\ Asked(t) = {}
    /\ pc[t] \in {"acquire", "wait"} =>
         Remaining(t) # {} /\ \A k \in held[t], j \in Remaining(t) : k < j
    /\ pc[t] \in {"locked", "release"} => held[t] # {} /\ Asked(t) = held[t]

IInv == Typed /\ TableAgrees /\ EntriesDistinct /\ GuardsGranted /\ Phases

\* Who is in a queue waits for that mutex, who waits is in its queue or is its
\* holder, nobody is twice in a queue or queues at a mutex of its own, a queue
\* never forms at a free mutex, and a holder has the guard or is being woken.
QueuedWait ==
  \A m \in Mutex, u \in Task : \A i \in 1..Len(waiters[m]) :
    waiters[m][i] = u => pc[u] = "wait" /\ NextMutex(u) = m
WaitersQueued ==
  \A t \in Task : pc[t] = "wait" =>
    \/ holder[NextMutex(t)] = t
    \/ \E i \in 1..Len(waiters[NextMutex(t)]) : waiters[NextMutex(t)][i] = t
QueuesDistinct ==
  \A m \in Mutex : \A i \in 1..Len(waiters[m]) :
    /\ waiters[m][i] # holder[m]
    /\ \A j \in 1..Len(waiters[m]) : waiters[m][i] = waiters[m][j] => i = j
NoQueueAtFree ==
  \A m \in Mutex : waiters[m] # <<>> => holder[m] # NoTask
HoldersHold ==
  \A m \in Mutex, t \in Task : holder[m] = t =>
    \/ \E k \in held[t] : refs[t][k] = m
    \/ pc[t] = "wait" /\ NextMutex(t) = m

Queues == QueuedWait /\ WaitersQueued /\ QueuesDistinct /\ NoQueueAtFree /\ HoldersHold
-----------------------------------------------------------------------------
\* What sort_unstable gives the loop: every non-empty set of keys has a first.
LEMMA LeastProperties ==
  ASSUME NEW S, S \subseteq Key, S # {}
  PROVE  Least(S) \in S /\ \A j \in S : Least(S) <= j
<1> DEFINE T == {0..k : k \in S}
<1>1. T \subseteq FiniteSubsetsOf(Nat) /\ T # {}
  <2>1. ASSUME NEW k \in S PROVE 0..k \in FiniteSubsetsOf(Nat)
    <3>1. k \in Int /\ 0..k \subseteq Nat
      BY KeyCountAssumption DEF Key
    <3>2. IsFiniteSet(0..k)
      BY <3>1, FS_Interval
    <3>. QED
      BY <3>1, <3>2 DEF FiniteSubsetsOf
  <2>. QED
    BY <2>1
<1>2. PICK x \in T : \A y \in T : ~ (<<y, x>> \in StrictSubsetOrdering(Nat))
  BY <1>1, FS_StrictSubsetOrderingWellFounded, WFMin
<1>3. PICK k \in S : x = 0..k
  BY <1>2
<1>4. ASSUME NEW j \in S, j < k PROVE FALSE
  <2>1. 0..j \in T /\ 0..j \subseteq Nat /\ 0..k \subseteq Nat
    OBVIOUS
  <2>2. j \in Nat /\ k \in Nat
    BY KeyCountAssumption DEF Key
  <2>3. 0..j \subseteq 0..k /\ 0..j # 0..k
    BY <1>4, <2>2
  <2>. QED
    BY <1>2, <1>3, <2>1, <2>3 DEF StrictSubsetOrdering
<1>5. \A j \in S : k <= j
  BY <1>4, KeyCountAssumption DEF Key
<1>. QED
  BY <1>5 DEF Least

\* The last of a non-empty set of keys.
LEMMA GreatestExists ==
  ASSUME NEW S, S \subseteq Key, S # {}
  PROVE  \E k \in S : \A j \in S : j <= k
<1> DEFINE U == {KeyCount + 1 - k : k \in S}
<1>1. ASSUME NEW k \in S PROVE KeyCount + 1 - k \in Key
  BY KeyCountAssumption DEF Key
<1>2. U \subseteq Key /\ U # {}
  BY <1>1
<1>3. PICK k \in S : Least(U) = KeyCount + 1 - k
  BY <1>2, LeastProperties
<1>4. \A j \in S : KeyCount + 1 - k <= KeyCount + 1 - j
  BY <1>2, <1>3, LeastProperties
<1>. QED
  BY <1>4, KeyCountAssumption DEF Key

\* While t is in lock(), the key it is at is one it asked for and lacks, and
\* its mutex a real one.
LEMMA NextKeyProperties ==
  ASSUME IInv, NEW t \in Task, pc[t] \in {"acquire", "wait"}
  PROVE  /\ NextKey(t) \in Key /\ NextKey(t) \in Remaining(t)
         /\ NextMutex(t) \in Mutex
         /\ \A j \in Remaining(t) : NextKey(t) <= j
<1>1. Remaining(t) \subseteq Key /\ Remaining(t) # {}
  BY DEF IInv, Phases, Remaining, Asked
<1>2. NextKey(t) \in Remaining(t) /\ \A j \in Remaining(t) : NextKey(t) <= j
  BY <1>1, LeastProperties DEF NextKey
<1>. QED
  BY <1>1, <1>2 DEF Remaining, Asked, NextMutex, IInv, Typed

-----------------------------------------------------------------------------
\* The lock table starts empty.
LEMMA InitIInv == Init => IInv
<1> SUFFICES ASSUME Init PROVE IInv
  OBVIOUS
<1>1. Typed
  BY DEF Init, Typed, NoRefs
<1>. QED
  BY <1>1 DEF Init, IInv, TableAgrees, EntriesDistinct, GuardsGranted, Phases, Asked, NoRefs

\* The critical section of lock: entries that are alive are upgraded, others
\* made anew.
LEMMA LookupIInv ==
  ASSUME IInv, NEW t \in Task, Lock(t)
  PROVE  IInv'
<1>1. PICK K \in KeySets : Lookup(t, K)
  BY DEF Lock
<1>2. PICK fresh \in [{k \in K : Retained[k] = NoMutex} -> {m \in Mutex : ~ Live(m)}] :
        LET Made == {fresh[k] : k \in DOMAIN fresh} IN
        /\ \A j, k \in DOMAIN fresh : fresh[j] = fresh[k] => j = k
        /\ table' = [k \in Key |-> IF k \in DOMAIN fresh THEN fresh[k] ELSE Retained[k]]
        /\ refs' = [refs EXCEPT ![t] = [k \in Key |-> IF k \in K THEN table'[k] ELSE NoMutex]]
        /\ holder' = [m \in Mutex |-> IF m \in Made THEN NoTask ELSE holder[m]]
        /\ waiters' = [m \in Mutex |-> IF m \in Made THEN <<>> ELSE waiters[m]]
  BY <1>1 DEF Lookup
<1> DEFINE New == {k \in K : Retained[k] = NoMutex}
           Made == {fresh[k] : k \in New}
<1>3. K \subseteq Key /\ K # {}
  BY KeySetsAssumption
<1>4. DOMAIN fresh = New /\ \A k \in New : fresh[k] \in Mutex /\ ~ Live(fresh[k])
  OBVIOUS
<1>5. pc[t] = "idle" /\ held[t] = {} /\ Asked(t) = {} /\ held' = held
  BY DEF Lock, IInv, Phases
<1>6. \A k \in Key : \/ Retained[k] = NoMutex
                     \/ Retained[k] = table[k] /\ table[k] \in Mutex /\ Live(table[k])
  BY DEF Retained
<1>7. \A k \in Key : table'[k] = IF k \in New THEN fresh[k] ELSE Retained[k]
  BY <1>2, <1>4
<1>8. \A k \in Key : k \in K => table'[k] \in Mutex
  BY <1>4, <1>6, <1>7, <1>3
<1>9. /\ refs' \in [Task -> [Key -> Mutex \cup {NoMutex}]]
      /\ \A k \in Key : refs'[t][k] = IF k \in K THEN table'[k] ELSE NoMutex
      /\ \A u \in Task \ {t} : refs'[u] = refs[u]
  BY <1>2, <1>8 DEF IInv, Typed
<1>10. pc' = [pc EXCEPT ![t] = "acquire"]
  BY DEF Lock
<1>11. Typed'
  <2>1. table' \in [Key -> Mutex \cup {NoMutex}]
    BY <1>2, <1>4, <1>6
  <2>2. holder' \in [Mutex -> Task \cup {NoTask}] /\ waiters' \in [Mutex -> Seq(Task)]
    BY <1>2 DEF IInv, Typed
  <2>. QED
    BY <2>1, <2>2, <1>5, <1>9, <1>10 DEF IInv, Typed
\* An entry somebody references is live, so retain keeps it.
<1>12. ASSUME NEW u \in Task, NEW k \in Key, refs[u][k] # NoMutex
       PROVE  table'[k] = refs[u][k] /\ Live(refs[u][k])
  <2>1. table[k] = refs[u][k] /\ refs[u][k] \in Mutex
    BY <1>12 DEF IInv, TableAgrees, Typed
  <2>2. Live(table[k])
    BY <2>1 DEF Live
  <2>3. Retained[k] = table[k] /\ k \notin New
    BY <2>1, <2>2, MutexAssumption DEF Retained
  <2>. QED
    BY <2>1, <2>2, <2>3, <1>7
<1>13. TableAgrees'
  BY <1>9, <1>12 DEF TableAgrees
<1>14. EntriesDistinct'
  <2> SUFFICES ASSUME NEW j \in Key, NEW k \in Key, table'[j] = table'[k], table'[j] # NoMutex
               PROVE  j = k
    BY DEF EntriesDistinct
  <2>1. CASE j \in New /\ k \in New
    BY <2>1, <1>2, <1>4, <1>7
  <2>2. CASE j \notin New /\ k \notin New
    BY <2>2, <1>6, <1>7 DEF IInv, EntriesDistinct
  <2>3. CASE (j \in New) # (k \in New)
    BY <2>3, <1>4, <1>6, <1>7
  <2>. QED
    BY <2>1, <2>2, <2>3
<1>15. GuardsGranted'
  <2> SUFFICES ASSUME NEW u \in Task, NEW k \in held[u]
               PROVE  refs'[u][k] # NoMutex /\ holder'[refs'[u][k]] = u
    BY <1>5 DEF GuardsGranted
  <2>1. u # t /\ refs[u][k] # NoMutex /\ holder[refs[u][k]] = u /\ k \in Key
    BY <1>5 DEF IInv, GuardsGranted, Typed
  <2>2. refs[u][k] \in Mutex /\ refs[u][k] \notin Made
    BY <2>1, <1>4, <1>12 DEF IInv, Typed
  <2>. QED
    BY <2>1, <2>2, <1>2, <1>4, <1>9
<1>16. Phases'
  <2>1. Asked(t)' = K /\ \A u \in Task \ {t} : Asked(u)' = Asked(u)
    BY <1>3, <1>8, <1>9, MutexAssumption DEF Asked
  <2>2. Remaining(t)' = K /\ \A u \in Task \ {t} : Remaining(u)' = Remaining(u)
    BY <2>1, <1>5 DEF Remaining
  <2>. QED
    BY <2>1, <2>2, <1>3, <1>5, <1>10 DEF IInv, Phases, Typed
<1>. QED
  BY <1>11, <1>13, <1>14, <1>15, <1>16 DEF IInv

\* Getting the guard of the next key, from a free mutex or on being woken.
LEMMA PushIInv ==
  ASSUME IInv, NEW t \in Task, pc[t] \in {"acquire", "wait"}, Push(t),
         holder'[NextMutex(t)] = t, holder' \in [Mutex -> Task \cup {NoTask}],
         \A m \in Mutex : holder'[m] # holder[m] => holder[m] = NoTask,
         UNCHANGED <<refs, table, waiters>>
  PROVE  IInv'
<1> DEFINE k == NextKey(t)
<1>1. /\ k \in Key /\ k \in Remaining(t) /\ NextMutex(t) = refs[t][k]
      /\ NextMutex(t) \in Mutex /\ \A j \in Remaining(t) : k <= j
  BY NextKeyProperties DEF NextMutex
<1> HIDE DEF k
<1>2. /\ held' = [held EXCEPT ![t] = @ \cup {k}]
      /\ pc' = [pc EXCEPT ![t] = IF Remaining(t) = {k} THEN "locked" ELSE "acquire"]
  BY DEF Push, k
<1>3. Typed'
  BY <1>1, <1>2 DEF IInv, Typed
<1>4. TableAgrees' /\ EntriesDistinct'
  BY DEF IInv, TableAgrees, EntriesDistinct
<1>5. GuardsGranted'
  <2> SUFFICES ASSUME NEW u \in Task, NEW j \in held'[u]
               PROVE  refs[u][j] # NoMutex /\ holder'[refs[u][j]] = u
    BY DEF GuardsGranted
  <2>1. CASE u = t /\ j = k
    BY <2>1, <1>1, MutexAssumption
  <2>2. CASE j \in held[u]
    <3>1. refs[u][j] \in Mutex /\ holder[refs[u][j]] = u
      BY <2>2 DEF IInv, GuardsGranted, Typed
    <3>. QED
      BY <3>1, TaskAssumption, MutexAssumption
  <2>. QED
    BY <2>1, <2>2, <1>2 DEF IInv, Typed
<1>6. Phases'
  <2>1. \A u \in Task : Asked(u)' = Asked(u)
    BY DEF Asked
  <2>2. Remaining(t)' = Remaining(t) \ {k} /\ \A u \in Task \ {t} : Remaining(u)' = Remaining(u)
    BY <2>1, <1>2 DEF Remaining, IInv, Typed
  <2>3. \A u \in Task \ {t} : pc'[u] = pc[u] /\ held'[u] = held[u]
    BY <1>2 DEF IInv, Typed
  <2>4. held'[t] = held[t] \cup {k}
    BY <1>2 DEF IInv, Typed
  <2>5. held[t] \subseteq Asked(t) /\ k \in Asked(t)
    BY <1>1 DEF IInv, GuardsGranted, Asked, Remaining, Typed
  <2>6. CASE Remaining(t) = {k}
    <3>1. pc'[t] = "locked"
      BY <2>6, <1>2 DEF IInv, Typed
    <3>2. Asked(t)' = held'[t]
      BY <2>1, <2>4, <2>5, <2>6 DEF Remaining
    <3>. QED
      BY <3>1, <3>2, <2>1, <2>2, <2>3, <2>4 DEF IInv, Phases
  <2>7. CASE Remaining(t) # {k}
    <3>1. pc'[t] = "acquire"
      BY <2>7, <1>2 DEF IInv, Typed
    <3>2. Remaining(t)' # {}
      BY <2>2, <2>7, <1>1
    <3>3. \A i \in held'[t], j \in Remaining(t)' : i < j
      <4>1. \A i \in held[t], j \in Remaining(t) : i < j
        BY DEF IInv, Phases
      <4>2. \A j \in Remaining(t) \ {k} : k < j
        BY <1>1, KeyCountAssumption DEF Remaining, Asked, Key
      <4>. QED
        BY <4>1, <4>2, <2>2, <2>4
    <3>. QED
      BY <3>1, <3>2, <3>3, <2>1, <2>2, <2>3 DEF IInv, Phases
  <2>. QED
    BY <2>6, <2>7
<1>. QED
  BY <1>3, <1>4, <1>5, <1>6 DEF IInv

\* A task that finds a mutex taken lines up behind its waiters.
LEMMA EnqueueIInv ==
  ASSUME IInv, NEW t \in Task, Enqueue(t)
  PROVE  IInv'
<1>1. NextMutex(t) \in Mutex
  BY NextKeyProperties DEF Enqueue
<1>2. waiters[NextMutex(t)] \in Seq(Task)
  BY <1>1 DEF IInv, Typed
<1>3. Append(waiters[NextMutex(t)], t) \in Seq(Task)
  BY <1>2
<1>4. Typed'
  BY <1>1, <1>3 DEF Enqueue, IInv, Typed
<1>5. TableAgrees' /\ EntriesDistinct' /\ GuardsGranted'
  BY DEF Enqueue, IInv, TableAgrees, EntriesDistinct, GuardsGranted
<1>6. \A u \in Task : Asked(u)' = Asked(u) /\ Remaining(u)' = Remaining(u)
  BY DEF Enqueue, Asked, Remaining
<1>7. Phases'
  BY <1>6 DEF Enqueue, IInv, Phases, Typed
<1>. QED
  BY <1>4, <1>5, <1>7 DEF IInv

\* The drop of one guard hands the mutex on.
LEMMA ReleaseIInv ==
  ASSUME IInv, NEW t \in Task, Release(t)
  PROVE  IInv'
<1> DEFINE k == Least(held[t])
           m == refs[t][k]
<1>1. held[t] \subseteq Key /\ held[t] # {} /\ Asked(t) = held[t]
  BY DEF Release, IInv, Phases, Typed
<1>2. k \in held[t] /\ k \in Key
  BY <1>1, LeastProperties
<1>3. m # NoMutex /\ m \in Mutex /\ holder[m] = t
  BY <1>2 DEF IInv, GuardsGranted, Typed
<1>4. /\ held' = [held EXCEPT ![t] = @ \ {k}]
      /\ refs' = [refs EXCEPT ![t][k] = NoMutex]
      /\ pc' = [pc EXCEPT ![t] = IF held[t] = {k} THEN "idle" ELSE "release"]
      /\ holder' = [holder EXCEPT ![m] = IF waiters[m] = <<>> THEN NoTask ELSE Head(waiters[m])]
      /\ waiters' = [waiters EXCEPT ![m] = IF @ = <<>> THEN <<>> ELSE Tail(@)]
      /\ table' = table
  BY DEF Release
<1> HIDE DEF k, m
<1>5. waiters[m] \in Seq(Task)
  BY <1>3 DEF IInv, Typed
<1>6. Typed'
  <2>1. waiters[m] # <<>> => Head(waiters[m]) \in Task /\ Tail(waiters[m]) \in Seq(Task)
    BY <1>5
  <2>2. holder' \in [Mutex -> Task \cup {NoTask}] /\ waiters' \in [Mutex -> Seq(Task)]
    BY <2>1, <1>3, <1>4, <1>5 DEF IInv, Typed
  <2>. QED
    BY <2>2, <1>2, <1>4 DEF IInv, Typed
<1>7. /\ refs'[t][k] = NoMutex
      /\ \A u \in Task, j \in Key : (u # t \/ j # k) => refs'[u][j] = refs[u][j]
  BY <1>2, <1>4 DEF IInv, Typed
<1>8. TableAgrees' /\ EntriesDistinct'
  BY <1>4, <1>7 DEF IInv, TableAgrees, EntriesDistinct
\* Nobody else has a guard of this mutex: another holder there is not, and for
\* another key t has another mutex.
<1>9. GuardsGranted'
  <2> SUFFICES ASSUME NEW u \in Task, NEW j \in held'[u]
               PROVE  refs'[u][j] # NoMutex /\ holder'[refs'[u][j]] = u
    BY DEF GuardsGranted
  <2>1. j \in held[u] /\ j \in Key /\ (u # t \/ j # k)
    BY <1>4 DEF IInv, Typed
  <2>2. refs'[u][j] = refs[u][j]
    BY <2>1, <1>7
  <2>3. refs[u][j] # NoMutex /\ refs[u][j] \in Mutex /\ holder[refs[u][j]] = u
    BY <2>1 DEF IInv, GuardsGranted, Typed
  <2>4. refs[u][j] # m
    <3>1. CASE u # t
      BY <3>1, <2>3, <1>3
    <3>2. CASE u = t
      BY <3>2, <2>1, <2>3, <1>2, <1>3 DEF m, IInv, TableAgrees, EntriesDistinct
    <3>. QED
      BY <3>1, <3>2
  <2>. QED
    BY <2>2, <2>3, <2>4, <1>3, <1>4 DEF IInv, Typed
<1>10. Phases'
  <2>1. Asked(t)' = Asked(t) \ {k} /\ \A u \in Task \ {t} : Asked(u)' = Asked(u)
    BY <1>7 DEF Asked
  <2>2. held'[t] = held[t] \ {k} /\ \A u \in Task \ {t} : held'[u] = held[u]
    BY <1>4 DEF IInv, Typed
  <2>3. \A u \in Task \ {t} : Remaining(u)' = Remaining(u) /\ pc'[u] = pc[u]
    BY <2>1, <2>2, <1>4 DEF Remaining, IInv, Typed
  <2>4. CASE held[t] = {k}
    <3>1. pc'[t] = "idle" /\ held'[t] = {} /\ Asked(t)' = {}
      BY <2>4, <2>1, <2>2, <1>1, <1>4 DEF IInv, Typed
    <3>. QED
      BY <3>1, <2>1, <2>2, <2>3 DEF IInv, Phases
  <2>5. CASE held[t] # {k}
    <3>1. pc'[t] = "release" /\ held'[t] # {} /\ Asked(t)' = held'[t]
      BY <2>5, <2>1, <2>2, <1>1, <1>2, <1>4 DEF IInv, Typed
    <3>. QED
      BY <3>1, <2>1, <2>2, <2>3 DEF IInv, Phases
  <2>. QED
    BY <2>4, <2>5
<1>. QED
  BY <1>6, <1>8, <1>9, <1>10 DEF IInv

\* Every step keeps the invariant.
LEMMA NextIInv == IInv /\ [Next]_vars => IInv'
<1> SUFFICES ASSUME IInv, [Next]_vars PROVE IInv'
  OBVIOUS
<1>1. ASSUME NEW t \in Task, Lock(t) PROVE IInv'
  BY <1>1, LookupIInv
<1>2. ASSUME NEW t \in Task, AcquireFree(t) PROVE IInv'
  <2>1. NextMutex(t) \in Mutex
    BY <1>2, NextKeyProperties DEF AcquireFree
  <2>2. /\ holder'[NextMutex(t)] = t /\ holder' \in [Mutex -> Task \cup {NoTask}]
        /\ \A m \in Mutex : holder'[m] # holder[m] => holder[m] = NoTask
    BY <1>2, <2>1 DEF AcquireFree, IInv, Typed
  <2>. QED
    BY <1>2, <2>2, PushIInv DEF AcquireFree
<1>3. ASSUME NEW t \in Task, Enqueue(t) PROVE IInv'
  BY <1>3, EnqueueIInv
<1>4. ASSUME NEW t \in Task, Wake(t) PROVE IInv'
  <2>1. holder'[NextMutex(t)] = t /\ holder' \in [Mutex -> Task \cup {NoTask}]
    BY <1>4 DEF Wake, IInv, Typed
  <2>. QED
    BY <1>4, <2>1, PushIInv DEF Wake
<1>5. ASSUME NEW t \in Task, Release(t) PROVE IInv'
  BY <1>5, ReleaseIInv
<1>6. CASE UNCHANGED vars
  BY <1>6 DEF vars, IInv, Typed, TableAgrees, EntriesDistinct, GuardsGranted, Phases,
     Asked, Remaining
<1>. QED
  BY <1>1, <1>2, <1>3, <1>4, <1>5, <1>6 DEF Next, Advance

\* In every run the table and the references of the tasks agree.
THEOREM Inductive == Spec => []IInv
  BY InitIInv, NextIInv, PTL DEF Spec

\* The lock table keeps its type in every reachable state, and no mutex serves
\* two of its keys.
THEOREM Typing == Spec => []TypeOK
<1>1. IInv => TypeOK
  BY DEF IInv, TypeOK
<1>. QED
  BY <1>1, Inductive, PTL

\* No two tasks ever have a guard for the same key, so the bodies of two
\* library operations that name a common object or track never overlap.
THEOREM Exclusion == Spec => []MutualExclusion
<1>1. IInv => MutualExclusion
  <2> SUFFICES ASSUME IInv, NEW t \in Task, NEW u \in Task, NEW k \in held[t] \cap held[u]
               PROVE  t = u
    BY DEF MutualExclusion
  <2>1. refs[t][k] = table[k] /\ refs[u][k] = table[k]
    BY DEF IInv, GuardsGranted, TableAgrees, Typed
  <2>. QED
    BY <2>1 DEF IInv, GuardsGranted
<1>. QED
  BY <1>1, Inductive, PTL

\* Two live references for a key are to one mutex: retain and upgrade never
\* replace an entry whose mutex a task still holds or awaits.
THEOREM OneMutex == Spec => []OneMutexPerKey
<1>1. IInv => OneMutexPerKey
  BY DEF IInv, OneMutexPerKey, TableAgrees, Asked
<1>. QED
  BY <1>1, Inductive, PTL

-----------------------------------------------------------------------------
\* A call of lock leaves only entries that some task references.
THEOREM Reclaim == Spec => ReclaimsExpired
<1>1. ASSUME IInv, [Next]_vars, NEW t \in Task, pc[t] = "idle", pc'[t] = "acquire"
      PROVE  \A k \in Key : table'[k] # NoMutex => \E u \in Task : refs'[u][k] = table'[k]
  <2>1. Lock(t)
    <3>1. ASSUME NEW u \in Task, Lock(u) PROVE u = t
      BY <1>1, <3>1 DEF Lock, IInv, Typed
    <3>2. ASSUME NEW u \in Task, Advance(u) PROVE FALSE
      BY <1>1, <3>2 DEF Advance, AcquireFree, Enqueue, Wake, Push, IInv, Typed
    <3>3. ASSUME NEW u \in Task, Release(u) PROVE FALSE
      BY <1>1, <3>3 DEF Release, IInv, Typed
    <3>. QED
      BY <1>1, <3>1, <3>2, <3>3 DEF Next, vars
  <2>2. PICK K \in KeySets : Lookup(t, K)
    BY <2>1 DEF Lock
  <2>3. PICK fresh \in [{k \in K : Retained[k] = NoMutex} -> {m \in Mutex : ~ Live(m)}] :
          /\ table' = [k \in Key |-> IF k \in DOMAIN fresh THEN fresh[k] ELSE Retained[k]]
          /\ refs' = [refs EXCEPT ![t] = [k \in Key |-> IF k \in K THEN table'[k] ELSE NoMutex]]
    BY <2>2 DEF Lookup
  <2> SUFFICES ASSUME NEW k \in Key, table'[k] # NoMutex
               PROVE  \E u \in Task : refs'[u][k] = table'[k]
    OBVIOUS
  <2>4. CASE k \in K
    BY <2>3, <2>4, <1>1 DEF IInv, Typed
  <2>5. CASE k \notin K
    <3>1. table'[k] = table[k] /\ Live(table[k])
      BY <2>3, <2>5 DEF Retained
    <3>2. PICK u \in Task, j \in Key : refs[u][j] = table[k]
      BY <3>1 DEF Live
    <3>3. j = k
      BY <1>1, <2>3, <3>1, <3>2 DEF IInv, TableAgrees, EntriesDistinct
    <3>4. u # t
      BY <1>1, <3>1, <3>2 DEF IInv, Phases, Asked
    <3>. QED
      BY <1>1, <2>3, <3>1, <3>2, <3>3, <3>4 DEF IInv, Typed
  <2>. QED
    BY <2>4, <2>5
<1>2. IInv /\ [Next]_vars =>
        [\A t \in Task : pc[t] = "idle" /\ pc'[t] = "acquire" =>
           \A k \in Key : table'[k] # NoMutex => \E u \in Task : refs'[u][k] = table'[k]]_vars
  BY <1>1
<1>. QED
  BY <1>2, Inductive, PTL DEF Spec, ReclaimsExpired
-----------------------------------------------------------------------------
\* Nobody owns a key at first.
LEMMA InitAtomic == Init => Atomic!Init
  BY DEF Init, Atomic!Init

\* Every step is one of AtomicLocks or leaves what it sees.
LEMMA NextAtomic == IInv /\ [Next]_vars => [Atomic!Next]_(Atomic!vars)
<1> DEFINE W == [t \in Task |-> IF pc[t] \in {"acquire", "wait"} THEN Asked(t) ELSE {}]
           H == [t \in Task |-> IF pc[t] = "locked" THEN held[t] ELSE {}]
<1> SUFFICES ASSUME IInv, [Next]_vars
             PROVE  Atomic!Next \/ (W' = W /\ H' = H)
  BY DEF Atomic!vars
<1>1. ASSUME NEW t \in Task, Lock(t)
      PROVE  \E K \in KeySets : Atomic!Request(t, K)
  <2>1. PICK K \in KeySets : Lookup(t, K)
    BY <1>1 DEF Lock
  <2>2. PICK fresh \in [{k \in K : Retained[k] = NoMutex} -> {m \in Mutex : ~ Live(m)}] :
          /\ table' = [k \in Key |-> IF k \in DOMAIN fresh THEN fresh[k] ELSE Retained[k]]
          /\ refs' = [refs EXCEPT ![t] = [k \in Key |-> IF k \in K THEN table'[k] ELSE NoMutex]]
    BY <2>1 DEF Lookup
  <2>3. K \subseteq Key
    BY KeySetsAssumption
  <2>4. \A k \in Key : k \in K => table'[k] # NoMutex
    BY <2>2, MutexAssumption DEF Retained
  <2>5. refs'[t] = [k \in Key |-> IF k \in K THEN table'[k] ELSE NoMutex]
        /\ \A u \in Task \ {t} : refs'[u] = refs[u]
    BY <2>2 DEF IInv, Typed
  <2>6. Asked(t)' = K /\ \A u \in Task \ {t} : Asked(u)' = Asked(u)
    BY <2>3, <2>4, <2>5 DEF Asked
  <2>7. pc[t] = "idle" /\ pc' = [pc EXCEPT ![t] = "acquire"] /\ held' = held
    BY <1>1 DEF Lock
  <2>8. W[t] = {} /\ H[t] = {} /\ H' = H
    BY <2>7 DEF IInv, Typed
  <2>9. W' = [W EXCEPT ![t] = K]
    BY <2>6, <2>7 DEF IInv, Typed
  <2>. QED
    BY <2>8, <2>9 DEF Atomic!Request
<1>2. ASSUME NEW t \in Task, pc[t] \in {"acquire", "wait"}, Push(t), UNCHANGED refs, IInv'
      PROVE  Atomic!Enter(t) \/ (W' = W /\ H' = H)
  <2>1. \A u \in Task : Asked(u)' = Asked(u)
    BY <1>2 DEF Asked
  <2>2. NextKey(t) \in Remaining(t)
    BY <1>2, NextKeyProperties
  <2>3. \A u \in Task \ {t} : pc'[u] = pc[u] /\ held'[u] = held[u]
    BY <1>2 DEF Push, IInv, Typed
  <2>4. CASE Remaining(t) = {NextKey(t)}
    <3>1. pc'[t] = "locked" /\ held'[t] = Asked(t)
      <4>1. pc'[t] = "locked"
        BY <2>4, <1>2 DEF Push, IInv, Typed
      <4>. QED
        BY <4>1, <1>2, <2>1 DEF IInv, Phases
    <3>2. \A u \in Task \ {t} : held[u] \cap Asked(t) = {}
      <4> SUFFICES ASSUME NEW u \in Task \ {t}, NEW k \in held[u], k \in Asked(t) PROVE FALSE
        OBVIOUS
      <4>1. k \in held'[u] /\ k \in held'[t]
        BY <2>3, <3>1
      <4>2. refs'[u][k] = table'[k] /\ refs'[t][k] = table'[k] /\ holder'[refs'[u][k]] = u
            /\ holder'[refs'[t][k]] = t
        BY <4>1, <1>2 DEF IInv, GuardsGranted, TableAgrees, Typed
      <4>. QED
        BY <4>2
    <3>3. W[t] = Asked(t) /\ W[t] # {} /\ \A u \in Task \ {t} : H[u] \cap W[t] = {}
      BY <1>2, <2>2, <3>2 DEF Remaining
    <3>4. H' = [H EXCEPT ![t] = W[t]]
      BY <1>2, <2>3, <3>1
    <3>5. W' = [W EXCEPT ![t] = {}]
      BY <2>1, <2>3, <3>1
    <3>. QED
      BY <3>3, <3>4, <3>5 DEF Atomic!Enter
  <2>5. CASE Remaining(t) # {NextKey(t)}
    <3>1. pc'[t] = "acquire"
      BY <2>5, <1>2 DEF Push, IInv, Typed
    <3>. QED
      BY <3>1, <1>2, <2>1, <2>3
  <2>. QED
    BY <2>4, <2>5
<1>3. ASSUME NEW t \in Task, Enqueue(t) PROVE W' = W /\ H' = H
  BY <1>3 DEF Enqueue, Asked, IInv, Typed
<1>4. ASSUME NEW t \in Task, Release(t)
      PROVE  Atomic!Leave(t) \/ (W' = W /\ H' = H)
  <2>1. pc[t] \in {"locked", "release"} /\ pc'[t] \in {"idle", "release"}
    BY <1>4 DEF Release, IInv, Typed
  <2>2. \A u \in Task \ {t} : pc'[u] = pc[u] /\ held'[u] = held[u] /\ Asked(u)' = Asked(u)
    BY <1>4 DEF Release, Asked, IInv, Typed
  <2>3. W' = W
    BY <2>1, <2>2
  <2>4. CASE pc[t] = "locked"
    <3>1. H' = [H EXCEPT ![t] = {}]
      BY <2>1, <2>2
    <3>2. H[t] # {}
      BY <2>4 DEF IInv, Phases
    <3>. QED
      BY <3>1, <3>2, <2>3 DEF Atomic!Leave
  <2>5. CASE pc[t] = "release"
    BY <2>1, <2>2, <2>3, <2>5
  <2>. QED
    BY <2>1, <2>4, <2>5
<1>5. CASE UNCHANGED vars
  BY <1>5 DEF vars, Asked
<1>6. IInv'
  BY NextIInv
<1>. QED
  BY <1>1, <1>2, <1>3, <1>4, <1>5, <1>6
     DEF Next, Advance, AcquireFree, Wake, Atomic!Next

\* The table of mutexes implements the promise of AtomicLocks: to its callers
\* lock() takes the whole set of keys in one indivisible step.
THEOREM Refinement == Spec => ImplementsAtomicLocks
<1>. QED
  BY InitAtomic, NextAtomic, Inductive, PTL DEF Spec, ImplementsAtomicLocks, Atomic!Spec
-----------------------------------------------------------------------------
\* The queues start empty.
LEMMA InitQueues == Init => Queues
  BY TaskAssumption DEF Init, Queues, QueuedWait, WaitersQueued, QueuesDistinct,
     NoQueueAtFree, HoldersHold

\* What a task awaits depends on its own references and guards only.
LEMMA NextMutexStable ==
  ASSUME NEW u \in Task, refs'[u] = refs[u], held'[u] = held[u]
  PROVE  Remaining(u)' = Remaining(u) /\ NextMutex(u)' = NextMutex(u)
<1>1. Remaining(u)' = Remaining(u)
  BY DEF Remaining, Asked
<1>. QED
  BY <1>1 DEF NextMutex, NextKey

\* A mutex that is made has no waiters, and one that is dropped had none.
LEMMA LockQueues ==
  ASSUME IInv, Queues, NEW t \in Task, Lock(t)
  PROVE  Queues'
<1>1. PICK K \in KeySets : Lookup(t, K)
  BY DEF Lock
<1>2. PICK fresh \in [{k \in K : Retained[k] = NoMutex} -> {m \in Mutex : ~ Live(m)}] :
        LET Made == {fresh[k] : k \in DOMAIN fresh} IN
        /\ refs' = [refs EXCEPT ![t] = [k \in Key |-> IF k \in K THEN table'[k] ELSE NoMutex]]
        /\ holder' = [m \in Mutex |-> IF m \in Made THEN NoTask ELSE holder[m]]
        /\ waiters' = [m \in Mutex |-> IF m \in Made THEN <<>> ELSE waiters[m]]
  BY <1>1 DEF Lookup
<1> DEFINE Made == {fresh[k] : k \in DOMAIN fresh}
<1>3. \A m \in Made : ~ Live(m)
  OBVIOUS
<1>4. pc[t] = "idle" /\ pc' = [pc EXCEPT ![t] = "acquire"] /\ held' = held /\ held[t] = {}
  BY DEF Lock, IInv, Phases
<1>5. \A m \in Mutex : \/ m \in Made /\ holder'[m] = NoTask /\ waiters'[m] = <<>>
                       \/ m \notin Made /\ holder'[m] = holder[m] /\ waiters'[m] = waiters[m]
  BY <1>2
<1> HIDE DEF Made
<1>6. \A u \in Task \ {t} : pc'[u] = pc[u] /\ refs'[u] = refs[u] /\ held'[u] = held[u]
  BY <1>2, <1>4 DEF IInv, Typed
<1>7. \A u \in Task \ {t} : NextMutex(u)' = NextMutex(u)
  BY <1>6, NextMutexStable
<1>8. \A u \in Task : pc'[u] = "wait" => u # t /\ pc[u] = "wait"
  BY <1>4, <1>6 DEF IInv, Typed
<1>9. \A m \in Mutex : \A i \in 1..Len(waiters[m]) : waiters[m][i] \in Task \ {t}
  BY <1>4 DEF IInv, Typed, Queues, QueuedWait
<1>10. QueuedWait'
  BY <1>5, <1>6, <1>7, <1>9 DEF Queues, QueuedWait
<1>11. WaitersQueued'
  <2> SUFFICES ASSUME NEW u \in Task, pc'[u] = "wait"
               PROVE  \/ holder'[NextMutex(u)'] = u
                      \/ \E i \in 1..Len(waiters'[NextMutex(u)']) : waiters'[NextMutex(u)'][i] = u
    BY DEF WaitersQueued
  <2>1. u # t /\ pc[u] = "wait" /\ NextMutex(u)' = NextMutex(u)
    BY <1>7, <1>8
  <2>2. NextMutex(u) \in Mutex /\ Live(NextMutex(u))
    BY <2>1, NextKeyProperties DEF Live, NextMutex
  <2>3. holder'[NextMutex(u)] = holder[NextMutex(u)] /\ waiters'[NextMutex(u)] = waiters[NextMutex(u)]
    BY <2>2, <1>3, <1>5
  <2>. QED
    BY <2>1, <2>3 DEF Queues, WaitersQueued
<1>12. QueuesDistinct' /\ NoQueueAtFree'
  BY <1>5 DEF Queues, QueuesDistinct, NoQueueAtFree
<1>13. HoldersHold'
  <2> SUFFICES ASSUME NEW m \in Mutex, NEW u \in Task, holder'[m] = u
               PROVE  \/ \E k \in held'[u] : refs'[u][k] = m
                      \/ pc'[u] = "wait" /\ NextMutex(u)' = m
    BY DEF HoldersHold
  <2>1. holder[m] = u
    BY <1>5, TaskAssumption
  <2>2. u # t
    BY <2>1, <1>4 DEF Queues, HoldersHold
  <2>. QED
    BY <2>1, <2>2, <1>6, <1>7 DEF Queues, HoldersHold
<1>. QED
  BY <1>10, <1>11, <1>12, <1>13 DEF Queues

\* A task that takes a mutex leaves its queue.
LEMMA PushQueues ==
  ASSUME IInv, Queues, NEW t \in Task, AcquireFree(t) \/ Wake(t)
  PROVE  Queues'
<1> DEFINE k == NextKey(t)
           n == NextMutex(t)
<1>1. /\ k \in Key /\ k \in Remaining(t) /\ n = refs[t][k] /\ n \in Mutex
  BY NextKeyProperties DEF NextMutex, AcquireFree, Wake
<1>2. pc[t] \in {"acquire", "wait"} /\ Push(t) /\ UNCHANGED <<refs, table, waiters>>
  BY DEF AcquireFree, Wake
<1>3. /\ holder' = [holder EXCEPT ![n] = t]
      /\ holder[n] = NoTask \/ (pc[t] = "wait" /\ holder[n] = t)
  BY DEF AcquireFree, Wake, IInv, Typed
<1>4. held'[t] = held[t] \cup {k} /\ pc'[t] \in {"locked", "acquire"}
  BY <1>2 DEF Push, IInv, Typed
<1>5. \A u \in Task \ {t} : pc'[u] = pc[u] /\ held'[u] = held[u]
  BY <1>2 DEF Push, IInv, Typed
<1> HIDE DEF k, n
<1>6. \A u \in Task \ {t} : NextMutex(u)' = NextMutex(u)
  BY <1>2, <1>5, NextMutexStable
<1>7. \A m \in Mutex : \A i \in 1..Len(waiters[m]) : waiters[m][i] \in Task \ {t}
  <2> SUFFICES ASSUME NEW m \in Mutex, NEW i \in 1..Len(waiters[m]), waiters[m][i] = t PROVE FALSE
    BY DEF IInv, Typed
  <2>1. pc[t] = "wait" /\ m = n
    BY DEF Queues, QueuedWait, n
  <2>2. holder[n] = t
    BY <2>1, <1>3 DEF Queues, NoQueueAtFree, IInv, Typed
  <2>. QED
    BY <2>1, <2>2 DEF Queues, QueuesDistinct
<1>8. QueuedWait'
  BY <1>2, <1>5, <1>6, <1>7 DEF Queues, QueuedWait
<1>9. WaitersQueued'
  <2> SUFFICES ASSUME NEW u \in Task, pc'[u] = "wait"
               PROVE  \/ holder'[NextMutex(u)'] = u
                      \/ \E i \in 1..Len(waiters'[NextMutex(u)']) : waiters'[NextMutex(u)'][i] = u
    BY DEF WaitersQueued
  <2>1. u # t /\ pc[u] = "wait" /\ NextMutex(u)' = NextMutex(u)
    BY <1>4, <1>5, <1>6
  <2>2. CASE NextMutex(u) = n
    BY <2>1, <2>2, <1>2, <1>3, TaskAssumption DEF Queues, WaitersQueued
  <2>3. CASE NextMutex(u) # n
    BY <2>1, <2>3, <1>2, <1>3 DEF Queues, WaitersQueued
  <2>. QED
    BY <2>2, <2>3
<1>10. QueuesDistinct' /\ NoQueueAtFree'
  <2>1. \A m \in Mutex : holder'[m] = IF m = n THEN t ELSE holder[m]
    BY <1>3 DEF IInv, Typed
  <2>. QED
    BY <2>1, <1>2, <1>7, TaskAssumption DEF Queues, QueuesDistinct, NoQueueAtFree
<1>11. HoldersHold'
  <2> SUFFICES ASSUME NEW m \in Mutex, NEW u \in Task, holder'[m] = u
               PROVE  \/ \E j \in held'[u] : refs'[u][j] = m
                      \/ pc'[u] = "wait" /\ NextMutex(u)' = m
    BY DEF HoldersHold
  <2>1. CASE m = n
    <3>1. u = t
      BY <2>1, <1>1, <1>3 DEF IInv, Typed
    <3>. QED
      BY <3>1, <2>1, <1>1, <1>2, <1>4
  <2>2. CASE m # n
    <3>1. holder[m] = u
      BY <2>2, <1>3
    <3>2. CASE u = t
      BY <3>1, <3>2, <2>2, <1>2, <1>4 DEF Queues, HoldersHold, n
    <3>3. CASE u # t
      BY <3>1, <3>3, <1>2, <1>5, <1>6 DEF Queues, HoldersHold
    <3>. QED
      BY <3>2, <3>3
  <2>. QED
    BY <2>1, <2>2
<1>. QED
  BY <1>8, <1>9, <1>10, <1>11 DEF Queues

\* A task enters one queue, once.
LEMMA EnqueueQueues ==
  ASSUME IInv, Queues, NEW t \in Task, Enqueue(t)
  PROVE  Queues'
<1> DEFINE k == NextKey(t)
           n == NextMutex(t)
<1>1. k \in Key /\ k \in Remaining(t) /\ n = refs[t][k] /\ n \in Mutex
  BY NextKeyProperties DEF NextMutex, Enqueue
<1>2. /\ pc[t] = "acquire" /\ holder[n] # NoTask
      /\ waiters' = [waiters EXCEPT ![n] = Append(@, t)]
      /\ pc' = [pc EXCEPT ![t] = "wait"]
      /\ UNCHANGED <<refs, held, table, holder>>
  BY DEF Enqueue
<1> HIDE DEF k, n
<1>3. \A u \in Task : NextMutex(u)' = NextMutex(u)
  BY <1>2, NextMutexStable
<1>4. n = NextMutex(t) /\ NextMutex(t)' = n
  BY <1>3 DEF n
<1>5. \A m \in Mutex : \A i \in 1..Len(waiters[m]) : waiters[m][i] \in Task \ {t}
  BY <1>2 DEF IInv, Typed, Queues, QueuedWait
\* A holder that still needs the guard of k would hold another key's mutex.
<1>6. holder[n] # t
  <2> SUFFICES ASSUME holder[n] = t PROVE FALSE
    OBVIOUS
  <2>1. PICK j \in held[t] : refs[t][j] = n
    BY <1>1, <1>2 DEF Queues, HoldersHold
  <2>2. j = k
    BY <2>1, <1>1, MutexAssumption DEF IInv, TableAgrees, EntriesDistinct, Typed
  <2>. QED
    BY <2>1, <2>2, <1>1 DEF Remaining
<1>7. /\ \A m \in Mutex \ {n} : waiters'[m] = waiters[m]
      /\ Len(waiters'[n]) = Len(waiters[n]) + 1 /\ Len(waiters[n]) \in Nat
      /\ waiters'[n][Len(waiters[n]) + 1] = t
      /\ \A i \in 1..Len(waiters[n]) : waiters'[n][i] = waiters[n][i]
  <2>1. waiters[n] \in Seq(Task) /\ waiters'[n] = Append(waiters[n], t)
    BY <1>1, <1>2 DEF IInv, Typed
  <2>. QED
    BY <2>1, <1>2 DEF IInv, Typed
<1>8. QueuedWait'
  <2> SUFFICES ASSUME NEW m \in Mutex, NEW u \in Task, NEW i \in 1..Len(waiters'[m]),
                      waiters'[m][i] = u
               PROVE  pc'[u] = "wait" /\ NextMutex(u)' = m
    BY DEF QueuedWait
  <2>1. CASE m = n /\ i = Len(waiters[n]) + 1
    BY <2>1, <1>2, <1>4, <1>7 DEF IInv, Typed
  <2>2. CASE ~ (m = n /\ i = Len(waiters[n]) + 1)
    <3>1. i \in 1..Len(waiters[m]) /\ waiters'[m][i] = waiters[m][i]
      BY <2>2, <1>7
    <3>2. u # t /\ pc[u] = "wait" /\ NextMutex(u) = m
      BY <3>1, <1>5 DEF Queues, QueuedWait
    <3>. QED
      BY <3>2, <1>2, <1>3 DEF IInv, Typed
  <2>. QED
    BY <2>1, <2>2
<1>9. WaitersQueued'
  <2> SUFFICES ASSUME NEW u \in Task, pc'[u] = "wait"
               PROVE  \/ holder[NextMutex(u)] = u
                      \/ \E i \in 1..Len(waiters'[NextMutex(u)]) : waiters'[NextMutex(u)][i] = u
    BY <1>2, <1>3 DEF WaitersQueued
  <2>1. CASE u = t
    BY <2>1, <1>4, <1>7
  <2>2. CASE u # t
    <3>1. pc[u] = "wait" /\ NextMutex(u) \in Mutex
      BY <2>2, <1>2, NextKeyProperties DEF IInv, Typed
    <3>2. CASE holder[NextMutex(u)] = u
      BY <3>2
    <3>3. CASE \E i \in 1..Len(waiters[NextMutex(u)]) : waiters[NextMutex(u)][i] = u
      BY <3>1, <3>3, <1>7
    <3>. QED
      BY <3>1, <3>2, <3>3 DEF Queues, WaitersQueued
  <2>. QED
    BY <2>1, <2>2
<1>10. QueuesDistinct'
  <2> SUFFICES ASSUME NEW m \in Mutex, NEW i \in 1..Len(waiters'[m])
               PROVE  /\ waiters'[m][i] # holder[m]
                      /\ \A j \in 1..Len(waiters'[m]) : waiters'[m][i] = waiters'[m][j] => i = j
    BY <1>2 DEF QueuesDistinct
  <2>1. CASE m = n
    <3>1. \A j \in 1..Len(waiters'[n]) : j = Len(waiters[n]) + 1 \/ j \in 1..Len(waiters[n])
      BY <1>7
    <3>2. \A j \in 1..Len(waiters[n]) : waiters'[n][j] # t
      <4>1. \A j \in 1..Len(waiters[n]) : waiters[n][j] \in Task \ {t}
        BY <1>1, <1>5
      <4>2. \A j \in 1..Len(waiters[n]) : waiters'[n][j] = waiters[n][j]
        BY <1>7
      <4>. QED
        BY <4>1, <4>2
    <3>3. \A j \in 1..Len(waiters[n]) :
            /\ waiters[n][j] # holder[n]
            /\ \A h \in 1..Len(waiters[n]) : waiters[n][j] = waiters[n][h] => j = h
      BY <1>1 DEF Queues, QueuesDistinct
    <3>4. CASE i = Len(waiters[n]) + 1
      BY <2>1, <3>1, <3>2, <3>4, <1>6, <1>7
    <3>5. CASE i \in 1..Len(waiters[n])
      BY <2>1, <3>1, <3>2, <3>3, <3>5, <1>7
    <3>. QED
      BY <2>1, <3>1, <3>4, <3>5
  <2>2. CASE m # n
    BY <2>2, <1>7 DEF Queues, QueuesDistinct
  <2>. QED
    BY <2>1, <2>2
<1>11. NoQueueAtFree'
  BY <1>2, <1>7 DEF Queues, NoQueueAtFree
<1>12. HoldersHold'
  BY <1>2, <1>3 DEF Queues, HoldersHold, IInv, Typed
<1>. QED
  BY <1>8, <1>9, <1>10, <1>11, <1>12 DEF Queues

\* The first of a queue gets the mutex, and nobody else.
LEMMA ReleaseQueues ==
  ASSUME IInv, Queues, NEW t \in Task, Release(t)
  PROVE  Queues'
<1> DEFINE k == Least(held[t])
           n == refs[t][k]
<1>1. held[t] \subseteq Key /\ held[t] # {} /\ pc[t] \in {"locked", "release"}
  BY DEF Release, IInv, Phases, Typed
<1>2. k \in held[t] /\ k \in Key
  BY <1>1, LeastProperties
<1>3. n \in Mutex /\ holder[n] = t
  BY <1>2 DEF IInv, GuardsGranted, Typed
<1>4. /\ held' = [held EXCEPT ![t] = @ \ {k}]
      /\ refs' = [refs EXCEPT ![t][k] = NoMutex]
      /\ pc' = [pc EXCEPT ![t] = IF held[t] = {k} THEN "idle" ELSE "release"]
      /\ holder' = [holder EXCEPT ![n] = IF waiters[n] = <<>> THEN NoTask ELSE Head(waiters[n])]
      /\ waiters' = [waiters EXCEPT ![n] = IF @ = <<>> THEN <<>> ELSE Tail(@)]
  BY DEF Release
<1> HIDE DEF k, n
<1>5. /\ held'[t] = held[t] \ {k} /\ pc'[t] \in {"idle", "release"}
      /\ \A u \in Task \ {t} : pc'[u] = pc[u] /\ held'[u] = held[u] /\ refs'[u] = refs[u]
      /\ \A j \in Key \ {k} : refs'[t][j] = refs[t][j]
  BY <1>4 DEF IInv, Typed
<1>6. \A u \in Task \ {t} : NextMutex(u)' = NextMutex(u)
  BY <1>5, NextMutexStable
<1>7. \A m \in Mutex : \A i \in 1..Len(waiters[m]) : waiters[m][i] \in Task \ {t}
  BY <1>1 DEF IInv, Typed, Queues, QueuedWait
<1>8. \A m \in Mutex \ {n} : holder'[m] = holder[m] /\ waiters'[m] = waiters[m]
  BY <1>4 DEF IInv, Typed
\* The queue of n moves up by one, its first task becoming the holder.
<1>9. \/ waiters[n] = <<>> /\ waiters'[n] = <<>> /\ holder'[n] = NoTask
      \/ /\ waiters[n] # <<>> /\ holder'[n] = waiters[n][1]
         /\ Len(waiters[n]) \in Nat \ {0} /\ Len(waiters'[n]) = Len(waiters[n]) - 1
         /\ \A i \in 1..Len(waiters'[n]) : waiters'[n][i] = waiters[n][i + 1]
  <2>1. waiters[n] \in Seq(Task)
    BY <1>3 DEF IInv, Typed
  <2>2. /\ waiters'[n] = IF waiters[n] = <<>> THEN <<>> ELSE Tail(waiters[n])
        /\ holder'[n] = IF waiters[n] = <<>> THEN NoTask ELSE Head(waiters[n])
    BY <1>3, <1>4 DEF IInv, Typed
  <2>3. CASE waiters[n] = <<>>
    BY <2>2, <2>3
  <2>4. CASE waiters[n] # <<>>
    <3>1. /\ Len(waiters[n]) \in Nat \ {0} /\ Head(waiters[n]) = waiters[n][1]
          /\ Len(Tail(waiters[n])) = Len(waiters[n]) - 1
          /\ \A i \in 1..Len(Tail(waiters[n])) : Tail(waiters[n])[i] = waiters[n][i + 1]
      BY <2>1, <2>4
    <3>. QED
      BY <3>1, <2>2, <2>4
  <2>. QED
    BY <2>3, <2>4
<1>10. QueuedWait'
  <2> SUFFICES ASSUME NEW m \in Mutex, NEW u \in Task, NEW i \in 1..Len(waiters'[m]),
                      waiters'[m][i] = u
               PROVE  pc'[u] = "wait" /\ NextMutex(u)' = m
    BY DEF QueuedWait
  <2>1. PICK j \in 1..Len(waiters[m]) : waiters'[m][i] = waiters[m][j]
    <3>1. CASE m = n /\ waiters[n] # <<>>
      <4>1. i + 1 \in 1..Len(waiters[m]) /\ waiters'[m][i] = waiters[m][i + 1]
        BY <3>1, <1>9
      <4>. QED
        BY <4>1
    <3>2. CASE ~ (m = n /\ waiters[n] # <<>>)
      <4>1. waiters'[m] = waiters[m]
        BY <3>2, <1>8, <1>9
      <4>. QED
        BY <4>1
    <3>. QED
      BY <3>1, <3>2
  <2>. QED
    BY <2>1, <1>5, <1>6, <1>7 DEF Queues, QueuedWait
<1>11. WaitersQueued'
  <2> SUFFICES ASSUME NEW u \in Task, pc'[u] = "wait"
               PROVE  \/ holder'[NextMutex(u)'] = u
                      \/ \E i \in 1..Len(waiters'[NextMutex(u)']) : waiters'[NextMutex(u)'][i] = u
    BY DEF WaitersQueued
  <2>1. u # t /\ pc[u] = "wait" /\ NextMutex(u)' = NextMutex(u)
    BY <1>5, <1>6
  <2>2. NextMutex(u) \in Mutex
    BY <2>1, NextKeyProperties
  <2>3. CASE NextMutex(u) = n
    <3>1. PICK i \in 1..Len(waiters[n]) : waiters[n][i] = u
      BY <2>1, <2>3, <1>3 DEF Queues, WaitersQueued
    <3>2. waiters[n] # <<>>
      BY <3>1, <1>3
    <3>3. CASE i = 1
      BY <3>1, <3>2, <3>3, <1>9, <2>1, <2>3
    <3>4. CASE i # 1
      <4>1. /\ Len(waiters'[n]) = Len(waiters[n]) - 1 /\ Len(waiters[n]) \in Nat
            /\ \A h \in 1..Len(waiters'[n]) : waiters'[n][h] = waiters[n][h + 1]
        BY <3>2, <1>9
      <4>2. i - 1 \in 1..Len(waiters'[n]) /\ waiters'[n][i - 1] = u
        BY <3>1, <3>4, <4>1
      <4>. QED
        BY <4>2, <2>1, <2>3
    <3>. QED
      BY <3>3, <3>4
  <2>4. CASE NextMutex(u) # n
    BY <2>1, <2>2, <2>4, <1>8 DEF Queues, WaitersQueued
  <2>. QED
    BY <2>3, <2>4
<1>12. QueuesDistinct'
  <2> SUFFICES ASSUME NEW m \in Mutex, NEW i \in 1..Len(waiters'[m])
               PROVE  /\ waiters'[m][i] # holder'[m]
                      /\ \A j \in 1..Len(waiters'[m]) : waiters'[m][i] = waiters'[m][j] => i = j
    BY DEF QueuesDistinct
  <2>1. CASE m = n
    <3>1. /\ \A j \in 1..Len(waiters'[n]) : j + 1 \in 1..Len(waiters[n])
          /\ 1 \in 1..Len(waiters[n]) /\ holder'[n] = waiters[n][1]
          /\ \A j \in 1..Len(waiters'[n]) : waiters'[n][j] = waiters[n][j + 1]
      BY <2>1, <1>9
    <3>2. \A a, b \in 1..Len(waiters[n]) : waiters[n][a] = waiters[n][b] => a = b
      BY <1>3 DEF Queues, QueuesDistinct
    <3>3. i \in Int /\ i + 1 # 1 /\ i + 1 \in 1..Len(waiters[n]) /\ waiters'[n][i] = waiters[n][i + 1]
      BY <2>1, <3>1
    <3>4. waiters'[n][i] # holder'[n]
      BY <3>1, <3>2, <3>3
    <3>5. ASSUME NEW j \in 1..Len(waiters'[n]), waiters'[n][i] = waiters'[n][j]
          PROVE  i = j
      <4>1. j \in Int /\ j + 1 \in 1..Len(waiters[n]) /\ waiters[n][i + 1] = waiters[n][j + 1]
        BY <3>1, <3>3, <3>5
      <4>2. i + 1 = j + 1
        BY <4>1, <3>2, <3>3
      <4>. QED
        BY <4>1, <4>2, <3>3
    <3>. QED
      BY <2>1, <3>4, <3>5
  <2>2. CASE m # n
    BY <2>2, <1>8 DEF Queues, QueuesDistinct
  <2>. QED
    BY <2>1, <2>2
<1>13. NoQueueAtFree'
  <2>1. waiters'[n] # <<>> => holder'[n] \in Task
    BY <1>3, <1>7, <1>9
  <2>. QED
    BY <2>1, <1>8, TaskAssumption DEF Queues, NoQueueAtFree
<1>14. HoldersHold'
  <2> SUFFICES ASSUME NEW m \in Mutex, NEW u \in Task, holder'[m] = u
               PROVE  \/ \E j \in held'[u] : refs'[u][j] = m
                      \/ pc'[u] = "wait" /\ NextMutex(u)' = m
    BY DEF HoldersHold
  <2>1. CASE m = n
    <3>1. waiters[n] # <<>> /\ u = waiters[n][1] /\ 1 \in 1..Len(waiters[n])
      BY <2>1, <1>9, TaskAssumption
    <3>2. u # t /\ pc[u] = "wait" /\ NextMutex(u) = n
      BY <3>1, <1>3, <1>7 DEF Queues, QueuedWait
    <3>. QED
      BY <3>2, <2>1, <1>5, <1>6
  <2>2. CASE m # n
    <3>1. holder[m] = u
      BY <2>2, <1>8
    <3>2. CASE u = t
      <4>1. PICK j \in held[t] : refs[t][j] = m
        BY <3>1, <3>2, <1>1 DEF Queues, HoldersHold
      <4>2. j # k /\ j \in Key
        BY <4>1, <2>2, <1>1 DEF n
      <4>. QED
        BY <4>1, <4>2, <3>2, <1>5
    <3>3. CASE u # t
      BY <3>1, <3>3, <1>5, <1>6 DEF Queues, HoldersHold
    <3>. QED
      BY <3>2, <3>3
  <2>. QED
    BY <2>1, <2>2
<1>. QED
  BY <1>10, <1>11, <1>12, <1>13, <1>14 DEF Queues

\* Every step keeps the queues.
LEMMA NextQueues == IInv /\ Queues /\ [Next]_vars => Queues'
<1> SUFFICES ASSUME IInv, Queues, [Next]_vars PROVE Queues'
  OBVIOUS
<1>1. CASE UNCHANGED vars
  <2>1. \A u \in Task : NextMutex(u)' = NextMutex(u)
    BY <1>1, NextMutexStable DEF vars
  <2>. QED
    BY <1>1, <2>1 DEF vars, Queues, QueuedWait, WaitersQueued, QueuesDistinct,
       NoQueueAtFree, HoldersHold, IInv, Typed
<1>. QED
  BY <1>1, LockQueues, PushQueues, EnqueueQueues, ReleaseQueues DEF Next, Advance

\* Among tasks that are all stuck, the one that waits for the greatest key is
\* kept waiting by a task that has that key and waits for a greater one.
LEMMA OrderPreventsDeadlock == IInv /\ Queues => SomeoneCanMove
<1> SUFFICES ASSUME IInv, Queues, NEW t0 \in Task, pc[t0] # "idle",
                    \A t \in Task : pc[t] \notin {"acquire", "locked", "release"},
                    \A t \in Task : pc[t] = "wait" => holder[NextMutex(t)] # t
             PROVE  FALSE
  BY DEF SomeoneCanMove
<1> DEFINE W == {t \in Task : pc[t] = "wait"}
           S == {NextKey(t) : t \in W}
<1>1. \A t \in Task : pc[t] \in {"idle", "wait"}
  BY DEF IInv, Typed
<1>2. S \subseteq Key /\ S # {}
  BY <1>1, NextKeyProperties
<1>3. PICK k \in S : \A j \in S : j <= k
  BY <1>2, GreatestExists
<1>4. PICK t \in W : k = NextKey(t)
  OBVIOUS
<1>5. k \in Key /\ NextMutex(t) \in Mutex /\ NextMutex(t) = refs[t][k]
  BY <1>4, NextKeyProperties DEF NextMutex
<1>6. holder[NextMutex(t)] \in Task
  <2>1. PICK i \in 1..Len(waiters[NextMutex(t)]) : waiters[NextMutex(t)][i] = t
    BY DEF Queues, WaitersQueued
  <2>2. waiters[NextMutex(t)] # <<>>
    BY <2>1
  <2>. QED
    BY <2>2, <1>5 DEF Queues, NoQueueAtFree, IInv, Typed
<1>7. PICK u \in Task : holder[NextMutex(t)] = u
  BY <1>6
<1>8. PICK j \in held[u] : refs[u][j] = NextMutex(t)
  BY <1>5, <1>7 DEF Queues, HoldersHold
<1>9. j = k
  BY <1>5, <1>8, MutexAssumption DEF IInv, TableAgrees, EntriesDistinct, Typed
<1>10. pc[u] = "wait"
  BY <1>1, <1>8 DEF IInv, Phases
<1>11. k < NextKey(u)
  BY <1>8, <1>9, <1>10, NextKeyProperties DEF IInv, Phases
<1>12. NextKey(u) \in S /\ NextKey(u) \in Nat
  BY <1>10, <1>2, KeyCountAssumption DEF Key
<1>. QED
  BY <1>3, <1>5, <1>11, <1>12, KeyCountAssumption DEF Key

\* Tasks that lock several keys never end up all waiting for each other,
\* however many tasks and keys there are.
THEOREM DeadlockFreedom == Spec => []SomeoneCanMove
<1>1. Spec => []Queues
  BY InitQueues, NextQueues, Inductive, PTL DEF Spec
<1>. QED
  BY <1>1, Inductive, OrderPreventsDeadlock, PTL

=============================================================================
