---------------------------- MODULE AtomicLocks ----------------------------
(***************************************************************************)
(* What a library operation may assume of AppState.library_operation_locks *)
(* (server/src/api/mod.rs): a task asks for a whole set of keys, at some   *)
(* later instant owns all of them at once, and gives them back.  Nothing   *)
(* of mutexes, of the weak table or of the order of acquisition is visible *)
(* at this level.  KeyLocks is shown to implement this module, and         *)
(* LibraryOps builds on this promise instead of on the mutexes.            *)
(***************************************************************************)
CONSTANTS
  Task,      \* the tasks that run library operations
  KeySets    \* the sets of keys a task may ask for

VARIABLES
  wants,     \* wants[t]: the keys t has asked for and does not own yet
  holds      \* holds[t]: the keys t owns

vars == <<wants, holds>>

Init ==
  /\ wants = [t \in Task |-> {}]
  /\ holds = [t \in Task |-> {}]

Request(t, K) ==
  /\ wants[t] = {} /\ holds[t] = {}
  /\ wants' = [wants EXCEPT ![t] = K]
  /\ UNCHANGED holds

\* The whole set is owned from this step on; no other owner may overlap it.
Enter(t) ==
  /\ wants[t] # {}
  /\ \A u \in Task \ {t} : holds[u] \cap wants[t] = {}
  /\ holds' = [holds EXCEPT ![t] = wants[t]]
  /\ wants' = [wants EXCEPT ![t] = {}]

Leave(t) ==
  /\ holds[t] # {}
  /\ holds' = [holds EXCEPT ![t] = {}]
  /\ UNCHANGED wants

Next ==
  \E t \in Task :
    \/ \E K \in KeySets : Request(t, K)
    \/ Enter(t)
    \/ Leave(t)

Spec == Init /\ [][Next]_vars
=============================================================================
