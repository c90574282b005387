---- MODULE MCKeyLocks ----
(* Instances of KeyLocks for TLC. *)
EXTENDS KeyLocks

CONSTANTS t1, t2, t3, m1, m2, m3

Tasks == {t1, t2, t3}
Mutexes == {m1, m2, m3}

\* An upload locks one key, a delete or write-back two, a move three.
Pairs == {{1, 2}, {2, 3}, {1, 3}}
SomeSets == Pairs \cup {{1}, Key}
====
