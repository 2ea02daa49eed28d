-------------------------- MODULE MCTaskDispatcher --------------------------
(* Instances of TaskDispatcher for TLC. *)
EXTENDS TaskDispatcher

CONSTANTS e1, e2, t1, t2, t3, w1, w2, h1

\* e1 has a second task id for the races that give an event two tasks.
MCEventOf == [t \in Task |-> IF t = t3 THEN e2 ELSE e1]

Symmetry == Permutations(Worker) \cup Permutations({t1, t2})
=============================================================================
