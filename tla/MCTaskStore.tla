---------------------------- MODULE MCTaskStore ----------------------------
(* Instances of TaskStore for TLC: one matcher process, and two of them    *)
(* (the matcher beside a second replica or an operator script).            *)
EXTENDS TaskStore, TLC

CONSTANTS r1, r2, w1, w2, c1, c2, p1, p2

OneProcess == [a \in Actor |-> p1]
TwoProcesses == [a \in Actor |-> IF a \in {r1, w1, c1} THEN p1 ELSE p2]
WorkerPid == [w \in Worker |-> IF w = w1 THEN "matcher-retry-1" ELSE "matcher-retry-2"]
Symmetry == Permutations(Runner)
=============================================================================
