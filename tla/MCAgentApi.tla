----------------------------- MODULE MCAgentApi -----------------------------
(* Instance of AgentApi for TLC: two concurrent requests of one matcher    *)
(* process, with the loops that would retry a task if its type were one    *)
(* they retry.                                                             *)
EXTENDS AgentApi, TLC

CONSTANTS r1, r2, w1, p1

OneProcess == [a \in Actor |-> p1]
WorkerPid == [w \in Worker |-> "matcher-retry-1"]
Twins == Permutations(Runner)
=============================================================================
