--------------------------- MODULE MCMidnightDeploy --------------------------
(* Small instances of MidnightDeploy.                                      *)
EXTENDS MidnightDeploy, TLC

CONSTANTS d1, d2, f1, l1, c1, r1, r2

Scripts == d1 :> "deploy-final" @@ d2 :> "deploy_synced" @@ f1 :> "fixed_time"
           @@ l1 :> "lifecycle"
OrderCalled == [r \in Run |-> c1]

Symmetry == Permutations(Root)
=============================================================================
