---------------------------- MODULE MCMidnightApp ---------------------------
(* Small instances of MidnightApp.                                         *)
EXTENDS MidnightApp, TLC

CONSTANTS t1, t2, o1, o2

(* One order costs more than the other.                                    *)
Costs == o1 :> 1 @@ o2 :> 2

Symmetry == Permutations(Tab)
=============================================================================
