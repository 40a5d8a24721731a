----------------------------- MODULE MCAuditOps -----------------------------
(* The instance of AuditOps for TLC, with every match in batch 1: a match  *)
(* as the matcher writes it, with a forged object, without the key of its  *)
(* object, and without a row.                                              *)
EXTENDS AuditOps, TLC

MCBatchOf == [m \in Match |-> 1]
Full(key) == [full |-> TRUE, swapped |-> FALSE, key |-> key, status |-> "PENDING"]
Whole(o) == [row |-> Full(TRUE), object |-> o]
Cases ==
  { Whole("receipt"), Whole("forged"), [row |-> Full(FALSE), object |-> "bare"],
    [row |-> None, object |-> "inputs"] }
MCStarts == [Match -> Cases]
=============================================================================
