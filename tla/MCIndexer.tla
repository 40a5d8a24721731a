----------------------------- MODULE MCIndexer -----------------------------
(* Instances of Indexer for TLC: two transactions that may submit the      *)
(* order, on a chain of a few blocks that reorganises.                     *)
EXTENDS Indexer, TLC

CONSTANTS s1, s2

Twins == Permutations(Submit)
=============================================================================
