--------------------------- MODULE MCBatchPipeline -------------------------
(* Instances of BatchPipeline: one batch and one pair, with one match of   *)
(* two orders or two matches of two, and one matcher process.              *)
EXTENDS BatchPipeline

CONSTANTS o1, o2, o3, o4, t1, t2, s1, main

TwoOrders == {o1, o2}
OneMatch == (1 :> {o1, o2})
TwoMatches == (1 :> {o1, o2}) @@ (2 :> {o3, o4})
InBatchOne == [o \in Order |-> 1]
OnPairOne == [m \in Match |-> 1]
OwnPair == [m \in Match |-> m]
OrderTwins == Permutations({o1, o2}) \cup Permutations({o3, o4})
Twins == OrderTwins \cup Permutations(Thread)
AllMain == [a \in Thread \cup Settler |-> main]
=============================================================================
