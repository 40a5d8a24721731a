----------------------------- MODULE MCCandles -----------------------------
(* Instance of Candles: three matches of one listed pair, whose tokens     *)
(* have different decimals.                                                *)
EXTENDS Candles, TLC

OnePair == [m \in Match |-> 0]
=============================================================================
