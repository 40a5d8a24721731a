----------------------------- MODULE MCAuction -----------------------------
(* Instances of Auction: model values for the orders, alike on each side.   *)
EXTENDS Auction, TLC

CONSTANTS b1, b2, b3, s1, s2

Twins == Permutations(Buyer) \cup Permutations(Seller)
=============================================================================
