--------------------------- MODULE Market_proofs ----------------------------
(***************************************************************************)
(* What one call of runAuction guarantees, for any number of orders, any   *)
(* amounts and any decimals; and what the candles say of its matches.      *)
(***************************************************************************)
EXTENDS Auction, Candles, FiniteSums

---------------------------------------------------------------------------
(* Arithmetic.  Quotients are rounded down.                                *)

LEMMA Floor ==
  ASSUME NEW a \in Nat, NEW d \in Nat \ {0}
  PROVE  a \div d \in Nat /\ (a \div d) * d <= a /\ a < ((a \div d) + 1) * d
OBVIOUS

LEMMA Products ==
  /\ \A a, b \in Nat : a * b \in Nat
  /\ \A a, b \in Nat \ {0} : a * b \in Nat \ {0}
OBVIOUS

(* A price rounded down times the quantity is no more than the amount, and *)
(* one unit more is more.                                                  *)
LEMMA LimitOfBuy ==
  ASSUME NEW d \in Nat, NEW r \in Nat \ {0}, NEW c \in Nat,
         NEW ps \in Nat \ {0}, NEW cu \in Nat \ {0}, NEW au \in Nat \ {0},
         c <= (d * au * ps) \div (r * cu)
  PROVE  r * c * cu <= d * ps * au
<1>1. r * cu \in Nat \ {0} /\ d * au * ps \in Nat
  OBVIOUS
<1> DEFINE p == (d * au * ps) \div (r * cu)
<1>2. p \in Nat /\ p * (r * cu) <= d * au * ps
  BY <1>1, Floor
<1> HIDE DEF p
<1>3. c * (r * cu) <= p * (r * cu)
  BY <1>1, <1>2 DEF p
<1>4. r * c * cu = c * (r * cu) /\ d * ps * au = d * au * ps
  OBVIOUS
<1>5. c * (r * cu) \in Nat /\ p * (r * cu) \in Nat
  BY <1>1, <1>2
<1> QED
  BY <1>1, <1>2, <1>3, <1>4, <1>5

LEMMA LimitOfSell ==
  ASSUME NEW d \in Nat \ {0}, NEW r \in Nat, NEW c \in Nat,
         NEW ps \in Nat \ {0}, NEW cu \in Nat \ {0}, NEW au \in Nat \ {0},
         (r * au * ps) \div (d * cu) <= c
  PROVE  r * au * ps < (c + 1) * (d * cu)
<1>1. d * cu \in Nat \ {0} /\ r * au * ps \in Nat
  OBVIOUS
<1> DEFINE p == (r * au * ps) \div (d * cu)
<1>2. p \in Nat /\ r * au * ps < (p + 1) * (d * cu)
  BY <1>1, Floor
<1> HIDE DEF p
<1>3. (p + 1) * (d * cu) <= (c + 1) * (d * cu)
  BY <1>1, <1>2 DEF p
<1> QED
  BY <1>1, <1>2, <1>3

(* The quote of a quantity: between one unit less and the exact value.     *)
LEMMA QuoteBounds ==
  ASSUME NEW w \in Nat, clearing \in Nat
  PROVE  /\ Quote(w) \in Nat
         /\ Quote(w) * PriceScale * AssetUnit <= w * clearing * CashUnit
         /\ w * clearing * CashUnit < (Quote(w) + 1) * PriceScale * AssetUnit
<1> USE UnitsAssumption
<1>1. w * clearing * CashUnit \in Nat /\ PriceScale * AssetUnit \in Nat \ {0}
  OBVIOUS
<1>2. /\ Quote(w) \in Nat
      /\ Quote(w) * (PriceScale * AssetUnit) <= w * clearing * CashUnit
      /\ w * clearing * CashUnit < (Quote(w) + 1) * (PriceScale * AssetUnit)
  BY <1>1, Floor DEF Quote
<1>3. \A n \in Nat : n * (PriceScale * AssetUnit) = n * PriceScale * AssetUnit
  OBVIOUS
<1> QED
  BY <1>2, <1>3

(* A buyer whose cash is worth the assets still wanted can pay for a part  *)
(* of them, and the rest is worth the rest.                                *)
LEMMA CashLasts ==
  ASSUME clearing \in Nat, NEW R \in Nat, NEW C \in Nat \ {0},
         R * clearing * CashUnit <= C * PriceScale * AssetUnit,
         NEW w \in Nat, w <= R
  PROVE  /\ Quote(w) <= C
         /\ (R - w) * clearing * CashUnit <= (C - Quote(w)) * PriceScale * AssetUnit
         /\ w < R => Quote(w) < C
<1> USE UnitsAssumption
<1> DEFINE q == Quote(w)
           u == clearing * CashUnit
           v == PriceScale * AssetUnit
<1>1. u \in Nat /\ v \in Nat \ {0}
  OBVIOUS
<1>2. \A n \in Int : n * clearing * CashUnit = n * u /\ n * PriceScale * AssetUnit = n * v
  OBVIOUS
<1>3. q \in Nat /\ q * v <= w * u /\ R * u <= C * v
  BY <1>2, QuoteBounds, SMTT(30)
<1> HIDE DEF q, u, v
<1>4. w * u <= R * u
  BY <1>1
<1>5. q * v <= C * v
  BY <1>1, <1>3, <1>4
<1>6. q <= C
  BY <1>1, <1>3, <1>5
<1>7. (R - w) * u <= (C - q) * v
  <2>1. (R - w) * u = R * u - w * u /\ (C - q) * v = C * v - q * v
    BY <1>1, <1>3
  <2> QED
    BY <1>1, <1>3, <2>1
<1>8. ASSUME w < R
      PROVE  q < C
  <2>1. CASE u = 0
    <3>1. q * v = 0
      BY <1>1, <1>3, <2>1
    <3>2. q = 0
      BY <1>1, <1>3, <3>1
    <3> QED
      BY <3>2
  <2>2. CASE u # 0
    <3>1. w * u < R * u
      BY <1>1, <1>8, <2>2
    <3>2. q * v < C * v
      BY <1>1, <1>3, <3>1
    <3> QED
      BY <1>1, <1>3, <3>2
  <2> QED
    BY <2>1, <2>2
<1>9. R - w \in Int /\ C - q \in Int
  BY <1>3
<1> QED
  BY <1>2, <1>6, <1>7, <1>8, <1>9 DEF q

---------------------------------------------------------------------------
(* The ranked sides.                                                       *)

(* A ranking lists every live order of its side once.                      *)
LEMMA Listing ==
  ASSUME NEW S, IsFiniteSet(S), NEW s \in SetToSeqs(S)
  PROVE  /\ s \in Seq(S) /\ Len(s) \in Nat /\ DOMAIN s = 1..Len(s)
         /\ \A i \in 1..Len(s) : s[i] \in S
         /\ \A i, j \in 1..Len(s) : s[i] = s[j] => i = j
         /\ \A x \in S : \E i \in 1..Len(s) : s[i] = x
<1> DEFINE n == Cardinality(S)
<1>1. n \in Nat
  BY FS_CardinalityType
<1>2. s \in [1..n -> S] /\ \A i, j \in 1..n : i # j => s[i] # s[j]
  BY DEF SetToSeqs
<1>3. IsFiniteSet(1..n) /\ Cardinality(1..n) = n
  BY <1>1, FS_Interval
<1>4. s \in Injection(1..n, S)
  BY <1>2 DEF Injection, IsInjective
<1>5. s \in Surjection(1..n, S)
  BY <1>3, <1>4, FS_Injection
<1>6. \A x \in S : \E i \in 1..n : s[i] = x
  BY <1>5 DEF Surjection
<1>7. s \in Seq(S) /\ Len(s) = n
  BY <1>1, <1>2
<1> QED
  BY <1>1, <1>2, <1>6, <1>7

(* Neighbours in order, all in order.                                      *)
LEMMA Falling ==
  ASSUME NEW n \in Nat, NEW f, \A i \in 1..n : f[i] \in Nat,
         \A i \in 1..n - 1 : f[i] >= f[i + 1]
  PROVE  \A i, j \in 1..n : i <= j => f[i] >= f[j]
<1> SUFFICES ASSUME NEW i \in 1..n
             PROVE  \A j \in 1..n : i <= j => f[i] >= f[j]
  OBVIOUS
<1> DEFINE Bad == {j \in 1..n : i <= j /\ ~(f[i] >= f[j])}
<1> SUFFICES ASSUME Bad # {}
             PROVE  FALSE
  OBVIOUS
<1>1. PICK j \in Bad : \A k \in Bad : j <= k
  <2>1. Bad \subseteq Nat
    OBVIOUS
  <2> HIDE DEF Bad
  <2> QED
    BY <2>1, HasSmallest
<1>2. j # i /\ i < j /\ j - 1 \in 1..n - 1 /\ j - 1 \in 1..n
  BY <1>1
<1>3. j - 1 \notin Bad
  BY <1>1, <1>2
<1>4. f[i] >= f[j - 1] /\ f[j - 1] >= f[j]
  BY <1>2, <1>3
<1> QED
  BY <1>1, <1>2, <1>4

(* Orders with something to trade have a price.                            *)
LEMMA PriceType ==
  ASSUME NEW o \in Order, deposit[o] \in Nat \ {0}, request[o] \in Nat \ {0}
  PROVE  Price(o) \in Nat
<1> USE UnitsAssumption
<1>1. /\ deposit[o] * AssetUnit * PriceScale \in Nat /\ request[o] * CashUnit \in Nat \ {0}
      /\ request[o] * AssetUnit * PriceScale \in Nat /\ deposit[o] * CashUnit \in Nat \ {0}
  OBVIOUS
<1> QED
  BY <1>1, Floor DEF Price

Amounts == deposit \in [Order -> Amount] /\ request \in [Order -> Amount]

LEMMA LiveAmounts ==
  ASSUME Amounts, NEW side \in SUBSET Order, NEW o \in Live(side)
  PROVE  o \in side /\ deposit[o] \in Nat \ {0} /\ request[o] \in Nat \ {0} /\ Price(o) \in Nat
<1>1. o \in side /\ deposit[o] > 0 /\ request[o] > 0
  BY DEF Live
<1>2. deposit[o] \in Nat /\ request[o] \in Nat
  BY <1>1, AmountAssumption DEF Amounts
<1> QED
  BY <1>1, <1>2, PriceType

LEMMA BuyRanking ==
  ASSUME Amounts, NEW s \in RankedBuys
  PROVE  /\ s \in Seq(Buyer) /\ Len(s) \in Nat /\ DOMAIN s = 1..Len(s)
         /\ \A i \in 1..Len(s) : s[i] \in Live(Buyer)
         /\ \A i, j \in 1..Len(s) : s[i] = s[j] => i = j
         /\ \A x \in Live(Buyer) : \E i \in 1..Len(s) : s[i] = x
         /\ \A i, j \in 1..Len(s) : i <= j => Price(s[i]) >= Price(s[j])
<1>1. Live(Buyer) \subseteq Buyer /\ IsFiniteSet(Live(Buyer))
  BY SidesAssumption, FS_Subset DEF Live
<1>2. s \in SetToSeqs(Live(Buyer)) /\ \A n \in 1..Len(s) - 1 : Price(s[n]) >= Price(s[n + 1])
  BY DEF RankedBuys
<1>3. /\ s \in Seq(Live(Buyer)) /\ Len(s) \in Nat /\ DOMAIN s = 1..Len(s)
      /\ \A i \in 1..Len(s) : s[i] \in Live(Buyer)
      /\ \A i, j \in 1..Len(s) : s[i] = s[j] => i = j
      /\ \A x \in Live(Buyer) : \E i \in 1..Len(s) : s[i] = x
  BY <1>1, <1>2, Listing
<1>4. s \in Seq(Buyer)
  BY <1>1, <1>3
<1> DEFINE f == [i \in 1..Len(s) |-> Price(s[i])]
<1>5. \A i \in 1..Len(s) : f[i] \in Nat
  <2>1. Buyer \in SUBSET Order
    BY DEF Order
  <2> QED
    BY <1>3, <2>1, LiveAmounts
<1>6. \A i \in 1..Len(s) - 1 : f[i] >= f[i + 1]
  BY <1>2, <1>3
<1>7. \A i, j \in 1..Len(s) : i <= j => f[i] >= f[j]
  <2> HIDE DEF f
  <2> QED
    BY <1>3, <1>5, <1>6, Falling
<1> QED
  BY <1>3, <1>4, <1>7

LEMMA SellRanking ==
  ASSUME Amounts, NEW s \in RankedSells
  PROVE  /\ s \in Seq(Seller) /\ Len(s) \in Nat /\ DOMAIN s = 1..Len(s)
         /\ \A i \in 1..Len(s) : s[i] \in Live(Seller)
         /\ \A i, j \in 1..Len(s) : s[i] = s[j] => i = j
         /\ \A x \in Live(Seller) : \E i \in 1..Len(s) : s[i] = x
         /\ \A i, j \in 1..Len(s) : i <= j => Price(s[i]) <= Price(s[j])
<1>1. Live(Seller) \subseteq Seller /\ IsFiniteSet(Live(Seller))
  BY SidesAssumption, FS_Subset DEF Live
<1>2. s \in SetToSeqs(Live(Seller)) /\ \A n \in 1..Len(s) - 1 : Price(s[n]) <= Price(s[n + 1])
  BY DEF RankedSells
<1>3. /\ s \in Seq(Live(Seller)) /\ Len(s) \in Nat /\ DOMAIN s = 1..Len(s)
      /\ \A i \in 1..Len(s) : s[i] \in Live(Seller)
      /\ \A i, j \in 1..Len(s) : s[i] = s[j] => i = j
      /\ \A x \in Live(Seller) : \E i \in 1..Len(s) : s[i] = x
  BY <1>1, <1>2, Listing
<1>4. s \in Seq(Seller)
  BY <1>1, <1>3
<1>5. \A i \in 1..Len(s) : Price(s[i]) \in Nat
  <2>1. Seller \in SUBSET Order
    BY DEF Order
  <2> QED
    BY <1>3, <2>1, LiveAmounts
<1>6. ASSUME NEW i \in 1..Len(s), NEW j \in 1..Len(s), i <= j
      PROVE  Price(s[i]) <= Price(s[j])
  <2> DEFINE Bad == {k \in 1..Len(s) : i <= k /\ ~(Price(s[i]) <= Price(s[k]))}
  <2> SUFFICES ASSUME Bad # {}
               PROVE  FALSE
    BY <1>6
  <2>1. PICK k \in Bad : \A l \in Bad : k <= l
    <3>1. Bad \subseteq Nat
      OBVIOUS
    <3> HIDE DEF Bad
    <3> QED
      BY <3>1, HasSmallest
  <2>2. k # i /\ i < k /\ k - 1 \in 1..Len(s) - 1 /\ k - 1 \in 1..Len(s)
    BY <1>3, <1>5, <2>1
  <2>3. k - 1 \notin Bad
    BY <2>1, <2>2
  <2>4. Price(s[i]) <= Price(s[k - 1]) /\ Price(s[k - 1]) <= Price(s[k])
    BY <1>2, <1>3, <2>2, <2>3
  <2> QED
    BY <1>5, <2>1, <2>2, <2>4, SMTT(30)
<1> QED
  BY <1>3, <1>4, <1>6
---------------------------------------------------------------------------
(* The inductive invariant.                                                *)

(* The ranked sides and the crossing prefix, and when each is there.       *)
Sides ==
  /\ Amounts /\ pc \in {"rank", "cross", "fill", "done"} /\ crossed \in Nat
  /\ IF pc = "rank" THEN buys = <<>> /\ sells = <<>> /\ crossed = 0
                    ELSE buys \in RankedBuys /\ sells \in RankedSells
  /\ \A n \in 1..crossed : Crosses(n)
  /\ pc = "cross" => Crosses(1)
  /\ pc = "fill" => crossed > 0
  /\ pc = "done" /\ crossed > 0 => bi > crossed \/ si > crossed

Trading == pc \in {"fill", "done"} /\ crossed > 0

Untouched ==
  /\ clearing = 0 /\ bi = 1 /\ si = 1 /\ matches = <<>>
  /\ buyRemAsset = 0 /\ buyRemCash = 0 /\ sellRemAsset = 0

(* What is left of the pair being filled: something, and the buyer's cash  *)
(* is worth the assets still wanted.                                       *)
Pair ==
  /\ clearing = Midpoint
  /\ bi \in 1..crossed + 1 /\ si \in 1..crossed + 1
  /\ buyRemAsset \in Nat /\ buyRemCash \in Nat /\ sellRemAsset \in Nat
  /\ bi <= crossed => /\ buyRemAsset > 0 /\ buyRemCash > 0
                      /\ buyRemAsset * clearing * CashUnit <= buyRemCash * PriceScale * AssetUnit
  /\ si <= crossed => sellRemAsset > 0

(* Every match is between orders of the prefix that were reached, and      *)
(* quoted at the clearing price; every match moves a side on.              *)
MatchType == [buy : Buyer, sell : Seller, asset : Nat, cash : Nat]

Matched ==
  /\ matches \in Seq(MatchType)
  /\ Len(matches) <= (bi - 1) + (si - 1)
  /\ Len(matches) > 0 => Len(matches) < 2 * crossed
  /\ \A i \in 1..Len(matches) :
       /\ \E p \in 1..crossed : p <= bi /\ matches[i].buy = buys[p]
       /\ \E q \in 1..crossed : q <= si /\ matches[i].sell = sells[q]
       /\ matches[i].asset > 0
       /\ matches[i].cash = Quote(matches[i].asset)

(* What each order of the prefix has traded: all, if it was passed, and    *)
(* all but the remainder, if it is the one being filled.                   *)
AssetsOf(o) == Assets(FillsOf(o))
CashOf(o) == Cash(FillsOf(o))

BuyBooks ==
  \A p \in 1..crossed, o \in Buyer : o = buys[p] =>
    /\ p < bi => AssetsOf(o) = request[o] /\ CashOf(o) <= deposit[o]
    /\ p = bi => AssetsOf(o) + buyRemAsset = request[o] /\ CashOf(o) + buyRemCash = deposit[o]

SellBooks ==
  \A q \in 1..crossed, o \in Seller : o = sells[q] =>
    /\ q < si => AssetsOf(o) = deposit[o]
    /\ q = si => AssetsOf(o) + sellRemAsset = deposit[o]

(* The same of the two sides as wholes.                                    *)
BuyTotal ==
  IF bi <= crossed THEN Assets(DOMAIN matches) + buyRemAsset = Total(request, buys, bi)
                   ELSE Assets(DOMAIN matches) = Total(request, buys, crossed)
SellTotal ==
  IF si <= crossed THEN Assets(DOMAIN matches) + sellRemAsset = Total(deposit, sells, si)
                   ELSE Assets(DOMAIN matches) = Total(deposit, sells, crossed)

(* A seller loses less than one unit of cash a fill.                       *)
Proceeds ==
  \A o \in Seller : FillsOf(o) # {} =>
    AssetsOf(o) * clearing * CashUnit
      < (CashOf(o) + Cardinality(FillsOf(o))) * PriceScale * AssetUnit

Books == BuyBooks /\ SellBooks /\ BuyTotal /\ SellTotal /\ Proceeds

IInv == Sides /\ IF Trading THEN Pair /\ Matched /\ Books ELSE Untouched

---------------------------------------------------------------------------
(* What the invariant says of the prefix.                                  *)

LEMMA Prefix ==
  ASSUME Sides, crossed > 0
  PROVE  /\ crossed \in Nat \ {0}
         /\ buys \in RankedBuys /\ sells \in RankedSells
         /\ buys \in Seq(Buyer) /\ DOMAIN buys = 1..Len(buys) /\ Len(buys) \in Nat
         /\ sells \in Seq(Seller) /\ DOMAIN sells = 1..Len(sells) /\ Len(sells) \in Nat
         /\ \A p \in 1..crossed : p \in 1..Len(buys) /\ p \in 1..Len(sells)
         /\ \A p \in 1..crossed : /\ buys[p] \in Buyer
                                  /\ deposit[buys[p]] \in Nat \ {0}
                                  /\ request[buys[p]] \in Nat \ {0}
                                  /\ Price(buys[p]) \in Nat
         /\ \A q \in 1..crossed : /\ sells[q] \in Seller
                                  /\ deposit[sells[q]] \in Nat \ {0}
                                  /\ request[sells[q]] \in Nat \ {0}
                                  /\ Price(sells[q]) \in Nat
         /\ \A p, q \in 1..crossed : buys[p] = buys[q] => p = q
         /\ \A p, q \in 1..crossed : sells[p] = sells[q] => p = q
<1>1. crossed \in Nat \ {0} /\ Amounts /\ buys \in RankedBuys /\ sells \in RankedSells
  BY DEF Sides
<1>2. \A p \in 1..crossed : p \in 1..Len(buys) /\ p \in 1..Len(sells)
  <2>1. Len(buys) \in Nat /\ Len(sells) \in Nat
    BY <1>1, BuyRanking, SellRanking
  <2> QED
    BY <1>1, <2>1 DEF Sides, Crosses
<1>3. Buyer \in SUBSET Order /\ Seller \in SUBSET Order
  BY DEF Order
<1>4. ASSUME NEW p \in 1..crossed
      PROVE  /\ buys[p] \in Buyer /\ deposit[buys[p]] \in Nat \ {0}
             /\ request[buys[p]] \in Nat \ {0} /\ Price(buys[p]) \in Nat
  <2>1. buys[p] \in Live(Buyer)
    BY <1>1, <1>2, BuyRanking
  <2> QED
    BY <1>1, <1>3, <2>1, LiveAmounts
<1>5. ASSUME NEW p \in 1..crossed
      PROVE  /\ sells[p] \in Seller /\ deposit[sells[p]] \in Nat \ {0}
             /\ request[sells[p]] \in Nat \ {0} /\ Price(sells[p]) \in Nat
  <2>1. sells[p] \in Live(Seller)
    BY <1>1, <1>2, SellRanking
  <2> QED
    BY <1>1, <1>3, <2>1, LiveAmounts
<1>6. /\ \A p, q \in 1..crossed : buys[p] = buys[q] => p = q
      /\ \A p, q \in 1..crossed : sells[p] = sells[q] => p = q
  BY <1>1, <1>2, BuyRanking, SellRanking
<1>7. /\ buys \in Seq(Buyer) /\ DOMAIN buys = 1..Len(buys) /\ Len(buys) \in Nat
      /\ sells \in Seq(Seller) /\ DOMAIN sells = 1..Len(sells) /\ Len(sells) \in Nat
  BY <1>1, BuyRanking, SellRanking
<1> QED
  BY <1>1, <1>2, <1>4, <1>5, <1>6, <1>7

(* The midpoint of the marginal pair suits every order of the prefix.      *)
LEMMA FairPrice ==
  ASSUME Sides, crossed > 0
  PROVE  /\ Midpoint \in Nat
         /\ \A p \in 1..crossed : Midpoint <= Price(buys[p]) /\ Price(sells[p]) <= Midpoint
<1> DEFINE b == Price(buys[crossed])
           s == Price(sells[crossed])
<1>1. crossed \in 1..crossed /\ b \in Nat /\ s \in Nat /\ s <= b
  BY Prefix DEF Sides, Crosses
<1>2. Midpoint \in Nat /\ s <= Midpoint /\ Midpoint <= b
  <2>1. Midpoint = (b + s) \div 2
    BY DEF Midpoint
  <2> HIDE DEF b, s
  <2> QED
    BY <1>1, <2>1
<1>3. ASSUME NEW p \in 1..crossed
      PROVE  b <= Price(buys[p]) /\ Price(sells[p]) <= s
  <2>1. /\ p \in 1..Len(buys) /\ crossed \in 1..Len(buys) /\ p <= crossed
        /\ p \in 1..Len(sells) /\ crossed \in 1..Len(sells)
        /\ Price(buys[p]) \in Nat
    BY <1>1, Prefix
  <2>2. Amounts
    BY DEF Sides
  <2>3. Price(buys[p]) >= b /\ Price(sells[p]) <= s
    BY <2>1, <2>2, Prefix, BuyRanking, SellRanking
  <2> QED
    BY <1>1, <2>1, <2>3
<1>4. \A p \in 1..crossed : Price(buys[p]) \in Nat /\ Price(sells[p]) \in Nat
  BY Prefix
<1> HIDE DEF b, s
<1> QED
  BY <1>1, <1>2, <1>3, <1>4

(* An order of the prefix that comes up is worth filling.                  *)
LEMMA FreshPair ==
  ASSUME Sides, crossed > 0, clearing = Midpoint
  PROVE  \A p \in 1..crossed :
           request[buys[p]] * clearing * CashUnit <= deposit[buys[p]] * PriceScale * AssetUnit
<1> SUFFICES ASSUME NEW p \in 1..crossed
             PROVE  request[buys[p]] * clearing * CashUnit
                      <= deposit[buys[p]] * PriceScale * AssetUnit
  OBVIOUS
<1>1. PICK b \in Buyer : b = buys[p]
  BY Prefix
<1>2. deposit[b] \in Nat \ {0} /\ request[b] \in Nat \ {0} /\ clearing \in Nat
  BY <1>1, Prefix, FairPrice
<1>3. clearing <= (deposit[b] * AssetUnit * PriceScale) \div (request[b] * CashUnit)
  BY <1>1, FairPrice DEF Price
<1>4. PriceScale \in Nat \ {0} /\ CashUnit \in Nat \ {0} /\ AssetUnit \in Nat \ {0}
  BY UnitsAssumption
<1> QED
  BY <1>1, <1>2, <1>3, <1>4, LimitOfBuy

---------------------------------------------------------------------------
(* The sums.                                                               *)

LEMMA FillTypes ==
  ASSUME matches \in Seq(MatchType)
  PROVE  /\ Len(matches) \in Nat /\ DOMAIN matches = 1..Len(matches)
         /\ \A i \in 1..Len(matches) : matches[i] \in MatchType
         /\ IsFiniteSet(DOMAIN matches)
         /\ \A S \in SUBSET (DOMAIN matches) :
              IsFiniteSet(S) /\ Assets(S) \in Nat /\ Cash(S) \in Nat /\ Cardinality(S) \in Nat
         /\ \A o : FillsOf(o) \in SUBSET (DOMAIN matches)
<1>1. /\ Len(matches) \in Nat /\ DOMAIN matches = 1..Len(matches)
      /\ \A i \in 1..Len(matches) : matches[i] \in MatchType
  OBVIOUS
<1>2. IsFiniteSet(DOMAIN matches)
  BY <1>1, FS_Interval
<1>3. ASSUME NEW S \in SUBSET (DOMAIN matches)
      PROVE  IsFiniteSet(S) /\ Assets(S) \in Nat /\ Cash(S) \in Nat /\ Cardinality(S) \in Nat
  <2> DEFINE f == [i \in DOMAIN matches |-> matches[i].asset]
             g == [i \in DOMAIN matches |-> matches[i].cash]
  <2>1. IsFiniteSet(S)
    BY <1>2, FS_Subset
  <2>2. \A i \in S : f[i] \in Nat /\ g[i] \in Nat
    BY <1>1 DEF MatchType
  <2>3. Assets(S) = SumFunctionOnSet(f, S) /\ Cash(S) = SumFunctionOnSet(g, S)
    BY DEF Assets, Cash
  <2> HIDE DEF f, g
  <2> QED
    BY <2>1, <2>2, <2>3, SumSplit, FS_CardinalityType
<1>4. \A o : FillsOf(o) \in SUBSET (DOMAIN matches)
  BY DEF FillsOf
<1> QED
  BY <1>1, <1>2, <1>3, <1>4

(* One match more.                                                         *)
LEMMA OneMore ==
  ASSUME matches \in Seq(MatchType), NEW m \in MatchType, matches' = Append(matches, m)
  PROVE  /\ matches' \in Seq(MatchType) /\ Len(matches') = Len(matches) + 1
         /\ \A i \in 1..Len(matches) : matches'[i] = matches[i]
         /\ matches'[Len(matches) + 1] = m
         /\ \A o : o \in {m.buy, m.sell} =>
              /\ FillsOf(o)' # {}
              /\ AssetsOf(o)' = AssetsOf(o) + m.asset /\ CashOf(o)' = CashOf(o) + m.cash
              /\ Cardinality(FillsOf(o)') = Cardinality(FillsOf(o)) + 1
         /\ \A o : o \notin {m.buy, m.sell} =>
              /\ FillsOf(o)' = FillsOf(o)
              /\ AssetsOf(o)' = AssetsOf(o) /\ CashOf(o)' = CashOf(o)
         /\ Assets(DOMAIN matches)' = Assets(DOMAIN matches) + m.asset
<1> DEFINE n == Len(matches) + 1
           f == [i \in DOMAIN matches |-> matches[i].asset]
           g == [i \in DOMAIN matches |-> matches[i].cash]
           a == [i \in DOMAIN matches' |-> matches'[i].asset]
           c == [i \in DOMAIN matches' |-> matches'[i].cash]
<1>1. /\ Len(matches) \in Nat /\ DOMAIN matches = 1..Len(matches)
      /\ \A i \in 1..Len(matches) : matches[i] \in MatchType
      /\ matches' \in Seq(MatchType) /\ Len(matches') = n
      /\ DOMAIN matches' = 1..n /\ n \in 1..n
      /\ \A i \in 1..Len(matches) : matches'[i] = matches[i]
      /\ matches'[n] = m
  OBVIOUS
<1>2. n \notin DOMAIN matches /\ DOMAIN matches' = DOMAIN matches \cup {n}
  BY <1>1
<1>3. /\ \A i \in DOMAIN matches : f[i] \in Nat /\ g[i] \in Nat /\ a[i] = f[i] /\ c[i] = g[i]
      /\ a[n] = m.asset /\ c[n] = m.cash /\ a[n] \in Nat /\ c[n] \in Nat
  BY <1>1, <1>2 DEF MatchType
<1>4. /\ \A S : Assets(S) = SumFunctionOnSet(f, S) /\ Cash(S) = SumFunctionOnSet(g, S)
      /\ \A S : Assets(S)' = SumFunctionOnSet(a, S) /\ Cash(S)' = SumFunctionOnSet(c, S)
  BY DEF Assets, Cash
<1> HIDE DEF f, g, a, c, n
<1>5. ASSUME NEW S \in SUBSET (DOMAIN matches)
      PROVE  /\ SumFunctionOnSet(a, S) = SumFunctionOnSet(f, S)
             /\ SumFunctionOnSet(c, S) = SumFunctionOnSet(g, S)
             /\ SumFunctionOnSet(a, S \cup {n}) = SumFunctionOnSet(f, S) + m.asset
             /\ SumFunctionOnSet(c, S \cup {n}) = SumFunctionOnSet(g, S) + m.cash
             /\ Cardinality(S \cup {n}) = Cardinality(S) + 1
  <2>1. IsFiniteSet(S) /\ n \notin S
    BY <1>2, FillTypes
  <2>2. /\ SumFunctionOnSet(f, S) = SumFunctionOnSet(a, S)
        /\ SumFunctionOnSet(g, S) = SumFunctionOnSet(c, S)
    BY <1>3, <2>1, SumSame
  <2>3. \A x \in S \cup {n} : a[x] \in Nat /\ c[x] \in Nat
    BY <1>3
  <2>4. /\ SumFunctionOnSet(a, S \cup {n}) = a[n] + SumFunctionOnSet(a, S)
        /\ SumFunctionOnSet(c, S \cup {n}) = c[n] + SumFunctionOnSet(c, S)
    BY <2>1, <2>3, SumAdd
  <2>5. SumFunctionOnSet(a, S) \in Nat /\ SumFunctionOnSet(c, S) \in Nat
    BY <2>1, <2>3, SumSplit
  <2>6. Cardinality(S \cup {n}) = Cardinality(S) + 1
    BY <2>1, FS_AddElement
  <2> QED
    BY <1>3, <2>2, <2>4, <2>5, <2>6
<1>6. ASSUME NEW o
      PROVE  /\ o \in {m.buy, m.sell} => FillsOf(o)' = FillsOf(o) \cup {n}
             /\ o \notin {m.buy, m.sell} => FillsOf(o)' = FillsOf(o)
             /\ FillsOf(o) \in SUBSET (DOMAIN matches)
  BY <1>1, <1>2 DEF FillsOf
<1>7. ASSUME NEW o
      PROVE  /\ AssetsOf(o) = SumFunctionOnSet(f, FillsOf(o))
             /\ CashOf(o) = SumFunctionOnSet(g, FillsOf(o))
             /\ AssetsOf(o)' = SumFunctionOnSet(a, FillsOf(o)')
             /\ CashOf(o)' = SumFunctionOnSet(c, FillsOf(o)')
  BY DEF AssetsOf, CashOf, Assets, Cash, f, g, a, c
<1>8. Assets(DOMAIN matches)' = SumFunctionOnSet(a, DOMAIN matches')
  BY DEF Assets, a
<1>9. Assets(DOMAIN matches)' = Assets(DOMAIN matches) + m.asset
  BY <1>2, <1>4, <1>5, <1>8
<1>10. ASSUME NEW o, o \in {m.buy, m.sell}
       PROVE  /\ FillsOf(o)' # {}
              /\ AssetsOf(o)' = AssetsOf(o) + m.asset /\ CashOf(o)' = CashOf(o) + m.cash
              /\ Cardinality(FillsOf(o)') = Cardinality(FillsOf(o)) + 1
  <2>1. PICK S \in SUBSET (DOMAIN matches) : S = FillsOf(o)
    BY <1>6
  <2>2. FillsOf(o)' = S \cup {n}
    BY <1>6, <1>10, <2>1
  <2>3. /\ AssetsOf(o) = SumFunctionOnSet(f, S) /\ CashOf(o) = SumFunctionOnSet(g, S)
        /\ AssetsOf(o)' = SumFunctionOnSet(a, S \cup {n})
        /\ CashOf(o)' = SumFunctionOnSet(c, S \cup {n})
    BY <1>7, <2>1, <2>2
  <2>4. S \cup {n} # {}
    OBVIOUS
  <2> QED
    BY <1>5, <2>1, <2>2, <2>3, <2>4
<1>11. ASSUME NEW o, o \notin {m.buy, m.sell}
       PROVE  /\ FillsOf(o)' = FillsOf(o)
              /\ AssetsOf(o)' = AssetsOf(o) /\ CashOf(o)' = CashOf(o)
  <2>1. PICK S \in SUBSET (DOMAIN matches) : S = FillsOf(o)
    BY <1>6
  <2>2. FillsOf(o)' = S
    BY <1>6, <1>11, <2>1
  <2>3. /\ AssetsOf(o) = SumFunctionOnSet(f, S) /\ CashOf(o) = SumFunctionOnSet(g, S)
        /\ AssetsOf(o)' = SumFunctionOnSet(a, S) /\ CashOf(o)' = SumFunctionOnSet(c, S)
    BY <1>7, <2>1, <2>2
  <2> QED
    BY <1>5, <2>1, <2>2, <2>3
<1> QED
  BY <1>1, <1>9, <1>10, <1>11 DEF n

(* Without fills there is nothing traded.                                  *)
LEMMA NoFills ==
  ASSUME NEW o, FillsOf(o) = {}
  PROVE  AssetsOf(o) = 0 /\ CashOf(o) = 0
BY SumEmpty DEF AssetsOf, CashOf, Assets, Cash

(* An order of the prefix that was not reached has no fills.               *)
LEMMA Unreached ==
  ASSUME Sides, crossed > 0, Pair, Matched
  PROVE  /\ \A p \in 1..crossed : p > bi => FillsOf(buys[p]) = {}
         /\ \A q \in 1..crossed : q > si => FillsOf(sells[q]) = {}
         /\ \A o \in Buyer : FillsOf(o) # {} => \E p \in 1..crossed : p <= bi /\ o = buys[p]
         /\ \A o \in Seller : FillsOf(o) # {} => \E q \in 1..crossed : q <= si /\ o = sells[q]
<1>1. /\ DOMAIN matches = 1..Len(matches)
      /\ \A i \in 1..Len(matches) : matches[i].buy \in Buyer /\ matches[i].sell \in Seller
  BY FillTypes DEF Matched, MatchType
<1>2. ASSUME NEW o \in Buyer, FillsOf(o) # {}
      PROVE  \E p \in 1..crossed : p <= bi /\ o = buys[p]
  <2>1. PICK i \in 1..Len(matches) : o = matches[i].buy
    BY <1>1, <1>2, SidesAssumption DEF FillsOf
  <2> QED
    BY <2>1 DEF Matched
<1>3. ASSUME NEW o \in Seller, FillsOf(o) # {}
      PROVE  \E q \in 1..crossed : q <= si /\ o = sells[q]
  <2>1. PICK i \in 1..Len(matches) : o = matches[i].sell
    BY <1>1, <1>3, SidesAssumption DEF FillsOf
  <2> QED
    BY <2>1 DEF Matched
<1>4. \A p \in 1..crossed : p > bi => FillsOf(buys[p]) = {}
  <2> SUFFICES ASSUME NEW p \in 1..crossed, FillsOf(buys[p]) # {}
               PROVE  ~(p > bi)
    OBVIOUS
  <2>0. bi \in Nat
    BY Prefix DEF Pair
  <2>1. PICK r \in 1..crossed : r <= bi /\ buys[p] = buys[r]
    BY <1>2, Prefix
  <2> QED
    BY <2>0, <2>1, Prefix
<1>5. \A q \in 1..crossed : q > si => FillsOf(sells[q]) = {}
  <2> SUFFICES ASSUME NEW q \in 1..crossed, FillsOf(sells[q]) # {}
               PROVE  ~(q > si)
    OBVIOUS
  <2>0. si \in Nat
    BY Prefix DEF Pair
  <2>1. PICK r \in 1..crossed : r <= si /\ sells[q] = sells[r]
    BY <1>3, Prefix
  <2> QED
    BY <2>0, <2>1, Prefix
<1> QED
  BY <1>2, <1>3, <1>4, <1>5

(* One order more of a side.                                               *)
LEMMA TotalStep ==
  ASSUME NEW amount, NEW side, NEW n \in Nat, 1..n + 1 \subseteq DOMAIN side,
         \A k \in 1..n + 1 : amount[side[k]] \in Nat
  PROVE  /\ Total(amount, side, n) \in Nat
         /\ Total(amount, side, n + 1) = amount[side[n + 1]] + Total(amount, side, n)
<1> DEFINE f == [k \in DOMAIN side |-> amount[side[k]]]
<1>1. 1..n + 1 = (1..n) \cup {n + 1} /\ n + 1 \notin 1..n
  OBVIOUS
<1>2. \A k \in (1..n) \cup {n + 1} : f[k] \in Nat
  BY <1>1
<1>3. f[n + 1] = amount[side[n + 1]]
  BY <1>1
<1>4. /\ Total(amount, side, n) = SumFunctionOnSet(f, 1..n)
      /\ Total(amount, side, n + 1) = SumFunctionOnSet(f, 1..n + 1)
  BY DEF Total
<1>5. IsFiniteSet(1..n)
  BY FS_Interval
<1> HIDE DEF f
<1>6. SumFunctionOnSet(f, (1..n) \cup {n + 1}) = f[n + 1] + SumFunctionOnSet(f, 1..n)
  BY <1>1, <1>2, <1>5, SumAdd
<1>7. SumFunctionOnSet(f, 1..n) \in Nat
  BY <1>2, <1>5, SumSplit
<1> QED
  BY <1>1, <1>3, <1>4, <1>6, <1>7

LEMMA TotalEmpty == ASSUME NEW amount, NEW side PROVE Total(amount, side, 0) = 0
<1>1. 1..0 = {}
  OBVIOUS
<1> QED
  BY <1>1, SumEmpty DEF Total

LEMMA TotalGrows ==
  ASSUME NEW amount, NEW side, NEW m \in Nat, NEW n \in Nat, m <= n, 1..n \subseteq DOMAIN side,
         \A k \in 1..n : amount[side[k]] \in Nat
  PROVE  /\ Total(amount, side, m) \in Nat /\ Total(amount, side, n) \in Nat
         /\ Total(amount, side, m) <= Total(amount, side, n)
<1> DEFINE f == [k \in DOMAIN side |-> amount[side[k]]]
<1>1. \A k \in 1..n : f[k] \in Nat
  OBVIOUS
<1>2. 1..m \in SUBSET (1..n) /\ IsFiniteSet(1..n) /\ IsFiniteSet(1..m)
  BY FS_Interval
<1>3. /\ Total(amount, side, n) = SumFunctionOnSet(f, 1..n)
      /\ Total(amount, side, m) = SumFunctionOnSet(f, 1..m)
  BY DEF Total
<1> HIDE DEF f
<1> QED
  BY <1>1, <1>2, <1>3, SumSubset, SumSplit
---------------------------------------------------------------------------
(* The invariant holds before the ranking and up to the first fill.        *)

LEMMA InvInit == Init => IInv
<1> SUFFICES ASSUME Init
             PROVE  IInv
  OBVIOUS
<1>1. Sides
  BY DEF Init, Sides, Amounts
<1>2. ~Trading /\ Untouched
  BY DEF Init, Trading, Untouched
<1> QED
  BY <1>1, <1>2 DEF IInv

LEMMA InvRank == IInv /\ Rank => IInv'
<1> SUFFICES ASSUME IInv, Rank
             PROVE  IInv'
  OBVIOUS
<1>1. Sides /\ Untouched /\ crossed = 0
  BY DEF IInv, Trading, Sides, Rank
<1>2. ~Trading' /\ Untouched'
  BY <1>1 DEF Rank, Trading, Untouched, filling
<1>3. Amounts' /\ RankedBuys' = RankedBuys /\ RankedSells' = RankedSells
  BY <1>1 DEF Sides, Amounts, Rank, orders, RankedBuys, RankedSells, Live, Price
<1>4. Sides'
  BY <1>1, <1>3 DEF Sides, Rank
<1> QED
  BY <1>2, <1>4 DEF IInv

(* The orders and the ranking do not change after Rank.                    *)
LEMMA StillRanked ==
  ASSUME UNCHANGED <<orders, ranking>>
  PROVE  /\ Amounts' = Amounts /\ RankedBuys' = RankedBuys /\ RankedSells' = RankedSells
         /\ \A n : Crosses(n)' = Crosses(n)
BY DEF Amounts, orders, ranking, RankedBuys, RankedSells, Live, Price, Crosses

LEMMA InvCross == IInv /\ Cross => IInv'
<1> SUFFICES ASSUME IInv, Cross
             PROVE  IInv'
  OBVIOUS
<1>1. Sides /\ Untouched
  BY DEF IInv, Trading, Cross
<1>2. ~Trading' /\ Untouched'
  BY <1>1 DEF Cross, Trading, Untouched, filling
<1>3. /\ Amounts' = Amounts /\ RankedBuys' = RankedBuys /\ RankedSells' = RankedSells
      /\ \A n : Crosses(n)' = Crosses(n)
  BY StillRanked DEF Cross
<1>4. \A n \in 1..crossed' : n \in 1..crossed \/ n = crossed + 1
  BY <1>1 DEF Cross, Sides
<1>5. \A n \in 1..crossed' : Crosses(n)'
  BY <1>1, <1>3, <1>4 DEF Cross, Sides
<1>6. Sides'
  BY <1>1, <1>3, <1>5 DEF Cross, Sides, ranking
<1> QED
  BY <1>2, <1>6 DEF IInv

LEMMA InvClear == IInv /\ Clear => IInv'
<1> SUFFICES ASSUME IInv, Clear
             PROVE  IInv'
  OBVIOUS
<1>1. Sides /\ Untouched
  BY DEF IInv, Trading, Clear
<1>2. crossed > 0 /\ crossed \in Nat
  BY <1>1 DEF Clear, Sides
<1>3. /\ Amounts' = Amounts /\ RankedBuys' = RankedBuys /\ RankedSells' = RankedSells
      /\ \A n : Crosses(n)' = Crosses(n)
  BY StillRanked DEF Clear
<1>4. Sides' /\ Trading'
  BY <1>1, <1>2, <1>3 DEF Clear, Sides, Trading, ranking
<1>5. PICK b \in Buyer, s \in Seller : b = buys[1] /\ s = sells[1]
  BY <1>1, <1>2, Prefix
<1>6. /\ deposit[b] \in Nat \ {0} /\ request[b] \in Nat \ {0} /\ deposit[s] \in Nat \ {0}
      /\ 1 \in 1..crossed
  BY <1>1, <1>2, <1>5, Prefix
<1>7. /\ bi' = 1 /\ si' = 1 /\ matches' = <<>> /\ clearing' = Midpoint
      /\ buyRemAsset' = request[b] /\ buyRemCash' = deposit[b] /\ sellRemAsset' = deposit[s]
      /\ UNCHANGED <<deposit, request, buys, sells, crossed>>
  BY <1>1, <1>5 DEF Clear, Untouched, orders, ranking
<1>8. Midpoint' = Midpoint
  BY <1>7 DEF Midpoint, Price
<1>9. request[b] * clearing' * CashUnit <= deposit[b] * PriceScale * AssetUnit
  <2>1. clearing' \in Nat
    BY <1>1, <1>2, <1>7, FairPrice
  <2>2. clearing' <= (deposit[b] * AssetUnit * PriceScale) \div (request[b] * CashUnit)
    BY <1>1, <1>2, <1>5, <1>6, <1>7, FairPrice DEF Price
  <2>3. PriceScale \in Nat \ {0} /\ CashUnit \in Nat \ {0} /\ AssetUnit \in Nat \ {0}
    BY UnitsAssumption
  <2> QED
    BY <1>6, <2>1, <2>2, <2>3, LimitOfBuy
<1>10. Pair'
  BY <1>2, <1>6, <1>7, <1>8, <1>9 DEF Pair
<1>11. DOMAIN matches' = {} /\ Len(matches') = 0 /\ matches' \in Seq(MatchType)
  BY <1>7
<1>12. Matched'
  BY <1>7, <1>11 DEF Matched
<1>13. \A o : FillsOf(o)' = {}
  BY <1>11 DEF FillsOf
<1>14. \A o : AssetsOf(o)' = 0 /\ CashOf(o)' = 0
  <2>1. \A f : SumFunctionOnSet(f, {}) = 0
    BY SumEmpty
  <2> QED
    BY <1>13, <2>1 DEF AssetsOf, CashOf, Assets, Cash
<1>15. Assets(DOMAIN matches)' = 0
  BY <1>11, SumEmpty DEF Assets
<1>16. BuyBooks'
  <2> SUFFICES ASSUME NEW p \in 1..crossed', NEW o \in Buyer, o = buys'[p]
               PROVE  /\ ~(p < bi')
                      /\ p = bi' => /\ AssetsOf(o)' + buyRemAsset' = request'[o]
                                    /\ CashOf(o)' + buyRemCash' = deposit'[o]
    BY DEF BuyBooks
  <2> QED
    BY <1>5, <1>6, <1>7, <1>14
<1>17. SellBooks'
  <2> SUFFICES ASSUME NEW q \in 1..crossed', NEW o \in Seller, o = sells'[q]
               PROVE  ~(q < si') /\ (q = si' => AssetsOf(o)' + sellRemAsset' = deposit'[o])
    BY DEF SellBooks
  <2> QED
    BY <1>5, <1>6, <1>7, <1>14
<1>18. Total(request, buys, 1) = request[b] /\ Total(deposit, sells, 1) = deposit[s]
  <2>1. /\ 1..0 + 1 \subseteq DOMAIN buys /\ 1..0 + 1 \subseteq DOMAIN sells
        /\ \A k \in 1..0 + 1 : k = 1
    BY <1>1, <1>2, <1>6, Prefix
  <2>2. /\ Total(request, buys, 0 + 1) = request[buys[0 + 1]] + Total(request, buys, 0)
        /\ Total(deposit, sells, 0 + 1) = deposit[sells[0 + 1]] + Total(deposit, sells, 0)
    BY <1>5, <1>6, <2>1, TotalStep
  <2>3. Total(request, buys, 0) = 0 /\ Total(deposit, sells, 0) = 0
    BY TotalEmpty
  <2> QED
    BY <1>5, <1>6, <2>2, <2>3
<1>19. BuyTotal' /\ SellTotal'
  BY <1>2, <1>6, <1>7, <1>15, <1>18 DEF BuyTotal, SellTotal
<1>20. Proceeds'
  BY <1>13 DEF Proceeds
<1> QED
  BY <1>4, <1>10, <1>12, <1>16, <1>17, <1>19, <1>20 DEF IInv, Books

LEMMA InvFinish == IInv /\ Finish => IInv'
<1> SUFFICES ASSUME IInv, Finish
             PROVE  IInv'
  OBVIOUS
<1>1. Sides /\ Trading /\ Trading' /\ Pair /\ Matched /\ Books
  BY DEF IInv, Trading, Finish, Sides
<1>2. /\ UNCHANGED <<deposit, request, buys, sells, crossed, clearing, bi, si,
                     buyRemAsset, buyRemCash, sellRemAsset, matches>>
      /\ pc = "fill" /\ pc' = "done" /\ ~(bi <= crossed /\ si <= crossed)
  BY DEF Finish, orders, ranking, filling
<1>3. Sides'
  <2>1. /\ Amounts' = Amounts /\ RankedBuys' = RankedBuys /\ RankedSells' = RankedSells
        /\ \A n : Crosses(n)' = Crosses(n)
    BY <1>2, StillRanked DEF orders, ranking
  <2>2. bi > crossed \/ si > crossed
    BY <1>1, <1>2, Prefix DEF Pair, Trading
  <2> QED
    BY <1>1, <1>2, <2>1, <2>2 DEF Sides
<1>4. Pair' /\ Matched'
  BY <1>1, <1>2 DEF Pair, Matched, Midpoint, Price, Quote
<1>5. Books'
  BY <1>1, <1>2 DEF Books, BuyBooks, SellBooks, BuyTotal, SellTotal, Proceeds, AssetsOf, CashOf,
                    Assets, Cash, FillsOf
<1> QED
  BY <1>1, <1>3, <1>4, <1>5 DEF IInv

LEMMA InvStutter == IInv /\ UNCHANGED vars => IInv'
<1> SUFFICES ASSUME IInv, UNCHANGED vars
             PROVE  IInv'
  OBVIOUS
<1>1. UNCHANGED <<deposit, request, buys, sells, crossed, clearing, bi, si,
                  buyRemAsset, buyRemCash, sellRemAsset, matches, pc>>
  BY DEF vars, orders, ranking, filling
<1>2. Sides' = Sides /\ Trading' = Trading /\ Untouched' = Untouched
  <2>1. /\ Amounts' = Amounts /\ RankedBuys' = RankedBuys /\ RankedSells' = RankedSells
        /\ \A n : Crosses(n)' = Crosses(n)
    BY <1>1, StillRanked DEF orders, ranking
  <2> QED
    BY <1>1, <2>1 DEF Sides, Trading, Untouched
<1>3. Pair' = Pair /\ Matched' = Matched
  BY <1>1 DEF Pair, Matched, Midpoint, Price, Quote
<1>4. Books' = Books
  BY <1>1 DEF Books, BuyBooks, SellBooks, BuyTotal, SellTotal, Proceeds, AssetsOf, CashOf,
              Assets, Cash, FillsOf
<1> QED
  BY <1>2, <1>3, <1>4 DEF IInv
---------------------------------------------------------------------------
(* One fill.                                                               *)

LEMMA AmountNat ==
  ASSUME Sides, crossed > 0, NEW n \in Nat \ {0}
  PROVE  /\ AmountAt(request, buys, n) \in Nat /\ AmountAt(deposit, buys, n) \in Nat
         /\ AmountAt(deposit, sells, n) \in Nat
         /\ n <= crossed => /\ AmountAt(request, buys, n) = request[buys[n]]
                            /\ AmountAt(deposit, buys, n) = deposit[buys[n]]
                            /\ AmountAt(deposit, sells, n) = deposit[sells[n]]
<1>1. Amounts /\ Len(buys) \in Nat /\ Len(sells) \in Nat /\ crossed \in Nat
  BY Prefix DEF Sides
<1>2. ASSUME n <= Len(buys)
      PROVE  request[buys[n]] \in Nat /\ deposit[buys[n]] \in Nat
  <2>1. buys[n] \in Buyer
    BY <1>1, <1>2, Prefix
  <2> QED
    BY <1>1, <2>1, AmountAssumption DEF Amounts, Order
<1>3. ASSUME n <= Len(sells)
      PROVE  deposit[sells[n]] \in Nat
  <2>1. sells[n] \in Seller
    BY <1>1, <1>3, Prefix
  <2> QED
    BY <1>1, <2>1, AmountAssumption DEF Amounts, Order
<1>4. n <= crossed => n <= Len(buys) /\ n <= Len(sells)
  BY <1>1, Prefix
<1> QED
  BY <1>2, <1>3, <1>4 DEF AmountAt

(* A fill takes the smaller remainder at its quote, which the buyer's cash *)
(* covers: the cap is not used.  The side whose assets are used up moves   *)
(* on, and only that one.                                                  *)
Trade(b, s, w, c) ==
  /\ bi \in 1..crossed /\ si \in 1..crossed /\ b = buys[bi] /\ s = sells[si]
  /\ w > 0 /\ w <= buyRemAsset /\ w <= sellRemAsset /\ (w = buyRemAsset \/ w = sellRemAsset)
  /\ c = Quote(w) /\ c <= buyRemCash
  /\ matches' = Append(matches, [buy |-> b, sell |-> s, asset |-> w, cash |-> c])
  /\ IF w = buyRemAsset
     THEN /\ bi' = bi + 1
          /\ buyRemAsset' = AmountAt(request, buys, bi + 1)
          /\ buyRemCash' = AmountAt(deposit, buys, bi + 1)
     ELSE /\ bi' = bi /\ buyRemAsset' = buyRemAsset - w /\ buyRemCash' = buyRemCash - c
          /\ buyRemCash' > 0
          /\ buyRemAsset' * clearing * CashUnit <= buyRemCash' * PriceScale * AssetUnit
  /\ IF w = sellRemAsset THEN si' = si + 1 /\ sellRemAsset' = AmountAt(deposit, sells, si + 1)
                         ELSE si' = si /\ sellRemAsset' = sellRemAsset - w

Smaller == IF buyRemAsset < sellRemAsset THEN buyRemAsset ELSE sellRemAsset

LEMMA Uncapped ==
  ASSUME Sides, crossed > 0, Pair, bi <= crossed, si <= crossed
  PROVE  Traded = [asset |-> Smaller, cash |-> Quote(Smaller)]
<1>1. /\ buyRemAsset \in Nat /\ buyRemCash \in Nat \ {0} /\ sellRemAsset \in Nat
      /\ buyRemAsset * clearing * CashUnit <= buyRemCash * PriceScale * AssetUnit
      /\ clearing \in Nat
  BY FairPrice DEF Pair
<1>2. Smaller \in Nat /\ Smaller <= buyRemAsset
  BY <1>1 DEF Smaller
<1>3. Quote(Smaller) <= buyRemCash
  BY <1>1, <1>2, CashLasts
<1> QED
  BY <1>3 DEF Traded, Smaller

LEMMA FillTrades ==
  ASSUME Sides, crossed > 0, Pair, Fill
  PROVE  /\ UNCHANGED <<deposit, request, buys, sells, crossed, clearing>> /\ pc = "fill" /\ pc' = "fill"
         /\ \E b \in Buyer, s \in Seller, w \in Nat, c \in Nat : Trade(b, s, w, c)
<1>1. /\ buyRemAsset \in Nat \ {0} /\ buyRemCash \in Nat \ {0} /\ sellRemAsset \in Nat \ {0}
      /\ buyRemAsset * clearing * CashUnit <= buyRemCash * PriceScale * AssetUnit
      /\ clearing \in Nat /\ bi \in 1..crossed /\ si \in 1..crossed
  BY FairPrice, Prefix, SMTT(30) DEF Pair, Fill
<1>2. PICK b \in Buyer, s \in Seller : b = buys[bi] /\ s = sells[si]
  BY <1>1, Prefix
<1>3. PICK w \in Nat \ {0} : w = Smaller
  BY <1>1 DEF Smaller
<1>4. w <= buyRemAsset /\ w <= sellRemAsset /\ (w = buyRemAsset \/ w = sellRemAsset)
  BY <1>1, <1>3 DEF Smaller
<1>5. /\ Quote(w) <= buyRemCash
      /\ (buyRemAsset - w) * clearing * CashUnit <= (buyRemCash - Quote(w)) * PriceScale * AssetUnit
      /\ w < buyRemAsset => Quote(w) < buyRemCash
  BY <1>1, <1>4, CashLasts
<1>6. PICK c \in Nat : c = Quote(w)
  BY <1>1, QuoteBounds
<1>7. Traded = [asset |-> w, cash |-> c]
  BY <1>1, <1>3, <1>6, Uncapped
<1>8. /\ matches' = Append(matches, [buy |-> b, sell |-> s, asset |-> w, cash |-> c])
      /\ NextBuy(buyRemAsset - w, buyRemCash - c)
      /\ NextSell(sellRemAsset - w)
      /\ UNCHANGED <<deposit, request, buys, sells, crossed, clearing, pc>> /\ pc = "fill"
  BY <1>2, <1>7 DEF Fill, orders, ranking
<1>9. CASE w = buyRemAsset
  <2>1. /\ bi' = bi + 1
        /\ buyRemAsset' = AmountAt(request, buys, bi + 1)
        /\ buyRemCash' = AmountAt(deposit, buys, bi + 1)
    BY <1>1, <1>8, <1>9 DEF NextBuy
  <2>2. IF w = sellRemAsset THEN si' = si + 1 /\ sellRemAsset' = AmountAt(deposit, sells, si + 1)
                            ELSE si' = si /\ sellRemAsset' = sellRemAsset - w
    BY <1>1, <1>4, <1>8 DEF NextSell
  <2>3. Trade(b, s, w, c)
    BY <1>1, <1>2, <1>3, <1>4, <1>5, <1>6, <1>8, <1>9, <2>1, <2>2 DEF Trade
  <2> QED
    BY <1>3, <1>8, <2>3
<1>10. CASE w # buyRemAsset
  <2>1. buyRemAsset - w # 0 /\ buyRemCash - c # 0 /\ buyRemCash - c > 0
    BY <1>1, <1>4, <1>5, <1>6, <1>10
  <2>2. bi' = bi /\ buyRemAsset' = buyRemAsset - w /\ buyRemCash' = buyRemCash - c
    BY <1>8, <2>1 DEF NextBuy
  <2>3. IF w = sellRemAsset THEN si' = si + 1 /\ sellRemAsset' = AmountAt(deposit, sells, si + 1)
                            ELSE si' = si /\ sellRemAsset' = sellRemAsset - w
    BY <1>1, <1>4, <1>8 DEF NextSell
  <2>4. buyRemCash' > 0 /\ buyRemAsset' * clearing * CashUnit <= buyRemCash' * PriceScale * AssetUnit
    BY <1>5, <1>6, <2>1, <2>2
  <2>5. Trade(b, s, w, c)
    BY <1>2, <1>1, <1>3, <1>4, <1>5, <1>6, <1>8, <1>10, <2>2, <2>3, <2>4 DEF Trade
  <2> QED
    BY <1>3, <1>8, <2>5
<1> QED
  BY <1>8, <1>9, <1>10

Unmoved == UNCHANGED <<deposit, request, buys, sells, crossed, clearing>>

LEMMA FillPair ==
  ASSUME Sides, crossed > 0, Pair, Unmoved,
         NEW b \in Buyer, NEW s \in Seller, NEW w \in Nat, NEW c \in Nat, Trade(b, s, w, c)
  PROVE  Pair'
<1>1. /\ buyRemAsset \in Nat /\ buyRemCash \in Nat /\ sellRemAsset \in Nat
      /\ bi \in 1..crossed /\ si \in 1..crossed /\ crossed \in Nat /\ clearing = Midpoint
      /\ bi + 1 \in Nat \ {0} /\ si + 1 \in Nat \ {0}
      /\ w > 0 /\ w <= buyRemAsset /\ w <= sellRemAsset /\ c <= buyRemCash
      /\ UNCHANGED <<deposit, request, buys, sells, crossed, clearing>>
  BY Prefix DEF Pair, Trade, Unmoved
<1>2. clearing' = Midpoint'
  BY <1>1 DEF Midpoint, Price
<1>3. /\ bi' \in 1..crossed + 1 /\ buyRemAsset' \in Nat /\ buyRemCash' \in Nat
      /\ bi' <= crossed => /\ buyRemAsset' > 0 /\ buyRemCash' > 0
                           /\ buyRemAsset' * clearing * CashUnit
                                <= buyRemCash' * PriceScale * AssetUnit
  <2>1. CASE w = buyRemAsset
    <3>1. /\ bi' = bi + 1
          /\ buyRemAsset' = AmountAt(request, buys, bi + 1)
          /\ buyRemCash' = AmountAt(deposit, buys, bi + 1)
      BY <2>1 DEF Trade
    <3>2. bi' \in 1..crossed + 1 /\ buyRemAsset' \in Nat /\ buyRemCash' \in Nat
      BY <1>1, <3>1, AmountNat
    <3>3. ASSUME bi + 1 <= crossed
          PROVE  /\ buyRemAsset' > 0 /\ buyRemCash' > 0
                 /\ buyRemAsset' * clearing * CashUnit <= buyRemCash' * PriceScale * AssetUnit
      <4>1. bi + 1 \in 1..crossed
        BY <1>1, <3>3
      <4>2. buyRemAsset' = request[buys[bi + 1]] /\ buyRemCash' = deposit[buys[bi + 1]]
        BY <1>1, <3>1, <3>3, AmountNat
      <4>3. buyRemAsset' \in Nat \ {0} /\ buyRemCash' \in Nat \ {0}
        BY <4>1, <4>2, Prefix
      <4>4. buyRemAsset' * clearing * CashUnit <= buyRemCash' * PriceScale * AssetUnit
        BY <1>1, <4>1, <4>2, FreshPair
      <4> QED
        BY <4>3, <4>4
    <3> QED
      BY <3>1, <3>2, <3>3
  <2>2. CASE w # buyRemAsset
    <3>1. /\ bi' = bi /\ buyRemAsset' = buyRemAsset - w /\ buyRemCash' = buyRemCash - c
          /\ buyRemCash' > 0
          /\ buyRemAsset' * clearing * CashUnit <= buyRemCash' * PriceScale * AssetUnit
      BY <2>2 DEF Trade
    <3> QED
      BY <1>1, <2>2, <3>1
  <2> QED
    BY <2>1, <2>2
<1>4. /\ si' \in 1..crossed + 1 /\ sellRemAsset' \in Nat
      /\ si' <= crossed => sellRemAsset' > 0
  <2>1. CASE w = sellRemAsset
    <3>1. si' = si + 1 /\ sellRemAsset' = AmountAt(deposit, sells, si + 1)
      BY <2>1 DEF Trade
    <3>2. ASSUME si + 1 <= crossed
          PROVE  sellRemAsset' > 0
      <4>1. si + 1 \in 1..crossed
        BY <1>1, <3>2
      <4>2. sellRemAsset' = deposit[sells[si + 1]]
        BY <1>1, <3>1, <3>2, AmountNat
      <4>3. deposit[sells[si + 1]] \in Nat \ {0}
        BY <4>1, Prefix
      <4> QED
        BY <4>2, <4>3
    <3> QED
      BY <1>1, <3>1, <3>2, AmountNat
  <2>2. CASE w # sellRemAsset
    <3>1. si' = si /\ sellRemAsset' = sellRemAsset - w
      BY <2>2 DEF Trade
    <3> QED
      BY <1>1, <2>2, <3>1
  <2> QED
    BY <2>1, <2>2
<1> QED
  BY <1>1, <1>2, <1>3, <1>4 DEF Pair

LEMMA FillMatched ==
  ASSUME Sides, crossed > 0, Pair, Matched, Unmoved,
         NEW b \in Buyer, NEW s \in Seller, NEW w \in Nat, NEW c \in Nat, Trade(b, s, w, c)
  PROVE  Matched'
<1> DEFINE m == [buy |-> b, sell |-> s, asset |-> w, cash |-> c]
<1>1. m \in MatchType /\ m.buy = b /\ m.sell = s /\ m.asset = w /\ m.cash = c
  BY DEF MatchType
<1>2. matches \in Seq(MatchType) /\ matches' = Append(matches, m)
  BY DEF Matched, Trade
<1> HIDE DEF m
<1>3. /\ matches' \in Seq(MatchType) /\ Len(matches') = Len(matches) + 1 /\ Len(matches) \in Nat
      /\ \A i \in 1..Len(matches) : matches'[i] = matches[i]
      /\ matches'[Len(matches) + 1] = m
  BY <1>1, <1>2, OneMore, FillTypes
<1>4. /\ bi \in 1..crossed /\ si \in 1..crossed /\ crossed \in Nat
      /\ bi' \in {bi, bi + 1} /\ si' \in {si, si + 1} /\ (bi' = bi + 1 \/ si' = si + 1)
      /\ Len(matches) <= (bi - 1) + (si - 1)
      /\ UNCHANGED <<buys, sells, crossed, clearing>>
      /\ w > 0 /\ c = Quote(w) /\ b = buys[bi] /\ s = sells[si]
  BY Prefix DEF Trade, Unmoved, Matched
<1>5. Len(matches') <= (bi' - 1) + (si' - 1) /\ Len(matches') < 2 * crossed
  BY <1>3, <1>4, SMTT(30)
<1>6. \A a : Quote(a)' = Quote(a)
  BY <1>4 DEF Quote
<1>7. ASSUME NEW i \in 1..Len(matches')
      PROVE  /\ \E p \in 1..crossed : p <= bi' /\ matches'[i].buy = buys[p]
             /\ \E q \in 1..crossed : q <= si' /\ matches'[i].sell = sells[q]
             /\ matches'[i].asset > 0
             /\ matches'[i].cash = Quote(matches'[i].asset)
  <2>1. CASE i \in 1..Len(matches)
    <3>1. matches'[i] = matches[i]
      BY <1>3, <2>1
    <3>2. PICK p \in 1..crossed, q \in 1..crossed :
            /\ p <= bi /\ matches[i].buy = buys[p] /\ q <= si /\ matches[i].sell = sells[q]
      BY <2>1 DEF Matched
    <3>3. p <= bi' /\ q <= si'
      <4>1. bi \in Nat /\ si \in Nat /\ bi' \in {bi, bi + 1} /\ si' \in {si, si + 1}
        BY <1>4
      <4>2. p \in Nat /\ q \in Nat /\ p <= bi /\ q <= si
        BY <3>2
      <4> QED
        BY <4>1, <4>2
    <3>4. matches[i].asset > 0 /\ matches[i].cash = Quote(matches[i].asset)
      BY <2>1 DEF Matched
    <3> QED
      BY <3>1, <3>2, <3>3, <3>4
  <2>2. CASE i = Len(matches) + 1
    <3>1. matches'[i] = m
      BY <1>3, <2>2
    <3>2. bi <= bi' /\ si <= si'
      BY <1>4
    <3>3. /\ bi \in 1..crossed /\ matches'[i].buy = buys[bi]
          /\ si \in 1..crossed /\ matches'[i].sell = sells[si]
      BY <1>1, <1>4, <3>1
    <3>4. matches'[i].asset > 0 /\ matches'[i].cash = Quote(matches'[i].asset)
      BY <1>1, <1>4, <3>1
    <3> QED
      BY <3>2, <3>3, <3>4
  <2> QED
    BY <1>3, <2>1, <2>2
<1> QED
  BY <1>3, <1>4, <1>5, <1>6, <1>7 DEF Matched
(* What a fill changes of the sums.                                        *)
LEMMA FillSums ==
  ASSUME Sides, crossed > 0, Pair, Matched, Unmoved,
         NEW b \in Buyer, NEW s \in Seller, NEW w \in Nat, NEW c \in Nat, Trade(b, s, w, c)
  PROVE  /\ \A o : AssetsOf(o) \in Nat /\ CashOf(o) \in Nat /\ Cardinality(FillsOf(o)) \in Nat
         /\ Assets(DOMAIN matches) \in Nat
         /\ \A o : o \in {b, s} =>
              /\ AssetsOf(o)' = AssetsOf(o) + w /\ CashOf(o)' = CashOf(o) + c
              /\ Cardinality(FillsOf(o)') = Cardinality(FillsOf(o)) + 1
         /\ \A o : o \notin {b, s} =>
              /\ FillsOf(o)' = FillsOf(o)
              /\ AssetsOf(o)' = AssetsOf(o) /\ CashOf(o)' = CashOf(o)
         /\ Assets(DOMAIN matches)' = Assets(DOMAIN matches) + w
<1> DEFINE m == [buy |-> b, sell |-> s, asset |-> w, cash |-> c]
<1>1. m \in MatchType /\ m.buy = b /\ m.sell = s /\ m.asset = w /\ m.cash = c
  BY DEF MatchType
<1>2. matches \in Seq(MatchType) /\ matches' = Append(matches, m)
  BY DEF Matched, Trade
<1> HIDE DEF m
<1>3. /\ \A o : o \in {m.buy, m.sell} =>
           /\ AssetsOf(o)' = AssetsOf(o) + m.asset /\ CashOf(o)' = CashOf(o) + m.cash
           /\ Cardinality(FillsOf(o)') = Cardinality(FillsOf(o)) + 1
      /\ \A o : o \notin {m.buy, m.sell} =>
           /\ FillsOf(o)' = FillsOf(o)
           /\ AssetsOf(o)' = AssetsOf(o) /\ CashOf(o)' = CashOf(o)
      /\ Assets(DOMAIN matches)' = Assets(DOMAIN matches) + m.asset
  BY <1>1, <1>2, OneMore
<1>4. /\ \A o : AssetsOf(o) \in Nat /\ CashOf(o) \in Nat /\ Cardinality(FillsOf(o)) \in Nat
      /\ Assets(DOMAIN matches) \in Nat
  BY <1>2, FillTypes DEF AssetsOf, CashOf
<1> QED
  BY <1>1, <1>3, <1>4

LEMMA FillBuyBooks ==
  ASSUME Sides, crossed > 0, Pair, Matched, BuyBooks, Unmoved,
         NEW b \in Buyer, NEW s \in Seller, NEW w \in Nat, NEW c \in Nat, Trade(b, s, w, c)
  PROVE  BuyBooks'
<1>1. /\ bi \in 1..crossed /\ crossed \in Nat /\ b = buys[bi] /\ w <= buyRemAsset /\ c <= buyRemCash
      /\ buyRemAsset \in Nat /\ buyRemCash \in Nat
      /\ UNCHANGED <<deposit, request, buys, crossed>>
  BY Prefix DEF Trade, Unmoved, Pair
<1> SUFFICES ASSUME NEW p \in 1..crossed, NEW o \in Buyer, o = buys[p]
             PROVE  /\ p < bi' => AssetsOf(o)' = request[o] /\ CashOf(o)' <= deposit[o]
                    /\ p = bi' => /\ AssetsOf(o)' + buyRemAsset' = request[o]
                                  /\ CashOf(o)' + buyRemCash' = deposit[o]
  BY <1>1 DEF BuyBooks
<1>2. /\ AssetsOf(o) \in Nat /\ CashOf(o) \in Nat /\ o # s
      /\ request[o] \in Nat /\ deposit[o] \in Nat /\ p \in Nat /\ bi \in Nat
  <2>1. AssetsOf(o) \in Nat /\ CashOf(o) \in Nat
    BY FillSums
  <2>2. o # s
    BY SidesAssumption
  <2>3. request[o] \in Nat /\ deposit[o] \in Nat
    BY Prefix
  <2>4. p \in Nat /\ bi \in Nat
    BY <1>1
  <2> QED
    BY <2>1, <2>2, <2>3, <2>4
<1>3. /\ p < bi => AssetsOf(o) = request[o] /\ CashOf(o) <= deposit[o]
      /\ p = bi => AssetsOf(o) + buyRemAsset = request[o] /\ CashOf(o) + buyRemCash = deposit[o]
  BY DEF BuyBooks
<1>4. CASE p = bi
  <2>1. o = b
    BY <1>1, <1>4
  <2>2. AssetsOf(o)' = AssetsOf(o) + w /\ CashOf(o)' = CashOf(o) + c
    BY <2>1, FillSums
  <2>3. CASE w = buyRemAsset
    <3>1. bi' = bi + 1
      BY <2>3 DEF Trade
    <3> QED
      BY <1>1, <1>2, <1>3, <1>4, <2>2, <2>3, <3>1
  <2>4. CASE w # buyRemAsset
    <3>1. bi' = bi /\ buyRemAsset' = buyRemAsset - w /\ buyRemCash' = buyRemCash - c
      BY <2>4 DEF Trade
    <3> QED
      BY <1>1, <1>2, <1>3, <1>4, <2>2, <2>4, <3>1
  <2> QED
    BY <2>3, <2>4
<1>5. CASE p # bi
  <2>1. o # b
    BY <1>1, <1>5, Prefix
  <2>2. AssetsOf(o)' = AssetsOf(o) /\ CashOf(o)' = CashOf(o)
    BY <1>2, <2>1, FillSums
  <2>3. CASE w # buyRemAsset
    <3>1. bi' = bi
      BY <2>3 DEF Trade
    <3> QED
      BY <1>2, <1>3, <1>5, <2>2, <3>1
  <2>4. CASE w = buyRemAsset
    <3>1. /\ bi' = bi + 1
          /\ buyRemAsset' = AmountAt(request, buys, bi + 1)
          /\ buyRemCash' = AmountAt(deposit, buys, bi + 1)
      BY <2>4 DEF Trade
    <3>2. ASSUME p = bi + 1
          PROVE  /\ AssetsOf(o)' + buyRemAsset' = request[o]
                 /\ CashOf(o)' + buyRemCash' = deposit[o]
      <4>1. FillsOf(o) = {}
        BY <1>2, <3>2, Unreached
      <4>2. AssetsOf(o) = 0 /\ CashOf(o) = 0
        BY <4>1, NoFills
      <4>3. bi + 1 \in Nat \ {0} /\ bi + 1 <= crossed
        BY <1>1, <3>2
      <4>4. buyRemAsset' = request[o] /\ buyRemCash' = deposit[o]
        BY <3>1, <3>2, <4>3, AmountNat
      <4> QED
        BY <1>2, <2>2, <4>2, <4>4
    <3> QED
      BY <1>2, <1>3, <1>5, <2>2, <3>1, <3>2
  <2> QED
    BY <2>3, <2>4
<1> QED
  BY <1>4, <1>5

LEMMA FillSellBooks ==
  ASSUME Sides, crossed > 0, Pair, Matched, SellBooks, Unmoved,
         NEW b \in Buyer, NEW s \in Seller, NEW w \in Nat, NEW c \in Nat, Trade(b, s, w, c)
  PROVE  SellBooks'
<1>1. /\ si \in 1..crossed /\ crossed \in Nat /\ s = sells[si] /\ w <= sellRemAsset
      /\ sellRemAsset \in Nat
      /\ UNCHANGED <<deposit, sells, crossed>>
  BY Prefix DEF Trade, Unmoved, Pair
<1> SUFFICES ASSUME NEW q \in 1..crossed, NEW o \in Seller, o = sells[q]
             PROVE  /\ q < si' => AssetsOf(o)' = deposit[o]
                    /\ q = si' => AssetsOf(o)' + sellRemAsset' = deposit[o]
  BY <1>1 DEF SellBooks
<1>2. AssetsOf(o) \in Nat /\ o # b /\ deposit[o] \in Nat /\ q \in Nat /\ si \in Nat
  <2>1. AssetsOf(o) \in Nat
    BY FillSums
  <2>2. o # b
    BY SidesAssumption
  <2>3. deposit[o] \in Nat
    BY Prefix
  <2>4. q \in Nat /\ si \in Nat
    BY <1>1
  <2> QED
    BY <2>1, <2>2, <2>3, <2>4
<1>3. /\ q < si => AssetsOf(o) = deposit[o]
      /\ q = si => AssetsOf(o) + sellRemAsset = deposit[o]
  BY DEF SellBooks
<1>4. CASE q = si
  <2>1. o = s
    BY <1>1, <1>4
  <2>2. AssetsOf(o)' = AssetsOf(o) + w
    BY <2>1, FillSums
  <2>3. CASE w = sellRemAsset
    <3>1. si' = si + 1
      BY <2>3 DEF Trade
    <3> QED
      BY <1>1, <1>2, <1>3, <1>4, <2>2, <2>3, <3>1
  <2>4. CASE w # sellRemAsset
    <3>1. si' = si /\ sellRemAsset' = sellRemAsset - w
      BY <2>4 DEF Trade
    <3> QED
      BY <1>1, <1>2, <1>3, <1>4, <2>2, <2>4, <3>1
  <2> QED
    BY <2>3, <2>4
<1>5. CASE q # si
  <2>1. o # s
    BY <1>1, <1>5, Prefix
  <2>2. AssetsOf(o)' = AssetsOf(o)
    BY <1>2, <2>1, FillSums
  <2>3. CASE w # sellRemAsset
    <3>1. si' = si
      BY <2>3 DEF Trade
    <3> QED
      BY <1>2, <1>3, <1>5, <2>2, <3>1
  <2>4. CASE w = sellRemAsset
    <3>1. si' = si + 1 /\ sellRemAsset' = AmountAt(deposit, sells, si + 1)
      BY <2>4 DEF Trade
    <3>2. ASSUME q = si + 1
          PROVE  AssetsOf(o)' + sellRemAsset' = deposit[o]
      <4>1. FillsOf(o) = {}
        BY <1>2, <3>2, Unreached
      <4>2. AssetsOf(o) = 0
        BY <4>1, NoFills
      <4>3. si + 1 \in Nat \ {0} /\ si + 1 <= crossed
        BY <1>1, <3>2
      <4>4. sellRemAsset' = deposit[o]
        BY <3>1, <3>2, <4>3, AmountNat
      <4> QED
        BY <1>2, <2>2, <4>2, <4>4
    <3> QED
      BY <1>2, <1>3, <1>5, <2>2, <3>1, <3>2
  <2> QED
    BY <2>3, <2>4
<1> QED
  BY <1>4, <1>5

(* The totals of the prefix, one order more.                               *)
LEMMA PrefixTotals ==
  ASSUME Sides, crossed > 0, NEW n \in Nat, n + 1 <= crossed
  PROVE  /\ Total(request, buys, n) \in Nat /\ Total(deposit, sells, n) \in Nat
         /\ Total(request, buys, n + 1) = request[buys[n + 1]] + Total(request, buys, n)
         /\ Total(deposit, sells, n + 1) = deposit[sells[n + 1]] + Total(deposit, sells, n)
<1>1. crossed \in Nat
  BY Prefix
<1>2. \A k \in 1..n + 1 : k \in 1..crossed
  BY <1>1
<1>3. 1..n + 1 \subseteq DOMAIN buys /\ 1..n + 1 \subseteq DOMAIN sells
  BY <1>2, Prefix
<1>4. \A k \in 1..n + 1 : request[buys[k]] \in Nat /\ deposit[sells[k]] \in Nat
  BY <1>2, Prefix
<1> QED
  BY <1>3, <1>4, TotalStep

LEMMA FillTotals ==
  ASSUME Sides, crossed > 0, Pair, Matched, BuyTotal, SellTotal, Unmoved,
         NEW b \in Buyer, NEW s \in Seller, NEW w \in Nat, NEW c \in Nat, Trade(b, s, w, c)
  PROVE  BuyTotal' /\ SellTotal'
<1> DEFINE A == Assets(DOMAIN matches)
<1>1. /\ bi \in 1..crossed /\ si \in 1..crossed /\ crossed \in Nat
      /\ w <= buyRemAsset /\ w <= sellRemAsset
      /\ buyRemAsset \in Nat /\ sellRemAsset \in Nat
      /\ UNCHANGED <<deposit, request, buys, sells, crossed>>
  BY Prefix DEF Trade, Unmoved, Pair
<1>2. A \in Nat /\ A' = A + w
  BY FillSums
<1>3. A + buyRemAsset = Total(request, buys, bi) /\ A + sellRemAsset = Total(deposit, sells, si)
  BY <1>1 DEF BuyTotal, SellTotal
<1> HIDE DEF A
<1>4. BuyTotal'
  <2>1. CASE w # buyRemAsset
    <3>1. bi' = bi /\ buyRemAsset' = buyRemAsset - w
      BY <2>1 DEF Trade
    <3>2. A' + buyRemAsset' = Total(request, buys, bi)
      BY <1>1, <1>2, <1>3, <3>1
    <3> QED
      BY <1>1, <3>1, <3>2 DEF BuyTotal, A
  <2>2. CASE w = buyRemAsset /\ bi = crossed
    <3>1. bi' = crossed + 1
      BY <2>2 DEF Trade
    <3>2. A' = Total(request, buys, crossed)
      BY <1>2, <1>3, <2>2
    <3> QED
      BY <1>1, <3>1, <3>2 DEF BuyTotal, A
  <2>3. CASE w = buyRemAsset /\ bi # crossed
    <3>1. bi + 1 <= crossed /\ bi + 1 \in Nat \ {0} /\ bi \in Nat /\ bi + 1 \in 1..crossed
      BY <1>1, <2>3
    <3>2. bi' = bi + 1 /\ buyRemAsset' = request[buys[bi + 1]]
      BY <2>3, <3>1, AmountNat DEF Trade
    <3>3. request[buys[bi + 1]] \in Nat
      BY <3>1, Prefix
    <3>4. /\ Total(request, buys, bi) \in Nat
          /\ Total(request, buys, bi + 1) = request[buys[bi + 1]] + Total(request, buys, bi)
      BY <3>1, PrefixTotals
    <3>5. A' + buyRemAsset' = Total(request, buys, bi + 1)
      BY <1>2, <1>3, <2>3, <3>2, <3>3, <3>4
    <3> QED
      BY <1>1, <3>1, <3>2, <3>5 DEF BuyTotal, A
  <2> QED
    BY <2>1, <2>2, <2>3
<1>5. SellTotal'
  <2>1. CASE w # sellRemAsset
    <3>1. si' = si /\ sellRemAsset' = sellRemAsset - w
      BY <2>1 DEF Trade
    <3>2. A' + sellRemAsset' = Total(deposit, sells, si)
      BY <1>1, <1>2, <1>3, <3>1
    <3> QED
      BY <1>1, <3>1, <3>2 DEF SellTotal, A
  <2>2. CASE w = sellRemAsset /\ si = crossed
    <3>1. si' = crossed + 1
      BY <2>2 DEF Trade
    <3>2. A' = Total(deposit, sells, crossed)
      BY <1>2, <1>3, <2>2
    <3> QED
      BY <1>1, <3>1, <3>2 DEF SellTotal, A
  <2>3. CASE w = sellRemAsset /\ si # crossed
    <3>1. si + 1 <= crossed /\ si + 1 \in Nat \ {0} /\ si \in Nat /\ si + 1 \in 1..crossed
      BY <1>1, <2>3
    <3>2. si' = si + 1 /\ sellRemAsset' = deposit[sells[si + 1]]
      BY <2>3, <3>1, AmountNat DEF Trade
    <3>3. deposit[sells[si + 1]] \in Nat
      BY <3>1, Prefix
    <3>4. /\ Total(deposit, sells, si) \in Nat
          /\ Total(deposit, sells, si + 1) = deposit[sells[si + 1]] + Total(deposit, sells, si)
      BY <3>1, PrefixTotals
    <3>5. A' + sellRemAsset' = Total(deposit, sells, si + 1)
      BY <1>2, <1>3, <2>3, <3>2, <3>3, <3>4
    <3> QED
      BY <1>1, <3>1, <3>2, <3>5 DEF SellTotal, A
  <2> QED
    BY <2>1, <2>2, <2>3
<1> QED
  BY <1>4, <1>5

LEMMA FillProceeds ==
  ASSUME Sides, crossed > 0, Pair, Matched, Proceeds, Unmoved,
         NEW b \in Buyer, NEW s \in Seller, NEW w \in Nat, NEW c \in Nat, Trade(b, s, w, c)
  PROVE  Proceeds'
<1> USE UnitsAssumption
<1>1. clearing \in Nat /\ clearing' = clearing /\ c = Quote(w)
  BY FairPrice DEF Pair, Trade, Unmoved
<1>2. w * clearing * CashUnit < (c + 1) * PriceScale * AssetUnit
  BY <1>1, QuoteBounds
<1> SUFFICES ASSUME NEW o \in Seller, FillsOf(o)' # {}
             PROVE  AssetsOf(o)' * clearing * CashUnit
                      < (CashOf(o)' + Cardinality(FillsOf(o)')) * PriceScale * AssetUnit
  BY <1>1 DEF Proceeds
<1>3. /\ AssetsOf(o) \in Nat /\ CashOf(o) \in Nat /\ Cardinality(FillsOf(o)) \in Nat /\ o # b
  BY FillSums, SidesAssumption
<1>4. CASE o # s
  <2>1. FillsOf(o)' = FillsOf(o) /\ AssetsOf(o)' = AssetsOf(o) /\ CashOf(o)' = CashOf(o)
    BY <1>3, <1>4, FillSums
  <2> QED
    BY <2>1 DEF Proceeds
<1>5. CASE o = s
  <2> DEFINE A == AssetsOf(o)
             n == CashOf(o) + Cardinality(FillsOf(o))
             u == clearing * CashUnit
             v == PriceScale * AssetUnit
  <2>1. /\ AssetsOf(o)' = A + w
        /\ CashOf(o)' + Cardinality(FillsOf(o)') = n + (c + 1)
    <3>1. /\ AssetsOf(o)' = A + w /\ CashOf(o)' = CashOf(o) + c
          /\ Cardinality(FillsOf(o)') = Cardinality(FillsOf(o)) + 1
      BY <1>5, FillSums
    <3> QED
      BY <1>3, <3>1
  <2>2. A \in Nat /\ n \in Nat /\ u \in Nat /\ v \in Nat
    BY <1>1, <1>3
  <2>3. \A a \in Nat : a * clearing * CashUnit = a * u /\ a * PriceScale * AssetUnit = a * v
    BY <1>1
  <2>4. A * u <= n * v
    <3>1. CASE FillsOf(o) = {}
      <4>1. A = 0 /\ n = 0
        BY <1>3, <3>1, NoFills, FS_EmptySet
      <4> HIDE DEF A, n, u, v
      <4> QED
        BY <2>2, <4>1
    <3>2. CASE FillsOf(o) # {}
      <4>1. A * clearing * CashUnit < n * PriceScale * AssetUnit
        BY <3>2 DEF Proceeds
      <4> HIDE DEF A, n, u, v
      <4>2. A * u \in Nat /\ n * v \in Nat
        BY <2>2
      <4> QED
        BY <2>2, <2>3, <4>1, <4>2
    <3> QED
      BY <3>1, <3>2
  <2> HIDE DEF A, n, u, v
  <2>5. w * u < (c + 1) * v
    BY <1>2, <2>3
  <2>6. (A + w) * u = A * u + w * u /\ (n + (c + 1)) * v = n * v + (c + 1) * v
    BY <2>2
  <2>7. A * u \in Nat /\ w * u \in Nat /\ n * v \in Nat /\ (c + 1) * v \in Nat
    BY <2>2
  <2>8. (A + w) * u < (n + (c + 1)) * v
    BY <2>4, <2>5, <2>6, <2>7
  <2>9. A + w \in Nat /\ n + (c + 1) \in Nat
    BY <2>2
  <2> QED
    BY <2>1, <2>3, <2>8, <2>9
<1> QED
  BY <1>4, <1>5

LEMMA InvFill == IInv /\ Fill => IInv'
<1> SUFFICES ASSUME IInv, Fill
             PROVE  IInv'
  OBVIOUS
<1>1. Sides /\ crossed > 0 /\ Pair /\ Matched /\ Books
  BY DEF IInv, Trading, Fill, Sides
<1>2. Unmoved /\ pc = "fill" /\ pc' = "fill"
  BY <1>1, FillTrades DEF Unmoved
<1>3. PICK b \in Buyer, s \in Seller, w \in Nat, c \in Nat : Trade(b, s, w, c)
  BY <1>1, FillTrades
<1>4. Sides' /\ Trading'
  <2>1. /\ Amounts' = Amounts /\ RankedBuys' = RankedBuys /\ RankedSells' = RankedSells
        /\ \A n : Crosses(n)' = Crosses(n)
    BY <1>2, StillRanked DEF Unmoved, orders, ranking
  <2> QED
    BY <1>1, <1>2, <2>1 DEF Sides, Trading, Unmoved
<1>5. Pair'
  BY <1>1, <1>2, <1>3, FillPair
<1>6. Matched'
  BY <1>1, <1>2, <1>3, FillMatched
<1>7. BuyBooks' /\ SellBooks'
  BY <1>1, <1>2, <1>3, FillBuyBooks, FillSellBooks DEF Books
<1>8. BuyTotal' /\ SellTotal'
  BY <1>1, <1>2, <1>3, FillTotals DEF Books
<1>9. Proceeds'
  BY <1>1, <1>2, <1>3, FillProceeds DEF Books
<1> QED
  BY <1>4, <1>5, <1>6, <1>7, <1>8, <1>9 DEF IInv, Books
---------------------------------------------------------------------------
(* The theorems.                                                           *)

(* IInv holds throughout the call.                                         *)
THEOREM Inductive == Spec => []IInv
<1>1. IInv /\ [Next]_vars => IInv'
  BY InvRank, InvCross, InvClear, InvFill, InvFinish, InvStutter DEF Next
<1> QED
  BY <1>1, InvInit, PTL DEF Spec

(* Before the first fill there is no match.                                *)
LEMMA NoMatches ==
  ASSUME IInv, ~Trading
  PROVE  /\ matches = <<>> /\ ToSet(matches) = {} /\ \A o : FillsOf(o) = {}
         /\ \A o : AssetsOf(o) = 0 /\ CashOf(o) = 0
<1>1. matches = <<>> /\ DOMAIN matches = {}
  BY DEF IInv, Untouched
<1>2. ToSet(matches) = {} /\ \A o : FillsOf(o) = {}
  BY <1>1 DEF ToSet, FillsOf
<1> QED
  BY <1>1, <1>2, NoFills

LEMMA InTrading ==
  ASSUME IInv, Trading
  PROVE  Sides /\ crossed > 0 /\ Pair /\ Matched /\ Books /\ clearing = Midpoint
BY DEF IInv, Trading, Pair

(* A match is between two orders of the prefix and quoted at the clearing  *)
(* price.                                                                  *)
LEMMA MatchesOfPrefix ==
  ASSUME IInv, NEW m \in ToSet(matches)
  PROVE  /\ Trading /\ m \in MatchType /\ m.asset > 0 /\ m.cash = Quote(m.asset)
         /\ \E p \in 1..crossed : p <= bi /\ m.buy = buys[p]
         /\ \E q \in 1..crossed : q <= si /\ m.sell = sells[q]
<1>1. Trading
  BY NoMatches
<1>2. Matched
  BY <1>1, InTrading
<1>3. PICK i \in 1..Len(matches) : m = matches[i]
  BY <1>2, FillTypes DEF ToSet, Matched
<1>4. m \in MatchType
  BY <1>2, <1>3, FillTypes DEF Matched
<1> QED
  BY <1>1, <1>2, <1>3, <1>4 DEF Matched

LEMMA TypesOfInv == IInv => TypeOK
<1>1. IInv => TypeOK
  <2> SUFFICES ASSUME IInv
               PROVE  TypeOK
    OBVIOUS
  <2>1. Sides /\ Amounts /\ crossed \in Nat
    BY DEF IInv, Sides
  <2>2. buys \in Seq(Buyer) /\ sells \in Seq(Seller)
    <3>1. CASE pc = "rank"
      BY <2>1, <3>1 DEF Sides
    <3>2. CASE pc # "rank"
      BY <2>1, <3>2, BuyRanking, SellRanking DEF Sides
    <3> QED
      BY <3>1, <3>2
  <2>3. /\ {clearing, buyRemAsset, buyRemCash, sellRemAsset} \subseteq Nat
        /\ bi \in 1..crossed + 1 /\ si \in 1..crossed + 1
        /\ matches \in Seq(MatchType)
        /\ matches # <<>> => Len(matches) < 2 * crossed
    <3>1. CASE Trading
      <4>1. Sides /\ crossed > 0 /\ Pair /\ Matched /\ Midpoint \in Nat
        BY <3>1, InTrading, FairPrice
      <4>2. matches \in Seq(MatchType)
        BY <4>1 DEF Matched
      <4>3. matches # <<>> => Len(matches) > 0
        BY <4>2
      <4> QED
        BY <4>1, <4>2, <4>3 DEF Pair, Matched
    <3>2. CASE ~Trading
      <4>1. Untouched
        BY <3>2 DEF IInv
      <4> QED
        BY <2>1, <4>1 DEF Untouched
    <3> QED
      BY <3>1, <3>2
  <2>4. \A m \in ToSet(matches) : m.asset > 0
    BY MatchesOfPrefix
  <2> QED
    BY <2>1, <2>2, <2>3, <2>4 DEF TypeOK, Sides, Amounts, MatchType
<1> QED
  BY <1>1

(* The variables have their types, and a call makes fewer matches than     *)
(* twice the orders that cross on a side.                                  *)
THEOREM TypeCorrect == Spec => []TypeOK
<1>1. IInv => TypeOK
  BY TypesOfInv
<1> QED
  BY <1>1, Inductive, PTL

(* No fill is above the limit price of its buyer, no buyer pays more than  *)
(* was deposited, and the cap on the quote is never needed.                *)
THEOREM CashSuffices == Spec => []BuyersCovered
<1>1. IInv => BuyersCovered
  <2> SUFFICES ASSUME IInv
               PROVE  BuyersCovered
    OBVIOUS
  <2>1. ASSUME NEW m \in ToSet(matches)
        PROVE  m.cash * request[m.buy] <= m.asset * deposit[m.buy]
    <3>1. /\ Sides /\ crossed > 0 /\ clearing = Midpoint /\ clearing \in Nat
          /\ m \in MatchType /\ m.cash = Quote(m.asset)
      BY <2>1, MatchesOfPrefix, InTrading, FairPrice
    <3>2. PICK p \in 1..crossed : m.buy = buys[p]
      BY <2>1, MatchesOfPrefix
    <3> DEFINE q == m.cash
               a == m.asset
               r == request[m.buy]
               d == deposit[m.buy]
               u == clearing * CashUnit
               v == PriceScale * AssetUnit
    <3>3. q \in Nat /\ a \in Nat /\ r \in Nat /\ d \in Nat
      BY <3>1, <3>2, Prefix DEF MatchType
    <3>4. u \in Nat /\ v \in Nat \ {0}
      BY <3>1, UnitsAssumption
    <3>5. r * clearing * CashUnit <= d * PriceScale * AssetUnit
      BY <3>1, <3>2, FreshPair
    <3>6. q * PriceScale * AssetUnit <= a * clearing * CashUnit
      BY <3>1, <3>3, QuoteBounds
    <3>7. \A n \in Nat : n * clearing * CashUnit = n * u /\ n * PriceScale * AssetUnit = n * v
      BY <3>1, UnitsAssumption
    <3> HIDE DEF q, a, r, d, u, v
    <3>8. q * v <= a * u /\ r * u <= d * v
      BY <3>3, <3>5, <3>6, <3>7
    <3>9. (q * r) * v <= (a * d) * v
      <4>1. q * v \in Nat /\ a * u \in Nat /\ r * u \in Nat /\ d * v \in Nat
        BY <3>3, <3>4
      <4>2. r * (q * v) <= r * (a * u)
        BY <3>3, <3>8, <4>1
      <4>3. a * (r * u) <= a * (d * v)
        BY <3>3, <3>8, <4>1
      <4>4. /\ r * (q * v) = (q * r) * v /\ r * (a * u) = a * (r * u)
            /\ a * (d * v) = (a * d) * v
        BY <3>3, <3>4
      <4>5. (q * r) * v \in Nat /\ a * (r * u) \in Nat /\ (a * d) * v \in Nat
        BY <3>3, <3>4
      <4> QED
        BY <4>2, <4>3, <4>4, <4>5
    <3>10. q * r \in Nat /\ a * d \in Nat
      BY <3>3
    <3>11. q * r <= a * d
      BY <3>4, <3>9, <3>10
    <3> QED
      BY <3>11 DEF q, a, r, d
  <2>2. ASSUME NEW b \in Buyer
        PROVE  Cash(FillsOf(b)) <= deposit[b]
    <3>1. deposit[b] \in Nat
      BY AmountAssumption DEF IInv, Sides, Amounts, Order
    <3>2. CASE FillsOf(b) = {}
      BY <3>1, <3>2, NoFills DEF CashOf
    <3>3. CASE FillsOf(b) # {}
      <4>1. Sides /\ crossed > 0 /\ Pair /\ Matched /\ BuyBooks
        BY <3>3, NoMatches, InTrading DEF Books
      <4>2. PICK p \in 1..crossed : p <= bi /\ b = buys[p]
        BY <3>3, <4>1, Unreached
      <4>3. /\ p < bi => CashOf(b) <= deposit[b]
            /\ p = bi => CashOf(b) + buyRemCash = deposit[b]
        BY <4>1, <4>2 DEF BuyBooks
      <4>4. bi \in Nat /\ p \in Nat /\ buyRemCash \in Nat
        BY <4>1, <4>2, Prefix DEF Pair
      <4>5. CashOf(b) \in Nat
        BY <4>1, FillTypes DEF Matched, CashOf
      <4> QED
        BY <3>1, <4>2, <4>3, <4>4, <4>5 DEF CashOf
    <3> QED
      BY <3>2, <3>3
  <2>3. ASSUME pc = "fill", bi <= crossed, si <= crossed
        PROVE  Traded.cash = Quote(Traded.asset)
    <3>1. Sides /\ crossed > 0 /\ Pair
      BY <2>3, InTrading DEF IInv, Sides, Trading
    <3>2. Traded = [asset |-> Smaller, cash |-> Quote(Smaller)]
      BY <2>3, <3>1, Uncapped
    <3> QED
      BY <3>2
  <2> QED
    BY <2>1, <2>2, <2>3 DEF BuyersCovered
<1> QED
  BY <1>1, Inductive, PTL

(* The roundings cost a seller less than one unit of cash a fill and one   *)
(* unit of the scaled price.                                               *)
THEOREM SellersArePaid == Spec => []SellersGetTheirPrice
<1>1. IInv => SellersGetTheirPrice
  <2> SUFFICES ASSUME IInv, NEW s \in Seller, FillsOf(s) # {}
               PROVE  (Cash(FillsOf(s)) + Cardinality(FillsOf(s))) * PriceScale * AssetUnit * deposit[s]
                        > Assets(FillsOf(s)) * (request[s] * AssetUnit * PriceScale - deposit[s] * CashUnit)
    BY DEF SellersGetTheirPrice
  <2>1. Sides /\ crossed > 0 /\ Pair /\ Matched /\ Proceeds /\ clearing = Midpoint /\ clearing \in Nat
    BY NoMatches, InTrading, FairPrice DEF Books
  <2>2. PICK q \in 1..crossed : s = sells[q]
    BY <2>1, Unreached
  <2>3. deposit[s] \in Nat \ {0} /\ request[s] \in Nat \ {0} /\ s \notin Buyer
    BY <2>1, <2>2, Prefix, SidesAssumption
  <2>4. PriceScale \in Nat \ {0} /\ CashUnit \in Nat \ {0} /\ AssetUnit \in Nat \ {0}
    BY UnitsAssumption
  <2>5. request[s] * AssetUnit * PriceScale < (clearing + 1) * (deposit[s] * CashUnit)
    <3>1. (request[s] * AssetUnit * PriceScale) \div (deposit[s] * CashUnit) <= clearing
      BY <2>1, <2>2, <2>3, FairPrice DEF Price
    <3> QED
      BY <2>1, <2>3, <2>4, <3>1, LimitOfSell
  <2>6. /\ AssetsOf(s) \in Nat /\ CashOf(s) \in Nat /\ Cardinality(FillsOf(s)) \in Nat
        /\ AssetsOf(s) * clearing * CashUnit
             < (CashOf(s) + Cardinality(FillsOf(s))) * PriceScale * AssetUnit
    BY <2>1, FillTypes DEF Matched, Proceeds, AssetsOf, CashOf
  <2> DEFINE A == AssetsOf(s)
             n == CashOf(s) + Cardinality(FillsOf(s))
             d == deposit[s]
             R == request[s] * AssetUnit * PriceScale
             D == deposit[s] * CashUnit
             X == AssetsOf(s) * clearing * CashUnit
             Y == n * PriceScale * AssetUnit
  <2>7. A \in Nat /\ n \in Nat /\ d \in Nat \ {0} /\ R \in Nat /\ D \in Nat /\ X \in Nat /\ Y \in Nat
    BY <2>1, <2>3, <2>4, <2>6
  <2>8. A * (clearing * D) = X * d
    BY <2>1, <2>3, <2>4, <2>6
  <2>9. X < Y /\ R < (clearing + 1) * D
    BY <2>5, <2>6
  <2>10. Y * d > A * (R - D)
    <3> HIDE DEF A, n, d, R, D, X, Y
    <3>1. (clearing + 1) * D = clearing * D + D /\ clearing * D \in Nat
      BY <2>1, <2>7
    <3>2. R - D < clearing * D /\ R - D \in Int
      BY <2>7, <2>9, <3>1
    <3>3. A * (R - D) <= A * (clearing * D)
      BY <2>7, <3>1, <3>2
    <3>4. X * d < Y * d
      BY <2>7, <2>9
    <3>5. A * (R - D) \in Int /\ X * d \in Int /\ Y * d \in Int
      BY <2>7, <3>2
    <3> QED
      BY <2>8, <3>3, <3>4, <3>5
  <2> QED
    BY <2>10 DEF AssetsOf, CashOf
<1> QED
  BY <1>1, Inductive, PTL

(* In a call that keeps its types every order that trades accepts the      *)
(* clearing price.                                                         *)
THEOREM OnePriceForAll == Spec => []ClearingIsFair
<1>1. IInv => ClearingIsFair
  <2> SUFFICES ASSUME IInv, NEW m \in ToSet(matches)
               PROVE  Price(m.sell) <= clearing /\ clearing <= Price(m.buy)
    BY TypesOfInv DEF ClearingIsFair
  <2>1. Sides /\ crossed > 0 /\ clearing = Midpoint
    BY MatchesOfPrefix, InTrading
  <2>2. PICK p \in 1..crossed, q \in 1..crossed : m.buy = buys[p] /\ m.sell = sells[q]
    BY MatchesOfPrefix
  <2> QED
    BY <2>1, <2>2, FairPrice
<1> QED
  BY <1>1, Inductive, PTL

(* Nobody trades beyond the order, and an order is served only when those  *)
(* of its side with a better price have all they asked for.                *)
THEOREM BestPriceFirst == Spec => []PricePriority
<1>1. IInv => PricePriority
  <2> SUFFICES ASSUME IInv
               PROVE  PricePriority
    OBVIOUS
  <2>1. Amounts
    BY DEF IInv, Sides
  <2>2. ASSUME NEW o \in Order
        PROVE  Assets(FillsOf(o)) <= AssetGoal(o)
    <3>1. AssetGoal(o) \in Nat
      BY <2>1, AmountAssumption DEF Amounts, AssetGoal
    <3>2. CASE FillsOf(o) = {}
      BY <3>1, <3>2, NoFills DEF AssetsOf
    <3>3. CASE FillsOf(o) # {}
      <4>1. Sides /\ crossed > 0 /\ Pair /\ Matched /\ Books
        BY <3>3, NoMatches, InTrading
      <4>2. /\ AssetsOf(o) \in Nat /\ buyRemAsset \in Nat /\ sellRemAsset \in Nat
            /\ bi \in Nat /\ si \in Nat
        BY <4>1, Prefix, FillTypes DEF Pair, Matched, AssetsOf
      <4>3. CASE o \in Buyer
        <5>1. PICK p \in 1..crossed : p <= bi /\ o = buys[p]
          BY <3>3, <4>1, <4>3, Unreached
        <5>2. /\ p < bi => AssetsOf(o) = request[o]
              /\ p = bi => AssetsOf(o) + buyRemAsset = request[o]
          BY <4>1, <4>3, <5>1 DEF Books, BuyBooks
        <5>3. AssetsOf(o) <= AssetGoal(o)
          BY <3>1, <4>2, <4>3, <5>1, <5>2 DEF AssetGoal
        <5> QED
          BY <5>3 DEF AssetsOf
      <4>4. CASE o \in Seller
        <5>1. PICK q \in 1..crossed : q <= si /\ o = sells[q]
          BY <3>3, <4>1, <4>4, Unreached
        <5>2. /\ q < si => AssetsOf(o) = deposit[o]
              /\ q = si => AssetsOf(o) + sellRemAsset = deposit[o]
          BY <4>1, <4>4, <5>1 DEF Books, SellBooks
        <5>3. AssetsOf(o) <= AssetGoal(o)
          BY <3>1, <4>2, <4>4, <5>1, <5>2, SidesAssumption DEF AssetGoal
        <5> QED
          BY <5>3 DEF AssetsOf
      <4> QED
        BY <4>3, <4>4 DEF Order
    <3> QED
      BY <3>2, <3>3
  <2>3. ASSUME NEW a \in Order, NEW b \in Order, FillsOf(b) # {},
               {a, b} \subseteq Live(Buyer), Price(a) > Price(b)
        PROVE  Assets(FillsOf(a)) = AssetGoal(a)
    <3>1. /\ Sides /\ crossed > 0 /\ Pair /\ Matched /\ Books
          /\ a \in Live(Buyer) /\ b \in Live(Buyer) /\ a \in Buyer /\ b \in Buyer
      BY <2>3, NoMatches, InTrading DEF Live
    <3>2. PICK p \in 1..crossed : p <= bi /\ b = buys[p]
      BY <2>3, <3>1, Unreached
    <3>3. PICK k \in 1..Len(buys) : a = buys[k]
      BY <2>1, <3>1, Prefix, BuyRanking
    <3>4. Price(a) \in Nat /\ Price(b) \in Nat
      <4>1. Buyer \in SUBSET Order
        BY DEF Order
      <4> QED
        BY <2>1, <3>1, <4>1, LiveAmounts
    <3>5. p \in 1..Len(buys)
      BY <3>1, Prefix
    <3>6. p <= k => Price(b) >= Price(a)
      BY <2>1, <3>1, <3>2, <3>3, <3>5, Prefix, BuyRanking
    <3>7. k < p
      BY <2>3, <3>4, <3>5, <3>6
    <3>8. bi \in Nat /\ crossed \in Nat
      BY <3>1, Prefix DEF Pair
    <3>9. k \in 1..crossed /\ k < bi
      BY <3>2, <3>7, <3>8
    <3>10. AssetsOf(a) = request[a]
      BY <3>1, <3>3, <3>9 DEF Books, BuyBooks
    <3> QED
      BY <3>1, <3>10 DEF AssetsOf, AssetGoal
  <2>4. ASSUME NEW a \in Order, NEW b \in Order, FillsOf(b) # {},
               {a, b} \subseteq Live(Seller), Price(a) < Price(b)
        PROVE  Assets(FillsOf(a)) = AssetGoal(a)
    <3>1. /\ Sides /\ crossed > 0 /\ Pair /\ Matched /\ Books
          /\ a \in Live(Seller) /\ b \in Live(Seller) /\ a \in Seller /\ b \in Seller /\ a \notin Buyer
      BY <2>4, NoMatches, InTrading, SidesAssumption DEF Live
    <3>2. PICK q \in 1..crossed : q <= si /\ b = sells[q]
      BY <2>4, <3>1, Unreached
    <3>3. PICK k \in 1..Len(sells) : a = sells[k]
      BY <2>1, <3>1, Prefix, SellRanking
    <3>4. Price(a) \in Nat /\ Price(b) \in Nat
      <4>1. Seller \in SUBSET Order
        BY DEF Order
      <4> QED
        BY <2>1, <3>1, <4>1, LiveAmounts
    <3>5. q \in 1..Len(sells)
      BY <3>1, Prefix
    <3>6. q <= k => Price(b) <= Price(a)
      BY <2>1, <3>1, <3>2, <3>3, <3>5, Prefix, SellRanking
    <3>7. k < q
      BY <2>4, <3>4, <3>5, <3>6
    <3>8. si \in Nat /\ crossed \in Nat
      BY <3>1, Prefix DEF Pair
    <3>9. k \in 1..crossed /\ k < si
      BY <3>2, <3>7, <3>8
    <3>10. AssetsOf(a) = deposit[a]
      BY <3>1, <3>3, <3>9 DEF Books, SellBooks
    <3> QED
      BY <3>1, <3>10 DEF AssetsOf, AssetGoal
  <2> QED
    BY <2>2, <2>3, <2>4 DEF PricePriority
<1> QED
  BY <1>1, Inductive, PTL

(* The call ends only when the prefix's buyers have all the assets they    *)
(* request or its sellers have none left to offer.                         *)
THEOREM NothingLeftToTrade == Spec => []PrefixExhausted
<1>1. IInv => PrefixExhausted
  <2> SUFFICES ASSUME IInv, pc = "done", crossed > 0
               PROVE  Assets(DOMAIN matches)
                        = IF Total(request, buys, crossed) < Total(deposit, sells, crossed)
                          THEN Total(request, buys, crossed) ELSE Total(deposit, sells, crossed)
    BY DEF PrefixExhausted
  <2> DEFINE A == Assets(DOMAIN matches)
             W == Total(request, buys, crossed)
             O == Total(deposit, sells, crossed)
  <2>1. Sides /\ Pair /\ Matched /\ Books /\ (bi > crossed \/ si > crossed)
    BY InTrading DEF IInv, Sides, Trading
  <2>2. /\ bi \in Nat /\ si \in Nat /\ buyRemAsset \in Nat /\ sellRemAsset \in Nat
        /\ crossed \in Nat
    BY <2>1, Prefix DEF Pair
  <2>3. A \in Nat
    BY <2>1, FillTypes DEF Matched
  <2>4. /\ 1..crossed \subseteq DOMAIN buys /\ 1..crossed \subseteq DOMAIN sells
        /\ \A k \in 1..crossed : request[buys[k]] \in Nat /\ deposit[sells[k]] \in Nat
    BY <2>1, Prefix
  <2>5. /\ \A n \in Nat : n <= crossed => Total(request, buys, n) \in Nat /\ Total(request, buys, n) <= W
        /\ \A n \in Nat : n <= crossed => Total(deposit, sells, n) \in Nat /\ Total(deposit, sells, n) <= O
    BY <2>2, <2>4, TotalGrows
  <2>6. W \in Nat /\ O \in Nat
    BY <2>2, <2>5
  <2>7. A <= W /\ (bi > crossed => A = W)
    <3>1. CASE bi <= crossed
      <4>1. A + buyRemAsset = Total(request, buys, bi)
        BY <2>1, <3>1 DEF Books, BuyTotal
      <4>2. Total(request, buys, bi) \in Nat /\ Total(request, buys, bi) <= W
        BY <2>2, <2>5, <3>1
      <4> HIDE DEF A, W
      <4> QED
        BY <2>2, <2>3, <2>6, <3>1, <4>1, <4>2
    <3>2. CASE ~(bi <= crossed)
      <4>1. A = W
        BY <2>1, <3>2 DEF Books, BuyTotal
      <4> QED
        BY <2>6, <4>1
    <3> QED
      BY <3>1, <3>2
  <2>8. A <= O /\ (si > crossed => A = O)
    <3>1. CASE si <= crossed
      <4>1. A + sellRemAsset = Total(deposit, sells, si)
        BY <2>1, <3>1 DEF Books, SellTotal
      <4>2. Total(deposit, sells, si) \in Nat /\ Total(deposit, sells, si) <= O
        BY <2>2, <2>5, <3>1
      <4> HIDE DEF A, O
      <4> QED
        BY <2>2, <2>3, <2>6, <3>1, <4>1, <4>2
    <3>2. CASE ~(si <= crossed)
      <4>1. A = O
        BY <2>1, <3>2 DEF Books, SellTotal
      <4> QED
        BY <2>6, <4>1
    <3> QED
      BY <3>1, <3>2
  <2> HIDE DEF A, W, O
  <2>9. A = IF W < O THEN W ELSE O
    BY <2>1, <2>3, <2>6, <2>7, <2>8
  <2> QED
    BY <2>9 DEF A, W, O
<1> QED
  BY <1>1, Inductive, PTL

---------------------------------------------------------------------------
(* Candles: the two amounts of a row, and which of them is the cash.       *)

(* A quotient rounded down, read the other way round: the cash c of an     *)
(* asset a at P/Q, the price over the scales, is off by less than Q, and   *)
(* c in the place of a is off by more unless the two are the same.         *)
LEMMA DirectIsNearer ==
  ASSUME NEW a \in Nat, NEW c \in Nat, NEW P \in Nat, NEW Q \in Nat \ {0},
         c * Q <= a * P, a * P < (c + 1) * Q
  PROVE  /\ Distance(c * Q, a * P) <= Distance(a * Q, c * P)
         /\ Distance(c * Q, a * P) = Distance(a * Q, c * P) => a = c
<1> DEFINE r == a * P - c * Q
<1>1. /\ {a * P, c * Q, a * Q, c * P} \subseteq Nat
      /\ (c + 1) * Q = c * Q + Q
  BY Products
<1>2. r \in Nat /\ r < Q
  BY <1>1
<1>3. Distance(c * Q, a * P) = r
  BY <1>1 DEF Distance
<1>4. CASE P <= Q
  (* The cash is at most the asset. *)
  <2>1. c <= a
    <3>1. a * P <= a * Q
      BY <1>4
    <3>2. c * Q <= a * Q
      BY <1>1, <3>1
    <3> QED BY <3>2
  <2>2. CASE a = c
    <3>1. a * Q = c * Q /\ c * P = a * P
      BY <2>2
    <3> QED BY <1>1, <3>1 DEF Distance
  <2>3. CASE c + 1 <= a
    <3>1. (c + 1) * Q <= a * Q /\ c * P <= c * Q
      BY <1>4, <2>3
    <3>2. a * Q - c * P >= Q
      BY <1>1, <3>1
    <3> QED BY <1>1, <1>2, <1>3, <2>3, <3>2 DEF Distance
  <2> QED BY <2>1, <2>2, <2>3
<1>5. CASE Q < P
  (* The asset is at most the cash. *)
  <2>1. a <= c
    <3>1. a * Q <= a * P
      BY <1>5
    <3>2. a * Q < (c + 1) * Q
      BY <1>1, <3>1
    <3> QED BY <3>2
  <2>2. CASE a = c
    <3>1. a * Q = c * Q /\ c * P = a * P
      BY <2>2
    <3> QED BY <1>1, <3>1 DEF Distance
  <2>3. CASE a + 1 <= c
    <3>1. (a + 1) * P <= c * P /\ (a + 1) * P = a * P + P /\ a * Q <= c * Q
      BY <1>5, <2>3
    <3>2. c * P - a * Q >= P + r
      BY <1>1, <3>1
    <3> QED BY <1>1, <1>2, <1>3, <1>5, <2>3, <3>2 DEF Distance
  <2> QED BY <2>1, <2>2, <2>3
<1> QED BY <1>4, <1>5

(* normalizeVolumes of a row of either release.                            *)
LEMMA Recovered ==
  ASSUME NEW asset \in Quantity, NEW p \in Prices, NEW r,
         r.price = p,
         \/ r.base = CashFor(asset, p) /\ r.quote = asset
         \/ r.base = asset /\ r.quote = CashFor(asset, p)
  PROVE  Volumes(r, TRUE) = [cash |-> CashFor(asset, p), asset |-> asset]
<1> DEFINE c == CashFor(asset, p)
           P == p * CashUnit
           Q == PriceScale * AssetUnit
<1>1. asset \in Nat /\ p \in Nat /\ {PriceScale, CashUnit, AssetUnit} \subseteq Nat \ {0}
  BY CandlesAssumption, UnitsAssumption
<1>2. P \in Nat /\ Q \in Nat \ {0} /\ asset * P \in Nat /\ asset * p * CashUnit = asset * P
  BY <1>1, Products
<1>3. c = (asset * P) \div Q
  BY <1>2 DEF CashFor
<1> HIDE DEF P, Q
<1>4. c \in Nat /\ c * Q <= asset * P /\ asset * P < (c + 1) * Q
  BY <1>2, <1>3, Floor
<1> HIDE DEF c
<1>5. /\ PriceError(c, asset, p) = Distance(c * Q, asset * P)
      /\ PriceError(asset, c, p) = Distance(asset * Q, c * P)
  <2>1. /\ c * PriceScale * AssetUnit = c * Q /\ asset * p * CashUnit = asset * P
        /\ asset * PriceScale * AssetUnit = asset * Q /\ c * p * CashUnit = c * P
    BY <1>1, <1>4 DEF P, Q
  <2> QED BY <2>1 DEF PriceError
<1>6. /\ PriceError(c, asset, p) <= PriceError(asset, c, p)
      /\ PriceError(c, asset, p) = PriceError(asset, c, p) => asset = c
      /\ PriceError(c, asset, p) \in Int /\ PriceError(asset, c, p) \in Int
  <2>1. {c * Q, asset * P, asset * Q, c * P} \subseteq Nat
    BY <1>1, <1>2, <1>4, Products
  <2> QED BY <1>1, <1>2, <1>4, <1>5, <2>1, DirectIsNearer DEF Distance
<1>7. CASE r.base = c /\ r.quote = asset
  BY <1>6, <1>7 DEF Volumes, c
<1>8. CASE r.base = asset /\ r.quote = c
  BY <1>6, <1>8 DEF Volumes, c
<1> QED BY <1>7, <1>8 DEF c

(* What the amounts of a row are once it has a price.                      *)
AmountsFit(r) ==
  r.price # None =>
    \E asset \in Quantity, p \in Prices :
      /\ r.price = p /\ r.traded = [cash |-> CashFor(asset, p), asset |-> asset]
      /\ \/ r.base = CashFor(asset, p) /\ r.quote = asset
         \/ r.base = asset /\ r.quote = CashFor(asset, p)

TableInv ==
  /\ TableTypeOK
  /\ \A m \in Match : row[m] # None => AmountsFit(row[m])

LEMMA CashForType ==
  ASSUME NEW asset \in Quantity, NEW p \in Prices
  PROVE  CashFor(asset, p) \in Nat
<1>1. asset \in Nat /\ p \in Nat /\ {PriceScale, CashUnit, AssetUnit} \subseteq Nat \ {0}
  BY CandlesAssumption, UnitsAssumption
<1>2. asset * p * CashUnit \in Nat /\ PriceScale * AssetUnit \in Nat \ {0}
  BY <1>1, Products
<1> QED BY <1>2, Floor DEF CashFor

LEMMA UnpricedRow ==
  ASSUME NEW published \in 0 .. MaxTime
  PROVE  Unpriced(published) \in MatchRow /\ Unpriced(published).price = None
BY DEF Unpriced, MatchRow

(* The rows the matcher writes, and those an earlier release left.         *)
LEMMA PricedRow ==
  ASSUME now \in 0 .. MaxTime, NEW asset \in Quantity, NEW p \in Prices
  PROVE  /\ Priced(asset, p) \in MatchRow /\ AmountsFit(Priced(asset, p))
         /\ Legacy(asset, p) \in MatchRow /\ AmountsFit(Legacy(asset, p))
<1>1. CashFor(asset, p) \in Nat /\ asset \in Nat /\ p \in Nat
  BY CashForType, CandlesAssumption
<1>2. Unpriced(now) \in MatchRow
  BY UnpricedRow
<1> DEFINE t == [cash |-> CashFor(asset, p), asset |-> asset]
<1>3. t \in [cash : Nat, asset : Nat]
  BY <1>1
<1> HIDE DEF t
<1>4. /\ Priced(asset, p) \in MatchRow
      /\ Priced(asset, p).price = p /\ Priced(asset, p).traded = t
      /\ Priced(asset, p).base = CashFor(asset, p) /\ Priced(asset, p).quote = asset
  <2>1. Priced(asset, p) = [Unpriced(now) EXCEPT !.price = p, !.base = CashFor(asset, p),
                                                 !.quote = asset, !.traded = t]
    BY DEF Priced, t
  <2>2. DOMAIN Unpriced(now) = {"status", "published", "at", "price", "base", "quote", "traded"}
    BY DEF Unpriced
  <2>3. Priced(asset, p).price = p /\ Priced(asset, p).base = CashFor(asset, p)
    BY <2>1, <2>2
  <2>4. Priced(asset, p).quote = asset /\ Priced(asset, p).traded = t
    BY <2>1, <2>2
  <2>5. /\ Priced(asset, p).status = Unpriced(now).status
        /\ Priced(asset, p).published = Unpriced(now).published
        /\ Priced(asset, p).at = Unpriced(now).at
    BY <2>1, <2>2
  <2>6. Priced(asset, p) \in MatchRow
    <3> DEFINE r == Priced(asset, p)
    <3>1. r = [x \in DOMAIN Unpriced(now) |-> r[x]]
      BY <2>1
    <3>2. /\ r.status \in {"PENDING", "SETTLED"} /\ r.published \in 0 .. MaxTime /\ r.at \in {None} \cup 0 .. MaxTime
          /\ r.price \in {None} \cup Prices /\ r.base \in {None} \cup Nat
          /\ r.quote \in {None} \cup Nat /\ r.traded \in {None} \cup [cash : Nat, asset : Nat]
      BY <1>1, <1>2, <1>3, <2>3, <2>4, <2>5 DEF MatchRow
    <3> HIDE DEF r
    <3>3. r = [x \in {"status", "published", "at", "price", "base", "quote", "traded"} |-> r[x]]
      BY <2>2, <3>1
    <3>4. r = [status |-> r.status, published |-> r.published, at |-> r.at, price |-> r.price,
               base |-> r.base, quote |-> r.quote, traded |-> r.traded]
      BY <3>3
    <3>5. r \in MatchRow
      BY <3>2, <3>4, ZenonT(30) DEF MatchRow
    <3> QED BY <3>5 DEF r
  <2> QED BY <2>3, <2>4, <2>6
<1>5. /\ Legacy(asset, p) \in MatchRow
      /\ Legacy(asset, p).price = p /\ Legacy(asset, p).traded = t
      /\ Legacy(asset, p).base = asset /\ Legacy(asset, p).quote = CashFor(asset, p)
  <2>1. 0 \in {None} \cup 0 .. MaxTime
    BY CandlesAssumption
  <2> QED BY <1>1, <1>4, <2>1 DEF MatchRow, Legacy
<1> QED BY <1>4, <1>5 DEF AmountsFit, t

(* A statement that leaves the amounts.                                    *)
Relabelled(r, status, published, at) ==
  [r EXCEPT !.status = status, !.published = published, !.at = at]

LEMMA SameAmounts ==
  ASSUME NEW r, NEW q, AmountsFit(r),
         q.price = r.price, q.traded = r.traded, q.base = r.base, q.quote = r.quote
  PROVE  AmountsFit(q)
BY DEF AmountsFit

LEMMA TableStep == TableInv /\ [TableNext]_tableVars => TableInv'
<1> SUFFICES ASSUME TableInv, [TableNext]_tableVars PROVE TableInv'
  OBVIOUS
<1>1. now \in 0 .. MaxTime /\ row \in [Match -> {None} \cup MatchRow]
  BY DEF TableInv, TableTypeOK
<1>2. ASSUME NEW m \in Match, UNCHANGED now, NEW r \in {None} \cup MatchRow,
             row' = [row EXCEPT ![m] = r], r # None => AmountsFit(r)
      PROVE  TableInv'
  <2>1. row' \in [Match -> {None} \cup MatchRow]
    BY <1>1, <1>2
  <2>2. ASSUME NEW n \in Match, row'[n] # None PROVE AmountsFit(row'[n])
    <3>1. row'[n] = IF n = m THEN r ELSE row[n]
      BY <1>1, <1>2
    <3> QED BY <1>2, <2>2, <3>1 DEF TableInv
  <2>3. ASSUME NEW n \in Match, row'[n] # None PROVE AmountsFit(row[n])'
    BY <2>2, <2>3 DEF AmountsFit
  <2> QED BY <1>1, <1>2, <2>1, <2>3 DEF TableInv, TableTypeOK
<1>3. ASSUME NEW m \in Match, row[m] # None, NEW status \in {"PENDING", "SETTLED"},
             NEW published \in 0 .. MaxTime, NEW at \in {None} \cup 0 .. MaxTime
      PROVE  /\ Relabelled(row[m], status, published, at) \in MatchRow
             /\ AmountsFit(Relabelled(row[m], status, published, at))
  <2>1. row[m] \in MatchRow /\ AmountsFit(row[m])
    BY <1>1, <1>3 DEF TableInv, TableTypeOK
  <2> DEFINE r == Relabelled(row[m], status, published, at)
  <2>2. r \in MatchRow /\ r.price = row[m].price /\ r.traded = row[m].traded
        /\ r.base = row[m].base /\ r.quote = row[m].quote
    BY <1>3, <2>1 DEF MatchRow, Relabelled
  <2> HIDE DEF r
  <2>3. AmountsFit(r)
    BY <2>1, <2>2, SameAmounts
  <2> QED BY <2>2, <2>3 DEF r
<1>4. ASSUME NEW m \in Match, row[m] # None
      PROVE  row[m] \in MatchRow /\ row[m].status \in {"PENDING", "SETTLED"}
             /\ row[m].published \in 0 .. MaxTime /\ row[m].at \in {None} \cup 0 .. MaxTime
  BY <1>1, <1>4 DEF MatchRow
<1>5. ASSUME NEW m \in Match, Record(m) PROVE TableInv'
  <2>1. PICK asset \in Quantity, p \in Prices :
          row' = [row EXCEPT ![m] = IF row[m] = None THEN Priced(asset, p)
                                    ELSE [Priced(asset, p) EXCEPT !.at = row[m].at]]
    BY <1>5 DEF Record
  <2>2. Priced(asset, p) \in MatchRow /\ AmountsFit(Priced(asset, p))
    BY <1>1, PricedRow
  <2>3. ASSUME row[m] # None
        PROVE  LET r == [Priced(asset, p) EXCEPT !.at = row[m].at] IN r \in MatchRow /\ AmountsFit(r)
    <3> DEFINE r == [Priced(asset, p) EXCEPT !.at = row[m].at]
    <3>1. r \in MatchRow /\ r.price = Priced(asset, p).price /\ r.traded = Priced(asset, p).traded
          /\ r.base = Priced(asset, p).base /\ r.quote = Priced(asset, p).quote
      BY <1>4, <2>2, <2>3 DEF MatchRow
    <3> QED BY <2>2, <3>1, SameAmounts
  <2> DEFINE r == IF row[m] = None THEN Priced(asset, p) ELSE [Priced(asset, p) EXCEPT !.at = row[m].at]
  <2>4. r \in MatchRow /\ AmountsFit(r) /\ row' = [row EXCEPT ![m] = r]
    BY <2>1, <2>2, <2>3
  <2> HIDE DEF r
  <2> QED BY <1>2, <1>5, <2>4 DEF Record
<1>6. ASSUME NEW m \in Match, Publish(m) PROVE TableInv'
  <2> DEFINE old(published) == IF row[m] = None THEN Unpriced(published) ELSE row[m]
  <2>1. PICK status \in {"PENDING", "SETTLED"}, published \in 0 .. now :
          row' = [row EXCEPT ![m] = Relabelled(old(published), status, published, None)]
    BY <1>6, Zenon DEF Publish, Relabelled
  <2>2. published \in 0 .. MaxTime
    BY <1>1, CandlesAssumption
  <2> DEFINE r == Relabelled(old(published), status, published, None)
  <2>3. CASE row[m] = None
    <3>1. old(published) = Unpriced(published)
      BY <2>3
    <3>2. r \in MatchRow /\ r.price = None
      <4> DEFINE u == Unpriced(published)
      <4>1. u \in MatchRow /\ u.price = None
        BY <2>2, UnpricedRow
      <4>2. r = Relabelled(u, status, published, None)
        BY <3>1
      <4> HIDE DEF u, r
      <4> QED BY <2>2, <4>1, <4>2 DEF MatchRow, Relabelled
    <3> HIDE DEF r
    <3>3. AmountsFit(r)
      BY <3>2 DEF AmountsFit
    <3>4. row' = [row EXCEPT ![m] = r] /\ UNCHANGED now
      BY <1>6, <2>1 DEF r, Publish
    <3> QED BY <1>2, <3>2, <3>3, <3>4
  <2>4. CASE row[m] # None
    <3>1. old(published) = row[m]
      BY <2>4
    <3>2. r \in MatchRow /\ AmountsFit(r)
      BY <1>3, <2>2, <2>4, <3>1
    <3> HIDE DEF r
    <3>3. row' = [row EXCEPT ![m] = r] /\ UNCHANGED now
      BY <1>6, <2>1 DEF r, Publish
    <3> QED BY <1>2, <3>2, <3>3
  <2> QED BY <2>3, <2>4
<1>7. ASSUME NEW m \in Match, row[m] # None, UNCHANGED now,
             NEW status \in {"PENDING", "SETTLED"}, NEW at \in {None} \cup 0 .. MaxTime,
             row' = [row EXCEPT ![m].status = status, ![m].at = at]
      PROVE  TableInv'
  <2> DEFINE r == Relabelled(row[m], status, row[m].published, at)
  <2>1. r \in MatchRow /\ AmountsFit(r)
    BY <1>3, <1>4, <1>7
  <2>2. r = [row[m] EXCEPT !.status = status, !.at = at]
    BY <1>4, <1>7 DEF MatchRow, Relabelled
  <2>3. row' = [row EXCEPT ![m] = r]
    BY <1>1, <1>7, <2>2
  <2> HIDE DEF r
  <2> QED BY <1>2, <1>7, <2>1, <2>3
<1>8. ASSUME NEW m \in Match, Label(m) PROVE TableInv'
  <2>1. row' = [row EXCEPT ![m].status = "SETTLED", ![m].at = row[m].at]
    BY <1>1, <1>4, <1>8 DEF Label, MatchRow
  <2> QED BY <1>4, <1>7, <1>8, <2>1 DEF Label
<1>9. ASSUME NEW m \in Match, Settle(m) PROVE TableInv'
  <2>1. row' = [row EXCEPT ![m].status = "SETTLED", ![m].at = now] /\ row[m] # None /\ UNCHANGED now
    BY <1>9 DEF Settle
  <2>2. "SETTLED" \in {"PENDING", "SETTLED"} /\ now \in {None} \cup 0 .. MaxTime
    BY <1>1
  <2> QED BY <1>7, <2>1, <2>2
<1>10. ASSUME NEW m \in Match, Rollback(m) PROVE TableInv'
  BY <1>2, <1>7, <1>10 DEF Rollback
<1>11. CASE Tick
  BY <1>1, <1>11, CandlesAssumption DEF Tick, TableInv, TableTypeOK, AmountsFit, CashFor
<1>12. CASE UNCHANGED tableVars
  BY <1>12 DEF TableInv, TableTypeOK, AmountsFit, CashFor, tableVars
<1> QED BY <1>5, <1>6, <1>8, <1>9, <1>10, <1>11, <1>12 DEF TableNext

LEMMA TableStart == TableInit => TableInv
<1> SUFFICES ASSUME TableInit PROVE TableInv
  OBVIOUS
<1>1. now \in 0 .. MaxTime
  BY CandlesAssumption DEF TableInit
<1>2. \A asset \in Quantity, p \in Prices : Legacy(asset, p) \in MatchRow /\ AmountsFit(Legacy(asset, p))
  BY <1>1, PricedRow
<1> QED BY <1>1, <1>2 DEF TableInit, TableInv, TableTypeOK

(* The table of matches keeps its types, and the candles of a listed pair  *)
(* add up what its matches traded (normalizeVolumes), whichever release    *)
(* wrote their rows, and whatever the indexer, the settler and rollbacks   *)
(* have written to them since.                                             *)
THEOREM TradedRecovered == TableSpec => []VolumesRecovered
<1>1. TableInv => VolumesRecovered
  <2> SUFFICES ASSUME TableInv, NEW m \in Match, row[m] # None, row[m].price # None
               PROVE  Volumes(row[m], TRUE) = row[m].traded
    BY DEF VolumesRecovered, TableInv
  <2>1. AmountsFit(row[m])
    BY DEF TableInv
  <2>2. PICK asset \in Quantity, p \in Prices :
          /\ row[m].price = p /\ row[m].traded = [cash |-> CashFor(asset, p), asset |-> asset]
          /\ \/ row[m].base = CashFor(asset, p) /\ row[m].quote = asset
             \/ row[m].base = asset /\ row[m].quote = CashFor(asset, p)
    BY <2>1 DEF AmountsFit
  <2>3. Volumes(row[m], TRUE) = [cash |-> CashFor(asset, p), asset |-> asset]
    BY <2>2, Recovered
  <2> QED BY <2>2, <2>3
<1> QED BY <1>1, TableStart, TableStep, PTL DEF TableSpec

---------------------------------------------------------------------------
(* Candles: what the fold of the rows, in their order, leaves in a bucket. *)

LEMMA LeastIs ==
  ASSUME NEW S \in SUBSET Nat, NEW x \in S, \A y \in S : x <= y
  PROVE  Least(S) = x
<1>1. \A z \in S : (\A y \in S : z <= y) => z = x
  <2> TAKE z \in S
  <2> HAVE \A y \in S : z <= y
  <2>1. z <= x /\ x <= z /\ z \in Nat /\ x \in Nat
    OBVIOUS
  <2> QED BY <2>1
<1>2. Least(S) \in S /\ \A y \in S : Least(S) <= y
  BY DEF Least
<1> QED BY <1>1, <1>2

LEMMA GreatestIs ==
  ASSUME NEW S \in SUBSET Nat, NEW x \in S, \A y \in S : x >= y
  PROVE  Greatest(S) = x
<1>1. \A z \in S : (\A y \in S : z >= y) => z = x
  <2> TAKE z \in S
  <2> HAVE \A y \in S : z >= y
  <2>1. z >= x /\ x >= z /\ z \in Nat /\ x \in Nat
    OBVIOUS
  <2> QED BY <2>1
<1>2. Greatest(S) \in S /\ \A y \in S : Greatest(S) >= y
  BY DEF Greatest
<1> QED BY <1>1, <1>2

LEMMA Extremes ==
  ASSUME NEW S \in SUBSET Nat, IsFiniteSet(S), S # {}
  PROVE  /\ Least(S) \in S /\ \A y \in S : Least(S) <= y
         /\ Greatest(S) \in S /\ \A y \in S : Greatest(S) >= y
<1>1. PICK x \in S : \A y \in S : x <= y
  BY HasSmallest
<1>2. PICK z \in S : \A y \in S : y <= z
  BY HasLargest
<1>3. Least(S) = x
  BY <1>1, LeastIs
<1>4. Greatest(S) = z
  <2>1. \A y \in S : z >= y
    BY <1>2
  <2> QED BY <2>1, GreatestIs
<1> QED BY <1>1, <1>2, <1>3, <1>4

(* The rows a candle can be made of, and the volumes buildCandles reads    *)
(* from one.                                                               *)
PricedRows == {m \in Match : row[m] # None /\ row[m].price # None}

Held(m) == Volumes(row[m], PairOf[m] \in Listed)

LEMMA RowVolumes ==
  ASSUME TableInv, NEW m \in PricedRows
  PROVE  /\ m \in Nat /\ row[m].price \in Nat
         /\ Held(m).cash \in Nat /\ Held(m).asset \in Nat
         /\ Volumes(row[m], TRUE) = row[m].traded
<1>1. m \in Match /\ row[m] # None /\ row[m].price # None
  BY DEF PricedRows
<1>2. PICK asset \in Quantity, p \in Prices :
        /\ row[m].price = p /\ row[m].traded = [cash |-> CashFor(asset, p), asset |-> asset]
        /\ \/ row[m].base = CashFor(asset, p) /\ row[m].quote = asset
           \/ row[m].base = asset /\ row[m].quote = CashFor(asset, p)
  BY <1>1 DEF TableInv, AmountsFit
<1>3. asset \in Nat /\ p \in Nat /\ CashFor(asset, p) \in Nat
  BY CashForType, CandlesAssumption
<1>4. row[m].base \in Nat /\ row[m].quote \in Nat
  BY <1>2, <1>3
<1>5. Held(m).cash \in Nat /\ Held(m).asset \in Nat
  BY <1>4 DEF Held, Volumes
<1>6. Volumes(row[m], TRUE) = [cash |-> CashFor(asset, p), asset |-> asset]
  BY <1>2, Recovered
<1> QED BY <1>1, <1>2, <1>3, <1>5, <1>6, CandlesAssumption

LEMMA RowTimeType ==
  ASSUME TableInv, NEW m \in Match, row[m] # None
  PROVE  RowTime(m) \in 0 .. MaxTime
<1>1. row[m].published \in 0 .. MaxTime /\ row[m].at \in {None} \cup 0 .. MaxTime
  BY DEF TableInv, TableTypeOK, MatchRow
<1> QED BY <1>1 DEF RowTime

(* A bucket is the last one that begins by the time of its rows.           *)
LEMMA BucketBegins ==
  ASSUME TableInv, NEW m \in Match, row[m] # None, NEW width \in Width
  PROVE  /\ BucketOf(m, width) \in 0 .. MaxTime /\ BucketOf(m, width) <= RowTime(m)
         /\ \A n \in Match : row[n] # None /\ BucketOf(n, width) <= RowTime(m) =>
                             BucketOf(n, width) <= BucketOf(m, width)
<1>1. width \in Nat \ {0} /\ MaxTime \in Nat
  BY CandlesAssumption
<1> DEFINE q(n) == RowTime(n) \div width
<1>2. ASSUME NEW n \in Match, row[n] # None
      PROVE  /\ RowTime(n) \in 0 .. MaxTime /\ q(n) \in Nat /\ BucketOf(n, width) = q(n) * width
             /\ q(n) * width <= RowTime(n) /\ RowTime(n) < (q(n) + 1) * width
  <2>1. RowTime(n) \in 0 .. MaxTime
    BY <1>2, RowTimeType
  <2> QED BY <1>1, <2>1, Floor DEF BucketOf
<1> HIDE DEF q
<1>3. BucketOf(m, width) \in 0 .. MaxTime /\ BucketOf(m, width) <= RowTime(m)
  <2>1. q(m) * width \in Nat
    BY <1>1, <1>2, Products
  <2> QED BY <1>1, <1>2, <2>1
<1>4. ASSUME NEW n \in Match, row[n] # None, BucketOf(n, width) <= RowTime(m)
      PROVE  BucketOf(n, width) <= BucketOf(m, width)
  <2>1. /\ q(n) \in Nat /\ q(m) \in Nat /\ BucketOf(n, width) = q(n) * width
        /\ BucketOf(m, width) = q(m) * width /\ RowTime(m) < (q(m) + 1) * width
        /\ RowTime(m) \in Nat
    BY <1>1, <1>2, <1>4
  <2>2. /\ q(n) * width \in Nat /\ q(m) * width \in Nat /\ (q(m) + 1) * width \in Nat
    BY <1>1, <2>1, Products
  <2>3. q(n) * width < (q(m) + 1) * width
    BY <1>4, <2>1, <2>2
  <2>4. CASE q(n) <= q(m)
    <3>1. q(n) * width <= q(m) * width
      BY <1>1, <2>1, <2>4
    <3> QED BY <2>1, <3>1
  <2>5. CASE q(m) + 1 <= q(n)
    <3>1. (q(m) + 1) * width <= q(n) * width
      BY <1>1, <2>1, <2>5
    <3> QED BY <2>2, <2>3, <3>1
  <2> QED BY <2>1, <2>4, <2>5
<1> QED BY <1>3, <1>4

LEMMA TimesFinite ==
  ASSUME NEW s, IsFiniteSet(s)
  PROVE  IsFiniteSet({RowTime(m) : m \in s})
<1> DEFINE f == [m \in s |-> RowTime(m)]
<1>1. {RowTime(m) : m \in s} = {f[m] : m \in s}
  OBVIOUS
<1> HIDE DEF f
<1> QED BY <1>1, FiniteImage

(* The order of the rows is total: a set of them has a last one.           *)
LEMMA LastRowIs ==
  ASSUME TableInv, NEW s \in SUBSET PricedRows, s # {}
  PROVE  LastRow(s) \in s /\ \A n \in s \ {LastRow(s)} : Earlier(n, LastRow(s))
<1>1. IsFiniteSet(s) /\ \A m \in s : m \in Nat /\ RowTime(m) \in Nat
  <2>1. IsFiniteSet(s)
    BY FS_Subset, CandlesAssumption DEF PricedRows
  <2>2. ASSUME NEW m \in s PROVE m \in Nat /\ RowTime(m) \in Nat
    <3>1. m \in Match /\ row[m] # None
      BY DEF PricedRows
    <3>2. RowTime(m) \in 0 .. MaxTime
      BY <3>1, RowTimeType
    <3> QED BY <3>1, <3>2, CandlesAssumption
  <2> QED BY <2>1, <2>2
<1> DEFINE times == {RowTime(m) : m \in s}
<1>2. PICK t \in times : \A u \in times : u <= t
  <2>1. times \subseteq Nat /\ times # {}
    BY <1>1
  <2>2. IsFiniteSet(times)
    BY <1>1, TimesFinite
  <2> QED BY <2>1, <2>2, HasLargest
<1> DEFINE late == {m \in s : RowTime(m) = t}
<1>3. PICK m \in late : \A n \in late : n <= m
  <2>1. late \subseteq Nat /\ late # {} /\ IsFiniteSet(late)
    BY <1>1, <1>2, FS_Subset
  <2> QED BY <2>1, HasLargest
<1>4. ASSUME NEW n \in s \ {m} PROVE Earlier(n, m)
  <2>1. RowTime(n) <= RowTime(m) /\ RowTime(n) \in Nat /\ RowTime(m) \in Nat
    BY <1>1, <1>2, <1>3
  <2>2. RowTime(n) = RowTime(m) => n <= m /\ n \in Nat /\ m \in Nat /\ n # m
    BY <1>1, <1>3
  <2> QED BY <2>1, <2>2 DEF Earlier
<1>5. \E x \in s : \A n \in s \ {x} : Earlier(n, x)
  BY <1>3, <1>4
<1> QED BY <1>5 DEF LastRow

(* The candle of a set of rows, of a listed pair or not.                   *)
Early(s) == {m \in s : \A n \in s : RowTime(m) <= RowTime(n)}
Late(s) == {m \in s : \A n \in s : RowTime(m) >= RowTime(n)}
PricesOf(s) == {row[m].price : m \in s}
CashHeld(s) == SumFunctionOnSet([m \in s |-> Held(m).cash], s)
AssetHeld(s) == SumFunctionOnSet([m \in s |-> Held(m).asset], s)

HeldCandle(s) ==
  [open |-> row[Least(Early(s))].price, high |-> Greatest(PricesOf(s)),
   low |-> Least(PricesOf(s)), close |-> row[Greatest(Late(s))].price,
   cash |-> CashHeld(s), asset |-> AssetHeld(s), count |-> Cardinality(s)]

InBucket(s, width, b) == {m \in s : BucketOf(m, width) = b}

LEMMA HeldSums ==
  ASSUME TableInv, NEW s \in SUBSET PricedRows
  PROVE  /\ IsFiniteSet(s) /\ CashHeld(s) \in Nat /\ AssetHeld(s) \in Nat
         /\ s = {} => CashHeld(s) = 0 /\ AssetHeld(s) = 0
         /\ \A m \in PricedRows \ s : /\ CashHeld(s \cup {m}) = CashHeld(s) + Held(m).cash
                                      /\ AssetHeld(s \cup {m}) = AssetHeld(s) + Held(m).asset
<1>1. IsFiniteSet(s)
  BY FS_Subset, CandlesAssumption DEF PricedRows
<1>2. \A m \in PricedRows : Held(m).cash \in Nat /\ Held(m).asset \in Nat
  BY RowVolumes
<1>3. CashHeld(s) \in Nat /\ AssetHeld(s) \in Nat
  <2> DEFINE f == [m \in s |-> Held(m).cash]
             g == [m \in s |-> Held(m).asset]
  <2>1. \A m \in s : f[m] \in Nat /\ g[m] \in Nat
    BY <1>2
  <2> HIDE DEF f, g
  <2>2. SumFunctionOnSet(f, s) \in Nat /\ SumFunctionOnSet(g, s) \in Nat
    BY <1>1, <2>1, SumSplit
  <2> QED BY <2>2 DEF f, g, CashHeld, AssetHeld
<1>4. s = {} => CashHeld(s) = 0 /\ AssetHeld(s) = 0
  BY SumEmpty DEF CashHeld, AssetHeld
<1>5. ASSUME NEW m \in PricedRows \ s
      PROVE  CashHeld(s \cup {m}) = CashHeld(s) + Held(m).cash
  <2> DEFINE f == [n \in s |-> Held(n).cash]
             g == [n \in s \cup {m} |-> Held(n).cash]
  <2>1. /\ \A n \in s : f[n] \in Nat /\ f[n] = g[n]
        /\ \A n \in s \cup {m} : g[n] \in Nat
        /\ g[m] = Held(m).cash
    BY <1>2
  <2>2. CashHeld(s) = SumFunctionOnSet(f, s) /\ CashHeld(s \cup {m}) = SumFunctionOnSet(g, s \cup {m})
    BY DEF CashHeld
  <2> HIDE DEF f, g
  <2>3. SumFunctionOnSet(g, s \cup {m}) = g[m] + SumFunctionOnSet(g, s)
    BY <1>1, <2>1, SumAdd
  <2>4. SumFunctionOnSet(f, s) = SumFunctionOnSet(g, s)
    BY <1>1, <2>1, SumSame
  <2>5. g[m] \in Nat /\ SumFunctionOnSet(f, s) \in Nat
    BY <1>3, <2>1, <2>2
  <2> QED BY <2>1, <2>2, <2>3, <2>4, <2>5
<1>6. ASSUME NEW m \in PricedRows \ s
      PROVE  AssetHeld(s \cup {m}) = AssetHeld(s) + Held(m).asset
  <2> DEFINE f == [n \in s |-> Held(n).asset]
             g == [n \in s \cup {m} |-> Held(n).asset]
  <2>1. /\ \A n \in s : f[n] \in Nat /\ f[n] = g[n]
        /\ \A n \in s \cup {m} : g[n] \in Nat
        /\ g[m] = Held(m).asset
    BY <1>2
  <2>2. AssetHeld(s) = SumFunctionOnSet(f, s) /\ AssetHeld(s \cup {m}) = SumFunctionOnSet(g, s \cup {m})
    BY DEF AssetHeld
  <2> HIDE DEF f, g
  <2>3. SumFunctionOnSet(g, s \cup {m}) = g[m] + SumFunctionOnSet(g, s)
    BY <1>1, <2>1, SumAdd
  <2>4. SumFunctionOnSet(f, s) = SumFunctionOnSet(g, s)
    BY <1>1, <2>1, SumSame
  <2>5. g[m] \in Nat /\ SumFunctionOnSet(f, s) \in Nat
    BY <1>3, <2>1, <2>2
  <2> QED BY <2>1, <2>2, <2>3, <2>4, <2>5
<1> QED BY <1>1, <1>3, <1>4, <1>5, <1>6

(* The rows and prices a candle is made of.                                *)
LEMMA CandleParts ==
  ASSUME TableInv, NEW s \in SUBSET PricedRows, s # {}
  PROVE  /\ Early(s) \in SUBSET Nat /\ Least(Early(s)) \in Early(s)
         /\ \A y \in Early(s) : Least(Early(s)) <= y
         /\ Late(s) \in SUBSET Nat /\ Greatest(Late(s)) \in Late(s)
         /\ PricesOf(s) \in SUBSET Nat
         /\ Greatest(PricesOf(s)) \in PricesOf(s) /\ \A y \in PricesOf(s) : Greatest(PricesOf(s)) >= y
         /\ Least(PricesOf(s)) \in PricesOf(s) /\ \A y \in PricesOf(s) : Least(PricesOf(s)) <= y
<1>1. IsFiniteSet(s)
  BY HeldSums
<1>2. \A m \in s : m \in Nat /\ row[m].price \in Nat /\ RowTime(m) \in Nat
  <2> TAKE m \in s
  <2>1. m \in PricedRows /\ m \in Match /\ row[m] # None
    BY DEF PricedRows
  <2>2. m \in Nat /\ row[m].price \in Nat
    BY <2>1, RowVolumes
  <2>3. RowTime(m) \in 0 .. MaxTime
    BY <2>1, RowTimeType
  <2> QED BY <2>2, <2>3, CandlesAssumption
<1> DEFINE times == {RowTime(m) : m \in s}
<1>3. times \subseteq Nat /\ times # {} /\ IsFiniteSet(times)
  BY <1>1, <1>2, TimesFinite
<1>4. Early(s) # {} /\ Early(s) \in SUBSET Nat /\ IsFiniteSet(Early(s))
  <2>1. PICK t \in times : \A u \in times : t <= u
    BY <1>3, HasSmallest
  <2>2. PICK m \in s : RowTime(m) = t
    BY <2>1
  <2>3. m \in Early(s)
    BY <2>1, <2>2 DEF Early
  <2> QED BY <1>1, <1>2, <2>3, FS_Subset DEF Early
<1>5. Late(s) # {} /\ Late(s) \in SUBSET Nat /\ IsFiniteSet(Late(s))
  <2>1. PICK t \in times : \A u \in times : u <= t
    BY <1>3, HasLargest
  <2>2. PICK m \in s : RowTime(m) = t
    BY <2>1
  <2>3. m \in Late(s)
    BY <2>1, <2>2 DEF Late
  <2> QED BY <1>1, <1>2, <2>3, FS_Subset DEF Late
<1>6. PricesOf(s) # {} /\ PricesOf(s) \in SUBSET Nat /\ IsFiniteSet(PricesOf(s))
  <2>1. IsFiniteSet(PricesOf(s))
    <3> DEFINE f == [m \in s |-> row[m].price]
    <3>1. PricesOf(s) = {f[m] : m \in s}
      BY DEF PricesOf
    <3> HIDE DEF f
    <3> QED BY <1>1, <3>1, FiniteImage
  <2> QED BY <1>2, <2>1 DEF PricesOf
<1> QED BY <1>4, <1>5, <1>6, Extremes

LEMMA HeldCandleType ==
  ASSUME TableInv, NEW s \in SUBSET PricedRows, s # {}
  PROVE  HeldCandle(s) \in Candle
<1>1. row[Least(Early(s))].price \in Nat /\ row[Greatest(Late(s))].price \in Nat
  <2>1. Least(Early(s)) \in PricedRows /\ Greatest(Late(s)) \in PricedRows
    BY CandleParts DEF Early, Late
  <2> QED BY <2>1, RowVolumes
<1>2. Greatest(PricesOf(s)) \in Nat /\ Least(PricesOf(s)) \in Nat
  BY CandleParts
<1>3. CashHeld(s) \in Nat /\ AssetHeld(s) \in Nat /\ Cardinality(s) \in Nat
  BY HeldSums, FS_CardinalityType
<1> QED BY <1>1, <1>2, <1>3 DEF HeldCandle, Candle

(* The first row of a bucket, and one that comes after all others in it.   *)
LEMMA OneRow ==
  ASSUME TableInv, NEW m \in PricedRows
  PROVE  HeldCandle({m}) = Opened(row[m], Held(m))
<1>1. {m} \in SUBSET PricedRows /\ {} \in SUBSET PricedRows /\ {} \cup {m} = {m}
  OBVIOUS
<1>2. Least(Early({m})) = m /\ Greatest(Late({m})) = m
  BY <1>1, CandleParts DEF Early, Late
<1>3. Greatest(PricesOf({m})) = row[m].price /\ Least(PricesOf({m})) = row[m].price
  <2>1. PricesOf({m}) = {row[m].price}
    BY DEF PricesOf
  <2>2. Greatest(PricesOf({m})) \in PricesOf({m}) /\ Least(PricesOf({m})) \in PricesOf({m})
    BY <1>1, CandleParts
  <2> QED BY <2>1, <2>2
<1>4. CashHeld({m}) = Held(m).cash /\ AssetHeld({m}) = Held(m).asset
  <2>1. /\ CashHeld({}) = 0 /\ CashHeld({m}) = CashHeld({}) + Held(m).cash
        /\ AssetHeld({}) = 0 /\ AssetHeld({m}) = AssetHeld({}) + Held(m).asset
    <3> DEFINE e == {}
    <3>1. e \in SUBSET PricedRows /\ m \in PricedRows \ e /\ e \cup {m} = {m}
      OBVIOUS
    <3> HIDE DEF e
    <3>2. /\ e = {} => CashHeld(e) = 0 /\ AssetHeld(e) = 0
          /\ CashHeld(e \cup {m}) = CashHeld(e) + Held(m).cash
          /\ AssetHeld(e \cup {m}) = AssetHeld(e) + Held(m).asset
      BY <3>1, HeldSums
    <3> QED BY <3>1, <3>2 DEF e
  <2>2. Held(m).cash \in Nat /\ Held(m).asset \in Nat
    BY RowVolumes
  <2> QED BY <2>1, <2>2
<1>5. Cardinality({m}) = 1
  BY FS_Singleton
<1> QED BY <1>2, <1>3, <1>4, <1>5 DEF HeldCandle, Opened

LEMMA OneMoreRow ==
  ASSUME TableInv, NEW s \in SUBSET PricedRows, s # {}, NEW m \in PricedRows \ s,
         \A n \in s : Earlier(n, m)
  PROVE  HeldCandle(s \cup {m}) = Extended(HeldCandle(s), row[m], Held(m))
<1> DEFINE z == s \cup {m}
<1>1. /\ z \in SUBSET PricedRows /\ z # {}
      /\ \A n \in z : n \in Nat /\ row[n].price \in Nat /\ RowTime(n) \in Nat
  <2>1. \A n \in PricedRows : n \in Nat /\ row[n].price \in Nat
    BY RowVolumes
  <2>2. ASSUME NEW n \in PricedRows PROVE RowTime(n) \in Nat
    <3>1. n \in Match /\ row[n] # None
      BY DEF PricedRows
    <3>2. RowTime(n) \in 0 .. MaxTime
      BY <3>1, RowTimeType
    <3> QED BY <3>2, CandlesAssumption
  <2> QED BY <2>1, <2>2
<1>2. \A n \in s : RowTime(n) <= RowTime(m) /\ (RowTime(n) = RowTime(m) => n < m)
  BY <1>1 DEF Earlier
<1>3. Least(Early(z)) = Least(Early(s))
  <2> DEFINE x == Least(Early(s))
  <2>1. x \in s /\ (\A n \in s : RowTime(x) <= RowTime(n)) /\ \A y \in Early(s) : x <= y
    BY CandleParts DEF Early
  <2> HIDE DEF x
  <2>2. x \in Early(z)
    BY <1>1, <1>2, <2>1 DEF Early
  <2>3. ASSUME NEW y \in Early(z) PROVE x <= y
    <3>1. CASE y \in s
      BY <2>1, <3>1 DEF Early
    <3>2. CASE y = m
      <4>1. RowTime(m) <= RowTime(x)
        BY <2>1, <2>3, <3>2 DEF Early
      <4> QED BY <1>1, <1>2, <2>1, <3>2, <4>1
    <3> QED BY <3>1, <3>2 DEF Early
  <2>4. Early(z) \in SUBSET Nat
    BY <1>1, CandleParts
  <2>5. Least(Early(z)) = x
    BY <2>2, <2>3, <2>4, LeastIs
  <2> QED BY <2>5 DEF x
<1>4. Greatest(Late(z)) = m
  <2>1. m \in Late(z)
    BY <1>1, <1>2 DEF Late
  <2>2. ASSUME NEW y \in Late(z) PROVE m >= y
    <3>1. CASE y \in s
      <4>1. RowTime(y) >= RowTime(m)
        BY <2>2 DEF Late
      <4> QED BY <1>1, <1>2, <3>1, <4>1
    <3> QED BY <1>1, <3>1 DEF Late
  <2>3. Late(z) \in SUBSET Nat
    BY <1>1, CandleParts
  <2> QED BY <2>1, <2>2, <2>3, GreatestIs
<1> DEFINE p == row[m].price
           h == Greatest(PricesOf(s))
           l == Least(PricesOf(s))
<1>5. /\ PricesOf(z) = PricesOf(s) \cup {p} /\ PricesOf(z) \in SUBSET Nat /\ p \in Nat
      /\ h \in PricesOf(s) /\ \A y \in PricesOf(s) : h >= y
      /\ l \in PricesOf(s) /\ \A y \in PricesOf(s) : l <= y
  <2>1. PricesOf(z) = PricesOf(s) \cup {p} /\ p \in Nat
    BY <1>1 DEF PricesOf
  <2>2. PricesOf(z) \in SUBSET Nat
    BY <1>1, CandleParts
  <2> QED BY <2>1, <2>2, CandleParts
<1> HIDE DEF p, h, l, z
<1>6. Greatest(PricesOf(z)) = IF p > h THEN p ELSE h
  <2>1. CASE p > h
    <3>1. p \in PricesOf(z) /\ \A y \in PricesOf(z) : p >= y
      BY <1>5, <2>1
    <3> QED BY <1>5, <2>1, <3>1, GreatestIs
  <2>2. CASE ~(p > h)
    <3>1. h \in PricesOf(z) /\ \A y \in PricesOf(z) : h >= y
      BY <1>5, <2>2
    <3> QED BY <1>5, <2>2, <3>1, GreatestIs
  <2> QED BY <2>1, <2>2
<1>7. Least(PricesOf(z)) = IF p < l THEN p ELSE l
  <2>1. CASE p < l
    <3>1. p \in PricesOf(z) /\ \A y \in PricesOf(z) : p <= y
      BY <1>5, <2>1
    <3> QED BY <1>5, <2>1, <3>1, LeastIs
  <2>2. CASE ~(p < l)
    <3>1. l \in PricesOf(z) /\ \A y \in PricesOf(z) : l <= y
      BY <1>5, <2>2
    <3> QED BY <1>5, <2>2, <3>1, LeastIs
  <2> QED BY <2>1, <2>2
<1>8. CashHeld(z) = CashHeld(s) + Held(m).cash /\ AssetHeld(z) = AssetHeld(s) + Held(m).asset
  BY HeldSums DEF z
<1>9. Cardinality(z) = Cardinality(s) + 1
  BY HeldSums, FS_AddElement DEF z
<1>10. Extended(HeldCandle(s), row[m], Held(m)) =
         [open |-> row[Least(Early(s))].price, high |-> IF p > h THEN p ELSE h,
          low |-> IF p < l THEN p ELSE l, close |-> p,
          cash |-> CashHeld(s) + Held(m).cash, asset |-> AssetHeld(s) + Held(m).asset,
          count |-> Cardinality(s) + 1]
  <2> DEFINE c == HeldCandle(s)
  <2>1. /\ c.open = row[Least(Early(s))].price /\ c.high = h /\ c.low = l
        /\ c.cash = CashHeld(s) /\ c.asset = AssetHeld(s) /\ c.count = Cardinality(s)
        /\ DOMAIN c = {"open", "high", "low", "close", "cash", "asset", "count"}
    BY DEF HeldCandle, h, l
  <2> HIDE DEF c
  <2> DEFINE x == Extended(c, row[m], Held(m))
  <2>2. x.open = row[Least(Early(s))].price /\ x.close = p
    BY <2>1 DEF Extended, p
  <2>3. x.high = (IF p > h THEN p ELSE h) /\ x.low = (IF p < l THEN p ELSE l)
    BY <2>1 DEF Extended, p
  <2>4. x.cash = CashHeld(s) + Held(m).cash /\ x.asset = AssetHeld(s) + Held(m).asset
    BY <2>1 DEF Extended
  <2>5. x.count = Cardinality(s) + 1
    BY <2>1 DEF Extended
  <2>6. x = [f \in {"open", "high", "low", "close", "cash", "asset", "count"} |-> x[f]]
    BY <2>1 DEF Extended
  <2> HIDE DEF x
  <2>7. x = [open |-> x.open, high |-> x.high, low |-> x.low, close |-> x.close,
             cash |-> x.cash, asset |-> x.asset, count |-> x.count]
    BY <2>6
  <2>8. x = [open |-> row[Least(Early(s))].price, high |-> IF p > h THEN p ELSE h,
             low |-> IF p < l THEN p ELSE l, close |-> p,
             cash |-> CashHeld(s) + Held(m).cash, asset |-> AssetHeld(s) + Held(m).asset,
             count |-> Cardinality(s) + 1]
    BY <2>2, <2>3, <2>4, <2>5, <2>7
  <2> QED BY <2>8 DEF x, c
<1>11. HeldCandle(z) =
         [open |-> row[Least(Early(s))].price, high |-> IF p > h THEN p ELSE h,
          low |-> IF p < l THEN p ELSE l, close |-> p,
          cash |-> CashHeld(s) + Held(m).cash, asset |-> AssetHeld(s) + Held(m).asset,
          count |-> Cardinality(s) + 1]
  BY <1>3, <1>4, <1>6, <1>7, <1>8, <1>9 DEF HeldCandle, p
<1> QED BY <1>10, <1>11 DEF z

---------------------------------------------------------------------------
(* The buckets: what they hold is what their rows say, whatever the order  *)
(* of the statements that left the rows.                                   *)

HeldBuckets(s, width) ==
  [b \in 0 .. MaxTime |-> IF InBucket(s, width, b) = {} THEN None
                          ELSE HeldCandle(InBucket(s, width, b))]

LEMMA HeldBucketsStep ==
  ASSUME TableInv, NEW s \in SUBSET PricedRows, s # {}, NEW width \in Width
  PROVE  HeldBuckets(s, width) = Added(HeldBuckets(s \ {LastRow(s)}, width), LastRow(s), width)
<1>1. PICK m : m = LastRow(s)
  OBVIOUS
<1> DEFINE rest == s \ {m}
           b == BucketOf(m, width)
           old == HeldBuckets(rest, width)
           new == HeldBuckets(s, width)
<1>2. m \in s /\ m \in PricedRows /\ \A n \in rest : Earlier(n, m)
  BY <1>1, LastRowIs
<1>3. b \in 0 .. MaxTime
  BY <1>2, BucketBegins DEF PricedRows
<1>4. ASSUME NEW c \in 0 .. MaxTime, c # b
      PROVE  new[c] = old[c]
  <2>1. InBucket(s, width, c) = InBucket(rest, width, c)
    BY <1>4 DEF InBucket
  <2> QED BY <2>1 DEF HeldBuckets
<1> DEFINE in == InBucket(rest, width, b)
<1>5. in \in SUBSET PricedRows /\ InBucket(s, width, b) = in \cup {m} /\ m \notin in
      /\ \A n \in in : Earlier(n, m)
  BY <1>2 DEF InBucket
<1>6. new[b] = HeldCandle(in \cup {m})
  BY <1>3, <1>5 DEF HeldBuckets
<1>7. old[b] = IF in = {} THEN None ELSE HeldCandle(in)
  BY <1>3 DEF HeldBuckets
<1> HIDE DEF in
<1>8. new[b] = IF old[b] = None THEN Opened(row[m], Held(m)) ELSE Extended(old[b], row[m], Held(m))
  <2>1. CASE in = {}
    <3>1. in \cup {m} = {m}
      BY <2>1
    <3> QED BY <1>2, <1>6, <1>7, <2>1, <3>1, OneRow
  <2>2. CASE in # {}
    <3>1. HeldCandle(in) # None
      BY <1>5, <2>2, HeldCandleType, CandlesAssumption
    <3>2. HeldCandle(in \cup {m}) = Extended(HeldCandle(in), row[m], Held(m))
      BY <1>2, <1>5, <2>2, OneMoreRow
    <3> QED BY <1>6, <1>7, <2>2, <3>1, <3>2
  <2> QED BY <2>1, <2>2
<1>9. Added(old, m, width) =
        [old EXCEPT ![b] = IF old[b] = None THEN Opened(row[m], Held(m))
                           ELSE Extended(old[b], row[m], Held(m))]
  BY DEF Added, Held
<1>10. /\ DOMAIN old = 0 .. MaxTime /\ DOMAIN new = 0 .. MaxTime
       /\ old = [c \in 0 .. MaxTime |-> old[c]] /\ new = [c \in 0 .. MaxTime |-> new[c]]
  BY DEF HeldBuckets
<1> HIDE DEF old, new, b
<1>11. new = [old EXCEPT ![b] = new[b]]
  BY <1>3, <1>4, <1>10
<1>12. new = Added(old, m, width)
  BY <1>8, <1>9, <1>11
<1> QED BY <1>1, <1>12 DEF old, new

(* The recursion of the fold, and its only solution.                       *)
FoldsRows(s, width, iter) ==
  iter = [t \in SUBSET s |-> IF t = {} THEN [b \in 0 .. MaxTime |-> None]
                             ELSE Added(iter[t \ {LastRow(t)}], LastRow(t), width)]

LEMMA BucketsAreFold ==
  ASSUME NEW s, NEW width
  PROVE  Buckets(s, width) = (CHOOSE iter : FoldsRows(s, width, iter))[s]
BY DEF Buckets, MapThenFoldSet, FoldsRows

LEMMA HeldBucketsFold ==
  ASSUME TableInv, NEW s \in SUBSET PricedRows, NEW width \in Width
  PROVE  FoldsRows(s, width, [t \in SUBSET s |-> HeldBuckets(t, width)])
<1> DEFINE iter == [t \in SUBSET s |-> HeldBuckets(t, width)]
<1>1. ASSUME NEW t \in SUBSET s
      PROVE  iter[t] = IF t = {} THEN [b \in 0 .. MaxTime |-> None]
                       ELSE Added(iter[t \ {LastRow(t)}], LastRow(t), width)
  <2>1. CASE t = {}
    <3>1. \A b : InBucket({}, width, b) = {}
      BY DEF InBucket
    <3>2. HeldBuckets({}, width) = [b \in 0 .. MaxTime |-> None]
      BY <3>1 DEF HeldBuckets
    <3> QED BY <2>1, <3>2
  <2>2. CASE t # {}
    <3>1. HeldBuckets(t, width) = Added(HeldBuckets(t \ {LastRow(t)}, width), LastRow(t), width)
      BY <2>2, HeldBucketsStep
    <3>2. iter[t] = HeldBuckets(t, width) /\ iter[t \ {LastRow(t)}] = HeldBuckets(t \ {LastRow(t)}, width)
      OBVIOUS
    <3> QED BY <2>2, <3>1, <3>2
  <2> QED BY <2>1, <2>2
<1>2. PICK k : k = iter
  OBVIOUS
<1>3. k = [t \in SUBSET s |-> k[t]]
  BY <1>2
<1>4. \A t \in SUBSET s : k[t] = IF t = {} THEN [b \in 0 .. MaxTime |-> None]
                                 ELSE Added(k[t \ {LastRow(t)}], LastRow(t), width)
  BY <1>1, <1>2
<1> HIDE DEF iter
<1>5. FoldsRows(s, width, k)
  BY <1>3, <1>4 DEF FoldsRows
<1> QED BY <1>2, <1>5 DEF iter

LEMMA FoldsRowsOnce ==
  ASSUME TableInv, NEW s \in SUBSET PricedRows, NEW width,
         NEW i, FoldsRows(s, width, i), NEW j, FoldsRows(s, width, j)
  PROVE  i = j
<1> DEFINE Fails == {t \in SUBSET s : i[t] # j[t]}
<1>1. ASSUME Fails # {} PROVE FALSE
  <2>1. IsFiniteSet(s) /\ Fails \in SUBSET (SUBSET s)
    BY HeldSums
  <2> HIDE DEF Fails
  <2>2. PICK t \in SUBSET s : t \in Fails /\ \A u \in SUBSET t : u # t => u \notin Fails
    BY <1>1, <2>1, SmallestFailure
  <2>3. CASE t = {}
    BY <2>2, <2>3 DEF FoldsRows, Fails
  <2>4. CASE t # {}
    <3>1. PICK m : m = LastRow(t)
      OBVIOUS
    <3>2. m \in t /\ t \ {m} \in SUBSET t /\ t \ {m} # t
      BY <2>4, <3>1, LastRowIs
    <3>3. i[t] = Added(i[t \ {m}], m, width) /\ j[t] = Added(j[t \ {m}], m, width)
      BY <2>4, <3>1 DEF FoldsRows
    <3>4. i[t \ {m}] = j[t \ {m}]
      BY <2>2, <3>2 DEF Fails
    <3> QED BY <2>2, <3>3, <3>4 DEF Fails
  <2> QED BY <2>3, <2>4
<1>2. i = [t \in SUBSET s |-> i[t]] /\ j = [t \in SUBSET s |-> j[t]]
  BY DEF FoldsRows
<1> QED BY <1>1, <1>2

(* What buildCandles has in its buckets after the last row.                *)
LEMMA BucketsHold ==
  ASSUME TableInv, NEW s \in SUBSET PricedRows, NEW width \in Width
  PROVE  Buckets(s, width) = HeldBuckets(s, width)
<1> DEFINE i == [t \in SUBSET s |-> HeldBuckets(t, width)]
           j == CHOOSE iter : FoldsRows(s, width, iter)
<1>1. FoldsRows(s, width, i) /\ i[s] = HeldBuckets(s, width)
  BY HeldBucketsFold
<1> HIDE DEF i
<1>2. FoldsRows(s, width, j)
  BY <1>1
<1> HIDE DEF j
<1>3. j = i
  BY <1>1, <1>2, FoldsRowsOnce
<1> QED BY <1>1, <1>3, BucketsAreFold DEF j

(* The candle a listed pair's rows make up is the one their trades define. *)
LEMMA HeldIsTraded ==
  ASSUME TableInv, NEW s \in SUBSET PricedRows, \A m \in s : PairOf[m] \in Listed
  PROVE  HeldCandle(s) = CandleOf(s)
<1>1. \A m \in s : Held(m) = row[m].traded
  BY RowVolumes DEF Held
<1>2. /\ [m \in s |-> Held(m).cash] = [m \in s |-> row[m].traded.cash]
      /\ [m \in s |-> Held(m).asset] = [m \in s |-> row[m].traded.asset]
  BY <1>1
<1> QED BY <1>2 DEF HeldCandle, CandleOf, Early, Late, PricesOf, CashHeld, AssetHeld

---------------------------------------------------------------------------
(* The rows that were read, and those that were not.                       *)

LEMMA SelectedRows ==
  ASSUME NEW pair, NEW limit, NEW s \in Selected(pair, limit)
  PROVE  /\ s \in SUBSET Settled(pair)
         /\ WithPrice(s) \in SUBSET PricedRows /\ WithPrice(Settled(pair)) \in SUBSET PricedRows
         /\ \A m \in s, u \in Settled(pair) \ s : ~Before(u, m)
<1>1. s \in SUBSET Settled(pair) /\ \A m \in s, u \in Settled(pair) \ s : ~Before(u, m)
  BY DEF Selected, Latest
<1> QED BY <1>1 DEF WithPrice, PricedRows, Settled

(* Rows that were not read are not newer than any stamped one that was:    *)
(* those without a stamp come first, and were all read before it.          *)
LEMMA UnreadIsOlder ==
  ASSUME TableInv, NEW pair, NEW limit, NEW s \in Selected(pair, limit),
         NEW m \in s, row[m].at # None, NEW u \in Settled(pair) \ s
  PROVE  RowTime(u) <= RowTime(m)
<1>1. m \in Match /\ row[m] # None /\ u \in Match /\ row[u] # None /\ m \in Settled(pair)
  BY SelectedRows DEF Settled
<1>2. row[m].at # None /\ row[u].at # None /\ ~Before(u, m)
  BY <1>1, SelectedRows DEF Before
<1>3. RowTime(u) = row[u].at /\ RowTime(m) = row[m].at /\ ~(row[u].at > row[m].at)
  BY <1>2 DEF RowTime, Before
<1>4. RowTime(u) \in Nat /\ RowTime(m) \in Nat
  <2>1. RowTime(u) \in 0 .. MaxTime /\ RowTime(m) \in 0 .. MaxTime
    BY <1>1, RowTimeType
  <2> QED BY <2>1, CandlesAssumption
<1> QED BY <1>3, <1>4

(* The times and candles of an answer.                                     *)
FilledTimes(s, width) == {b \in 0 .. MaxTime : InBucket(WithPrice(s), width, b) # {}}

LEMMA Answer ==
  ASSUME TableInv, NEW pair, NEW limit, NEW s \in Selected(pair, limit), NEW width \in Width
  PROVE  /\ DOMAIN BuildCandles(s, width, limit) = Newest(FilledTimes(s, width), limit)
         /\ \A b \in Newest(FilledTimes(s, width), limit) :
              BuildCandles(s, width, limit)[b] = HeldCandle(InBucket(WithPrice(s), width, b))
<1> DEFINE rows == WithPrice(s)
           buckets == Buckets(rows, width)
           times == {b \in 0 .. MaxTime : InBucket(rows, width, b) # {}}
<1>1. rows \in SUBSET PricedRows
  BY SelectedRows
<1>2. buckets = HeldBuckets(rows, width)
  BY <1>1, BucketsHold
<1>3. DOMAIN buckets = 0 .. MaxTime
  BY <1>2 DEF HeldBuckets
<1>4. \A b \in times : buckets[b] = HeldCandle(InBucket(rows, width, b))
  BY <1>2 DEF HeldBuckets
<1>5. ASSUME NEW b \in 0 .. MaxTime PROVE buckets[b] # None <=> b \in times
  <2>1. CASE b \in times
    <3>1. InBucket(rows, width, b) \in SUBSET PricedRows /\ InBucket(rows, width, b) # {}
      BY <1>1, <2>1 DEF InBucket
    <3>2. HeldCandle(InBucket(rows, width, b)) \in Candle
      BY <3>1, HeldCandleType
    <3> QED BY <1>4, <2>1, <3>2, CandlesAssumption
  <2>2. CASE b \notin times
    <3>1. buckets[b] = None
      BY <1>2, <2>2 DEF HeldBuckets
    <3> QED BY <2>2, <3>1
  <2> QED BY <2>1, <2>2
<1> HIDE DEF buckets, rows
<1>6. {b \in DOMAIN buckets : buckets[b] # None} = times
  BY <1>3, <1>5
<1>7. BuildCandles(s, width, limit) = [b \in Newest(times, limit) |-> buckets[b]]
  BY <1>6 DEF BuildCandles, buckets, rows
<1>8. \A b \in Newest(times, limit) : b \in times
  BY DEF Newest
<1>9. FilledTimes(s, width) = times
  BY DEF FilledTimes, rows
<1> QED BY <1>4, <1>7, <1>8, <1>9 DEF rows

LEMMA CandlesAreWhole ==
  ASSUME TableInv, NEW pair \in Pairs \cap Listed, NEW width \in Width, NEW limit \in Limit,
         NEW s \in Selected(pair, limit)
  PROVE  WholeCandles(BuildCandles(s, width, limit), s, pair, width)
<1> SUFFICES ASSUME NEW b \in DOMAIN BuildCandles(s, width, limit),
                    s = Settled(pair) \/ (\E m \in s : row[m].at # None /\ RowTime(m) < b)
             PROVE  BuildCandles(s, width, limit)[b] =
                      CandleOf({m \in WithPrice(Settled(pair)) : BucketOf(m, width) = b})
  BY DEF WholeCandles
<1> DEFINE times == FilledTimes(s, width)
           all == WithPrice(Settled(pair))
<1>1. BuildCandles(s, width, limit)[b] = HeldCandle(InBucket(WithPrice(s), width, b)) /\ b \in times
  <2>1. b \in Newest(times, limit)
    BY Answer
  <2>2. \A c \in Newest(times, limit) :
          BuildCandles(s, width, limit)[c] = HeldCandle(InBucket(WithPrice(s), width, c))
    BY Answer
  <2>3. b \in times
    BY <2>1 DEF Newest
  <2> QED BY <2>1, <2>2, <2>3
<1>2. ASSUME NEW u \in all, BucketOf(u, width) = b PROVE u \in s
  <2>1. CASE s = Settled(pair)
    BY <2>1 DEF WithPrice
  <2>2. CASE \E m \in s : row[m].at # None /\ RowTime(m) < b
    <3>1. PICK m \in s : row[m].at # None /\ RowTime(m) < b
      BY <2>2
    <3>2. u \in Settled(pair) /\ u \in Match /\ row[u] # None /\ m \in Match /\ row[m] # None
      BY SelectedRows DEF WithPrice, Settled
    <3>3. b <= RowTime(u) /\ b \in Nat /\ RowTime(m) \in Nat /\ RowTime(u) \in Nat
      <4>1. b <= RowTime(u) /\ b \in 0 .. MaxTime
        BY <1>2, <3>2, BucketBegins
      <4>2. RowTime(u) \in 0 .. MaxTime /\ RowTime(m) \in 0 .. MaxTime
        BY <3>2, RowTimeType
      <4> QED BY <4>1, <4>2, CandlesAssumption
    <3>4. u \notin s => RowTime(u) <= RowTime(m)
      BY <3>1, <3>2, UnreadIsOlder
    <3> QED BY <3>1, <3>3, <3>4
  <2> QED BY <2>1, <2>2
<1>3. InBucket(WithPrice(s), width, b) = {m \in all : BucketOf(m, width) = b}
  BY <1>2, SelectedRows DEF InBucket, WithPrice
<1>4. /\ {m \in all : BucketOf(m, width) = b} \in SUBSET PricedRows
      /\ \A m \in {n \in all : BucketOf(n, width) = b} : PairOf[m] \in Listed
  BY SelectedRows DEF WithPrice, Settled
<1> QED BY <1>1, <1>3, <1>4, HeldIsTraded

(* A bucket no older than one of the newest is one of the newest.          *)
LEMMA NewestUpward ==
  ASSUME NEW times \in SUBSET (0 .. MaxTime), NEW limit \in Nat,
         NEW b \in Newest(times, limit), NEW c \in times, b <= c
  PROVE  c \in Newest(times, limit)
<1> DEFINE above(d) == {e \in times : e > d}
<1>1. /\ times \subseteq Nat /\ b \in Nat /\ c \in Nat /\ Cardinality(above(b)) < limit
      /\ IsFiniteSet(times)
  <2>1. IsFiniteSet(0 .. MaxTime) /\ 0 .. MaxTime \subseteq Nat
    BY FS_Interval, CandlesAssumption
  <2> QED BY <2>1, FS_Subset DEF Newest
<1>2. above(c) \subseteq above(b)
  <2>1. ASSUME NEW e \in times, e > c PROVE e > b
    <3>1. e \in Nat
      BY <1>1
    <3> QED BY <1>1, <2>1, <3>1
  <2> QED BY <2>1
<1>3. IsFiniteSet(above(b))
  BY <1>1, FS_Subset
<1>4. Cardinality(above(c)) <= Cardinality(above(b)) /\ IsFiniteSet(above(c))
  BY <1>2, <1>3, FS_Subset
<1>5. Cardinality(above(c)) \in Nat /\ Cardinality(above(b)) \in Nat
  BY <1>3, <1>4, FS_CardinalityType
<1>6. Cardinality(above(c)) < limit
  BY <1>1, <1>4, <1>5
<1> QED BY <1>6 DEF Newest

LEMMA AnswersHaveNoHoles ==
  ASSUME TableInv, NEW pair \in Pairs, NEW width \in Width, NEW limit \in Limit,
         NEW s \in Selected(pair, limit)
  PROVE  NoHoles(DOMAIN BuildCandles(s, width, limit), s, pair, width)
<1> SUFFICES ASSUME NEW m \in WithPrice(Settled(pair)), NEW n \in WithPrice(s),
                    s = Settled(pair) \/ row[n].at # None,
                    BucketOf(n, width) \in DOMAIN BuildCandles(s, width, limit),
                    BucketOf(n, width) <= RowTime(m)
             PROVE  BucketOf(m, width) \in DOMAIN BuildCandles(s, width, limit)
  BY DEF NoHoles
<1> DEFINE times == FilledTimes(s, width)
           b == BucketOf(n, width)
           c == BucketOf(m, width)
<1>1. DOMAIN BuildCandles(s, width, limit) = Newest(times, limit)
  BY Answer
<1>2. b \in Newest(times, limit) /\ b \in times /\ b \in 0 .. MaxTime
  BY <1>1 DEF Newest, FilledTimes
<1>4. /\ m \in Match /\ row[m] # None /\ m \in Settled(pair)
      /\ n \in Match /\ row[n] # None /\ n \in s
  BY SelectedRows DEF WithPrice, Settled
<1>5. c \in 0 .. MaxTime /\ c <= RowTime(m) /\ b <= c
  BY <1>4, BucketBegins
<1>6. CASE m \in s
  <2>1. c \in times
    BY <1>5, <1>6 DEF InBucket, WithPrice, FilledTimes
  <2>2. times \in SUBSET (0 .. MaxTime) /\ limit \in Nat
    BY CandlesAssumption DEF FilledTimes
  <2> HIDE DEF times, c
  <2>3. c \in Newest(times, limit)
    BY <1>2, <1>5, <2>1, <2>2, NewestUpward
  <2> QED BY <1>1, <2>3 DEF c
<1>7. CASE m \notin s
  <2>1. row[n].at # None
    BY <1>4, <1>7
  <2>2. RowTime(m) <= RowTime(n)
    BY <1>4, <1>7, <2>1, UnreadIsOlder
  <2>3. c <= RowTime(n)
    <3>1. RowTime(m) \in 0 .. MaxTime /\ RowTime(n) \in 0 .. MaxTime
      BY <1>4, RowTimeType
    <3> QED BY <1>5, <2>2, <3>1, CandlesAssumption
  <2>4. c <= b
    BY <1>4, <2>3, BucketBegins
  <2>5. c = b
    BY <1>2, <1>5, <2>4, CandlesAssumption
  <2> QED BY <1>1, <1>2, <2>5
<1> QED BY <1>6, <1>7

(* GET /markets/:pairId/candles answers with whole candles, but for the    *)
(* oldest, and leaves none out, however many matches, pairs and rows there *)
(* are, and whatever the writers of the table have done to them: the bound *)
(* on the rows and the limit on the candles cut at one end only.           *)
THEOREM AnswersAreTrue == TableSpec => []CandlesAreTrue
<1>1. TableInv => CandlesAreTrue
  BY CandlesAreWhole, AnswersHaveNoHoles DEF CandlesAreTrue
<1> QED BY <1>1, TableStart, TableStep, PTL DEF TableSpec

=============================================================================
