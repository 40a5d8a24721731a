------------------------------ MODULE Auction ------------------------------
(* The uniform-clearing auction of one batch and one pair: runAuction of    *)
(* shared/auction/auction.ts with the integer arithmetic of pricing.ts.     *)
(* One behaviour is one call: rank both sides, count the crossing prefix,   *)
(* fix the clearing price, fill pair by pair.  All orders of a call have    *)
(* the same decimals (matching/runner.ts passes one value for the batch),   *)
(* so 10^cashDecimals and 10^assetDecimals are constants here.              *)
EXTENDS Units, SequencesExt

CONSTANTS
    Buyer, Seller,       \* ids of the orders on each side
    Amount               \* amounts an order may deposit or request

ASSUME SidesAssumption ==
    /\ Buyer \cap Seller = {}
    /\ IsFiniteSet(Buyer) /\ IsFiniteSet(Seller)
ASSUME AmountAssumption == Amount \subseteq Nat

VARIABLES
    deposit, request,    \* remainingDeposit and remainingRequest of each order
    buys, sells,         \* the ranked sides
    crossed,             \* length of the crossing prefix: i and j of the code
    clearing,            \* clearingScaled
    bi, si,              \* the pair being filled, from 1
    buyRemAsset, buyRemCash, sellRemAsset,
    matches,
    pc                   \* "rank", "cross", "fill" or "done"

orders == <<deposit, request>>
ranking == <<buys, sells>>
filling == <<bi, si, buyRemAsset, buyRemCash, sellRemAsset, matches>>
vars == <<orders, ranking, crossed, clearing, filling, pc>>

Order == Buyer \cup Seller

TypeOK ==
    /\ deposit \in [Order -> Amount] /\ request \in [Order -> Amount]
    /\ buys \in Seq(Buyer) /\ sells \in Seq(Seller)
    /\ {crossed, clearing, buyRemAsset, buyRemCash, sellRemAsset} \subseteq Nat
    /\ bi \in 1..crossed + 1 /\ si \in 1..crossed + 1
    /\ matches \in Seq([buy : Buyer, sell : Seller, asset : Nat, cash : Nat])
    /\ pc \in {"rank", "cross", "fill", "done"}
    /\ \A m \in ToSet(matches) : m.asset > 0
    /\ matches # <<>> => Len(matches) < 2 * crossed

-----------------------------------------------------------------------------
(* Prices.  A buyer deposits cash and requests assets; a seller the reverse. *)
(* Operators named ...Bug are the slips the properties below are tried       *)
(* against; nothing here uses them.                                          *)

\* priceQuotePerBaseScaled: cash per asset, scaled and rounded down.
Price(o) ==
    IF o \in Buyer
    THEN (deposit[o] * AssetUnit * PriceScale) \div (request[o] * CashUnit)
    ELSE (request[o] * AssetUnit * PriceScale) \div (deposit[o] * CashUnit)

Live(side) == {o \in side : deposit[o] > 0 /\ request[o] > 0}

RankedBuysBug ==
    {s \in SetToSeqs(Live(Buyer)) :
        \A n \in 1..Len(s) - 1 : Price(s[n]) <= Price(s[n + 1])}

\* The comparators never return 0, so orders of one price come out in an
\* order that depends on how the database returned the rows: any order.
RankedBuys ==
    {s \in SetToSeqs(Live(Buyer)) :
        \A n \in 1..Len(s) - 1 : Price(s[n]) >= Price(s[n + 1])}

RankedSells ==
    {s \in SetToSeqs(Live(Seller)) :
        \A n \in 1..Len(s) - 1 : Price(s[n]) <= Price(s[n + 1])}

\* The n-th best buyer pays at least what the n-th best seller asks.
CrossesBug(n) == n <= Len(buys) /\ n <= Len(sells)

Crosses(n) ==
    /\ n <= Len(buys) /\ n <= Len(sells)
    /\ Price(buys[n]) >= Price(sells[n])

Midpoint == (Price(buys[crossed]) + Price(sells[crossed])) \div 2

\* The cash for a quantity of assets at the clearing price, rounded down.
QuoteUnscaledBug(asset) ==
    (asset * (clearing \div PriceScale) * CashUnit) \div AssetUnit

QuoteUpBug(asset) ==
    (asset * clearing * CashUnit + PriceScale * AssetUnit - 1) \div (PriceScale * AssetUnit)

Quote(asset) == (asset * clearing * CashUnit) \div (PriceScale * AssetUnit)

\* What the current pair trades: the smaller remainder, cut down to the
\* assets the buyer's cash is worth if the quote exceeds it.
Traded ==
    LET wanted == IF buyRemAsset < sellRemAsset THEN buyRemAsset ELSE sellRemAsset
        cash == Quote(wanted)
    IN  IF cash <= buyRemCash
        THEN [asset |-> wanted, cash |-> cash]
        ELSE [asset |-> (buyRemCash * PriceScale * AssetUnit) \div (clearing * CashUnit),
              cash |-> buyRemCash]

\* buys[bi]?.o.remainingRequest ?? 0n, and the like.
AmountAt(amount, side, n) == IF n <= Len(side) THEN amount[side[n]] ELSE 0

-----------------------------------------------------------------------------
Init ==
    /\ deposit \in [Order -> Amount] /\ request \in [Order -> Amount]
    /\ buys = <<>> /\ sells = <<>>
    /\ crossed = 0 /\ clearing = 0
    /\ bi = 1 /\ si = 1
    /\ buyRemAsset = 0 /\ buyRemCash = 0 /\ sellRemAsset = 0
    /\ matches = <<>>
    /\ pc = "rank"

\* Filter and sort both sides; an empty side or best prices that do not
\* cross end the call without a match.
Rank ==
    /\ pc = "rank"
    /\ UNCHANGED <<orders, crossed, clearing, filling>>
    /\ buys' \in RankedBuys /\ sells' \in RankedSells
    /\ pc' = IF Crosses(1)' THEN "cross" ELSE "done"

\* One iteration of the crossing loop.
Cross ==
    /\ pc = "cross" /\ Crosses(crossed + 1)
    /\ crossed' = crossed + 1
    /\ UNCHANGED <<orders, ranking, clearing, filling, pc>>

\* The loop ends: midpoint of the marginal prices, and the first pair.
Clear ==
    /\ pc = "cross" /\ ~Crosses(crossed + 1)
    /\ clearing' = Midpoint
    /\ buyRemAsset' = request[buys[1]] /\ buyRemCash' = deposit[buys[1]]
    /\ sellRemAsset' = deposit[sells[1]]
    /\ pc' = "fill"
    /\ UNCHANGED <<orders, ranking, crossed, bi, si, matches>>

\* The pair's remainders after the trade; a side with nothing left moves on.
NextBuy(asset, cash) ==
    IF asset = 0 \/ cash = 0
    THEN /\ bi' = bi + 1
         /\ buyRemAsset' = AmountAt(request, buys, bi + 1)
         /\ buyRemCash' = AmountAt(deposit, buys, bi + 1)
    ELSE UNCHANGED bi /\ buyRemAsset' = asset /\ buyRemCash' = cash

NextSellEagerBug(asset) ==
    si' = si + 1 /\ sellRemAsset' = AmountAt(deposit, sells, si + 1)

NextSell(asset) ==
    IF asset = 0
    THEN si' = si + 1 /\ sellRemAsset' = AmountAt(deposit, sells, si + 1)
    ELSE UNCHANGED si /\ sellRemAsset' = asset

\* One iteration of the fill loop.
Fill ==
    /\ pc = "fill" /\ bi <= crossed /\ si <= crossed
    /\ LET t == Traded
       IN  /\ matches' = Append(matches, [buy |-> buys[bi], sell |-> sells[si],
                                          asset |-> t.asset, cash |-> t.cash])
           /\ NextBuy(buyRemAsset - t.asset, buyRemCash - t.cash)
           /\ NextSell(sellRemAsset - t.asset)
    /\ UNCHANGED <<orders, ranking, crossed, clearing, pc>>

Finish ==
    /\ pc = "fill" /\ ~(bi <= crossed /\ si <= crossed)
    /\ pc' = "done"
    /\ UNCHANGED <<orders, ranking, crossed, clearing, filling>>

Next == Rank \/ Cross \/ Clear \/ Fill \/ Finish

Spec == Init /\ [][Next]_vars

-----------------------------------------------------------------------------
(* What the fills add up to.                                                *)

Assets(fills) == SumFunctionOnSet([i \in DOMAIN matches |-> matches[i].asset], fills)
Cash(fills) == SumFunctionOnSet([i \in DOMAIN matches |-> matches[i].cash], fills)
FillsOf(o) == {i \in DOMAIN matches : o \in {matches[i].buy, matches[i].sell}}

AssetGoal(o) == IF o \in Buyer THEN request[o] ELSE deposit[o]
Total(amount, side, n) == SumFunctionOnSet([k \in DOMAIN side |-> amount[side[k]]], 1..n)

\* No buyer pays above the limit price in any fill or more cash than was
\* deposited, although every fill is rounded and the clearing price is
\* rounded too; and the cap on the quote (auction.ts:31) is never needed.
BuyersCovered ==
    /\ \A m \in ToSet(matches) :
          m.cash * request[m.buy] <= m.asset * deposit[m.buy]
    /\ \A b \in Buyer : Cash(FillsOf(b)) <= deposit[b]
    /\ pc = "fill" /\ bi <= crossed /\ si <= crossed => Traded.cash = Quote(Traded.asset)

\* Over all its fills a seller gets the limit price, short of one unit of
\* cash for each fill and of one unit of the scaled price: the losses of
\* the roundings (pricing.ts:9, auction.ts:30) do not accumulate further.
SellersGetTheirPrice ==
    \A s \in Seller :
        LET fills == FillsOf(s)
        IN  fills # {} =>
            (Cash(fills) + Cardinality(fills)) * PriceScale * AssetUnit * deposit[s]
              > Assets(fills) * (request[s] * AssetUnit * PriceScale - deposit[s] * CashUnit)

\* The state stays in its types, and every order that trades, not only the
\* marginal pair, accepts the one price at which all fills are quoted.
ClearingIsFair ==
    /\ TypeOK
    /\ \A m \in ToSet(matches) : Price(m.sell) <= clearing /\ clearing <= Price(m.buy)

\* An order is not served before an order of its side with a strictly
\* better price has all it asked for, and nobody trades beyond the order.
PricePriority ==
    /\ \A o \in Order : Assets(FillsOf(o)) <= AssetGoal(o)
    /\ \A a, b \in Order :
          /\ FillsOf(b) # {} /\ AssetGoal(a) > 0
          /\ \/ {a, b} \subseteq Live(Buyer) /\ Price(a) > Price(b)
             \/ {a, b} \subseteq Live(Seller) /\ Price(a) < Price(b)
          => Assets(FillsOf(a)) = AssetGoal(a)

\* The call leaves nothing to trade within the crossing prefix: the assets
\* that change hands are the smaller of what the prefix's buyers request and
\* its sellers offer.
PrefixExhausted ==
    pc = "done" /\ crossed > 0 =>
        LET wanted == Total(request, buys, crossed)
            offered == Total(deposit, sells, crossed)
        IN  Assets(DOMAIN matches) = IF wanted < offered THEN wanted ELSE offered
=============================================================================
