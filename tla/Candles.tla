------------------------------ MODULE Candles ------------------------------
(***************************************************************************)
(* Market candles: GET /markets/:pairId/candles (matcher/src/http/         *)
(* server.ts) reads the newest settled rows of the matches table and       *)
(* buildCandles (matcher/src/markets/candles.ts) folds them into intervals.*)
(* The table is written by the matcher, the indexer, the settler and the   *)
(* rollback; each of their statements on a row is an action here, so that  *)
(* the fold is tried on every table they can leave behind.  Times are      *)
(* whole seconds, as the fold rounds them.                                 *)
(***************************************************************************)
EXTENDS Units, FiniteSets, Functions, Folds

CONSTANTS
  Match,        \* match ids
  PairOf,       \* the pair of each match
  Listed,       \* pairs of the deployment, whose decimals are known
  Prices,       \* clearingPriceNum, over the fixed denominator PriceScale
  Quantity,     \* amounts of the asset a match may trade
  Width,        \* CANDLE_INTERVALS, in seconds
  Limit,        \* values parseCandleLimit returns
  RowsPerCandle, MaxRows,            \* 100 and 5000: the bound on the rows read
  None,
  MaxTime       \* bound of the model: seconds

(* A candle: its prices, its volumes and the number of its matches.        *)
Candle == [open : Nat, high : Nat, low : Nat, close : Nat, cash : Nat, asset : Nat, count : Nat]

ASSUME CandlesAssumption ==
  /\ IsFiniteSet(Match) /\ Match \subseteq Nat
  /\ Prices \subseteq Nat /\ Quantity \subseteq Nat
  /\ Width \cup Limit \subseteq Nat \ {0}
  /\ {RowsPerCandle, MaxRows} \subseteq Nat \ {0} /\ MaxTime \in Nat
  /\ None \notin Nat \cup Candle

VARIABLES
  now,
  row           \* matches: None or [status, published, at, price, base, quote],
                \* at being settled_at, and what was [traded] as history

tableVars == <<now, row>>

Pairs == {PairOf[m] : m \in Match}

(* What a match at price p pays for an amount of the asset.                *)
CashFor(asset, p) == (asset * p * CashUnit) \div (PriceScale * AssetUnit)

(* The indexer's row of a match has no price and no amounts; the matcher's *)
(* has cash in base_filled and asset in quote_filled.                      *)
Unpriced(published) ==
  [status |-> "PENDING", published |-> published, at |-> None,
   price |-> None, base |-> None, quote |-> None, traded |-> None]
Priced(asset, p) ==
  [Unpriced(now) EXCEPT !.price = p, !.base = CashFor(asset, p), !.quote = asset,
                        !.traded = [cash |-> CashFor(asset, p), asset |-> asset]]

(* Rows an earlier release left have the two the other way round.          *)
Legacy(asset, p) ==
  [Priced(asset, p) EXCEPT !.status = "SETTLED", !.at = 0, !.base = asset, !.quote = CashFor(asset, p)]

TableInit ==
  /\ now = 0
  /\ row \in [Match -> {None} \cup {Legacy(asset, p) : asset \in Quantity, p \in Prices}]

---------------------------------------------------------------------------
(* The table.  PENDING stands for every status but SETTLED.                *)

(* onBatchClosed: its upsert keeps settled_at.                             *)
Record(m) ==
  /\ \E asset \in Quantity, p \in Prices :
       row' = [row EXCEPT ![m] = IF row[m] = None THEN Priced(asset, p)
                                 ELSE [Priced(asset, p) EXCEPT !.at = row[m].at]]
  /\ UNCHANGED now

(* MatchPublished, live, late or replayed: the status the match has on the *)
(* chain by now, the time of its block, and no settled_at; the upsert      *)
(* keeps price and amounts.                                                *)
Publish(m) ==
  /\ \E status \in {"PENDING", "SETTLED"}, published \in 0 .. now :
       LET r == IF row[m] = None THEN Unpriced(published) ELSE row[m]
       IN  row' = [row EXCEPT ![m] = [r EXCEPT !.status = status, !.published = published, !.at = None]]
  /\ UNCHANGED now

(* The settler finds the match settled on the chain and labels its row.    *)
Label(m) ==
  /\ row[m] # None /\ row[m].status = "PENDING"
  /\ row' = [row EXCEPT ![m].status = "SETTLED"]
  /\ UNCHANGED now

(* settleOneMatch and MatchSettled both stamp the row with their own time; *)
(* the second one moves it.                                                *)
Settle(m) ==
  /\ row[m] # None
  /\ row' = [row EXCEPT ![m].status = "SETTLED", ![m].at = now]
  /\ UNCHANGED now

(* A reorganisation takes back the settlement or the whole match.          *)
Rollback(m) ==
  /\ row[m] # None
  /\ row' \in {[row EXCEPT ![m] = None],
               [row EXCEPT ![m].status = "PENDING", ![m].at = None]}
  /\ UNCHANGED now

Tick == now < MaxTime /\ now' = now + 1 /\ UNCHANGED row

TableNext == Tick \/ \E m \in Match : Record(m) \/ Publish(m) \/ Label(m) \/ Settle(m) \/ Rollback(m)

TableSpec == TableInit /\ [][TableNext]_tableVars

---------------------------------------------------------------------------
(* The query.                                                              *)

Lesser(a, b) == IF a < b THEN a ELSE b

Settled(pair) == {m \in Match : PairOf[m] = pair /\ row[m] # None /\ row[m].status = "SETTLED"}

(* ORDER BY settled_at DESC LIMIT n: rows without a settled_at come first, *)
(* and the database may take any of the rows that tie for the last places. *)
Before(u, m) == row[m].at # None /\ (row[u].at = None \/ row[u].at > row[m].at)

Latest(all, n) == {s \in SUBSET all : Cardinality(s) = n /\ \A m \in s, u \in all \ s : ~Before(u, m)}
Selected(pair, limit) ==
  LET all == Settled(pair)
  IN  Latest(all, Lesser(Lesser(limit * RowsPerCandle, MaxRows), Cardinality(all)))

---------------------------------------------------------------------------
(* buildCandles.                                                           *)

Distance(a, b) == IF a < b THEN b - a ELSE a - b

(* priceVolumeError                                                        *)
PriceErrorBug(cash, asset, p) == Distance(cash * PriceScale, asset * p)
PriceError(cash, asset, p) == Distance(cash * PriceScale * AssetUnit, asset * p * CashUnit)

(* normalizeVolumes: an earlier release wrote the fills in reverse order.  *)
Volumes(r, listed) ==
  IF listed /\ PriceError(r.quote, r.base, r.price) < PriceError(r.base, r.quote, r.price)
    THEN [cash |-> r.quote, asset |-> r.base] ELSE [cash |-> r.base, asset |-> r.quote]

RowTime(m) == IF row[m].at = None THEN row[m].published ELSE row[m].at
BucketOf(m, width) == (RowTime(m) \div width) * width

(* isSettledMatchWithPrice, of rows the query returned.                    *)
WithPrice(s) == {m \in s : row[m].price # None}

EarlierBug(m, n) == m < n
Earlier(m, n) == RowTime(m) < RowTime(n) \/ (RowTime(m) = RowTime(n) /\ m < n)

(* The row a loop over the sorted rows comes to last.                      *)
LastRow(s) == CHOOSE m \in s : \A n \in s \ {m} : Earlier(n, m)

(* The candle a row opens, and the one it is folded into.                  *)
Opened(r, v) ==
  [open |-> r.price, high |-> r.price, low |-> r.price, close |-> r.price,
   cash |-> v.cash, asset |-> v.asset, count |-> 1]
Extended(c, r, v) ==
  [c EXCEPT !.high = IF r.price > @ THEN r.price ELSE @,
            !.low = IF r.price < @ THEN r.price ELSE @,
            !.close = r.price,
            !.cash = @ + v.cash, !.asset = @ + v.asset, !.count = @ + 1]

(* One row folded into the buckets, a function of their times.             *)
Added(buckets, m, width) ==
  LET r == row[m]
      v == Volumes(r, PairOf[m] \in Listed)
  IN  [buckets EXCEPT ![BucketOf(m, width)] =
         IF @ = None THEN Opened(r, v) ELSE Extended(@, r, v)]

Buckets(s, width) ==
  MapThenFoldSet(LAMBDA m, buckets : Added(buckets, m, width), [b \in 0 .. MaxTime |-> None],
                 LAMBDA m : m, LastRow, s)

(* slice(-limit) of the buckets in ascending order.                        *)
Newest(times, limit) ==
  {b \in times : Cardinality({c \in times : c > b}) < limit}

(* The answer: candles by the time of their bucket.                        *)
BuildCandles(s, width, limit) ==
  LET buckets == Buckets(WithPrice(s), width)
      times == {b \in DOMAIN buckets : buckets[b] # None}
  IN  [b \in Newest(times, limit) |-> buckets[b]]

---------------------------------------------------------------------------
(* Properties.                                                             *)

MatchRow ==
  [status : {"PENDING", "SETTLED"}, published : 0 .. MaxTime, at : {None} \cup 0 .. MaxTime,
   price : {None} \cup Prices, base : {None} \cup Nat, quote : {None} \cup Nat,
   traded : {None} \cup [cash : Nat, asset : Nat]]

TableTypeOK ==
  /\ now \in 0 .. MaxTime
  /\ row \in [Match -> {None} \cup MatchRow]

(* The table keeps its types, and normalizeVolumes recovers what a match   *)
(* of a listed pair traded, whichever of the two releases wrote its row    *)
(* (candles.ts:133, "legacy rows that stored cash and asset fills in       *)
(* reverse order").                                                        *)
VolumesRecovered ==
  /\ TableTypeOK
  /\ \A m \in Match : row[m] # None /\ row[m].price # None =>
       Volumes(row[m], TRUE) = row[m].traded

Least(s) == CHOOSE x \in s : \A y \in s : x <= y
Greatest(s) == CHOOSE x \in s : \A y \in s : x >= y

(* The candle of a set of matches, by its definition: the first and the    *)
(* last of them, the extremes of their prices, and what they traded.       *)
CandleOf(s) ==
  LET early == {m \in s : \A n \in s : RowTime(m) <= RowTime(n)}
      late == {m \in s : \A n \in s : RowTime(m) >= RowTime(n)}
      prices == {row[m].price : m \in s}
  IN  [open |-> row[Least(early)].price, high |-> Greatest(prices),
       low |-> Least(prices), close |-> row[Greatest(late)].price,
       cash |-> SumFunctionOnSet([m \in s |-> row[m].traded.cash], s),
       asset |-> SumFunctionOnSet([m \in s |-> row[m].traded.asset], s), count |-> Cardinality(s)]

(* The bound on the rows read cuts the oldest bucket short and no other:   *)
(* a candle newer than the oldest row read counts every match settled in   *)
(* its interval, also those the query did not return.  A settled row       *)
(* without settled_at, which an event or the settler may leave for a       *)
(* while, is read first, however old it is, so it does not tell how far    *)
(* back the answer reaches; nor does it push out a newer row than any read *)
(* that has one.                                                           *)
WholeCandles(candles, s, pair, width) ==
  \A b \in DOMAIN candles :
    s = Settled(pair) \/ (\E m \in s : row[m].at # None /\ RowTime(m) < b) =>
      candles[b] = CandleOf({m \in WithPrice(Settled(pair)) : BucketOf(m, width) = b})

(* An answer has no holes: between a candle in it of a row with settled_at *)
(* and the present there is no interval with a priced, settled match and   *)
(* without a candle.                                                       *)
NoHoles(times, s, pair, width) ==
  \A m \in WithPrice(Settled(pair)), n \in WithPrice(s) :
    /\ s = Settled(pair) \/ row[n].at # None
    /\ BucketOf(n, width) \in times /\ BucketOf(n, width) <= RowTime(m)
    => BucketOf(m, width) \in times

(* So whatever rows the query returns, the answer is what the table says:  *)
(* whole candles (of a pair whose decimals are known), but for the oldest, *)
(* and none left out.                                                      *)
CandlesAreTrue ==
  \A pair \in Pairs, width \in Width, limit \in Limit :
    \A s \in Selected(pair, limit) :
      LET candles == BuildCandles(s, width, limit) IN
      /\ pair \in Listed => WholeCandles(candles, s, pair, width)
      /\ NoHoles(DOMAIN candles, s, pair, width)
=============================================================================
