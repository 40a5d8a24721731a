------------------------------- MODULE Units -------------------------------
(* The scales of an auction's amounts, which its prices and the volumes of *)
(* the candles are computed with.                                          *)
EXTENDS Integers

CONSTANTS
  PriceScale,          \* PRICE_SCALE of shared/auction/pricing.ts, 10^9
  CashUnit, AssetUnit  \* 10^cashDecimals and 10^assetDecimals

ASSUME UnitsAssumption == {PriceScale, CashUnit, AssetUnit} \subseteq Nat \ {0}
=============================================================================
