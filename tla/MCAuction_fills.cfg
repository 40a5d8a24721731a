SPECIFICATION Spec
CONSTANTS
    b1 = b1  b2 = b2  b3 = b3  s1 = s1  s2 = s2
    Buyer = {b1, b2, b3}
    Seller = {s1, s2}
    Amount = {0, 1, 2, 5}
    PriceScale = 10
    CashUnit = 1
    AssetUnit = 2
SYMMETRY Twins
INVARIANTS BuyersCovered SellersGetTheirPrice ClearingIsFair PricePriority PrefixExhausted
CHECK_DEADLOCK FALSE
