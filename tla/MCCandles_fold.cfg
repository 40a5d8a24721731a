SPECIFICATION TableSpec
CONSTANTS
    None = None
    Match = {1, 2, 3}
    PairOf <- OnePair
    Listed = {0}
    Prices = {3, 50}
    Quantity = {7}
    PriceScale = 2
    CashUnit = 1
    AssetUnit = 10
    Width = {1, 2}
    Limit = {1, 2}
    RowsPerCandle = 1
    MaxRows = 2
    MaxTime = 2
INVARIANTS VolumesRecovered CandlesAreTrue
CHECK_DEADLOCK FALSE
