CONSTANTS
  t1 = t1  t2 = t2  o1 = o1  o2 = o2
  Tab = {t1, t2}  Order = {o1, o2}  Absent = Absent
  Cost <- Costs  Faucet = 3  Raw = {1, 4}
  LastBatch = 1  Methods = 2  MaxMoves = 3
SPECIFICATION AppSpec
INVARIANTS NetOfOrders PaidOnce OrdersKept DeclineIsFinal
SYMMETRY Symmetry
CHECK_DEADLOCK FALSE
