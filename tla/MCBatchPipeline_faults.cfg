CONSTANTS
  o1 = o1  o2 = o2  o3 = o3  o4 = o4  t1 = t1  t2 = t2  s1 = s1
  main = main
  Pair = {1}  Order = {o1, o2}  Match = {1}  LastBatch = 1
  BatchOf <- InBatchOne  PairOf <- OnPairOne  Legs <- OneMatch
  Thread = {t1, t2}  Settler = {s1}  Process = {main}  ProcessOf <- AllMain
  Main = main  None = None
  MaxLive = 1  MaxCancels = 1  MaxFaults = 1  MaxCrashes = 0  PromptHandlers = FALSE
SPECIFICATION Spec
INVARIANTS RowsFollowChain SettledIsAudited EmptyMeansEmpty AuctionSawEveryOrder
SYMMETRY Twins
CHECK_DEADLOCK FALSE
