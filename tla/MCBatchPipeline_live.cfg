CONSTANTS
  o1 = o1  o2 = o2  o3 = o3  o4 = o4  t1 = t1  t2 = t2  s1 = s1
  main = main
  Pair = {1}  Order = {o1, o2}  Match = {1}  LastBatch = 1
  BatchOf <- InBatchOne  PairOf <- OnPairOne  Legs <- OneMatch
  Thread = {t1}  Settler = {s1}  Process = {main}  ProcessOf <- AllMain
  Main = main  None = None
  MaxLive = 0  MaxCancels = 0  MaxFaults = 0  MaxCrashes = 1  PromptHandlers = TRUE
SPECIFICATION FairSpec
PROPERTIES RowsConverge BatchesResolve
CHECK_DEADLOCK FALSE
