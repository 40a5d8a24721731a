SPECIFICATION AgentFairSpec
CONSTANTS
  r1 = r1  r2 = r2  w1 = w1  p1 = p1
  Task = {1, 2, 3}
  Key = {"k1"}
  NoKey = NoKey
  Type = {"AGENT_SUBMIT_ORDER"}
  Handled = {}
  OrderType = "AGENT_SUBMIT_ORDER"
  Runner = {r1, r2}
  Worker = {w1}
  Recoverer = {}
  Process = {p1}
  ProcessOf <- OneProcess
  WorkerId <- WorkerPid
  None = None
  MaxAttempts = 1
  LeaseSec = 1
  StaleSec = 1
  BaseDelay = 0
  MaxDelay = 2
  BatchSize = 1
  MaxFaults = 1
  Token = {1}
  MaxUses = 2
INVARIANTS KeyedOnce Metered OrdersWerePaid
PROPERTY TokensRetire
CHECK_DEADLOCK FALSE
