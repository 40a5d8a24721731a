SPECIFICATION FairSpec
CONSTANTS
  r1 = r1  r2 = r2  w1 = w1  w2 = w2  c1 = c1  c2 = c2
  p1 = p1  p2 = p2
  Task = {1}
  Key = {}
  NoKey = NoKey
  Type = {"SETTLE_MATCH", "AGENT_SUBMIT_ORDER"}
  Handled = {"SETTLE_MATCH"}
  Runner = {r1}
  Worker = {w1, w2}
  Recoverer = {c2}
  Process = {p1, p2}
  ProcessOf <- TwoProcesses
  WorkerId <- WorkerPid
  None = None
  MaxAttempts = 2
  LeaseSec = 1
  StaleSec = 1
  BaseDelay = 1
  MaxDelay = 2
  BatchSize = 2
  MaxFaults = 1
INVARIANTS BoundedExecutions NoLimbo Exclusive
PROPERTIES CompletedIsFinal EveryTaskSettles
