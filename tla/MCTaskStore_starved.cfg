SPECIFICATION FairSpec
CONSTANTS
  r1 = r1  r2 = r2  w1 = w1  w2 = w2  c1 = c1  c2 = c2
  p1 = p1  p2 = p2
  Task = {1, 2}
  Key = {}
  NoKey = NoKey
  Type = {"SETTLE_MATCH", "AGENT_SUBMIT_ORDER"}
  Handled = {"SETTLE_MATCH"}
  Runner = {r1}
  Worker = {w1}
  Recoverer = {c1}
  Process = {p1}
  ProcessOf <- OneProcess
  WorkerId <- WorkerPid
  None = None
  MaxAttempts = 2
  LeaseSec = 1
  StaleSec = 1
  BaseDelay = 0
  MaxDelay = 2
  BatchSize = 1
  MaxFaults = 0
PROPERTY FailedIsPickedUp
