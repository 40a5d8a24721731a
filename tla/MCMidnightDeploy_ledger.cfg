CONSTANTS
  d1 = d1  d2 = d2  f1 = f1  l1 = l1  c1 = c1  r1 = r1  r2 = r2
  Commitment = {c1}
  Nullifier = {n1}
  Root = {r1, r2}
  None = None
  MaxUint = 2
  Width = 1
  Run = {d1, d2, f1, l1}
  Script <- Scripts
  Home = d2
  OrderOf <- OrderCalled
SPECIFICATION DeploySpec
SYMMETRY Symmetry
INVARIANTS CancellationsAreBacked BatchesInSequence EnvWasBroadcast DryRunsStayDry
PROPERTIES ImplementsBatchSequence
CHECK_DEADLOCK FALSE
