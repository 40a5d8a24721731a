SPECIFICATION Spec
CONSTANTS
  s1 = s1  s2 = s2
  Submit = {s1, s2}
  Publish = publish  SettleTx = settle
  None = None
  Depth = 0  ChunkSize = 2
  MaxHeight = 3  MaxTrouble = 2
INVARIANTS NothingMissed NoPhantoms IntegrityAtRest
SYMMETRY Twins
CHECK_DEADLOCK FALSE
