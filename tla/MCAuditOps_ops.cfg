SPECIFICATION FairSpec
CONSTANTS
  Match = {1}
  Batch = {1}
  MatchBatch <- MCBatchOf
  Starts <- MCStarts
  Reversed = {1}
  None = None
  RequireAnchor = TRUE
  MaxTries = 2
  MaxFaults = 1
INVARIANTS SettledUnderAnchor NothingLaundered
PROPERTIES MatchesSettle

CHECK_DEADLOCK FALSE
