SPECIFICATION FairSpec
CONSTANTS
  Map = {1, 2, 3}
  Stack = {1, 2}
  MaxPending = 1
INVARIANTS CommitExact LoadCovered
PROPERTIES CacheCurrent FreshReported BudgetSpent
