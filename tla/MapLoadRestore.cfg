SPECIFICATION Spec
CONSTANTS
  Map = {1, 2}
  Stack = {1, 2}
  MaxPending = 1
INVARIANT EveryLoadCovered
