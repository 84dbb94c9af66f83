SPECIFICATION Spec
CONSTANTS
  Rows = {1, 2}
  MaxLevel = 2
  Period = 1
  MaxEffect = 2
INVARIANT NoOldBridge
