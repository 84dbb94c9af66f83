SPECIFICATION Spec
CONSTANTS
  Files = 2
  Slots = 1
  LegacySlots = 2
  MaxStates = 2
INVARIANT FiledUnderPlayed
