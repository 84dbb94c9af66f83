SPECIFICATION Spec
CONSTANTS
  Files = 2
  Slots = 2
  LegacySlots = 4
  MaxStates = 2
INVARIANTS Binding FiledUnderBound BrowserFresh NoUnboundLeft
PROPERTY BoundKept
