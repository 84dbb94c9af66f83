SPECIFICATION Spec
CONSTANTS
  Dsp = {"d1"}
  Other = {}
  Value = {0, 1}
  MaxBusy = 2
  RunLength = 3
  Modulus = 6
  StateClock = {5}
  Limit = 2
INVARIANT AlwaysReadsOwnWrites
