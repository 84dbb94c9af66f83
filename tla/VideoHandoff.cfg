SPECIFICATION Spec
CONSTANTS
  Rows = {1, 2}
  MaxLevel = 3
  Period = 2
  MaxEffect = 3
INVARIANTS HeldInside EffectEnds RowsAligned
PROPERTY FadesOut
