SPECIFICATION PixelSpec
CONSTANTS
  Values = {0, 1}
  None = None
  Users = {"hud", "scene"}
  Varied = 2
INVARIANTS
  RowsAlwaysExact
