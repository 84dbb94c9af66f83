SPECIFICATION PixelSpec
CONSTANTS
  Values = {0, 1}
  None = None
  Users = {"menu", "highlight", "hud", "scene", "background", "layer"}
  Varied = 2
INVARIANTS
  RowsExact
  PlanesExact
