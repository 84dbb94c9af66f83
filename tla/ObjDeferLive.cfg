SPECIFICATION FairSpec
CONSTANTS
  Rows = 2
  LineSlivers = 1
  Pool = 2
  Columns <- MCColumns
  Spans <- MCNoSpan
  Tiles <- MCTile
  PastEnd <- MCNone
  Words <- MCBlank
PROPERTIES StopReturns RowsDrawn
