SPECIFICATION Spec
CONSTANTS
  Rows = 2
  LineSlivers = 1
  Pool = 2
  Columns <- MCColumns
  Spans <- MCSpans
  Tiles <- MCTiles
  PastEnd <- MCPastEnd
  Words <- MCWords
PROPERTY EveryRowExact
VIEW View
