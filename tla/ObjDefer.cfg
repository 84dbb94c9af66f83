SPECIFICATION Spec
CONSTANTS
  Rows = 3
  LineSlivers = 1
  Pool = 2
  Columns <- MCColumns
  Spans <- MCSpans
  Tiles <- MCTiles
  PastEnd <- MCPastEnd
  Words <- MCWords
INVARIANTS NoSharedRow CaptureExact LiveRowExact
PROPERTIES SourceStable ImplementsSerial
VIEW View
