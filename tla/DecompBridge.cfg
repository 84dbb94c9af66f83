SPECIFICATION Spec
CONSTANTS
  MaxHost = 5
  MaxFrames = 3
INVARIANTS LevelsExact RegistersCurrent
PROPERTIES ResumedWhereReturned
