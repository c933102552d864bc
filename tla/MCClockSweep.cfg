CONSTANTS
  NumFrames = 4
  MaxUsage = 3
SPECIFICATION Spec
INVARIANTS TypeOK ClosedFormExact
PROPERTY SearchEnds
