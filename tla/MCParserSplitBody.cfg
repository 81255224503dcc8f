SPECIFICATION Spec
CONSTANTS
  MaxBody = 3
  MaxChunk = 8
  Wires <- MCWires
INVARIANT
  CompleteIsFound
CHECK_DEADLOCK FALSE
