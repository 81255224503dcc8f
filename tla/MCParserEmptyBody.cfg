SPECIFICATION Spec
CONSTANTS
  MaxBody = 3
  MaxChunk = 8
  Wires <- MCWires
INVARIANT
  EmptyIsFound
CHECK_DEADLOCK FALSE
