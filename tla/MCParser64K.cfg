SPECIFICATION Spec
CONSTANTS
  MaxBody = 3
  MaxChunk = 8
  Wires <- MCWires
INVARIANT
  CommandWithin64K
CHECK_DEADLOCK FALSE
