SPECIFICATION FairSpec
CONSTANTS
  MaxBody = 3
  MaxChunk = 8
  Wires <- MCWires
INVARIANTS
  TypeOK
  OverrunNeedsSplitBody
  NothingLeftBehind
  NeverSpins
PROPERTIES
  FramesAreExact
  OverrunIsFinal
  CallReturns
CHECK_DEADLOCK FALSE
