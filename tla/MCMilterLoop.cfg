SPECIFICATION MCSpec
CONSTANTS
  u1 = u1
  Sessions = {1, 2}
  FDs = {1, 2}
  NoFd = NoFd
  UserData = {u1}
  NoData = NoData
  CallbackMay = {"consume", "destroy"}
  Binding = "ignores"
  Blocks = {11, 12, 13, 14}
  NoBlock = NoBlock
  IoTimeout = 2
INVARIANTS
  RefCountExact
  ToldOnceInLoop
  FaultsExplained
  LoopTypeOK
  LoopHoldsSessions
  CollectedForSession
  NothingStale
  EndIsScheduled
  NothingRemains
PROPERTIES
  ImplementsLife
  SecondCloseIsFatal
  ImplementsMilter
CHECK_DEADLOCK FALSE
