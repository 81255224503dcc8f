SPECIFICATION MCSpec
CONSTANTS
  s1 = s1
  s2 = s2
  s3 = s3
  f1 = f1
  f2 = f2
  u1 = u1
  Sessions = {1, 2, 3}
  FDs = {1, 2}
  NoFd = NoFd
  UserData = {u1}
  NoData = NoData
  CallbackMay = {"consume"}
  Binding = "ignores"
INVARIANTS
  TypeOK
  RefCountExact
  QueueHoldsLive
  EventsHoldLive
  DescriptorsOwned
  ClosedOnce
  FaultsExplained
PROPERTIES
  ImplementsLife
  SessionsEnd
  MilterGoes
CHECK_DEADLOCK FALSE
