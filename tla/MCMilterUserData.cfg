SPECIFICATION Spec
CONSTANTS
  s1 = s1
  s2 = s2
  s3 = s3
  f1 = f1
  f2 = f2
  u1 = u1
  Sessions = {s1, s2, s3}
  FDs = {f1, f2}
  NoFd = NoFd
  UserData = {u1}
  NoData = NoData
  CallbackMay = {"consume"}
  Binding = "ignores"
INVARIANT
  UserDataReachesCallback
CHECK_DEADLOCK FALSE
