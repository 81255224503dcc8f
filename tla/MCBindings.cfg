SPECIFICATION MCSpec
CONSTANTS
  b1 = b1
  b2 = b2
  b3 = b3
  u1 = u1
  u2 = u2
  Blocks = {b1, b2, b3}
  UserData = {u1, u2}
  MaxAfter = 1
INVARIANTS
  TypeOK
  NothingDangles
  HandlesOwnEvents
PROPERTIES
  ImplementsContract
  NothingPostpones
  TimersFire
CHECK_DEADLOCK FALSE
