SPECIFICATION Spec
CONSTANTS
  a = a
  b = b
  c = c
  lib = lib
  r1 = r1
  r2 = r2
  None = None
  File = {a, b, c, lib}
  Cached = {lib}
  MaxText = 1
  Unparsable = {}
  Request = {r1, r2}
  KindOf <- TwoKinds
  MaxRequests = 2
  MaxNotifications = 1
  MaxTasks = 2
  MaxFailures = 0
  Start <- Questions
  Habit = {}
CHECK_DEADLOCK FALSE
PROPERTY EveryoneAnswered
