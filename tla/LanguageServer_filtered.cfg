SPECIFICATION Spec
CONSTANTS
  a = a
  b = b
  c = c
  lib = lib
  r1 = r1
  r2 = r2
  None = None
  File = {a, b, c, lib}
  Cached = {lib}
  MaxText = 2
  Unparsable = {2}
  Request = {r1, r2}
  KindOf <- TwoKinds
  MaxRequests = 1
  MaxNotifications = 1
  MaxTasks = 2
  MaxFailures = 1
  Start <- Silence
  Habit = {"switches"}
CHECK_DEADLOCK FALSE
INVARIANT DiagnosticsCurrent
