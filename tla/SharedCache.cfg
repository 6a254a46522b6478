SPECIFICATION Spec
CONSTANTS
  Process = {p1, p2}
  Revision = {1, 2}
  MaxHead = 2
  File = {f1, f2}
  Latest = Latest
  Torn = Torn
  None = None
INVARIANTS
  OneWriter
  RightRevision
  FreshLookup
  StdSettled
