SPECIFICATION Spec
CONSTANTS
  p = p
  A = A
  B = B
  T = T
  K1 = K1
  K2 = K2
  None = None
  Names = {"generics", "killed", "options", "emit_errors", "replaced", "tests"}
  Proc = {p}
  File = {A, B, T}
  Key = {K1, K2}
  MaxClock = 6
  Content <- Contents
  Scenario <- Chosen
INVARIANT TypeOK
INVARIANT OutputsCurrent
INVARIANT AnalysisCurrent
