SPECIFICATION Spec
SYMMETRY Sym
CONSTANTS
  c1 = c1
  c2 = c2
  s1 = s1
  s2 = s2
  h1 = h1
  h2 = h2
  k1 = k1
  k2 = k2
  m1 = m1
  m2 = m2
  Client = {c1, c2}
  Server = {}
  Src = {s1}
  Hash = {h1}
  Key = {k1}
  Meta = {m1}
  NoMeta = NoMeta
  None = None
  Garbage = Garbage
  Warned <- OneWarned
  LockFaults = TRUE
  WriteFaults = FALSE
  Damage = TRUE
INVARIANTS
  TypeOK
  RestoreSound
  WarningsReplayed
