SPECIFICATION Spec
CONSTANTS
  c1 = c1
  c2 = c2
  s1 = s1
  s2 = s2
  h1 = h1
  h2 = h2
  k1 = k1
  k2 = k2
  m1 = m1
  m2 = m2
  Client = {c1, c2}
  Server = {c1, c2}
  Src = {s1}
  Hash = {h1, h2}
  Key = {k1, k2}
  Meta = {m1}
  NoMeta = NoMeta
  None = None
  Garbage = Garbage
  Warned = {}
  LockFaults = FALSE
  WriteFaults = TRUE
  Damage = FALSE
INVARIANTS
  NoDangling
  RestoreSound
