SPECIFICATION Spec
CONSTANTS
  Project <- MCProject
  Published <- MCPublished
  Local <- MCLocal
  Roots <- MCRoots
  MaxSuffix = 3
  None = None
INVARIANTS
  LookupSucceeds
  VariantsLocked
  NamesDistinct
  NoOrphans
  LocksRespected
PROPERTY Converges
