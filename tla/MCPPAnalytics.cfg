\* Two C++ clients and a Go client; only the trusted entity is ever stopped,
\* and it is not started again.
CONSTANTS
  o1 = o1
  o2 = o2
  o3 = o3
  Owners = {o1, o2, o3}
  CppOwners = {o1, o2}
  Nil = Nil
  FreshSeed = FALSE
  TEMayStop = TRUE
  MaxTERuns = 1
  MaxFetches = 0
  AEMayStop = FALSE
  MaxAERuns = 2
SPECIFICATION Spec
SYMMETRY MCSymmetry
INVARIANTS
  LossNeedsOverlap
  HeardIsCounted
  EngineFallsWithTrustedEntity
