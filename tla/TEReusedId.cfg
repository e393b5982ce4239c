\* The server as it is: math/rand without a seed.
CONSTANTS
  o1 = o1
  o2 = o2
  o3 = o3
  Owners = {o1, o2}
  CppOwners = {o1, o2}
  Nil = Nil
  FreshSeed = FALSE
  TEMayStop = TRUE
  MaxTERuns = 2
  MaxFetches = 2
SPECIFICATION TESpec
INVARIANTS
  NoForeignKey
