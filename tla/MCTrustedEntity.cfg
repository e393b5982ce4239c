\* Three owners, two runs of the server, ids that no two runs share.
CONSTANTS
  o1 = o1
  o2 = o2
  o3 = o3
  Owners = {o1, o2, o3}
  CppOwners = {o1, o2, o3}
  Nil = Nil
  FreshSeed = TRUE
  TEMayStop = TRUE
  MaxTERuns = 2
  MaxFetches = 2
SPECIFICATION TESpec
SYMMETRY MCSymmetry
INVARIANTS
  TETypeOK
  ReplyIsStored
  NoForeignKey
  FetchedWasIssued
