\* A C++ client and a Go client; both servers may be stopped.
CONSTANTS
  o1 = o1
  o2 = o2
  o3 = o3
  Owners = {o1, o2}
  CppOwners = {o1}
  Nil = Nil
  FreshSeed = FALSE
  TEMayStop = TRUE
  MaxTERuns = 2
  MaxFetches = 0
  AEMayStop = TRUE
  MaxAERuns = 2
SPECIFICATION Spec
INVARIANTS
  ExitZeroMeansPosted
