\* Documents of up to four values, and one change of them.
SPECIFICATION Spec
CONSTANTS
  SizeMax = 99
  MaxElements = 50
  Documents <- MCDocuments
  Elements <- MCElements
  Merges <- MCMerges
  Pointers <- MCPointers
  Values <- MCValues
  MaxSteps = 1
INVARIANTS
  DiffPatches
  PatchFollowsRfc
  FlattenReverts
  ContainedIsThere
  AssignKeepsRest
CHECK_DEADLOCK FALSE
