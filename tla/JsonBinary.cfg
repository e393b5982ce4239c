\* Every value at a limit in every format; documents up to 12 bytes damaged.
SPECIFICATION Spec
CONSTANTS
  Cases <- MCCases
  MaxSize <- MCMaxSize
  Changed <- MCChanged
  Appended <- MCAppended
  MaxDamaged = 12
INVARIANTS
  ReadsBack
  WholeDocuments
  AcceptedIsStable
  BsonSizesRight
CHECK_DEADLOCK FALSE
