\* A body of three bytes, two transfers, two headers and handlers of each kind.
CONSTANTS
  BodySize = 3
  MaxBuffer = 2
  MaxHeaders = 2
  MaxHandlers = 3
  MaxChunks = 1
  MaxRuns = 2
SPECIFICATION Spec
INVARIANTS
  HandlersAlive
  RequestAsAsked
  FreshBodiesWhole
