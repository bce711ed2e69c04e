CONSTANTS
  Direct = {d1}
  Queued = {m1}
  WriteTimeout = 1
  RequestTimeout = 4
  Result = {x1, x2}
  None = None
SPECIFICATION FairSpec
CHECK_DEADLOCK FALSE
INVARIANTS
  ToldTruly
  FailureIsFinal
PROPERTIES
  HandlersEnd
