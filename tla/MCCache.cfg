CONSTANTS
  q1 = q1
  q2 = q2
  q3 = q3
  q4 = q4
  Query = {q1, q2, q3, q4}
  Cached = {q1, q2, q3, q4}
  Multi = {q4}
  TTL = 2
  FillTime = 1
  MaxVersion = 2
  MaxTime = 4
SPECIFICATION Spec
SYMMETRY Symmetry
CHECK_DEADLOCK FALSE
INVARIANTS
  FreshRead
  StaleBounded
