CONSTANTS
  p1 = p1
  p2 = p2
  f1 = f1
  c1 = c1
  c2 = c2
  ok = ok
  None = None
  Rpc = {p1, p2}
  Fire = {f1}
  Consumer = {c1, c2}
  Result = {ok}
  MaxLosses = 1
SPECIFICATION FairSpec
CHECK_DEADLOCK FALSE
INVARIANTS
  TypeOK
  AckedIsServed
  RepeatsAccounted
PROPERTIES
  PortSpec
  Drained
  LostOnlyUnconsumed
