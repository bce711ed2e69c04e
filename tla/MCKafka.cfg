CONSTANTS
  p1 = p1
  f1 = f1
  a = a
  c1 = c1
  c2 = c2
  ok = ok
  None = None
  Rpc = {p1}
  Fire = {f1}
  Partition = {a}
  Consumer = {c1, c2}
  Result = {ok}
  MaxStarts = 2
  MaxCrashes = 1
  MaxRebalances = 2
  MaxFaults = 1
SPECIFICATION Spec
SYMMETRY Symmetry
CHECK_DEADLOCK FALSE
INVARIANTS
  TypeOK
  CommittedWasHandled
  RepeatsAccounted
  CommittedWasAnswered
  NothingSkipped
