CONSTANTS
  p1 = p1
  p2 = p2
  c1 = c1
  c2 = c2
  ok = ok
  None = None
  Marker = Marker
  Rpc = {p1, p2}
  Consumer = {c1, c2}
  Result = {ok}
  MaxStarts = 2
  MaxCrashes = 1
  MaxFaults = 1
SPECIFICATION Spec
SYMMETRY Symmetry
CHECK_DEADLOCK FALSE
INVARIANTS
  TypeOK
  RunsAccounted
  SettledWasServed
  NothingAbandoned
  KeysExpire
PROPERTIES
  PortSpec
