CONSTANTS
  r1 = r1
  r2 = r2
  r3 = r3
  alice = alice
  bob = bob
  Request = {r1, r2, r3}
  Account = {alice}
  Operation = {"DEPOSIT", "WITHDRAW"}
  Amount = {4, 16}
  Seed = {alice}
  KnownParent = {}
  ValidName = {}
  Skew = 1
  CommitTicks = 1
  MaxTime = 1
SPECIFICATION Spec
SYMMETRY Symmetry
CHECK_DEADLOCK FALSE
INVARIANTS
  LastIsMostRecent
