CONSTANTS
  r1 = r1
  r2 = r2
  r3 = r3
  alice = alice
  bob = bob
  Request = {r1, r2, r3}
  Account = {alice, bob}
  Operation = {"DEPOSIT", "WITHDRAW", "ADD_MEMBER"}
  Amount = {0, 6, 16}
  Seed = {alice}
  KnownParent = {bob}
  ValidName = {alice, bob}
  Skew = 1
  CommitTicks = 3
  MaxTime = 1
SPECIFICATION Spec
SYMMETRY Symmetry
VIEW View
CHECK_DEADLOCK FALSE
INVARIANTS
  TypeOK
  LedgerBalanced
  AnswersTruthful
  NeverInconsistent
  LastIsMostRecent
  OneWinner
  NoNilUser
  NobodyWaits
PROPERTIES
  LedgerSpec
