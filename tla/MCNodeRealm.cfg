CONSTANTS
  Realms = {r1, r2}
  Calls = {c1, c2}
  Tasks = {"start", "create", "drop"}
  IdMax = 1
  Interpreters = {i1, i2}
  Objects = {o1, o2}
  TokenMax = 3
  PyIdMax = 2
SPECIFICATION FairSpec
CHECK_DEADLOCK FALSE
INVARIANTS
  RealmTypeOK
  TeardownIsComplete
  IdsAreUnique
  HandlesAreCoherent
  OwnersAreSafe
PROPERTY
  TeardownFinishes
