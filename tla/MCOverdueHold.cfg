\* The deployed job and an abandoned invoice.
SPECIFICATION SweepSpec
CONSTANTS
  None = None
  User = {u1, u2}
  Number = {n1}
  Intent = {i1, i2}
  Sale = {s1}
  Charge = {c1}
  Policies <- OnePolicy
  Price = {25}
  TopUp = {}
PROPERTY OverdueHoldIsReleased
CHECK_DEADLOCK FALSE
