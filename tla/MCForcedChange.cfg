\* A plate the State sells, reserved by an invoice, and the administrator.
SPECIFICATION Spec
CONSTANTS
  None = None
  User = {u1, u2}
  Number = {n1}
  Intent = {i1}
  Sale = {}
  Charge = {c1}
  Policies <- OnePolicy
  Price = {25}
  TopUp = {}
  Auction = {}
  StartPrice = {10}
  Amount = {10}
  Duration = {1}
  MaxTime = 0
  Balance = 20
  Adjustment = {}
  Age = {"recent"}
  MaxBalance = 20
  MaxHistory = 3
PROPERTY HoldIsKept
CHECK_DEADLOCK FALSE
