\* Two inactive users, one of whom waits for the payment of a sale.
SPECIFICATION Spec
CONSTANTS
  None = None
  User = {u1, u2, u3}
  Number = {n1, n2}
  Intent = {i1}
  Sale = {s1}
  Charge = {c1}
  Policies <- OnePolicy
  Price = {25}
  TopUp = {}
  Auction = {}
  StartPrice = {10}
  Amount = {10}
  Duration = {1}
  MaxTime = 0
  Balance = 20
  Adjustment = {}
  Age = {"recent", "lapsed"}
  MaxBalance = 20
  MaxHistory = 1
PROPERTY EveryInactiveUserIsServed
CHECK_DEADLOCK FALSE
