\* Two bids of one user in two auctions at the same time.
SPECIFICATION Spec
CONSTANTS
  None = None
  User = {u1, u2}
  Number = {n1, n2}
  Intent = {}
  Auction = {a1, a2}
  Policies <- OnePolicy
  StartPrice = {10}
  Amount = {10}
  Duration = {1}
  MaxTime = 2
  Balance = 20
  Disciplines = {FALSE}
INVARIANT FrozenBacksBids
CHECK_DEADLOCK FALSE
