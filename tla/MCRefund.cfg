\* Two auctions, possibly led by one user, that are cancelled by force or by the
\* confiscation of both plates, while the administrator adjusts balances and
\* changes the settings.
SPECIFICATION Spec
CONSTANTS
  None = None
  User = {u1, u2}
  Number = {n1, n2}
  Intent = {}
  Sale = {}
  Charge = {}
  Policies <- TwoPolicies
  Price = {25}
  TopUp = {}
  Auction = {a1, a2}
  StartPrice = {10}
  Amount = {10}
  Duration = {1}
  MaxTime = 0
  Balance = 20
  Adjustment <- UpAndDown
  Age = {"recent", "lapsed"}
  MaxBalance = 20
  MaxHistory = 1
SYMMETRY Interchangeable
INVARIANTS
  TypeOK
  
  
\* Ids are used up, the histories are bounded.
CHECK_DEADLOCK FALSE
