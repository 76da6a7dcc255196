\* One plate of the State or of a user, which users list, auction and buy while
\* the administrator intervenes, users stay away and come back, and the job that
\* confiscates works through the list it read first.  Three rows of history let a
\* forced transfer overtake the payment of a reserved plate.
SPECIFICATION Spec
CONSTANTS
  None = None
  User = {u1, u2}
  Number = {n1}
  Intent = {i1}
  Sale = {s1}
  Charge = {c1}
  Policies <- OnePolicy
  Price = {25}
  TopUp = {}
  Auction = {a1}
  StartPrice = {10}
  Amount = {10}
  Duration = {1}
  MaxTime = 0
  Balance = 20
  Adjustment = {}
  Age = {"recent", "lapsed"}
  MaxBalance = 20
  MaxHistory = 3
SYMMETRY Interchangeable
INVARIANTS
  OneListing
  OwnershipChain
  PrimaryIsOwned
PROPERTIES
  OnlyLapsedAreConfiscated
  ConfiscationIsComplete
  OwnersArePaid
\* Ids are used up, the clock and the histories are bounded.
CHECK_DEADLOCK FALSE
