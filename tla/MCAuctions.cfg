\* Two plates, two auctions of them, side by side or of the same plate one after
\* the other.  The operations of three users overlap freely, or those on one
\* wallet take turns; the administrator changes the anti-sniping window.
SPECIFICATION Spec
CONSTANTS
  None = None
  User = {u1, u2, u3}
  Number = {n1, n2}
  Intent = {}
  Auction = {a1, a2}
  Policies <- TwoWindows
  StartPrice = {10}
  Amount = {10, 15}
  Duration = {2}
  MaxTime = 2
  Balance = 20
  Disciplines = {FALSE, TRUE}
SYMMETRY Interchangeable
INVARIANTS
  TypeOK
  AuctionHoldsPlate
  BidsAreBinding
  FrozenBacksBidsInTurn
  StarsAreConserved
  SettlementIsPossible
  LateBidsCanBeAnswered
  ExtendedOncePerBid
PROPERTIES
  ResultIsFinal
\* Auctions are used up and the clock stops at MaxTime.
CHECK_DEADLOCK FALSE
