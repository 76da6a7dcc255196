\* One of everything but two plates, a stack of three screens, and one handler that
\* breaks off.
SPECIFICATION Spec
SYMMETRY Interchangeable
CONSTANTS
  Plate = {p1, p2}
  Auction = {x1}
  Account = {u1}
  Series = {s1}
  Item = {i1}
  Depth = 3
  Text <- MCText
  Price = {10, 20}
  Hours = {1}
  None = None
  MaxBreaks = 1
INVARIANTS
  TypeOK
  FormMatchesQuestion
  OffersAreBuyable
PROPERTY
  ListedAsTyped
