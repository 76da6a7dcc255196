\* One number, wanted by three users: reservations, contention, expiry.
SPECIFICATION Spec
CONSTANTS
  None = None
  User = {u1, u2, u3}
  Number = {n1}
  Intent = {i1, i2, i3}
  Sale = {s1}
  Charge = {c1, c2}
  Policies <- TwoPolicies
  Price <- MCPrice
  TopUp <- MCTopUp
SYMMETRY Interchangeable
INVARIANTS
  TypeOK
  ReservationIsPending
  ReservedPlateHasItsInvoice
  ListingMatchesPlate
  InvoiceMatchesSale
  PurchaseCanBeFulfilled
PROPERTIES
  HoldIsKept
\* Invoices, sales and charges are used up.
CHECK_DEADLOCK FALSE
