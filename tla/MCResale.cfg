\* Two users sell one number to each other, and each payment may arrive twice.
SPECIFICATION Spec
CONSTANTS
  None = None
  User = {u1, u2}
  Number = {n1}
  Intent = {i1, i2, i3}
  Sale = {s1, s2}
  Charge = {c1, c2, c3}
  Policies <- OnePolicy
  Price <- MCPrice
  TopUp <- MCTopUp
SYMMETRY Interchangeable
INVARIANTS
  IssuedOnce
  StarsAreConserved
  DeliveriesAreAnnounced
  
PROPERTIES
  RegistrySpec
\* Invoices, sales and charges are used up.
CHECK_DEADLOCK FALSE
