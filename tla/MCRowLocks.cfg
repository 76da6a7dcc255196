\* Two users, one plate, one invoice, and every pair of operations side by side.
SPECIFICATION Spec
CONSTANTS
  User = {u1, u2}
  Plate = {p1}
  Intent = {i1}
  Txn = {t1, t2}
INVARIANT
  CirclesMeetUsers
PROPERTY
  EveryTransactionEnds
