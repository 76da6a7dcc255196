-------------------------- MODULE MarketplaceProofs --------------------------
(***************************************************************************)
(* Proofs about Marketplace, for every number of users, plates, invoices,  *)
(* sales and charges and for every settings, prices and amounts: first the *)
(* invariant of the tables, then what becomes of payments, and that        *)
(* Marketplace implements PlateRegistry.                                   *)
(***************************************************************************)
EXTENDS Marketplace, DatabaseProofs, FiniteLemmas

-----------------------------------------------------------------------------
(* The inductive invariant                                                 *)

\* What the columns of rows that exist hold; the proofs need it to apply
\* intents[i].plate, sales[s].seller and so on to the other tables.
RowsAreComplete ==
  /\ \A i \in Intent : intents[i].status # "ABSENT" =>
       /\ intents[i].user \in User
       /\ intents[i].kind \in PaymentKind
       /\ intents[i].kind # "TOP_UP" => intents[i].plate \in Number
       /\ intents[i].kind = "SALE_PURCHASE" => intents[i].sale \in Sale
  /\ \A i \in Intent : intents[i].status = "ABSENT" => intents[i].kind = None
  /\ \A s \in Sale : sales[s].status # "ABSENT" =>
       sales[s].plate \in Number /\ sales[s].seller \in User

\* Exactly the State's plates have no owner.
OwnerMatchesStatus ==
  \A n \in Number :
    /\ plates[n].status \in {"ABSENT", "STATE_SALE"} => plates[n].owner = None
    /\ plates[n].status \in {"OWNED", "FIXED_SALE", "AUCTION"} => plates[n].owner # None

\* A paid emission left a plate behind.
PaidIsIssued ==
  \A i \in Intent :
    intents[i].status = "PAID" /\ intents[i].kind = "STATE_EMISSION"
      => plates[intents[i].plate].status # "ABSENT"

IInv ==
  /\ TypeOK
  /\ RowsAreComplete
  /\ OwnerMatchesStatus
  /\ ReservationIsPending
  /\ ListingMatchesPlate
  /\ InvoiceMatchesSale
  /\ ReservedPlateHasItsInvoice
  /\ PaidIsIssued
  /\ IssuedOnce

-----------------------------------------------------------------------------
(* Types of the new values the actions assign (see also DatabaseProofs)    *)

LEMMA NewIntentType ==
  ASSUME intents \in [Intent -> PaymentIntent], NEW i \in Intent, NEW kind \in PaymentKind,
         NEW u \in User, NEW n \in Number \cup {None}, NEW s \in Sale \cup {None},
         NEW amount \in Nat, NewIntent(i, kind, u, n, s, amount)
  PROVE  intents' \in [Intent -> PaymentIntent]
BY DEF NewIntent, PaymentIntent

LEMMA PaidType ==
  ASSUME intents \in [Intent -> PaymentIntent], NEW i \in Intent, NEW c \in Charge, Paid(i, c)
  PROVE  intents' \in [Intent -> PaymentIntent]
<1>1. \A row \in PaymentIntent : [row EXCEPT !.status = "PAID"] \in PaymentIntent
  BY DEF PaymentIntent
<1>2. \A row \in PaymentIntent : [row EXCEPT !.charge = c] \in PaymentIntent
  BY DEF PaymentIntent
<1>3. [intents EXCEPT ![i].status = "PAID"] \in [Intent -> PaymentIntent]
  BY <1>1
<1> QED BY <1>2, <1>3 DEF Paid

LEMMA ExpiredType ==
  ASSUME intents \in [Intent -> PaymentIntent], NEW i \in Intent, Expired(i)
  PROVE  intents' \in [Intent -> PaymentIntent]
BY DEF Expired, PaymentIntent

LEMMA ReservedType ==
  ASSUME plates \in [Number -> Plate], NEW n \in Number, NEW u \in User, NEW i \in Intent
  PROVE  Reserved(n, u, i) \in [Number -> Plate]
BY DEF Reserved, Plate, PlateStatus

LEMMA DeliveredType ==
  ASSUME plates \in [Number -> Plate], NEW n \in Number, NEW u \in User
  PROVE  Delivered(n, u) \in [Number -> Plate]
BY DEF Delivered, Plate, PlateStatus

LEMMA ReleasedType ==
  ASSUME plates \in [Number -> Plate], NEW n \in Number, NEW status \in PlateStatus
  PROVE  Released(n, status) \in [Number -> Plate]
BY DEF Released, Plate

-----------------------------------------------------------------------------
(* One lemma per action: it preserves the inductive invariant              *)

LEMMA StartSalePurchaseStep ==
  ASSUME IInv, NEW u \in User, NEW n \in Number, NEW i \in Intent,
         StartSalePurchase(u, n, i)
  PROVE  IInv'
<1>1. PICK s \in ActiveSales(n) :
        /\ sales[s].seller # u
        /\ NewIntent(i, "SALE_PURCHASE", u, n, s, sales[s].price)
        /\ sales' = [sales EXCEPT ![s].status = "RESERVED"]
  BY DEF StartSalePurchase, Buyable
<1>2. plates' = Reserved(n, u, i) /\ plates[n].status = "FIXED_SALE"
  BY DEF StartSalePurchase
<1>3. UNCHANGED <<wallets, journal, revenue, history, primary, blocked, outbox, policy,
                  reservations, lookup, charged, refused>>
  BY DEF StartSalePurchase
<1>4. s \in Sale /\ sales[s].plate = n /\ sales[s].status = "ACTIVE" /\ sales[s] \in SaleRow
  BY <1>1, <1>2 DEF ActiveSales, IInv, ListingMatchesPlate, TypeOK
<1>5. TypeOK'
  <2>1. intents' \in [Intent -> PaymentIntent]
    BY <1>1, <1>4, NewIntentType DEF IInv, TypeOK, PaymentKind, SaleRow
  <2>2. plates' \in [Number -> Plate]
    BY <1>2, ReservedType DEF IInv, TypeOK, DatabaseTypeOK
  <2>3. sales' \in [Sale -> SaleRow]
    BY <1>1, <1>4 DEF IInv, TypeOK, SaleRow
  <2> QED BY <2>1, <2>2, <2>3, <1>3 DEF IInv, TypeOK, DatabaseTypeOK
<1>6. RowsAreComplete'
  BY <1>1, <1>2, <1>3, <1>4
  DEF IInv, TypeOK, RowsAreComplete, NewIntent, PaymentKind, SaleRow, PaymentIntent
<1>7. OwnerMatchesStatus'
  BY <1>1, <1>2, <1>3, <1>4
  DEF IInv, TypeOK, DatabaseTypeOK, OwnerMatchesStatus, Reserved, Plate
<1>8. ReservationIsPending'
  BY <1>1, <1>2, <1>3, <1>4
  DEF IInv, TypeOK, DatabaseTypeOK, ReservationIsPending, NewIntent
<1>9. ListingMatchesPlate'
  <2>1. /\ sales'[s].status = "RESERVED" /\ sales'[s].seller = sales[s].seller
        /\ \A t \in Sale \ {s} : sales'[t] = sales[t]
        /\ \A m \in Number : ActiveSales(m)' = ActiveSales(m)
    BY <1>1, <1>4 DEF IInv, TypeOK, ActiveSales, SaleRow
  <2>2. /\ plates'[n].status = "RESERVED" /\ plates'[n].owner = plates[n].owner
        /\ \A m \in Number \ {n} : plates'[m] = plates[m]
    BY <1>2 DEF IInv, TypeOK, DatabaseTypeOK, Reserved, Plate
  <2>3. \A m \in Number \ {n} : s \notin ActiveSales(m)
    BY <1>4 DEF ActiveSales
  <2> QED
    BY <1>1, <2>1, <2>2, <2>3 DEF IInv, ListingMatchesPlate, ActiveSales
<1>10. InvoiceMatchesSale'
  BY <1>1, <1>2, <1>3, <1>4, NoneIsNoSale
  DEF IInv, TypeOK, InvoiceMatchesSale, NewIntent, SaleRow, PaymentIntent, RowsAreComplete
<1>11. ReservedPlateHasItsInvoice'
  BY <1>1, <1>2, <1>3, <1>4, NoneIsNoRow
  DEF IInv, TypeOK, DatabaseTypeOK, ReservedPlateHasItsInvoice, NewIntent, Reserved,
      Purchase, Plate, SaleRow, PaymentIntent, OwnerMatchesStatus, RowsAreComplete
<1>12. PaidIsIssued'
  BY <1>1, <1>2, <1>3, <1>4
  DEF IInv, TypeOK, DatabaseTypeOK, PaidIsIssued, NewIntent, Reserved, Plate, RowsAreComplete
<1>13. IssuedOnce'
  BY <1>1, <1>2, <1>3, <1>4
  DEF IInv, TypeOK, DatabaseTypeOK, IssuedOnce, NewIntent, Reserved, Plate, RowsAreComplete
<1> QED BY <1>5, <1>6, <1>7, <1>8, <1>9, <1>10, <1>11, <1>12, <1>13 DEF IInv

\* Nothing in the invariant but the types reads the other variables.
LEMMA FrameStep ==
  ASSUME IInv, TypeOK', UNCHANGED <<plates, sales, intents, reservations>>
  PROVE  IInv'
BY DEF IInv, RowsAreComplete, OwnerMatchesStatus, ReservationIsPending, ListingMatchesPlate,
       ActiveSales, InvoiceMatchesSale, ReservedPlateHasItsInvoice, PaidIsIssued, IssuedOnce

LEMMA InvoiceFallsDueStep ==
  ASSUME IInv, NEW i \in Intent,
         InvoiceFallsDue(i)
  PROVE  IInv'
<1>1. intents' = [intents EXCEPT ![i].due = TRUE]
  BY DEF InvoiceFallsDue
<1>2. UNCHANGED <<databaseVars, sales, reservations, lookup, charged, refused>>
  BY DEF InvoiceFallsDue
<1>3. TypeOK'
  <2>1. intents \in [Intent -> PaymentIntent]
    BY DEF IInv, TypeOK
  <2>2. [intents[i] EXCEPT !.due = TRUE] \in PaymentIntent
    BY <2>1 DEF PaymentIntent
  <2>3. intents' \in [Intent -> PaymentIntent]
    BY <1>1, <2>1, <2>2
  <2> QED BY <2>3, <1>2 DEF IInv, TypeOK, DatabaseTypeOK, databaseVars
<1>4. RowsAreComplete'
  BY <1>1, <1>2
  DEF IInv, TypeOK, DatabaseTypeOK, RowsAreComplete, PaymentKind, databaseVars,
      PaymentIntent, Plate, SaleRow
<1>5. OwnerMatchesStatus'
  BY <1>1, <1>2
  DEF IInv, TypeOK, DatabaseTypeOK, OwnerMatchesStatus, databaseVars, PaymentIntent, Plate,
      SaleRow
<1>6. ReservationIsPending'
  BY <1>1, <1>2
  DEF IInv, TypeOK, DatabaseTypeOK, ReservationIsPending, RowsAreComplete, databaseVars,
      PaymentIntent, Plate, SaleRow
<1>7. ListingMatchesPlate'
  BY <1>1, <1>2
  DEF IInv, TypeOK, DatabaseTypeOK, ListingMatchesPlate, ActiveSales, databaseVars,
      PaymentIntent, Plate, SaleRow
<1>8. InvoiceMatchesSale'
  BY <1>1, <1>2
  DEF IInv, TypeOK, DatabaseTypeOK, InvoiceMatchesSale, RowsAreComplete, databaseVars,
      PaymentIntent, Plate, SaleRow
<1>9. ReservedPlateHasItsInvoice'
  BY <1>1, <1>2
  DEF IInv, TypeOK, DatabaseTypeOK, ReservedPlateHasItsInvoice, Purchase,
      OwnerMatchesStatus, RowsAreComplete, databaseVars, PaymentIntent, Plate, SaleRow
<1>10. PaidIsIssued'
  BY <1>1, <1>2
  DEF IInv, TypeOK, DatabaseTypeOK, PaidIsIssued, RowsAreComplete, databaseVars,
      PaymentIntent, Plate, SaleRow
<1>11. IssuedOnce'
  BY <1>1, <1>2
  DEF IInv, TypeOK, DatabaseTypeOK, IssuedOnce, RowsAreComplete, databaseVars,
      PaymentIntent, Plate, SaleRow
<1> QED BY <1>3, <1>4, <1>5, <1>6, <1>7, <1>8, <1>9, <1>10, <1>11 DEF IInv

LEMMA StartTopUpStep ==
  ASSUME IInv, NEW u \in User, NEW i \in Intent, NEW amount \in TopUp,
         StartTopUp(u, i, amount)
  PROVE  IInv'
<1>1. NewIntent(i, "TOP_UP", u, None, None, amount)
  BY DEF StartTopUp
<1>2. UNCHANGED <<databaseVars, sales, reservations, lookup, charged, refused>>
  BY DEF StartTopUp
<1>3. TypeOK'
  <2>1. intents' \in [Intent -> PaymentIntent]
    BY <1>1, NewIntentType, AmountsAreWhole DEF IInv, TypeOK, PaymentKind
  <2> QED BY <2>1, <1>2 DEF IInv, TypeOK, DatabaseTypeOK, databaseVars
<1>4. RowsAreComplete'
  BY <1>1, <1>2
  DEF IInv, TypeOK, DatabaseTypeOK, RowsAreComplete, PaymentKind, databaseVars, NewIntent,
      PaymentIntent, Plate, SaleRow
<1>5. OwnerMatchesStatus'
  BY <1>1, <1>2
  DEF IInv, TypeOK, DatabaseTypeOK, OwnerMatchesStatus, databaseVars, NewIntent,
      PaymentIntent, Plate, SaleRow
<1>6. ReservationIsPending'
  BY <1>1, <1>2
  DEF IInv, TypeOK, DatabaseTypeOK, ReservationIsPending, RowsAreComplete, databaseVars,
      NewIntent, PaymentIntent, Plate, SaleRow
<1>7. ListingMatchesPlate'
  BY <1>1, <1>2
  DEF IInv, TypeOK, DatabaseTypeOK, ListingMatchesPlate, ActiveSales, databaseVars,
      NewIntent, PaymentIntent, Plate, SaleRow
<1>8. InvoiceMatchesSale'
  BY <1>1, <1>2
  DEF IInv, TypeOK, DatabaseTypeOK, InvoiceMatchesSale, RowsAreComplete, databaseVars,
      NewIntent, PaymentIntent, Plate, SaleRow
<1>9. ReservedPlateHasItsInvoice'
  BY <1>1, <1>2
  DEF IInv, TypeOK, DatabaseTypeOK, ReservedPlateHasItsInvoice, Purchase,
      OwnerMatchesStatus, RowsAreComplete, databaseVars, NewIntent, PaymentIntent, Plate,
      SaleRow
<1>10. PaidIsIssued'
  BY <1>1, <1>2
  DEF IInv, TypeOK, DatabaseTypeOK, PaidIsIssued, RowsAreComplete, databaseVars, NewIntent,
      PaymentIntent, Plate, SaleRow
<1>11. IssuedOnce'
  BY <1>1, <1>2
  DEF IInv, TypeOK, DatabaseTypeOK, IssuedOnce, RowsAreComplete, databaseVars, NewIntent,
      PaymentIntent, Plate, SaleRow
<1> QED BY <1>3, <1>4, <1>5, <1>6, <1>7, <1>8, <1>9, <1>10, <1>11 DEF IInv

LEMMA ReserveNumberStep ==
  ASSUME IInv, NEW u \in User, NEW i \in Intent,
         ReserveNumber(u, i)
  PROVE  IInv'
<1>1. PICK n \in Number :
        /\ NewIntent(i, "STATE_EMISSION", u, n, None, policy.state_plate_price)
        /\ reservations' = [reservations EXCEPT ![n] = i]
        /\ lookup' = [lookup EXCEPT ![u] = None]
  BY DEF ReserveNumber, IInv, TypeOK
<1>2. UNCHANGED <<databaseVars, sales, charged, refused>>
  BY DEF ReserveNumber
<1>3. TypeOK'
  <2>1. policy.state_plate_price \in Nat
    BY PoliciesAreValid DEF IInv, TypeOK, DatabaseTypeOK, Policy
  <2>2. intents' \in [Intent -> PaymentIntent]
    BY <1>1, <2>1, NewIntentType DEF IInv, TypeOK, PaymentKind
  <2> QED BY <1>1, <2>2, <1>2 DEF IInv, TypeOK, DatabaseTypeOK, databaseVars
<1>4. RowsAreComplete'
  BY <1>1, <1>2
  DEF IInv, TypeOK, DatabaseTypeOK, RowsAreComplete, PaymentKind, databaseVars, NewIntent,
      PaymentIntent, Plate, SaleRow
<1>5. OwnerMatchesStatus'
  BY <1>1, <1>2
  DEF IInv, TypeOK, DatabaseTypeOK, OwnerMatchesStatus, databaseVars, NewIntent,
      PaymentIntent, Plate, SaleRow
<1>6. ReservationIsPending'
  BY <1>1, <1>2, NoneIsNoRow
  DEF IInv, TypeOK, DatabaseTypeOK, ReservationIsPending, RowsAreComplete, databaseVars,
      NewIntent, PaymentIntent, Plate, SaleRow
<1>7. ListingMatchesPlate'
  BY <1>1, <1>2
  DEF IInv, TypeOK, DatabaseTypeOK, ListingMatchesPlate, ActiveSales, databaseVars,
      NewIntent, PaymentIntent, Plate, SaleRow
<1>8. InvoiceMatchesSale'
  BY <1>1, <1>2
  DEF IInv, TypeOK, DatabaseTypeOK, InvoiceMatchesSale, RowsAreComplete, databaseVars,
      NewIntent, PaymentIntent, Plate, SaleRow
<1>9. ReservedPlateHasItsInvoice'
  BY <1>1, <1>2
  DEF IInv, TypeOK, DatabaseTypeOK, ReservedPlateHasItsInvoice, Purchase,
      OwnerMatchesStatus, RowsAreComplete, databaseVars, NewIntent, PaymentIntent, Plate,
      SaleRow
<1>10. PaidIsIssued'
  BY <1>1, <1>2
  DEF IInv, TypeOK, DatabaseTypeOK, PaidIsIssued, RowsAreComplete, databaseVars, NewIntent,
      PaymentIntent, Plate, SaleRow
<1>11. IssuedOnce'
  BY <1>1, <1>2
  DEF IInv, TypeOK, DatabaseTypeOK, IssuedOnce, RowsAreComplete, databaseVars, NewIntent,
      PaymentIntent, Plate, SaleRow
<1> QED BY <1>3, <1>4, <1>5, <1>6, <1>7, <1>8, <1>9, <1>10, <1>11 DEF IInv

LEMMA StartStatePurchaseStep ==
  ASSUME IInv, NEW u \in User, NEW n \in Number, NEW i \in Intent,
         StartStatePurchase(u, n, i)
  PROVE  IInv'
<1>1. NewIntent(i, "STATE_PURCHASE", u, n, None, policy.state_plate_price)
  BY DEF StartStatePurchase
<1>2. /\ plates' = Reserved(n, u, i)
      /\ plates[n].status = "STATE_SALE" /\ plates[n].owner = None
  BY DEF StartStatePurchase
<1>3. UNCHANGED <<wallets, journal, revenue, history, primary, blocked, outbox, policy,
                  sales, reservations, lookup, charged, refused>>
  BY DEF StartStatePurchase
<1>4. TypeOK'
  <2>1. policy.state_plate_price \in Nat
    BY PoliciesAreValid DEF IInv, TypeOK, DatabaseTypeOK, Policy
  <2>2. intents' \in [Intent -> PaymentIntent]
    BY <1>1, <2>1, NewIntentType DEF IInv, TypeOK, PaymentKind
  <2>3. plates' \in [Number -> Plate]
    BY <1>2, ReservedType DEF IInv, TypeOK, DatabaseTypeOK
  <2> QED BY <2>2, <2>3, <1>3 DEF IInv, TypeOK, DatabaseTypeOK
<1>5. RowsAreComplete'
  BY <1>1, <1>2, <1>3
  DEF IInv, TypeOK, DatabaseTypeOK, RowsAreComplete, PaymentKind, Reserved, NewIntent,
      PaymentIntent, Plate, SaleRow
<1>6. OwnerMatchesStatus'
  BY <1>1, <1>2, <1>3
  DEF IInv, TypeOK, DatabaseTypeOK, OwnerMatchesStatus, Reserved, NewIntent, PaymentIntent,
      Plate, SaleRow
<1>7. ReservationIsPending'
  BY <1>1, <1>2, <1>3
  DEF IInv, TypeOK, DatabaseTypeOK, ReservationIsPending, RowsAreComplete, Reserved,
      NewIntent, PaymentIntent, Plate, SaleRow
<1>8. ListingMatchesPlate'
  BY <1>1, <1>2, <1>3
  DEF IInv, TypeOK, DatabaseTypeOK, ListingMatchesPlate, ActiveSales, Reserved, NewIntent,
      PaymentIntent, Plate, SaleRow
<1>9. InvoiceMatchesSale'
  BY <1>1, <1>2, <1>3
  DEF IInv, TypeOK, DatabaseTypeOK, InvoiceMatchesSale, RowsAreComplete, Reserved,
      NewIntent, PaymentIntent, Plate, SaleRow
<1>10. ReservedPlateHasItsInvoice'
  BY <1>1, <1>2, <1>3, NoneIsNoRow
  DEF IInv, TypeOK, DatabaseTypeOK, ReservedPlateHasItsInvoice, Purchase,
      OwnerMatchesStatus, RowsAreComplete, Reserved, NewIntent, PaymentIntent, Plate,
      SaleRow
<1>11. PaidIsIssued'
  <2>1. \A m \in Number : plates'[m].status = "ABSENT" => plates[m].status = "ABSENT"
    BY <1>2 DEF IInv, TypeOK, DatabaseTypeOK, Reserved, Plate
  <2>2. \A j \in Intent : intents'[j].status = "PAID" =>
          intents[j].status = "PAID" /\ intents'[j] = intents[j]
    BY <1>1 DEF NewIntent, IInv, TypeOK
  <2> QED BY <2>1, <2>2 DEF PaidIsIssued, IInv, RowsAreComplete
<1>12. IssuedOnce'
  BY <1>1, <1>2, <1>3
  DEF IInv, TypeOK, DatabaseTypeOK, IssuedOnce, RowsAreComplete, Reserved, NewIntent,
      PaymentIntent, Plate, SaleRow
<1> QED BY <1>4, <1>5, <1>6, <1>7, <1>8, <1>9, <1>10, <1>11, <1>12 DEF IInv

LEMMA CreateSaleStep ==
  ASSUME IInv, NEW u \in User, NEW n \in Number, NEW s \in Sale, NEW price \in Price,
         CreateSale(u, n, s, price)
  PROVE  IInv'
<1>1. /\ plates[n].owner = u
      /\ plates[n].status = "OWNED"
      /\ plates' = [plates EXCEPT ![n].status = "FIXED_SALE"]
  BY DEF CreateSale
<1>2. /\ sales[s].status = "ABSENT"
      /\ sales' = [sales EXCEPT ![s] =
           [status |-> "ACTIVE", plate |-> n, seller |-> u, buyer |-> None,
            price |-> price, commission |-> Commission(policy, price)]]
  BY DEF CreateSale
<1>3. UNCHANGED <<wallets, journal, revenue, history, primary, blocked, outbox, policy,
                  intents, reservations, lookup, charged, refused>>
  BY DEF CreateSale
<1>4. TypeOK'
  <2>1. plates' \in [Number -> Plate]
    <3>1. plates \in [Number -> Plate]
      BY DEF IInv, TypeOK, DatabaseTypeOK
    <3>2. [plates[n] EXCEPT !.status = "FIXED_SALE"] \in Plate
      BY <3>1 DEF Plate, PlateStatus
    <3> QED BY <1>1, <3>1, <3>2
  <2>2. price \in Nat /\ Commission(policy, price) \in Nat
    BY AmountsAreWhole, PoliciesAreValid, CommissionType DEF IInv, TypeOK, DatabaseTypeOK
  <2>3. sales' \in [Sale -> SaleRow]
    BY <1>2, <2>2 DEF IInv, TypeOK, SaleRow
  <2> QED BY <2>1, <2>3, <1>3 DEF IInv, TypeOK, DatabaseTypeOK
<1>5. RowsAreComplete'
  BY <1>1, <1>2, <1>3
  DEF IInv, TypeOK, DatabaseTypeOK, RowsAreComplete, PaymentKind, PaymentIntent, Plate,
      SaleRow
<1>6. OwnerMatchesStatus'
  BY <1>1, <1>2, <1>3, NoneIsNoRow
  DEF IInv, TypeOK, DatabaseTypeOK, OwnerMatchesStatus, PaymentIntent, Plate, SaleRow
<1>7. ReservationIsPending'
  BY <1>1, <1>2, <1>3
  DEF IInv, TypeOK, DatabaseTypeOK, ReservationIsPending, RowsAreComplete, PaymentIntent,
      Plate, SaleRow
<1>8. ListingMatchesPlate'
  <2>1. ActiveSales(n) = {}
    BY <1>1 DEF IInv, ListingMatchesPlate
  <2>2. ActiveSales(n)' = {s}
    BY <1>2, <2>1 DEF IInv, TypeOK, ActiveSales, SaleRow
  <2>3. \A m \in Number \ {n} : ActiveSales(m)' = ActiveSales(m)
    BY <1>2 DEF IInv, TypeOK, ActiveSales, SaleRow
  <2>4. \A m \in Number \ {n} : plates'[m] = plates[m]
    BY <1>1 DEF IInv, TypeOK, DatabaseTypeOK
  <2>5. \A m \in Number \ {n} : \A t \in ActiveSales(m) : t # s /\ sales'[t] = sales[t]
    BY <1>2 DEF ActiveSales, IInv, TypeOK
  <2>6. /\ plates'[n].status = "FIXED_SALE" /\ plates'[n].owner = u
        /\ sales'[s].seller = u /\ sales'[s].status = "ACTIVE"
    BY <1>1, <1>2 DEF IInv, TypeOK, DatabaseTypeOK, Plate
  <2> QED BY <2>2, <2>3, <2>4, <2>5, <2>6 DEF IInv, ListingMatchesPlate
<1>9. InvoiceMatchesSale'
  BY <1>1, <1>2, <1>3
  DEF IInv, TypeOK, DatabaseTypeOK, InvoiceMatchesSale, RowsAreComplete, PaymentIntent,
      Plate, SaleRow
<1>10. ReservedPlateHasItsInvoice'
  BY <1>1, <1>2, <1>3
  DEF IInv, TypeOK, DatabaseTypeOK, ReservedPlateHasItsInvoice, Purchase,
      OwnerMatchesStatus, RowsAreComplete, PaymentIntent, Plate, SaleRow
<1>11. PaidIsIssued'
  BY <1>1, <1>2, <1>3
  DEF IInv, TypeOK, DatabaseTypeOK, PaidIsIssued, RowsAreComplete, PaymentIntent, Plate,
      SaleRow
<1>12. IssuedOnce'
  BY <1>1, <1>2, <1>3
  DEF IInv, TypeOK, DatabaseTypeOK, IssuedOnce, RowsAreComplete, PaymentIntent, Plate,
      SaleRow
<1> QED BY <1>4, <1>5, <1>6, <1>7, <1>8, <1>9, <1>10, <1>11, <1>12 DEF IInv

LEMMA CancelSaleStep ==
  ASSUME IInv, NEW u \in User, NEW n \in Number,
         CancelSale(u, n)
  PROVE  IInv'
<1>1. PICK s \in ActiveSales(n) :
        /\ sales[s].status # "RESERVED"
        /\ sales' = [sales EXCEPT ![s].status = "CANCELLED"]
  BY DEF CancelSale, Cancellable
<1>2. plates' = [plates EXCEPT ![n].status = "OWNED"]
  BY DEF CancelSale
<1>3. UNCHANGED <<wallets, journal, revenue, history, primary, blocked, outbox, policy,
                  intents, reservations, lookup, charged, refused>>
  BY DEF CancelSale
<1>4. /\ s \in Sale /\ sales[s].plate = n /\ sales[s].status = "ACTIVE"
      /\ plates[n].status = "FIXED_SALE" /\ plates[n].owner = sales[s].seller
  BY <1>1 DEF ActiveSales, IInv, ListingMatchesPlate
<1>5. \A t \in ActiveSales(n) : t = s
  BY <1>1 DEF IInv, ListingMatchesPlate
<1>6. TypeOK'
  <2>1. plates' \in [Number -> Plate]
    <3>1. plates \in [Number -> Plate]
      BY DEF IInv, TypeOK, DatabaseTypeOK
    <3>2. [plates[n] EXCEPT !.status = "OWNED"] \in Plate
      BY <3>1 DEF Plate, PlateStatus
    <3> QED BY <1>2, <3>1, <3>2
  <2>2. sales' \in [Sale -> SaleRow]
    BY <1>1, <1>4 DEF IInv, TypeOK, SaleRow
  <2> QED BY <2>1, <2>2, <1>3 DEF IInv, TypeOK, DatabaseTypeOK
<1>7. RowsAreComplete'
  BY <1>1, <1>2, <1>3, <1>4, <1>5
  DEF IInv, TypeOK, DatabaseTypeOK, RowsAreComplete, PaymentKind, PaymentIntent, Plate,
      SaleRow
<1>8. OwnerMatchesStatus'
  BY <1>1, <1>2, <1>3, <1>4, <1>5
  DEF IInv, TypeOK, DatabaseTypeOK, OwnerMatchesStatus, PaymentIntent, Plate, SaleRow
<1>9. ReservationIsPending'
  BY <1>1, <1>2, <1>3, <1>4, <1>5
  DEF IInv, TypeOK, DatabaseTypeOK, ReservationIsPending, RowsAreComplete, PaymentIntent,
      Plate, SaleRow
<1>10. ListingMatchesPlate'
  BY <1>1, <1>2, <1>3, <1>4, <1>5
  DEF IInv, TypeOK, DatabaseTypeOK, ListingMatchesPlate, ActiveSales, PaymentIntent, Plate,
      SaleRow
<1>11. InvoiceMatchesSale'
  BY <1>1, <1>2, <1>3, <1>4, <1>5
  DEF IInv, TypeOK, DatabaseTypeOK, InvoiceMatchesSale, RowsAreComplete, PaymentIntent,
      Plate, SaleRow
<1>12. ReservedPlateHasItsInvoice'
  BY <1>1, <1>2, <1>3, <1>4, <1>5
  DEF IInv, TypeOK, DatabaseTypeOK, ReservedPlateHasItsInvoice, Purchase,
      OwnerMatchesStatus, RowsAreComplete, PaymentIntent, Plate, SaleRow
<1>13. PaidIsIssued'
  BY <1>1, <1>2, <1>3, <1>4, <1>5
  DEF IInv, TypeOK, DatabaseTypeOK, PaidIsIssued, RowsAreComplete, PaymentIntent, Plate,
      SaleRow
<1>14. IssuedOnce'
  BY <1>1, <1>2, <1>3, <1>4, <1>5
  DEF IInv, TypeOK, DatabaseTypeOK, IssuedOnce, RowsAreComplete, PaymentIntent, Plate,
      SaleRow
<1> QED BY <1>6, <1>7, <1>8, <1>9, <1>10, <1>11, <1>12, <1>13, <1>14 DEF IInv

LEMMA CompleteTopUpStep ==
  ASSUME IInv, NEW c \in Charge, NEW i \in Intent,
         CompleteTopUp(c, i)
  PROVE  IInv'
<1>1. /\ intents[i].status = "PENDING" /\ intents[i].kind = "TOP_UP"
      /\ Paid(i, c)
  BY DEF CompleteTopUp, Payable
<1>2. UNCHANGED <<plates, revenue, history, primary, blocked, policy,
                  sales, reservations, lookup, charged, refused>>
  BY DEF CompleteTopUp
<1>3. TypeOK'
  <2> DEFINE u == intents[i].user
             w == Credited(wallets[u], intents[i].amount)
  <2>1. /\ CanCredit(intents[i].amount)
        /\ wallets' = [wallets EXCEPT ![u] = w]
        /\ journal' = [journal EXCEPT ![u] = Recorded(@, wallets[u], w)]
        /\ outbox' = Queued(outbox, u, "BALANCE_TOPUP")
    BY DEF CompleteTopUp
  <2>2. u \in User
    BY <1>1 DEF IInv, RowsAreComplete
  <2>3. intents[i].amount \in Int /\ wallets[u] \in Wallet
    BY <2>2 DEF IInv, TypeOK, DatabaseTypeOK, PaymentIntent
  <2>4. w \in Wallet
    BY <2>1, <2>3, CreditedType
  <2>5. Recorded(journal[u], wallets[u], w) \in Totals
    BY <2>2, <2>3, <2>4, RecordedType DEF IInv, TypeOK, DatabaseTypeOK
  <2>6. outbox' \in [User -> [NotificationType -> Nat]]
    BY <2>1, <2>2, QueuedType DEF IInv, TypeOK, DatabaseTypeOK, NotificationType
  <2>7. intents' \in [Intent -> PaymentIntent]
    BY <1>1, PaidType DEF IInv, TypeOK
  <2>8. wallets' \in [User -> Wallet] /\ journal' \in [User -> Totals]
    BY <2>1, <2>2, <2>4, <2>5 DEF IInv, TypeOK, DatabaseTypeOK
  <2> QED BY <1>2, <2>6, <2>7, <2>8 DEF IInv, TypeOK, DatabaseTypeOK
<1>4. RowsAreComplete'
  BY <1>1, <1>2
  DEF IInv, TypeOK, DatabaseTypeOK, RowsAreComplete, PaymentKind, Paid, PaymentIntent,
      Plate, SaleRow
<1>5. OwnerMatchesStatus'
  BY <1>1, <1>2
  DEF IInv, TypeOK, DatabaseTypeOK, OwnerMatchesStatus, Paid, PaymentIntent, Plate, SaleRow
<1>6. ReservationIsPending'
  BY <1>1, <1>2
  DEF IInv, TypeOK, DatabaseTypeOK, ReservationIsPending, RowsAreComplete, Paid,
      PaymentIntent, Plate, SaleRow
<1>7. ListingMatchesPlate'
  BY <1>1, <1>2
  DEF IInv, TypeOK, DatabaseTypeOK, ListingMatchesPlate, ActiveSales, Paid, PaymentIntent,
      Plate, SaleRow
<1>8. InvoiceMatchesSale'
  BY <1>1, <1>2
  DEF IInv, TypeOK, DatabaseTypeOK, InvoiceMatchesSale, RowsAreComplete, Paid,
      PaymentIntent, Plate, SaleRow
<1>9. ReservedPlateHasItsInvoice'
  BY <1>1, <1>2
  DEF IInv, TypeOK, DatabaseTypeOK, ReservedPlateHasItsInvoice, Purchase,
      OwnerMatchesStatus, RowsAreComplete, Paid, PaymentIntent, Plate, SaleRow
<1>10. PaidIsIssued'
  BY <1>1, <1>2
  DEF IInv, TypeOK, DatabaseTypeOK, PaidIsIssued, RowsAreComplete, Paid, PaymentIntent,
      Plate, SaleRow
<1>11. IssuedOnce'
  BY <1>1, <1>2
  DEF IInv, TypeOK, DatabaseTypeOK, IssuedOnce, RowsAreComplete, Paid, PaymentIntent, Plate,
      SaleRow
<1> QED BY <1>3, <1>4, <1>5, <1>6, <1>7, <1>8, <1>9, <1>10, <1>11 DEF IInv

LEMMA CompleteStateEmissionStep ==
  ASSUME IInv, NEW c \in Charge, NEW i \in Intent,
         CompleteStateEmission(c, i)
  PROVE  IInv'
<1>1. /\ intents[i].status = "PENDING" /\ intents[i].kind = "STATE_EMISSION"
      /\ Paid(i, c)
  BY DEF CompleteStateEmission, Payable
<1>2. /\ plates' = Delivered(intents[i].plate, intents[i].user)
      /\ plates[intents[i].plate].status = "ABSENT"
  BY DEF CompleteStateEmission, EmissionOpen
<1>3. /\ reservations[intents[i].plate] = i
      /\ reservations' = [reservations EXCEPT ![intents[i].plate] = None]
  BY DEF CompleteStateEmission, EmissionOpen
<1>4. UNCHANGED <<wallets, journal, primary, blocked, policy, sales, lookup, charged, refused>>
  BY DEF CompleteStateEmission
<1>5. intents[i].user \in User /\ intents[i].plate \in Number
  BY <1>1 DEF IInv, RowsAreComplete
<1>6. TypeOK'
  <2> DEFINE u == intents[i].user
             n == intents[i].plate
  <2>1. u \in User /\ n \in Number
    BY <1>1 DEF IInv, RowsAreComplete
  <2>2. plates' \in [Number -> Plate]
    BY <1>2, <2>1, DeliveredType DEF IInv, TypeOK, DatabaseTypeOK
  <2>3. history' \in [Number -> Seq(OwnershipHistory)]
    BY <2>1, WithTransferType DEF IInv, TypeOK, DatabaseTypeOK, CompleteStateEmission, OwnershipOperation
  <2>4. outbox' \in [User -> [NotificationType -> Nat]]
    BY <2>1, QueuedType DEF IInv, TypeOK, DatabaseTypeOK, CompleteStateEmission, NotificationType
  <2>5. intents' \in [Intent -> PaymentIntent]
    BY <1>1, PaidType DEF IInv, TypeOK
  <2>6. revenue' \in Nat
    BY DEF IInv, TypeOK, DatabaseTypeOK, CompleteStateEmission, PaymentIntent
  <2>7. reservations' \in [Number -> Intent \cup {None}]
    BY <1>3, <2>1 DEF IInv, TypeOK
  <2> QED BY <1>4, <2>2, <2>3, <2>4, <2>5, <2>6, <2>7 DEF IInv, TypeOK, DatabaseTypeOK
<1>7. RowsAreComplete'
  BY <1>1, <1>2, <1>3, <1>4, <1>5
  DEF IInv, TypeOK, DatabaseTypeOK, RowsAreComplete, PaymentKind, Paid, Delivered,
      PaymentIntent, Plate, SaleRow
<1>8. OwnerMatchesStatus'
  BY <1>1, <1>2, <1>3, <1>4, <1>5, NoneIsNoRow
  DEF IInv, TypeOK, DatabaseTypeOK, OwnerMatchesStatus, Paid, Delivered, PaymentIntent,
      Plate, SaleRow
<1>9. ReservationIsPending'
  BY <1>1, <1>2, <1>3, <1>4, <1>5
  DEF IInv, TypeOK, DatabaseTypeOK, ReservationIsPending, RowsAreComplete, Paid, Delivered,
      PaymentIntent, Plate, SaleRow
<1>10. ListingMatchesPlate'
  BY <1>1, <1>2, <1>3, <1>4, <1>5
  DEF IInv, TypeOK, DatabaseTypeOK, ListingMatchesPlate, ActiveSales, Paid, Delivered,
      PaymentIntent, Plate, SaleRow
<1>11. InvoiceMatchesSale'
  BY <1>1, <1>2, <1>3, <1>4, <1>5
  DEF IInv, TypeOK, DatabaseTypeOK, InvoiceMatchesSale, RowsAreComplete, Paid, Delivered,
      PaymentIntent, Plate, SaleRow
<1>12. ReservedPlateHasItsInvoice'
  BY <1>1, <1>2, <1>3, <1>4, <1>5, NoneIsNoRow
  DEF IInv, TypeOK, DatabaseTypeOK, ReservedPlateHasItsInvoice, Purchase,
      OwnerMatchesStatus, RowsAreComplete, Paid, Delivered, PaymentIntent, Plate, SaleRow
<1>13. PaidIsIssued'
  BY <1>1, <1>2, <1>3, <1>4, <1>5
  DEF IInv, TypeOK, DatabaseTypeOK, PaidIsIssued, RowsAreComplete, Paid, Delivered,
      PaymentIntent, Plate, SaleRow
<1>14. IssuedOnce'
  <2>1. \A j \in Intent :
          intents[j].status = "PAID" /\ intents[j].kind = "STATE_EMISSION"
            => intents[j].plate # intents[i].plate
    BY <1>2 DEF IInv, PaidIsIssued
  <2>2. \A j \in Intent \ {i} : intents'[j] = intents[j]
    BY <1>1 DEF IInv, TypeOK, Paid
  <2>3. intents'[i].plate = intents[i].plate
    BY <1>1 DEF IInv, TypeOK, Paid, PaymentIntent
  <2> QED BY <2>1, <2>2, <2>3 DEF IInv, IssuedOnce
<1> QED BY <1>6, <1>7, <1>8, <1>9, <1>10, <1>11, <1>12, <1>13, <1>14 DEF IInv

LEMMA CompleteStatePurchaseStep ==
  ASSUME IInv, NEW c \in Charge, NEW i \in Intent,
         CompleteStatePurchase(c, i)
  PROVE  IInv'
<1>1. /\ intents[i].status = "PENDING" /\ intents[i].kind = "STATE_PURCHASE"
      /\ Paid(i, c)
  BY DEF CompleteStatePurchase, Payable
<1>2. /\ plates' = Delivered(intents[i].plate, intents[i].user)
      /\ plates[intents[i].plate].status = "RESERVED"
      /\ plates[intents[i].plate].owner = None
  BY DEF CompleteStatePurchase, StatePurchaseOpen
<1>3. UNCHANGED <<wallets, journal, primary, blocked, policy,
                  sales, reservations, lookup, charged, refused>>
  BY DEF CompleteStatePurchase
<1>4. intents[i].user \in User /\ intents[i].plate \in Number
  BY <1>1 DEF IInv, RowsAreComplete
<1>5. TypeOK'
  <2> DEFINE u == intents[i].user
             n == intents[i].plate
  <2>1. u \in User /\ n \in Number
    BY <1>1 DEF IInv, RowsAreComplete
  <2>2. plates' \in [Number -> Plate]
    BY <1>2, <2>1, DeliveredType DEF IInv, TypeOK, DatabaseTypeOK
  <2>3. history' \in [Number -> Seq(OwnershipHistory)]
    BY <2>1, WithTransferType DEF IInv, TypeOK, DatabaseTypeOK, CompleteStatePurchase, OwnershipOperation
  <2>4. outbox' \in [User -> [NotificationType -> Nat]]
    BY <2>1, QueuedType DEF IInv, TypeOK, DatabaseTypeOK, CompleteStatePurchase, NotificationType
  <2>5. intents' \in [Intent -> PaymentIntent]
    BY <1>1, PaidType DEF IInv, TypeOK
  <2>6. revenue' \in Nat
    BY DEF IInv, TypeOK, DatabaseTypeOK, CompleteStatePurchase, PaymentIntent
  <2> QED BY <1>3, <2>2, <2>3, <2>4, <2>5, <2>6 DEF IInv, TypeOK, DatabaseTypeOK
<1>6. RowsAreComplete'
  BY <1>1, <1>2, <1>3, <1>4
  DEF IInv, TypeOK, DatabaseTypeOK, RowsAreComplete, PaymentKind, Paid, Delivered,
      PaymentIntent, Plate, SaleRow
<1>7. OwnerMatchesStatus'
  BY <1>1, <1>2, <1>3, <1>4, NoneIsNoRow
  DEF IInv, TypeOK, DatabaseTypeOK, OwnerMatchesStatus, Paid, Delivered, PaymentIntent,
      Plate, SaleRow
<1>8. ReservationIsPending'
  BY <1>1, <1>2, <1>3, <1>4
  DEF IInv, TypeOK, DatabaseTypeOK, ReservationIsPending, RowsAreComplete, Paid, Delivered,
      PaymentIntent, Plate, SaleRow
<1>9. ListingMatchesPlate'
  BY <1>1, <1>2, <1>3, <1>4, NoneIsNoRow
  DEF IInv, TypeOK, DatabaseTypeOK, ListingMatchesPlate, ActiveSales, Paid, Delivered,
      PaymentIntent, Plate, SaleRow, RowsAreComplete
<1>10. InvoiceMatchesSale'
  BY <1>1, <1>2, <1>3, <1>4
  DEF IInv, TypeOK, DatabaseTypeOK, InvoiceMatchesSale, RowsAreComplete, Paid, Delivered,
      PaymentIntent, Plate, SaleRow
<1>11. ReservedPlateHasItsInvoice'
  BY <1>1, <1>2, <1>3, <1>4, NoneIsNoRow
  DEF IInv, TypeOK, DatabaseTypeOK, ReservedPlateHasItsInvoice, Purchase,
      OwnerMatchesStatus, RowsAreComplete, Paid, Delivered, PaymentIntent, Plate, SaleRow
<1>12. PaidIsIssued'
  BY <1>1, <1>2, <1>3, <1>4
  DEF IInv, TypeOK, DatabaseTypeOK, PaidIsIssued, RowsAreComplete, Paid, Delivered,
      PaymentIntent, Plate, SaleRow
<1>13. IssuedOnce'
  BY <1>1, <1>2, <1>3, <1>4
  DEF IInv, TypeOK, DatabaseTypeOK, IssuedOnce, RowsAreComplete, Paid, Delivered,
      PaymentIntent, Plate, SaleRow
<1> QED BY <1>5, <1>6, <1>7, <1>8, <1>9, <1>10, <1>11, <1>12, <1>13 DEF IInv

LEMMA CompleteSalePurchaseStep ==
  ASSUME IInv, NEW c \in Charge, NEW i \in Intent,
         CompleteSalePurchase(c, i)
  PROVE  IInv'
<1>1. PICK n \in Number, s \in Sale, buyer \in User, seller \in User :
        /\ intents[i].plate = n /\ intents[i].sale = s /\ intents[i].user = buyer
        /\ sales[s].seller = seller
  BY DEF CompleteSalePurchase, Payable, SalePurchaseOpen, ActiveSales, IInv, RowsAreComplete
<1> DEFINE w == Credited(wallets[seller], sales[s].price - sales[s].commission)
<1>2. /\ intents[i].status = "PENDING" /\ intents[i].kind = "SALE_PURCHASE"
      /\ Paid(i, c)
      /\ s \in ActiveSales(n) /\ plates[n].status = "RESERVED"
      /\ CanCredit(sales[s].price - sales[s].commission)
  BY <1>1 DEF CompleteSalePurchase, Payable, SalePurchaseOpen
<1>3. /\ plates' = Delivered(n, buyer)
      /\ sales' = [sales EXCEPT ![s].status = "COMPLETED", ![s].buyer = buyer]
  BY <1>1 DEF CompleteSalePurchase
<1>4. /\ UNCHANGED <<blocked, policy, reservations, lookup, charged, refused>>
      /\ wallets' = [wallets EXCEPT ![seller] = w]
      /\ journal' = [journal EXCEPT ![seller] = Recorded(@, wallets[seller], w)]
      /\ revenue' = revenue + sales[s].commission
      /\ primary' = WithoutPrimary(n)
      /\ history' = SaleRecorded(n, buyer)
      /\ outbox' = BothNotified(seller, buyer)
  BY <1>1 DEF CompleteSalePurchase
<1>5. /\ \A j \in Intent : j # i => intents'[j] = intents[j]
      /\ intents'[i].status = "PAID" /\ intents'[i].kind = "SALE_PURCHASE"
      /\ intents'[i].user = buyer /\ intents'[i].plate = n /\ intents'[i].sale = s
      /\ intents'[i].amount = intents[i].amount
  BY <1>1, <1>2 DEF IInv, TypeOK, Paid, PaymentIntent
<1>6. TypeOK'
  <2>1. plates' \in [Number -> Plate]
    BY <1>1, <1>3, DeliveredType DEF IInv, TypeOK, DatabaseTypeOK
  <2>2. sales' \in [Sale -> SaleRow]
    <3>1. PICK row \in SaleRow : row = sales[s]
      BY <1>1 DEF IInv, TypeOK
    <3>2. [[row EXCEPT !.status = "COMPLETED"] EXCEPT !.buyer = buyer] \in SaleRow
      BY <1>1 DEF SaleRow
    <3>3. [sales[s] EXCEPT !.status = "COMPLETED", !.buyer = buyer] \in SaleRow
      BY <3>1, <3>2
    <3> QED BY <1>3, <3>3 DEF IInv, TypeOK
  <2>3. intents' \in [Intent -> PaymentIntent]
    BY <1>2, PaidType DEF IInv, TypeOK
  <2>4. /\ w \in Wallet /\ Recorded(journal[seller], wallets[seller], w) \in Totals
        /\ revenue' \in Nat
    BY <1>1, <1>2, <1>4, CreditedType, RecordedType DEF IInv, TypeOK, DatabaseTypeOK, SaleRow
  <2> HIDE DEF w
  <2>5. wallets' \in [User -> Wallet] /\ journal' \in [User -> Totals]
    BY <1>1, <1>4, <2>4 DEF IInv, TypeOK, DatabaseTypeOK
  <2>6. primary' \in [User -> Number \cup {None}]
    BY <1>1, <1>4, WithoutPrimaryType DEF IInv, TypeOK, DatabaseTypeOK
  <2>7. history' \in [Number -> Seq(OwnershipHistory)]
    BY <1>1, <1>4, WithTransferType
    DEF IInv, TypeOK, DatabaseTypeOK, SaleRecorded, OwnershipOperation, Plate
  <2>8. outbox' \in [User -> [NotificationType -> Nat]]
    BY <1>1, <1>4, QueuedType DEF IInv, TypeOK, DatabaseTypeOK, BothNotified, NotificationType
  <2> QED BY <1>4, <2>1, <2>2, <2>3, <2>4, <2>5, <2>6, <2>7, <2>8
          DEF IInv, TypeOK, DatabaseTypeOK
<1>7. /\ plates'[n].status = "OWNED" /\ plates'[n].owner = buyer
      /\ plates'[n].reservedBy = None /\ plates'[n].reservedUntil = None
      /\ \A m \in Number : m # n => plates'[m] = plates[m]
  BY <1>1, <1>3 DEF Delivered, IInv, TypeOK, DatabaseTypeOK
<1>8. /\ \A t \in Sale : t # s => sales'[t] = sales[t]
      /\ sales'[s].status = "COMPLETED" /\ sales'[s].plate = sales[s].plate
      /\ sales'[s].seller = sales[s].seller /\ sales'[s].price = sales[s].price
  BY <1>1, <1>3 DEF IInv, TypeOK, SaleRow
<1>9. /\ intents[i].plate = n /\ sales[s].plate = n /\ sales[s].status # "ABSENT"
      /\ \A t \in ActiveSales(n) : t = s
      /\ plates[n].reservedUntil = i
  BY <1>1, <1>2 DEF IInv, ListingMatchesPlate, ActiveSales, ReservedPlateHasItsInvoice, Purchase
<1>10. RowsAreComplete'
  BY <1>1, <1>5, <1>8, <1>9 DEF IInv, RowsAreComplete, PaymentKind
<1>11. OwnerMatchesStatus'
  BY <1>1, <1>7, NoneIsNoRow DEF IInv, OwnerMatchesStatus
<1>12. ReservationIsPending'
  BY <1>2, <1>4, <1>5 DEF IInv, TypeOK, ReservationIsPending
<1>13. ListingMatchesPlate'
  <2>1. ActiveSales(n)' = {}
    BY <1>8, <1>9 DEF ActiveSales
  <2>2. \A m \in Number : m # n => ActiveSales(m)' = ActiveSales(m)
    BY <1>8, <1>9 DEF ActiveSales
  <2>3. \A m \in Number : m # n => \A t \in ActiveSales(m) : sales'[t] = sales[t]
    BY <1>8, <1>9 DEF ActiveSales
  <2> QED BY <1>7, <2>1, <2>2, <2>3 DEF IInv, ListingMatchesPlate
<1>14. InvoiceMatchesSale'
  <2>1. \A t \in Sale : /\ sales'[t].plate = sales[t].plate
                        /\ sales'[t].seller = sales[t].seller
                        /\ sales'[t].price = sales[t].price
                        /\ sales[t].status # "ABSENT" => sales'[t].status # "ABSENT"
    BY <1>8
  <2>2. \A j \in Intent : /\ intents'[j].kind = intents[j].kind
                          /\ intents'[j].sale = intents[j].sale
                          /\ intents'[j].plate = intents[j].plate
                          /\ intents'[j].user = intents[j].user
                          /\ intents'[j].amount = intents[j].amount
                          /\ intents[j].kind = "SALE_PURCHASE" => intents[j].sale \in Sale
    BY <1>1, <1>2, <1>5, NoneIsNoKind DEF IInv, RowsAreComplete
  <2> QED BY <2>1, <2>2 DEF IInv, InvoiceMatchesSale
<1>15. ReservedPlateHasItsInvoice'
  <2>1. ASSUME NEW m \in Number, m # n, plates[m].status = "RESERVED"
        PROVE  LET j == plates[m].reservedUntil IN
               /\ j \in Intent /\ j # i
               /\ plates[m].owner # None => intents[j].sale \in Sale /\ intents[j].sale # s
    <3>1. PICK j \in Intent : j = plates[m].reservedUntil
      BY <2>1 DEF IInv, TypeOK, DatabaseTypeOK, Plate, ReservedPlateHasItsInvoice
    <3>2. j # i
      BY <1>9, <2>1, <3>1 DEF IInv, ReservedPlateHasItsInvoice
    <3>3. ASSUME plates[m].owner # None
          PROVE  intents[j].sale \in Sale /\ intents[j].sale # s
      BY <1>9, <2>1, <3>1, <3>3
      DEF IInv, ReservedPlateHasItsInvoice, RowsAreComplete, InvoiceMatchesSale
    <3> QED BY <3>1, <3>2, <3>3
  <2>2. \A m \in Number : LET j == plates'[m].reservedUntil IN
          IF plates'[m].status = "RESERVED"
          THEN /\ j # None
               /\ intents'[j].status = "PENDING"
               /\ intents'[j].plate = m
               /\ intents'[j].user = plates'[m].reservedBy
               /\ IF plates'[m].owner = None THEN intents'[j].kind = "STATE_PURCHASE"
                  ELSE /\ intents'[j].kind = "SALE_PURCHASE"
                       /\ sales'[intents'[j].sale].status = "RESERVED"
          ELSE j = None /\ plates'[m].reservedBy = None
    BY <1>5, <1>7, <1>8, <2>1 DEF IInv, ReservedPlateHasItsInvoice
  <2>3. \A j \in Intent : intents'[j].status = "PENDING" /\ intents'[j].kind \in Purchase
          => /\ j # i /\ intents[j].plate \in Number /\ intents[j].plate # n
             /\ plates[intents[j].plate].reservedUntil = j
    BY <1>5, <1>9 DEF IInv, ReservedPlateHasItsInvoice, RowsAreComplete, Purchase
  <2>4. \A j \in Intent : intents'[j].status = "PENDING" /\ intents'[j].kind \in Purchase
          => plates'[intents'[j].plate].reservedUntil = j
    BY <1>5, <1>7, <2>3
  <2> QED BY <2>2, <2>4 DEF ReservedPlateHasItsInvoice, Purchase
<1>16. PaidIsIssued'
  BY <1>5, <1>7 DEF IInv, PaidIsIssued, RowsAreComplete
<1>17. IssuedOnce'
  BY <1>5 DEF IInv, IssuedOnce
<1> QED BY <1>6, <1>10, <1>11, <1>12, <1>13, <1>14, <1>15, <1>16, <1>17 DEF IInv

\* What an expiry changes in the invoices, for the steps that follow.
LEMMA ExpiredRow ==
  ASSUME intents \in [Intent -> PaymentIntent], NEW i \in Intent, Expired(i)
  PROVE  /\ intents[i].status = "PENDING"
         /\ \A j \in Intent : j # i => intents'[j] = intents[j]
         /\ intents'[i].status = "EXPIRED" /\ intents'[i].kind = intents[i].kind
         /\ intents'[i].user = intents[i].user /\ intents'[i].plate = intents[i].plate
         /\ intents'[i].sale = intents[i].sale /\ intents'[i].amount = intents[i].amount
BY DEF Expired, PaymentIntent

LEMMA ExpireTopUpStep ==
  ASSUME IInv, NEW i \in Intent, ExpireTopUp(i)
  PROVE  IInv'
<1>1. /\ intents[i].kind = "TOP_UP" /\ Expired(i)
      /\ UNCHANGED <<databaseVars, sales, reservations, lookup, charged, refused>>
  BY DEF ExpireTopUp
<1>2. /\ UNCHANGED <<plates, sales, reservations>>
      /\ intents \in [Intent -> PaymentIntent]
  BY <1>1 DEF databaseVars, IInv, TypeOK
<1>3. TypeOK'
  BY <1>1, <1>2, ExpiredType DEF IInv, TypeOK, DatabaseTypeOK, databaseVars
<1>4. RowsAreComplete'
  BY <1>1, <1>2, ExpiredRow DEF IInv, RowsAreComplete
<1>5. OwnerMatchesStatus'
  BY <1>2 DEF IInv, OwnerMatchesStatus
<1>6. ReservationIsPending'
  BY <1>1, <1>2, ExpiredRow DEF IInv, TypeOK, ReservationIsPending
<1>7. ListingMatchesPlate'
  BY <1>2 DEF IInv, ListingMatchesPlate, ActiveSales
<1>8. InvoiceMatchesSale'
  BY <1>1, <1>2, ExpiredRow DEF IInv, InvoiceMatchesSale
<1>9. ReservedPlateHasItsInvoice'
  <2>1. \A n \in Number : plates[n].status = "RESERVED" =>
          plates[n].reservedUntil \in Intent /\ plates[n].reservedUntil # i
    BY <1>1 DEF IInv, TypeOK, DatabaseTypeOK, Plate, ReservedPlateHasItsInvoice
  <2> QED BY <1>1, <1>2, <2>1, ExpiredRow DEF IInv, ReservedPlateHasItsInvoice, Purchase
<1>10. PaidIsIssued'
  BY <1>1, <1>2, ExpiredRow DEF IInv, PaidIsIssued
<1>11. IssuedOnce'
  BY <1>1, <1>2, ExpiredRow DEF IInv, IssuedOnce
<1> QED BY <1>3, <1>4, <1>5, <1>6, <1>7, <1>8, <1>9, <1>10, <1>11 DEF IInv

LEMMA ExpireEmissionStep ==
  ASSUME IInv, NEW i \in Intent, ExpireEmission(i)
  PROVE  IInv'
<1>1. /\ intents[i].kind = "STATE_EMISSION" /\ Expired(i)
      /\ reservations' = ReservationReleased(i)
      /\ UNCHANGED <<databaseVars, sales, lookup, charged, refused>>
  BY DEF ExpireEmission
<1>2. /\ UNCHANGED <<plates, sales>>
      /\ intents \in [Intent -> PaymentIntent]
  BY <1>1 DEF databaseVars, IInv, TypeOK
<1>3. PICK n \in Number : n = intents[i].plate
  BY <1>1, <1>2, ExpiredRow DEF IInv, RowsAreComplete
<1>4. /\ reservations' \in [Number -> Intent \cup {None}]
      /\ \A m \in Number : reservations'[m] # None =>
           reservations'[m] = reservations[m] /\ reservations'[m] # i
  <2>1. \A m \in Number : reservations[m] = i => m = n
    BY <1>3, NoneIsNoRow DEF IInv, ReservationIsPending
  <2> QED BY <1>1, <1>3, <2>1, NoneIsNoRow DEF ReservationReleased, IInv, TypeOK
<1>5. TypeOK'
  BY <1>1, <1>2, <1>4, ExpiredType DEF IInv, TypeOK, DatabaseTypeOK, databaseVars
<1>6. RowsAreComplete'
  BY <1>1, <1>2, ExpiredRow DEF IInv, RowsAreComplete
<1>7. OwnerMatchesStatus'
  BY <1>2 DEF IInv, OwnerMatchesStatus
<1>8. ReservationIsPending'
  BY <1>1, <1>2, <1>4, ExpiredRow DEF IInv, TypeOK, ReservationIsPending
<1>9. ListingMatchesPlate'
  BY <1>2 DEF IInv, ListingMatchesPlate, ActiveSales
<1>10. InvoiceMatchesSale'
  BY <1>1, <1>2, ExpiredRow DEF IInv, InvoiceMatchesSale
<1>11. ReservedPlateHasItsInvoice'
  <2>1. \A m \in Number : plates[m].status = "RESERVED" =>
          plates[m].reservedUntil \in Intent /\ plates[m].reservedUntil # i
    BY <1>1 DEF IInv, TypeOK, DatabaseTypeOK, Plate, ReservedPlateHasItsInvoice
  <2> QED BY <1>1, <1>2, <2>1, ExpiredRow DEF IInv, ReservedPlateHasItsInvoice, Purchase
<1>12. PaidIsIssued'
  BY <1>1, <1>2, ExpiredRow DEF IInv, PaidIsIssued
<1>13. IssuedOnce'
  BY <1>1, <1>2, ExpiredRow DEF IInv, IssuedOnce
<1> QED BY <1>5, <1>6, <1>7, <1>8, <1>9, <1>10, <1>11, <1>12, <1>13 DEF IInv

\* What a released plate looks like.
LEMMA ReleasedRow ==
  ASSUME plates \in [Number -> Plate], NEW n \in Number, NEW status \in PlateStatus,
         plates' = Released(n, status)
  PROVE  /\ \A m \in Number : m # n => plates'[m] = plates[m]
         /\ plates'[n].status = status /\ plates'[n].owner = plates[n].owner
         /\ plates'[n].reservedBy = None /\ plates'[n].reservedUntil = None
BY DEF Released, Plate

LEMMA ExpireStatePurchaseStep ==
  ASSUME IInv, NEW i \in Intent, ExpireStatePurchase(i)
  PROVE  IInv'
<1>1. /\ intents[i].kind = "STATE_PURCHASE" /\ Expired(i)
      /\ intents[i].status = "PENDING" /\ intents \in [Intent -> PaymentIntent]
      /\ UNCHANGED <<wallets, journal, revenue, history, primary, blocked, outbox, policy,
                     sales, reservations, lookup, charged, refused>>
  BY DEF ExpireStatePurchase, Expired, IInv, TypeOK
<1>2. PICK n \in Number : n = intents[i].plate
  BY <1>1 DEF IInv, RowsAreComplete
<1>3. /\ plates[n].reservedUntil = i
      /\ plates[n].status = "RESERVED" /\ plates[n].owner = None
  BY <1>1, <1>2, NoneIsNoRow DEF IInv, ReservedPlateHasItsInvoice, Purchase
<1>4. plates' = Released(n, "STATE_SALE") /\ plates \in [Number -> Plate]
  BY <1>2 DEF ExpireStatePurchase, IInv, TypeOK, DatabaseTypeOK
<1>5. plates' \in [Number -> Plate]
  BY <1>4, ReleasedType DEF PlateStatus
<1>6. /\ \A m \in Number : m # n => plates'[m] = plates[m]
      /\ plates'[n].status = "STATE_SALE" /\ plates'[n].owner = None
      /\ plates'[n].reservedBy = None /\ plates'[n].reservedUntil = None
  BY <1>3, <1>4, ReleasedRow DEF PlateStatus
<1>7. TypeOK'
  BY <1>1, <1>5, ExpiredType DEF IInv, TypeOK, DatabaseTypeOK
<1>8. RowsAreComplete'
  BY <1>1, ExpiredRow DEF IInv, RowsAreComplete
<1>9. OwnerMatchesStatus'
  BY <1>6 DEF IInv, OwnerMatchesStatus
<1>10. ReservationIsPending'
  BY <1>1, ExpiredRow DEF IInv, TypeOK, ReservationIsPending
<1>11. ListingMatchesPlate'
  <2>1. \A m \in Number : ActiveSales(m)' = ActiveSales(m)
    BY <1>1 DEF ActiveSales
  <2>2. ActiveSales(n) = {}
    <3>1. \A s \in ActiveSales(n) : sales[s].seller \in User /\ plates[n].owner = sales[s].seller
      BY DEF IInv, ListingMatchesPlate, RowsAreComplete, ActiveSales
    <3> QED BY <1>3, <3>1, NoneIsNoRow
  <2> QED BY <1>1, <1>6, <2>1, <2>2 DEF IInv, ListingMatchesPlate
<1>12. InvoiceMatchesSale'
  BY <1>1, ExpiredRow DEF IInv, InvoiceMatchesSale
<1>13. ReservedPlateHasItsInvoice'
  <2>1. \A m \in Number : m # n /\ plates[m].status = "RESERVED" =>
          plates[m].reservedUntil \in Intent /\ plates[m].reservedUntil # i
    BY <1>2 DEF IInv, TypeOK, DatabaseTypeOK, Plate, ReservedPlateHasItsInvoice
  <2>2. \A j \in Intent : intents[j].status = "PENDING" /\ intents[j].kind \in Purchase /\ j # i
          => /\ intents[j].plate \in Number /\ intents[j].plate # n
             /\ plates[intents[j].plate].reservedUntil = j
    BY <1>3 DEF IInv, ReservedPlateHasItsInvoice, RowsAreComplete, Purchase
  <2>3. \A j \in Intent : intents'[j].status = "PENDING" /\ intents'[j].kind \in Purchase
          => plates'[intents'[j].plate].reservedUntil = j
    BY <1>1, <1>6, <2>2, ExpiredRow
  <2> QED BY <1>1, <1>6, <2>1, <2>3, ExpiredRow DEF IInv, ReservedPlateHasItsInvoice, Purchase
<1>14. PaidIsIssued'
  BY <1>1, <1>2, <1>6, ExpiredRow DEF IInv, PaidIsIssued, RowsAreComplete
<1>15. IssuedOnce'
  BY <1>1, ExpiredRow DEF IInv, IssuedOnce
<1> QED BY <1>7, <1>8, <1>9, <1>10, <1>11, <1>12, <1>13, <1>14, <1>15 DEF IInv

LEMMA ExpireSalePurchaseStep ==
  ASSUME IInv, NEW i \in Intent, ExpireSalePurchase(i)
  PROVE  IInv'
<1>1. /\ intents[i].kind = "SALE_PURCHASE" /\ Expired(i)
      /\ intents[i].status = "PENDING" /\ intents \in [Intent -> PaymentIntent]
      /\ UNCHANGED <<wallets, journal, revenue, history, primary, blocked, outbox, policy,
                     reservations, lookup, charged, refused>>
  BY DEF ExpireSalePurchase, Expired, IInv, TypeOK
<1>2. PICK n \in Number, s \in Sale : n = intents[i].plate /\ s = intents[i].sale
  BY <1>1 DEF IInv, RowsAreComplete
<1>3. /\ plates[n].reservedUntil = i
      /\ plates[n].status = "RESERVED" /\ plates[n].owner # None
      /\ sales[s].status = "RESERVED" /\ sales[s].plate = n
  BY <1>1, <1>2, NoneIsNoRow DEF IInv, ReservedPlateHasItsInvoice, Purchase, InvoiceMatchesSale
<1>4. s \in ActiveSales(n)
  BY <1>3 DEF ActiveSales
<1>5. /\ plates' = Released(n, "FIXED_SALE") /\ plates \in [Number -> Plate]
      /\ sales' = SaleReopened(s)
  BY <1>2, <1>3, <1>4 DEF ExpireSalePurchase, IInv, TypeOK, DatabaseTypeOK
<1>6. plates' \in [Number -> Plate]
  BY <1>5, ReleasedType DEF PlateStatus
<1>7. /\ \A m \in Number : m # n => plates'[m] = plates[m]
      /\ plates'[n].status = "FIXED_SALE" /\ plates'[n].owner = plates[n].owner
      /\ plates'[n].reservedBy = None /\ plates'[n].reservedUntil = None
  BY <1>3, <1>5, ReleasedRow DEF PlateStatus
<1>8. /\ sales' \in [Sale -> SaleRow]
      /\ \A t \in Sale : t # s => sales'[t] = sales[t]
      /\ sales'[s].status = "ACTIVE" /\ sales'[s].plate = n
      /\ sales'[s].seller = sales[s].seller /\ sales'[s].price = sales[s].price
  BY <1>3, <1>5 DEF SaleReopened, IInv, TypeOK, SaleRow
<1>9. TypeOK'
  BY <1>1, <1>6, <1>8, ExpiredType DEF IInv, TypeOK, DatabaseTypeOK
<1>10. RowsAreComplete'
  BY <1>1, <1>3, <1>8, ExpiredRow DEF IInv, RowsAreComplete
<1>11. OwnerMatchesStatus'
  BY <1>3, <1>7 DEF IInv, OwnerMatchesStatus
<1>12. ReservationIsPending'
  BY <1>1, ExpiredRow DEF IInv, TypeOK, ReservationIsPending
<1>13. ListingMatchesPlate'
  <2>1. /\ ActiveSales(n) = {s} /\ plates[n].owner = sales[s].seller
        /\ \A m \in Number : m # n => s \notin ActiveSales(m)
    BY <1>3, <1>4 DEF IInv, ListingMatchesPlate, ActiveSales
  <2>2. \A m \in Number : ActiveSales(m)' = ActiveSales(m)
    BY <1>3, <1>8 DEF ActiveSales
  <2>3. \A m \in Number : m # n => \A t \in ActiveSales(m) : sales'[t] = sales[t]
    BY <1>8, <2>1 DEF ActiveSales
  <2> QED BY <1>7, <1>8, <2>1, <2>2, <2>3 DEF IInv, ListingMatchesPlate
<1>14. InvoiceMatchesSale'
  <2>1. \A t \in Sale : /\ sales'[t].plate = sales[t].plate
                        /\ sales'[t].seller = sales[t].seller
                        /\ sales'[t].price = sales[t].price
                        /\ sales[t].status # "ABSENT" => sales'[t].status # "ABSENT"
    BY <1>3, <1>8
  <2>2. \A j \in Intent : /\ intents'[j].kind = intents[j].kind
                          /\ intents'[j].sale = intents[j].sale
                          /\ intents'[j].plate = intents[j].plate
                          /\ intents'[j].user = intents[j].user
                          /\ intents'[j].amount = intents[j].amount
                          /\ intents[j].kind = "SALE_PURCHASE" => intents[j].sale \in Sale
    BY <1>1, ExpiredRow, NoneIsNoKind DEF IInv, RowsAreComplete
  <2> QED BY <2>1, <2>2 DEF IInv, InvoiceMatchesSale
<1>15. ReservedPlateHasItsInvoice'
  <2>1. ASSUME NEW m \in Number, m # n, plates[m].status = "RESERVED"
        PROVE  LET j == plates[m].reservedUntil IN
               /\ j \in Intent /\ j # i
               /\ plates[m].owner # None => intents[j].sale \in Sale /\ intents[j].sale # s
    <3>1. PICK j \in Intent : j = plates[m].reservedUntil
      BY <2>1 DEF IInv, TypeOK, DatabaseTypeOK, Plate, ReservedPlateHasItsInvoice
    <3>2. j # i
      BY <1>2, <2>1, <3>1 DEF IInv, ReservedPlateHasItsInvoice
    <3>3. ASSUME plates[m].owner # None
          PROVE  intents[j].sale \in Sale /\ intents[j].sale # s
      BY <1>3, <2>1, <3>1, <3>3
      DEF IInv, ReservedPlateHasItsInvoice, RowsAreComplete, InvoiceMatchesSale
    <3> QED BY <3>1, <3>2, <3>3
  <2>2. \A m \in Number : LET j == plates'[m].reservedUntil IN
          IF plates'[m].status = "RESERVED"
          THEN /\ j # None
               /\ intents'[j].status = "PENDING"
               /\ intents'[j].plate = m
               /\ intents'[j].user = plates'[m].reservedBy
               /\ IF plates'[m].owner = None THEN intents'[j].kind = "STATE_PURCHASE"
                  ELSE /\ intents'[j].kind = "SALE_PURCHASE"
                       /\ sales'[intents'[j].sale].status = "RESERVED"
          ELSE j = None /\ plates'[m].reservedBy = None
    BY <1>1, <1>7, <1>8, <2>1, ExpiredRow DEF IInv, ReservedPlateHasItsInvoice
  <2>3. \A j \in Intent : intents[j].status = "PENDING" /\ intents[j].kind \in Purchase /\ j # i
          => /\ intents[j].plate \in Number /\ intents[j].plate # n
             /\ plates[intents[j].plate].reservedUntil = j
    BY <1>3 DEF IInv, ReservedPlateHasItsInvoice, RowsAreComplete, Purchase
  <2>4. \A j \in Intent : intents'[j].status = "PENDING" /\ intents'[j].kind \in Purchase
          => plates'[intents'[j].plate].reservedUntil = j
    BY <1>1, <1>7, <2>3, ExpiredRow
  <2> QED BY <2>2, <2>4 DEF ReservedPlateHasItsInvoice, Purchase
<1>16. PaidIsIssued'
  BY <1>1, <1>2, <1>7, ExpiredRow DEF IInv, PaidIsIssued, RowsAreComplete
<1>17. IssuedOnce'
  BY <1>1, ExpiredRow DEF IInv, IssuedOnce
<1> QED BY <1>9, <1>10, <1>11, <1>12, <1>13, <1>14, <1>15, <1>16, <1>17 DEF IInv

\* The actions that write neither plates, sales, invoices nor reservations.
LEMMA LookUpNumberStep ==
  ASSUME IInv, NEW u \in User, NEW n \in Number, LookUpNumber(u, n)
  PROVE  IInv'
<1>1. TypeOK' /\ UNCHANGED <<plates, sales, intents, reservations>>
  BY DEF LookUpNumber, IInv, TypeOK, DatabaseTypeOK, databaseVars
<1> QED BY <1>1, FrameStep

LEMMA ReserveNumberFailsStep ==
  ASSUME IInv, NEW u \in User, ReserveNumberFails(u)
  PROVE  IInv'
<1>1. TypeOK' /\ UNCHANGED <<plates, sales, intents, reservations>>
  BY DEF ReserveNumberFails, IInv, TypeOK, DatabaseTypeOK, databaseVars
<1> QED BY <1>1, FrameStep

LEMMA SetPrimaryPlateStep ==
  ASSUME IInv, NEW u \in User, NEW n \in Number, SetPrimaryPlate(u, n)
  PROVE  IInv'
<1>1. TypeOK' /\ UNCHANGED <<plates, sales, intents, reservations>>
  BY DEF SetPrimaryPlate, IInv, TypeOK, DatabaseTypeOK, paymentVars
<1> QED BY <1>1, FrameStep

LEMMA RepairPrimaryPlateStep ==
  ASSUME IInv, NEW u \in User, RepairPrimaryPlate(u)
  PROVE  IInv'
<1>1. TypeOK' /\ UNCHANGED <<plates, sales, intents, reservations>>
  BY DEF RepairPrimaryPlate, IInv, TypeOK, DatabaseTypeOK, paymentVars
<1> QED BY <1>1, FrameStep

LEMMA PayInvoiceStep ==
  ASSUME IInv, NEW i \in Intent, NEW c \in Charge, PayInvoice(i, c)
  PROVE  IInv'
<1>1. TypeOK' /\ UNCHANGED <<plates, sales, intents, reservations>>
  BY DEF PayInvoice, IInv, TypeOK, DatabaseTypeOK, databaseVars
<1> QED BY <1>1, FrameStep

LEMMA RefusePaymentStep ==
  ASSUME IInv, NEW c \in Charge, NEW i \in Intent, RefusePayment(c, i)
  PROVE  IInv'
<1>1. TypeOK' /\ UNCHANGED <<plates, sales, intents, reservations>>
  BY DEF RefusePayment, IInv, TypeOK, DatabaseTypeOK, databaseVars
<1> QED BY <1>1, FrameStep

LEMMA SetSettingStep ==
  ASSUME IInv, NEW p \in Policies, SetSetting(p) /\ UNCHANGED paymentVars
  PROVE  IInv'
<1>1. TypeOK' /\ UNCHANGED <<plates, sales, intents, reservations>>
  BY DEF SetSetting, IInv, TypeOK, DatabaseTypeOK, paymentVars
<1> QED BY <1>1, FrameStep

-----------------------------------------------------------------------------
(* The invariant holds initially and is preserved by every step            *)

\* A plate is unissued or confiscated before anybody has used the bot.
LEMMA PlatesInit ==
  ASSUME Init
  PROVE  /\ plates \in [Number -> Plate]
         /\ \A n \in Number : /\ plates[n].status \in {"ABSENT", "STATE_SALE"}
                              /\ plates[n].owner = None
                              /\ plates[n].reservedBy = None
                              /\ plates[n].reservedUntil = None
<1>1. plates \in [Number -> {Absent, Confiscated}]
  BY DEF Init, DatabaseInit
<1>2. Absent \in Plate /\ Confiscated \in Plate
  BY DEF Absent, Confiscated, Plate, PlateStatus
<1>3. \A p \in {Absent, Confiscated} :
        /\ p.status \in {"ABSENT", "STATE_SALE"} /\ p.owner = None
        /\ p.reservedBy = None /\ p.reservedUntil = None
  BY DEF Absent, Confiscated
<1> QED BY <1>1, <1>2, <1>3

LEMMA HistoryInit ==
  ASSUME Init
  PROVE  history \in [Number -> Seq(OwnershipHistory)]
<1>1. PICK u \in User :
        history = [n \in Number |-> IF plates[n] = Absent THEN <<>> ELSE EmittedAndConfiscated(u)]
  BY DEF Init, DatabaseInit
<1>2. EmittedAndConfiscated(u) \in Seq(OwnershipHistory)
  BY DEF EmittedAndConfiscated, OwnershipHistory, OwnershipOperation
<1> QED BY <1>1, <1>2

LEMMA IInvInit == Init => IInv
<1> SUFFICES ASSUME Init PROVE IInv
  OBVIOUS
<1>1. /\ \A i \in Intent : intents[i].status = "ABSENT" /\ intents[i].kind = None
      /\ \A s \in Sale : sales[s].status = "ABSENT"
      /\ \A n \in Number : reservations[n] = None
  BY DEF Init, PaymentInit, NoIntent, NoSale
<1>2. TypeOK
  <2>1. intents \in [Intent -> PaymentIntent] /\ sales \in [Sale -> SaleRow]
    BY DEF Init, PaymentInit, NoIntent, NoSale, PaymentIntent, SaleRow
  <2>2. /\ reservations \in [Number -> Intent \cup {None}]
        /\ lookup \in [User -> Number \cup {None}]
        /\ charged \in [Charge -> Intent \cup {None}]
        /\ refused \subseteq Charge
    BY DEF Init, PaymentInit
  <2>3. /\ wallets \in [User -> Wallet] /\ journal \in [User -> Totals]
    BY DEF Init, DatabaseInit, EmptyWallets, Wallet, Totals
  <2>4. /\ revenue \in Nat /\ primary \in [User -> Number \cup {None}]
        /\ blocked \subseteq User /\ policy \in Policies
        /\ outbox \in [User -> [NotificationType -> Nat]]
    BY DEF Init, DatabaseInit, EmptyOutbox
  <2> QED BY <2>1, <2>2, <2>3, <2>4, PlatesInit, HistoryInit DEF TypeOK, DatabaseTypeOK
<1>3. RowsAreComplete
  BY <1>1 DEF RowsAreComplete
<1>4. OwnerMatchesStatus
  BY PlatesInit DEF OwnerMatchesStatus
<1>5. ReservationIsPending
  BY <1>1 DEF ReservationIsPending
<1>6. ListingMatchesPlate
  BY <1>1, PlatesInit DEF ListingMatchesPlate, ActiveSales
<1>7. InvoiceMatchesSale
  BY <1>1, NoneIsNoKind DEF InvoiceMatchesSale
<1>8. ReservedPlateHasItsInvoice
  BY <1>1, PlatesInit DEF ReservedPlateHasItsInvoice
<1>9. PaidIsIssued
  BY <1>1 DEF PaidIsIssued
<1>10. IssuedOnce
  BY <1>1 DEF IssuedOnce
<1> QED BY <1>2, <1>3, <1>4, <1>5, <1>6, <1>7, <1>8, <1>9, <1>10 DEF IInv

LEMMA IInvNext == IInv /\ [Next]_vars => IInv'
<1> SUFFICES ASSUME IInv, [Next]_vars PROVE IInv'
  OBVIOUS
<1>1. CASE UNCHANGED vars
  <2>1. UNCHANGED <<plates, sales, intents, reservations>>
    BY <1>1 DEF vars, databaseVars, paymentVars
  <2>2. TypeOK'
    BY <1>1 DEF IInv, TypeOK, DatabaseTypeOK, vars, databaseVars, paymentVars
  <2> QED BY <2>1, <2>2, FrameStep
<1>2. ASSUME NEW u \in User, UserOperation(u) PROVE IInv'
  BY <1>2, StartTopUpStep, ReserveNumberStep, StartStatePurchaseStep, StartSalePurchaseStep,
     ReserveNumberFailsStep, RepairPrimaryPlateStep, LookUpNumberStep, CreateSaleStep,
     CancelSaleStep, SetPrimaryPlateStep
  DEF UserOperation
<1>3. ASSUME NEW i \in Intent, NEW c \in Charge, PayInvoice(i, c) PROVE IInv'
  BY <1>3, PayInvoiceStep
<1>4. ASSUME NEW i \in Intent, InvoiceFallsDue(i) PROVE IInv'
  BY <1>4, InvoiceFallsDueStep
<1>5. ASSUME NEW c \in Charge, CompleteTelegramPayment(c) PROVE IInv'
  <2>1. charged[c] \in Intent
    BY <1>5 DEF CompleteTelegramPayment, IInv, TypeOK
  <2> QED BY <1>5, <2>1, CompleteTopUpStep, CompleteStateEmissionStep,
             CompleteStatePurchaseStep, CompleteSalePurchaseStep, RefusePaymentStep
          DEF CompleteTelegramPayment
<1>6. ASSUME NEW p \in Policies, SetSetting(p) /\ UNCHANGED paymentVars PROVE IInv'
  BY <1>6, SetSettingStep
<1>7. ASSUME NEW i \in Intent, ExpirePendingPayment(i) PROVE IInv'
  BY <1>7, ExpireTopUpStep, ExpireEmissionStep, ExpireStatePurchaseStep, ExpireSalePurchaseStep
  DEF ExpirePendingPayment
<1> QED BY <1>1, <1>2, <1>3, <1>4, <1>5, <1>6, <1>7 DEF Next, Request

-----------------------------------------------------------------------------
(* The theorems                                                            *)

\* The invariant of the marketplace is inductive: whatever users, Telegram, the
\* clock, the administrator's settings and the expiry do, in any order, the
\* tables plates, sales, payment_intents and state_emission_reservations agree.
THEOREM InvariantHolds == Spec => []IInv
BY IInvInit, IInvNext, PTL DEF Spec

\* Every column keeps a value of its type; in particular no wallet that the
\* marketplace writes becomes negative (BalanceBook).
THEOREM TypeCorrect == Spec => []TypeOK
<1>1. IInv => TypeOK
  BY DEF IInv
<1> QED BY <1>1, InvariantHolds, PTL

\* A row of state_emission_reservations always belongs to an open invoice for
\* that number: no order of payments, expiries and replacements of
\* start_state_emission leaves a stale row behind.
THEOREM ReservationsArePending == Spec => []ReservationIsPending
<1>1. IInv => ReservationIsPending
  BY DEF IInv
<1> QED BY <1>1, InvariantHolds, PTL

\* A plate is reserved exactly as long as its one open purchase invoice exists,
\* for the buyer and until the deadline of that invoice (start_state_purchase,
\* start_sale_purchase, the completions and expire_pending_payment).
THEOREM ReservedPlatesHaveInvoices == Spec => []ReservedPlateHasItsInvoice
<1>1. IInv => ReservedPlateHasItsInvoice
  BY DEF IInv
<1> QED BY <1>1, InvariantHolds, PTL

\* The status of a plate and its sales always agree, and a plate has at most
\* one open sale (create_sale, cancel_sale, start_sale_purchase and the ends of
\* a purchase).
THEOREM ListingsMatchPlates == Spec => []ListingMatchesPlate
<1>1. IInv => ListingMatchesPlate
  BY DEF IInv
<1> QED BY <1>1, InvariantHolds, PTL

\* The terms of an invoice stay those of its sale for ever, and nobody is ever
\* invoiced for a sale of his own (start_sale_purchase).
THEOREM InvoicesMatchSales == Spec => []InvoiceMatchesSale
<1>1. IInv => InvoiceMatchesSale
  BY DEF IInv
<1> QED BY <1>1, InvariantHolds, PTL

\* A number is emitted at most once, although start_state_emission looks it up
\* without a lock and charges arrive late (_complete_state_emission).
THEOREM NumbersAreIssuedOnce == Spec => []IssuedOnce
<1>1. IInv => IssuedOnce
  BY DEF IInv
<1> QED BY <1>1, InvariantHolds, PTL

-----------------------------------------------------------------------------
(***************************************************************************)
(* What payments do: what an open invoice holds, which payments are        *)
(* refused, where every Star and every plate goes, who is told, and that   *)
(* Marketplace implements PlateRegistry.                                   *)
(***************************************************************************)

-----------------------------------------------------------------------------
(* What the operations write into a row                                    *)

LEMMA PaidRow ==
  ASSUME intents \in [Intent -> PaymentIntent], NEW i \in Intent, NEW c, Paid(i, c)
  PROVE  /\ \A j \in Intent : j # i => intents'[j] = intents[j]
         /\ intents'[i].status = "PAID" /\ intents'[i].charge = c
         /\ intents'[i].user = intents[i].user /\ intents'[i].plate = intents[i].plate
         /\ intents'[i].sale = intents[i].sale /\ intents'[i].amount = intents[i].amount
         /\ intents'[i].kind = intents[i].kind /\ intents'[i].due = intents[i].due
BY DEF Paid, PaymentIntent

LEMMA DueRow ==
  ASSUME intents \in [Intent -> PaymentIntent], NEW i \in Intent, InvoiceFallsDue(i)
  PROVE  /\ intents[i].status = "PENDING"
         /\ \A j \in Intent : j # i => intents'[j] = intents[j]
         /\ intents'[i].status = "PENDING" /\ intents'[i].charge = intents[i].charge
         /\ intents'[i].user = intents[i].user /\ intents'[i].plate = intents[i].plate
         /\ intents'[i].sale = intents[i].sale /\ intents'[i].amount = intents[i].amount
         /\ intents'[i].kind = intents[i].kind
BY DEF InvoiceFallsDue, PaymentIntent

LEMMA LapsedRow ==
  ASSUME intents \in [Intent -> PaymentIntent], NEW i \in Intent, Expired(i)
  PROVE  intents[i].due /\ intents'[i].charge = intents[i].charge
BY DEF Expired, PaymentIntent

LEMMA ReservedRow ==
  ASSUME plates \in [Number -> Plate], NEW n \in Number, NEW u, NEW i,
         plates' = Reserved(n, u, i)
  PROVE  /\ \A m \in Number : m # n => plates'[m] = plates[m]
         /\ plates'[n].status = "RESERVED" /\ plates'[n].owner = plates[n].owner
         /\ plates'[n].reservedBy = u /\ plates'[n].reservedUntil = i
BY DEF Reserved, Plate

LEMMA DeliveredRow ==
  ASSUME plates \in [Number -> Plate], NEW n \in Number, NEW u, plates' = Delivered(n, u)
  PROVE  /\ \A m \in Number : m # n => plates'[m] = plates[m]
         /\ plates'[n].status = "OWNED" /\ plates'[n].owner = u
         /\ plates'[n].reservedBy = None /\ plates'[n].reservedUntil = None
BY DEF Delivered

LEMMA RestatedRow ==
  ASSUME plates \in [Number -> Plate], NEW n \in Number, NEW status,
         plates' = [plates EXCEPT ![n].status = status]
  PROVE  /\ \A m \in Number : m # n => plates'[m] = plates[m]
         /\ plates'[n].status = status /\ plates'[n].owner = plates[n].owner
         /\ plates'[n].reservedBy = plates[n].reservedBy
         /\ plates'[n].reservedUntil = plates[n].reservedUntil
BY DEF Plate

LEMMA SaleRestated ==
  ASSUME sales \in [Sale -> SaleRow], NEW s \in Sale, NEW status,
         sales' = [sales EXCEPT ![s].status = status]
  PROVE  /\ \A t \in Sale : t # s => sales'[t] = sales[t]
         /\ sales'[s].status = status
         /\ sales'[s].plate = sales[s].plate /\ sales'[s].seller = sales[s].seller
         /\ sales'[s].price = sales[s].price
         /\ sales'[s].commission = sales[s].commission
BY DEF SaleRow

-----------------------------------------------------------------------------
(* The steps that pay nothing.  All but the four completions: no invoice   *)
(* is paid, no plate changes hands and no Star is booked.                  *)

\* The step inserts the invoice i.
Started(i) ==
  /\ intents[i].status = "ABSENT" /\ intents'[i].status = "PENDING"
  /\ intents'[i].user \in User /\ intents'[i].charge = None
  /\ \A j \in Intent : j # i => intents'[j] = intents[j]

SameTerms(i) ==
  /\ intents'[i].kind = intents[i].kind /\ intents'[i].user = intents[i].user
  /\ intents'[i].plate = intents[i].plate /\ intents'[i].sale = intents[i].sale
  /\ intents'[i].amount = intents[i].amount

\* The invoice i falls due or is closed unpaid.
PassedOver(i) ==
  /\ intents[i].status = "PENDING" /\ intents'[i].status \in {"PENDING", "EXPIRED"}
  /\ intents'[i].charge = intents[i].charge
  /\ SameTerms(i)
  /\ \A j \in Intent : j # i => intents'[j] = intents[j]

OwnersKept ==
  \A n \in Number : /\ plates'[n].owner = plates[n].owner
                    /\ plates'[n].status = "ABSENT" <=> plates[n].status = "ABSENT"

\* The commission is part of the price.
Priced(sale) == sale.price > 0 /\ sale.commission <= sale.price

\* What never changes in a sale once it is made.
SaleTermsKept ==
  /\ \A s \in Sale : sales[s].status # "ABSENT" =>
       /\ sales'[s].status # "ABSENT"
       /\ sales'[s].plate = sales[s].plate /\ sales'[s].seller = sales[s].seller
       /\ sales'[s].price = sales[s].price /\ sales'[s].commission = sales[s].commission
  /\ \A s \in Sale : sales[s].status = "ABSENT" /\ sales'[s].status # "ABSENT"
       => Priced(sales'[s])

CompletionsKept ==
  \A s \in Sale : sales'[s].status = "COMPLETED" <=> sales[s].status = "COMPLETED"

OwnPlateShown ==
  \A u \in User : primary'[u] \notin {None, primary[u]} => plates[primary'[u]].owner = u

Quiet ==
  /\ \/ intents' = intents
     \/ \E i \in Intent : Started(i) \/ PassedOver(i)
  /\ OwnersKept
  /\ SaleTermsKept /\ CompletionsKept
  /\ OwnPlateShown
  /\ UNCHANGED <<wallets, journal, revenue, history, outbox>>

LEMMA NewIntentStarts ==
  ASSUME IInv, NEW i \in Intent, NEW kind \in PaymentKind, NEW u \in User, NEW n, NEW s,
         NEW amount, NewIntent(i, kind, u, n, s, amount)
  PROVE  Started(i)
<1>1. intents \in [Intent -> PaymentIntent]
  BY DEF IInv, TypeOK
<1> QED
  BY <1>1 DEF NewIntent, Started

LEMMA StartTopUpIsQuiet ==
  ASSUME IInv, NEW u \in User, NEW i \in Intent, NEW amount, StartTopUp(u, i, amount)
  PROVE  Quiet
<1>1. /\ NewIntent(i, "TOP_UP", u, None, None, amount)
      /\ UNCHANGED <<databaseVars, sales, reservations, lookup, charged, refused>>
  BY DEF StartTopUp
<1>2. Started(i)
  BY <1>1, NewIntentStarts DEF PaymentKind
<1>3. UNCHANGED <<plates, wallets, journal, revenue, history, primary, outbox, sales>>
  BY <1>1 DEF databaseVars
<1> QED
  BY <1>2, <1>3 DEF Quiet, OwnersKept, SaleTermsKept, CompletionsKept, OwnPlateShown

LEMMA ReserveNumberIsQuiet ==
  ASSUME IInv, NEW u \in User, NEW i \in Intent, ReserveNumber(u, i)
  PROVE  Quiet
<1>1. /\ NewIntent(i, "STATE_EMISSION", u, lookup[u], None, policy.state_plate_price)
      /\ UNCHANGED <<databaseVars, sales, charged, refused>>
  BY DEF ReserveNumber
<1>2. Started(i)
  BY <1>1, NewIntentStarts DEF PaymentKind
<1>3. UNCHANGED <<plates, wallets, journal, revenue, history, primary, outbox, sales>>
  BY <1>1 DEF databaseVars
<1> QED
  BY <1>2, <1>3 DEF Quiet, OwnersKept, SaleTermsKept, CompletionsKept, OwnPlateShown

LEMMA StartStatePurchaseIsQuiet ==
  ASSUME IInv, NEW u \in User, NEW n \in Number, NEW i \in Intent, StartStatePurchase(u, n, i)
  PROVE  Quiet
<1>1. /\ NewIntent(i, "STATE_PURCHASE", u, n, None, policy.state_plate_price)
      /\ plates[n].status = "STATE_SALE" /\ plates' = Reserved(n, u, i)
      /\ UNCHANGED <<wallets, journal, revenue, history, primary, outbox, sales>>
  BY DEF StartStatePurchase
<1>2. Started(i)
  BY <1>1, NewIntentStarts DEF PaymentKind
<1>3. OwnersKept
  BY <1>1, ReservedRow DEF OwnersKept, IInv, TypeOK, DatabaseTypeOK
<1> QED
  BY <1>1, <1>2, <1>3 DEF Quiet, SaleTermsKept, CompletionsKept, OwnPlateShown

LEMMA StartSalePurchaseIsQuiet ==
  ASSUME IInv, NEW u \in User, NEW n \in Number, NEW i \in Intent, StartSalePurchase(u, n, i)
  PROVE  Quiet
<1>1. PICK s \in ActiveSales(n) :
        /\ NewIntent(i, "SALE_PURCHASE", u, n, s, sales[s].price)
        /\ sales' = [sales EXCEPT ![s].status = "RESERVED"]
  BY DEF StartSalePurchase
<1>2. /\ plates[n].status = "FIXED_SALE" /\ plates' = Reserved(n, u, i)
      /\ UNCHANGED <<wallets, journal, revenue, history, primary, outbox>>
  BY DEF StartSalePurchase
<1>3. Started(i)
  BY <1>1, NewIntentStarts DEF PaymentKind
<1>4. OwnersKept
  BY <1>2, ReservedRow DEF OwnersKept, IInv, TypeOK, DatabaseTypeOK
<1>5. s \in Sale /\ sales[s].status \in {"ACTIVE", "RESERVED"}
  BY DEF ActiveSales
<1>6. SaleTermsKept /\ CompletionsKept
  BY <1>1, <1>5, SaleRestated DEF SaleTermsKept, CompletionsKept, IInv, TypeOK
<1> QED
  BY <1>2, <1>3, <1>4, <1>6 DEF Quiet, OwnPlateShown

LEMMA CreateSaleIsQuiet ==
  ASSUME IInv, NEW u \in User, NEW n \in Number, NEW s \in Sale, NEW price,
         CreateSale(u, n, s, price)
  PROVE  Quiet
<1>1. /\ sales[s].status = "ABSENT"
      /\ sales' = [sales EXCEPT ![s] =
           [status |-> "ACTIVE", plate |-> n, seller |-> u, buyer |-> None,
            price |-> price, commission |-> Commission(policy, price)]]
      /\ plates[n].status = "OWNED"
      /\ plates' = [plates EXCEPT ![n].status = "FIXED_SALE"]
      /\ UNCHANGED <<wallets, journal, revenue, history, primary, outbox, intents>>
  BY DEF CreateSale
<1>2. OwnersKept
  BY <1>1, RestatedRow DEF OwnersKept, IInv, TypeOK, DatabaseTypeOK
<1>3. policy \in Policy /\ price \in Nat /\ price > 0
  BY PoliciesAreValid DEF CreateSale, ValidSalePrice, Policy, IInv, TypeOK, DatabaseTypeOK
<1>4. Commission(policy, price) <= price
  BY <1>3, CommissionBound
<1>5. /\ \A t \in Sale \ {s} : sales'[t] = sales[t]
      /\ sales'[s].status = "ACTIVE" /\ Priced(sales'[s])
  BY <1>1, <1>3, <1>4 DEF Priced, IInv, TypeOK
<1>6. SaleTermsKept /\ CompletionsKept
  BY <1>1, <1>5 DEF SaleTermsKept, CompletionsKept
<1> QED
  BY <1>1, <1>2, <1>6 DEF Quiet, OwnPlateShown

LEMMA CancelSaleIsQuiet ==
  ASSUME IInv, NEW u \in User, NEW n \in Number, CancelSale(u, n)
  PROVE  Quiet
<1>1. PICK s \in ActiveSales(n) : sales' = [sales EXCEPT ![s].status = "CANCELLED"]
  BY DEF CancelSale
<1>2. /\ plates' = [plates EXCEPT ![n].status = "OWNED"]
      /\ UNCHANGED <<wallets, journal, revenue, history, primary, outbox, intents>>
  BY DEF CancelSale
<1>3. /\ s \in Sale /\ sales[s].status \in {"ACTIVE", "RESERVED"}
      /\ plates[n].status \in {"FIXED_SALE", "RESERVED"}
  BY DEF ActiveSales, IInv, ListingMatchesPlate
<1>4. OwnersKept
  BY <1>2, <1>3, RestatedRow DEF OwnersKept, IInv, TypeOK, DatabaseTypeOK
<1>5. SaleTermsKept /\ CompletionsKept
  BY <1>1, <1>3, SaleRestated DEF SaleTermsKept, CompletionsKept, IInv, TypeOK
<1> QED
  BY <1>2, <1>4, <1>5 DEF Quiet, OwnPlateShown

\* The steps that change neither plates, sales nor invoices.
LEMMA AsideIsQuiet ==
  ASSUME UNCHANGED <<plates, sales, intents, wallets, journal, revenue, history, outbox>>,
         OwnPlateShown
  PROVE  Quiet
BY DEF Quiet, OwnersKept, SaleTermsKept, CompletionsKept

LEMMA LookUpNumberIsQuiet ==
  ASSUME NEW u \in User, NEW n \in Number, LookUpNumber(u, n)
  PROVE  Quiet
<1>1. /\ UNCHANGED <<plates, sales, intents, wallets, journal, revenue, history, outbox>>
      /\ UNCHANGED primary
  BY DEF LookUpNumber, databaseVars
<1> QED
  BY <1>1, AsideIsQuiet DEF OwnPlateShown

LEMMA ReserveNumberFailsIsQuiet ==
  ASSUME NEW u \in User, ReserveNumberFails(u)
  PROVE  Quiet
<1>1. /\ UNCHANGED <<plates, sales, intents, wallets, journal, revenue, history, outbox>>
      /\ UNCHANGED primary
  BY DEF ReserveNumberFails, databaseVars
<1> QED
  BY <1>1, AsideIsQuiet DEF OwnPlateShown

LEMMA SetPrimaryPlateIsQuiet ==
  ASSUME IInv, NEW u \in User, NEW n \in Number, SetPrimaryPlate(u, n)
  PROVE  Quiet
<1>1. /\ UNCHANGED <<plates, sales, intents, wallets, journal, revenue, history, outbox>>
      /\ plates[n].owner = u
      /\ primary' = [primary EXCEPT ![u] = n]
  BY DEF SetPrimaryPlate, paymentVars
<1>2. OwnPlateShown
  BY <1>1 DEF OwnPlateShown, IInv, TypeOK, DatabaseTypeOK
<1> QED
  BY <1>1, <1>2, AsideIsQuiet

LEMMA RepairPrimaryPlateIsQuiet ==
  ASSUME IInv, NEW u \in User, RepairPrimaryPlate(u)
  PROVE  Quiet
<1>1. /\ UNCHANGED <<plates, sales, intents, wallets, journal, revenue, history, outbox>>
      /\ primary' = [primary EXCEPT ![u] = None]
  BY DEF RepairPrimaryPlate, paymentVars
<1>2. OwnPlateShown
  BY <1>1 DEF OwnPlateShown, IInv, TypeOK, DatabaseTypeOK
<1> QED
  BY <1>1, <1>2, AsideIsQuiet

LEMMA PayInvoiceIsQuiet ==
  ASSUME NEW i \in Intent, NEW c \in Charge, PayInvoice(i, c)
  PROVE  Quiet
<1>1. /\ UNCHANGED <<plates, sales, intents, wallets, journal, revenue, history, outbox>>
      /\ UNCHANGED primary
  BY DEF PayInvoice, databaseVars
<1> QED
  BY <1>1, AsideIsQuiet DEF OwnPlateShown

LEMMA RefusePaymentIsQuiet ==
  ASSUME NEW i \in Intent, NEW c \in Charge, RefusePayment(c, i)
  PROVE  Quiet
<1>1. /\ UNCHANGED <<plates, sales, intents, wallets, journal, revenue, history, outbox>>
      /\ UNCHANGED primary
  BY DEF RefusePayment, databaseVars
<1> QED
  BY <1>1, AsideIsQuiet DEF OwnPlateShown

LEMMA SetSettingIsQuiet ==
  ASSUME NEW p, SetSetting(p), UNCHANGED paymentVars
  PROVE  Quiet
<1>1. /\ UNCHANGED <<plates, sales, intents, wallets, journal, revenue, history, outbox>>
      /\ UNCHANGED primary
  BY DEF SetSetting, paymentVars
<1> QED
  BY <1>1, AsideIsQuiet DEF OwnPlateShown

LEMMA InvoiceFallsDueIsQuiet ==
  ASSUME IInv, NEW i \in Intent, InvoiceFallsDue(i)
  PROVE  Quiet
<1>1. UNCHANGED <<databaseVars, sales, reservations, lookup, charged, refused>>
  BY DEF InvoiceFallsDue
<1>2. PassedOver(i)
  BY DueRow DEF PassedOver, SameTerms, IInv, TypeOK
<1>3. UNCHANGED <<plates, wallets, journal, revenue, history, primary, outbox, sales>>
  BY <1>1 DEF databaseVars
<1> QED
  BY <1>2, <1>3 DEF Quiet, OwnersKept, SaleTermsKept, CompletionsKept, OwnPlateShown

LEMMA ExpiredPassesOver ==
  ASSUME IInv, NEW i \in Intent, Expired(i)
  PROVE  PassedOver(i)
BY ExpiredRow, LapsedRow DEF PassedOver, SameTerms, IInv, TypeOK

LEMMA ExpireTopUpIsQuiet ==
  ASSUME IInv, NEW i \in Intent, ExpireTopUp(i)
  PROVE  Quiet
<1>1. Expired(i) /\ UNCHANGED <<databaseVars, sales, reservations, lookup, charged, refused>>
  BY DEF ExpireTopUp
<1>2. UNCHANGED <<plates, wallets, journal, revenue, history, primary, outbox, sales>>
  BY <1>1 DEF databaseVars
<1> QED
  BY <1>1, <1>2, ExpiredPassesOver
  DEF Quiet, OwnersKept, SaleTermsKept, CompletionsKept, OwnPlateShown

LEMMA ExpireEmissionIsQuiet ==
  ASSUME IInv, NEW i \in Intent, ExpireEmission(i)
  PROVE  Quiet
<1>1. Expired(i) /\ UNCHANGED <<databaseVars, sales, lookup, charged, refused>>
  BY DEF ExpireEmission
<1>2. UNCHANGED <<plates, wallets, journal, revenue, history, primary, outbox, sales>>
  BY <1>1 DEF databaseVars
<1> QED
  BY <1>1, <1>2, ExpiredPassesOver
  DEF Quiet, OwnersKept, SaleTermsKept, CompletionsKept, OwnPlateShown

\* An open invoice for a plate that exists holds it, and its sale.
LEMMA PurchaseHolds ==
  ASSUME IInv, NEW i \in Intent, intents[i].status = "PENDING", intents[i].kind \in Purchase
  PROVE  /\ intents[i].plate \in Number
         /\ plates[intents[i].plate].status = "RESERVED"
         /\ plates[intents[i].plate].reservedUntil = i
         /\ plates[intents[i].plate].reservedBy = intents[i].user
         /\ plates[intents[i].plate].owner = None <=> intents[i].kind = "STATE_PURCHASE"
         /\ intents[i].kind = "SALE_PURCHASE" =>
              /\ intents[i].sale \in Sale
              /\ intents[i].sale \in ActiveSales(intents[i].plate)
              /\ sales[intents[i].sale].status = "RESERVED"
<1>1. intents[i].plate \in Number
  BY DEF IInv, RowsAreComplete, Purchase
<1>2. /\ plates[intents[i].plate].status = "RESERVED"
      /\ plates[intents[i].plate].reservedUntil = i
      /\ plates[intents[i].plate].reservedBy = intents[i].user
      /\ plates[intents[i].plate].owner = None <=> intents[i].kind = "STATE_PURCHASE"
  BY <1>1, NoneIsNoRow DEF IInv, ReservedPlateHasItsInvoice, Purchase
<1>3. ASSUME intents[i].kind = "SALE_PURCHASE"
      PROVE  /\ intents[i].sale \in Sale
             /\ intents[i].sale \in ActiveSales(intents[i].plate)
             /\ sales[intents[i].sale].status = "RESERVED"
  <2>1. intents[i].sale \in Sale
    BY <1>3 DEF IInv, RowsAreComplete
  <2>2. sales[intents[i].sale].status = "RESERVED"
    BY <1>1, <1>2, <1>3 DEF IInv, ReservedPlateHasItsInvoice
  <2>3. sales[intents[i].sale].plate = intents[i].plate
    BY <1>3 DEF IInv, InvoiceMatchesSale
  <2> QED
    BY <2>1, <2>2, <2>3 DEF ActiveSales
<1> QED
  BY <1>1, <1>2, <1>3

LEMMA ExpireStatePurchaseIsQuiet ==
  ASSUME IInv, NEW i \in Intent, ExpireStatePurchase(i)
  PROVE  Quiet
<1>1. /\ Expired(i) /\ intents[i].kind \in Purchase /\ intents[i].status = "PENDING"
      /\ plates' = Released(intents[i].plate, "STATE_SALE")
      /\ UNCHANGED <<wallets, journal, revenue, history, primary, outbox, sales>>
  BY DEF ExpireStatePurchase, Purchase, Expired
<1>2. PICK n \in Number : n = intents[i].plate /\ plates[n].status = "RESERVED"
  BY <1>1, PurchaseHolds
<1>3. OwnersKept
  BY <1>1, <1>2, ReleasedRow DEF OwnersKept, PlateStatus, IInv, TypeOK, DatabaseTypeOK
<1> QED
  BY <1>1, <1>3, ExpiredPassesOver DEF Quiet, SaleTermsKept, CompletionsKept, OwnPlateShown

LEMMA ExpireSalePurchaseIsQuiet ==
  ASSUME IInv, NEW i \in Intent, ExpireSalePurchase(i)
  PROVE  Quiet
<1>1. /\ Expired(i) /\ intents[i].kind = "SALE_PURCHASE" /\ intents[i].status = "PENDING"
      /\ UNCHANGED <<wallets, journal, revenue, history, primary, outbox>>
  BY DEF ExpireSalePurchase, Expired
<1>2. PICK n \in Number, s \in Sale :
        /\ n = intents[i].plate /\ s = intents[i].sale
        /\ s \in ActiveSales(n) /\ sales[s].status = "RESERVED"
        /\ plates[n].status = "RESERVED"
  BY <1>1, PurchaseHolds DEF Purchase
<1>3. plates' = Released(n, "FIXED_SALE") /\ sales' = [sales EXCEPT ![s].status = "ACTIVE"]
  BY <1>2 DEF ExpireSalePurchase, SaleReopened
<1>4. OwnersKept
  BY <1>2, <1>3, ReleasedRow DEF OwnersKept, PlateStatus, IInv, TypeOK, DatabaseTypeOK
<1>5. SaleTermsKept /\ CompletionsKept
  BY <1>2, <1>3, SaleRestated DEF SaleTermsKept, CompletionsKept, IInv, TypeOK
<1> QED
  BY <1>1, <1>4, <1>5, ExpiredPassesOver DEF Quiet, OwnPlateShown

\* Every step but the four completions is quiet.
LEMMA StepIsQuiet ==
  ASSUME IInv, [Next]_vars
  PROVE  \/ Quiet
         \/ \E c \in Charge, i \in Intent :
              /\ charged[c] = i
              /\ \/ CompleteTopUp(c, i) \/ CompleteStateEmission(c, i)
                 \/ CompleteStatePurchase(c, i) \/ CompleteSalePurchase(c, i)
<1>1. CASE UNCHANGED vars
  <2>1. /\ UNCHANGED <<plates, sales, intents, wallets, journal, revenue, history, outbox>>
        /\ UNCHANGED primary
    BY <1>1 DEF vars, databaseVars, paymentVars
  <2> QED
    BY <2>1, AsideIsQuiet DEF OwnPlateShown
<1>2. ASSUME NEW u \in User, UserOperation(u) PROVE Quiet
  BY <1>2, StartTopUpIsQuiet, ReserveNumberIsQuiet, StartStatePurchaseIsQuiet,
     StartSalePurchaseIsQuiet, ReserveNumberFailsIsQuiet, RepairPrimaryPlateIsQuiet,
     LookUpNumberIsQuiet, CreateSaleIsQuiet, CancelSaleIsQuiet, SetPrimaryPlateIsQuiet
  DEF UserOperation
<1>3. ASSUME NEW i \in Intent, NEW c \in Charge, PayInvoice(i, c) PROVE Quiet
  BY <1>3, PayInvoiceIsQuiet
<1>4. ASSUME NEW i \in Intent, InvoiceFallsDue(i) PROVE Quiet
  BY <1>4, InvoiceFallsDueIsQuiet
<1>5. ASSUME NEW c \in Charge, CompleteTelegramPayment(c)
      PROVE  \/ Quiet
             \/ \E i \in Intent :
                  /\ charged[c] = i
                  /\ \/ CompleteTopUp(c, i) \/ CompleteStateEmission(c, i)
                     \/ CompleteStatePurchase(c, i) \/ CompleteSalePurchase(c, i)
  <2>1. PICK i \in Intent : charged[c] = i
    BY <1>5 DEF CompleteTelegramPayment, IInv, TypeOK
  <2> QED
    BY <1>5, <2>1, RefusePaymentIsQuiet DEF CompleteTelegramPayment
<1>6. ASSUME NEW p \in Policies, SetSetting(p) /\ UNCHANGED paymentVars PROVE Quiet
  BY <1>6, SetSettingIsQuiet
<1>7. ASSUME NEW i \in Intent, ExpirePendingPayment(i) PROVE Quiet
  BY <1>7, ExpireTopUpIsQuiet, ExpireEmissionIsQuiet, ExpireStatePurchaseIsQuiet,
     ExpireSalePurchaseIsQuiet
  DEF ExpirePendingPayment
<1> QED
  BY <1>1, <1>2, <1>3, <1>4, <1>5, <1>6, <1>7 DEF Next, Request

-----------------------------------------------------------------------------
(* The steps that pay: a top-up, or the delivery of a plate                *)

PaidInStep(i, c) ==
  /\ intents[i].status = "PENDING" /\ intents'[i].status = "PAID"
  /\ intents'[i].charge = c
  /\ SameTerms(i)
  /\ \A j \in Intent : j # i => intents'[j] = intents[j]

\* The invoice i pays for the plate n, which the user u did not own.
Delivery(i, n, u, operation) ==
  /\ intents[i].kind # "TOP_UP" /\ intents[i].user = u /\ intents[i].plate = n
  /\ plates[n].owner # u
  /\ plates[n].status = "ABSENT" <=> operation = "STATE_EMISSION"
  /\ plates'[n].status = "OWNED" /\ plates'[n].owner = u
  /\ \A m \in Number : m # n => plates'[m] = plates[m]
  /\ \A v \in User : primary'[v] \in {None, primary[v]}
  /\ plates[n].owner # None => \A v \in User : primary'[v] # n
  /\ history' = WithTransfer(history, n, plates[n].owner, u, operation)

LEMMA PaidOnce ==
  ASSUME IInv, NEW i \in Intent, NEW c, NEW kind, Payable(i, kind), Paid(i, c)
  PROVE  PaidInStep(i, c) /\ intents[i].user \in User
<1>1. intents \in [Intent -> PaymentIntent] /\ intents[i].status = "PENDING"
  BY DEF IInv, TypeOK, Payable
<1>2. intents[i].user \in User
  BY <1>1 DEF IInv, RowsAreComplete
<1> QED
  BY <1>1, <1>2, PaidRow DEF PaidInStep, SameTerms

LEMMA EmissionDelivers ==
  ASSUME IInv, NEW c \in Charge, NEW i \in Intent, CompleteStateEmission(c, i)
  PROVE  \E n \in Number, u \in User :
           Delivery(i, n, u, "STATE_EMISSION") /\ PaidInStep(i, c)
<1>1. /\ Payable(i, "STATE_EMISSION") /\ Paid(i, c)
      /\ intents[i].status = "PENDING" /\ intents[i].kind = "STATE_EMISSION"
  BY DEF CompleteStateEmission, Payable
<1>2. PICK n \in Number, u \in User : n = intents[i].plate /\ u = intents[i].user
  BY <1>1 DEF IInv, RowsAreComplete
<1>3. /\ plates[n].status = "ABSENT" /\ plates[n].owner = None
      /\ plates' = Delivered(n, u)
      /\ history' = WithTransfer(history, n, None, u, "STATE_EMISSION")
      /\ UNCHANGED primary
  BY <1>2 DEF CompleteStateEmission, EmissionOpen, IInv, OwnerMatchesStatus
<1>4. Delivery(i, n, u, "STATE_EMISSION")
  BY <1>1, <1>2, <1>3, DeliveredRow, NoneIsNoRow DEF Delivery, IInv, TypeOK, DatabaseTypeOK
<1> QED
  BY <1>1, <1>4, PaidOnce

LEMMA StatePurchaseDelivers ==
  ASSUME IInv, NEW c \in Charge, NEW i \in Intent, CompleteStatePurchase(c, i)
  PROVE  \E n \in Number, u \in User : Delivery(i, n, u, "SALE") /\ PaidInStep(i, c)
<1>1. /\ Payable(i, "STATE_PURCHASE") /\ Paid(i, c)
      /\ intents[i].status = "PENDING" /\ intents[i].kind = "STATE_PURCHASE"
  BY DEF CompleteStatePurchase, Payable
<1>2. PICK n \in Number, u \in User : n = intents[i].plate /\ u = intents[i].user
  BY <1>1 DEF IInv, RowsAreComplete
<1>3. /\ plates[n].status = "RESERVED" /\ plates[n].owner = None
      /\ plates' = Delivered(n, u)
      /\ history' = WithTransfer(history, n, None, u, "SALE")
      /\ UNCHANGED primary
  BY <1>2 DEF CompleteStatePurchase, StatePurchaseOpen
<1>4. Delivery(i, n, u, "SALE")
  BY <1>1, <1>2, <1>3, DeliveredRow, NoneIsNoRow DEF Delivery, IInv, TypeOK, DatabaseTypeOK
<1> QED
  BY <1>1, <1>4, PaidOnce

\* What the completion of a sale reads and writes, with its rows named.
SoldInStep(i, n, s, buyer, seller) ==
  /\ intents[i].plate = n /\ intents[i].sale = s /\ intents[i].user = buyer
  /\ intents[i].status = "PENDING" /\ intents[i].kind = "SALE_PURCHASE"
  /\ intents[i].amount = sales[s].price
  /\ sales[s].seller = seller /\ seller # buyer
  /\ sales[s].status = "RESERVED" /\ sales[s].plate = n
  /\ plates[n].status = "RESERVED" /\ plates[n].owner = seller
  /\ CanCredit(sales[s].price - sales[s].commission)
  /\ plates' = Delivered(n, buyer)
  /\ primary' = WithoutPrimary(n)
  /\ history' = WithTransfer(history, n, seller, buyer, "SALE")
  /\ sales' = [sales EXCEPT ![s].status = "COMPLETED", ![s].buyer = buyer]
  /\ wallets' = [wallets EXCEPT ![seller] =
       Credited(wallets[seller], sales[s].price - sales[s].commission)]
  /\ revenue' = revenue + sales[s].commission
  /\ outbox' = BothNotified(seller, buyer)

LEMMA SalePurchaseRows ==
  ASSUME IInv, NEW c \in Charge, NEW i \in Intent, CompleteSalePurchase(c, i)
  PROVE  \E n \in Number, s \in Sale, buyer \in User, seller \in User :
           SoldInStep(i, n, s, buyer, seller)
<1>1. intents[i].status = "PENDING" /\ intents[i].kind = "SALE_PURCHASE" /\ SalePurchaseOpen(i)
  BY DEF CompleteSalePurchase, Payable
<1>2. PICK n \in Number, s \in Sale, buyer \in User :
        n = intents[i].plate /\ s = intents[i].sale /\ buyer = intents[i].user
  BY <1>1 DEF IInv, RowsAreComplete
<1>3. /\ s \in ActiveSales(n) /\ sales[s].status = "RESERVED" /\ sales[s].plate = n
      /\ plates[n].status = "RESERVED" /\ sales[s].price = intents[i].amount
      /\ CanCredit(sales[s].price - sales[s].commission)
  BY <1>1, <1>2 DEF SalePurchaseOpen, ActiveSales
<1>4. PICK seller \in User :
        seller = sales[s].seller /\ plates[n].owner = seller /\ seller # buyer
  BY <1>1, <1>2, <1>3 DEF IInv, RowsAreComplete, ListingMatchesPlate, InvoiceMatchesSale
<1>5. /\ plates' = Delivered(n, buyer)
      /\ primary' = WithoutPrimary(n)
      /\ history' = WithTransfer(history, n, seller, buyer, "SALE")
      /\ sales' = [sales EXCEPT ![s].status = "COMPLETED", ![s].buyer = buyer]
      /\ wallets' = [wallets EXCEPT ![seller] =
           Credited(wallets[seller], sales[s].price - sales[s].commission)]
      /\ revenue' = revenue + sales[s].commission
      /\ outbox' = BothNotified(seller, buyer)
  BY <1>2, <1>4 DEF CompleteSalePurchase, SaleRecorded
<1>6. SoldInStep(i, n, s, buyer, seller)
  BY <1>1, <1>2, <1>3, <1>4, <1>5 DEF SoldInStep
<1> QED
  BY <1>6

LEMMA SalePurchaseDelivers ==
  ASSUME IInv, NEW c \in Charge, NEW i \in Intent, CompleteSalePurchase(c, i)
  PROVE  \E n \in Number, u \in User : Delivery(i, n, u, "SALE") /\ PaidInStep(i, c)
<1>1. PICK n \in Number, s \in Sale, buyer \in User, seller \in User :
        SoldInStep(i, n, s, buyer, seller)
  BY SalePurchaseRows
<1>2. PaidInStep(i, c)
  BY PaidOnce DEF CompleteSalePurchase
<1>3. \A v \in User : primary'[v] \in {None, primary[v]} /\ primary'[v] # n
  BY <1>1, NoneIsNoRow DEF SoldInStep, WithoutPrimary
<1>4. Delivery(i, n, buyer, "SALE")
  BY <1>1, <1>3, DeliveredRow DEF SoldInStep, Delivery, IInv, TypeOK, DatabaseTypeOK
<1> QED
  BY <1>2, <1>4

\* Whatever pays for a plate.
CompletePurchase(c, i) ==
  CompleteStateEmission(c, i) \/ CompleteStatePurchase(c, i) \/ CompleteSalePurchase(c, i)

LEMMA PurchaseDelivers ==
  ASSUME IInv, NEW c \in Charge, NEW i \in Intent, CompletePurchase(c, i)
  PROVE  \E n \in Number, u \in User, operation \in OwnershipOperation :
           Delivery(i, n, u, operation) /\ PaidInStep(i, c)
BY EmissionDelivers, StatePurchaseDelivers, SalePurchaseDelivers
DEF CompletePurchase, OwnershipOperation

LEMMA StepKinds ==
  ASSUME IInv, [Next]_vars
  PROVE  \/ Quiet
         \/ \E c \in Charge, i \in Intent : charged[c] = i /\ CompleteTopUp(c, i)
         \/ \E c \in Charge, i \in Intent : charged[c] = i /\ CompletePurchase(c, i)
BY StepIsQuiet DEF CompletePurchase

-----------------------------------------------------------------------------
(* The owners of a plate                                                   *)

LEMMA OwnershipChainInit == Init => OwnershipChain
<1> SUFFICES ASSUME Init, NEW n \in Number
             PROVE  IF plates[n].status = "ABSENT" THEN history[n] = <<>>
                    ELSE IsChain(history[n], plates[n].owner)
  BY DEF OwnershipChain
<1>1. PICK u \in User :
        history = [m \in Number |-> IF plates[m] = Absent THEN <<>> ELSE EmittedAndConfiscated(u)]
  BY DEF Init, DatabaseInit
<1>2. plates[n] \in {Absent, Confiscated}
  BY DEF Init, DatabaseInit
<1>3. CASE plates[n] = Absent
  BY <1>1, <1>3 DEF Absent
<1>4. CASE plates[n] = Confiscated
  <2>1. plates[n].status = "STATE_SALE" /\ plates[n].owner = None
    BY <1>4 DEF Confiscated, Absent
  <2>2. history[n] = EmittedAndConfiscated(u) /\ Absent.status = "ABSENT"
    BY <1>1, <2>1 DEF Absent
  <2>3. IsChain(EmittedAndConfiscated(u), None)
    BY DEF IsChain, EmittedAndConfiscated
  <2> QED
    BY <2>1, <2>2, <2>3
<1> QED
  BY <1>2, <1>3, <1>4

LEMMA OwnershipChainNext == IInv /\ OwnershipChain /\ [Next]_vars => OwnershipChain'
<1> SUFFICES ASSUME IInv, OwnershipChain, [Next]_vars PROVE OwnershipChain'
  OBVIOUS
<1>1. CASE Quiet
  BY <1>1 DEF Quiet, OwnersKept, OwnershipChain
<1>2. ASSUME NEW c \in Charge, NEW i \in Intent, CompleteTopUp(c, i) PROVE OwnershipChain'
  BY <1>2 DEF CompleteTopUp, OwnershipChain
<1>3. ASSUME NEW c \in Charge, NEW i \in Intent, CompletePurchase(c, i) PROVE OwnershipChain'
  <2>1. PICK n \in Number, u \in User, operation \in OwnershipOperation :
          Delivery(i, n, u, operation)
    BY <1>3, PurchaseDelivers
  <2>2. history \in [Number -> Seq(OwnershipHistory)] /\ plates[n].owner \in User \cup {None}
    BY DEF IInv, TypeOK, DatabaseTypeOK, Plate
  <2>3. \/ history[n] = <<>> /\ plates[n].owner = None /\ operation = "STATE_EMISSION"
        \/ IsChain(history[n], plates[n].owner) /\ operation # "STATE_EMISSION"
    BY <2>1 DEF OwnershipChain, Delivery, IInv, OwnerMatchesStatus
  <2>4. history'[n] = Append(history[n],
          [old |-> plates[n].owner, new |-> u, operation |-> operation])
    BY <2>1, <2>2 DEF Delivery, WithTransfer
  <2>5. IsChain(history'[n], u)
    <3>1. PICK rows \in Seq(OwnershipHistory), old \in User \cup {None} :
            rows = history[n] /\ old = plates[n].owner
      BY <2>2
    <3>2. \/ rows = <<>> /\ old = None /\ operation = "STATE_EMISSION"
          \/ IsChain(rows, old) /\ operation # "STATE_EMISSION"
      BY <2>3, <3>1
    <3>3. IsChain(Append(rows, [old |-> old, new |-> u, operation |-> operation]), u)
      BY <3>2, ChainGrows, u \in User \cup {None}
    <3> QED
      BY <2>4, <3>1, <3>3
  <2>6. \A m \in Number : m # n => history'[m] = history[m] /\ plates'[m] = plates[m]
    BY <2>1, <2>2 DEF Delivery, WithTransfer
  <2>7. plates'[n].status # "ABSENT" /\ plates'[n].owner = u
    BY <2>1 DEF Delivery
  <2> QED
    BY <2>5, <2>6, <2>7 DEF OwnershipChain
<1> QED
  BY <1>1, <1>2, <1>3, StepKinds

\* The ownership history of every plate is a chain from its emission to its
\* present owner (_complete_state_emission, _complete_state_purchase,
\* _complete_sale_purchase).
THEOREM HistoryIsChain == Spec => []OwnershipChain
BY InvariantHolds, OwnershipChainInit, OwnershipChainNext, PTL DEF Spec

LEMMA PrimaryIsOwnedNext == IInv /\ PrimaryIsOwned /\ [Next]_vars => PrimaryIsOwned'
<1> SUFFICES ASSUME IInv, PrimaryIsOwned, [Next]_vars,
                    NEW u \in User, primary'[u] # None
             PROVE  plates'[primary'[u]].owner = u
  BY DEF PrimaryIsOwned
<1>1. PICK m \in Number : primary'[u] = m
  BY IInvNext DEF IInv, TypeOK, DatabaseTypeOK
<1>2. CASE Quiet
  BY <1>1, <1>2 DEF Quiet, OwnPlateShown, OwnersKept, PrimaryIsOwned
<1>3. ASSUME NEW c \in Charge, NEW i \in Intent, CompleteTopUp(c, i)
      PROVE  plates'[primary'[u]].owner = u
  BY <1>3 DEF CompleteTopUp, PrimaryIsOwned
<1>4. ASSUME NEW c \in Charge, NEW i \in Intent, CompletePurchase(c, i)
      PROVE  plates'[primary'[u]].owner = u
  <2>1. PICK n \in Number, v \in User, operation \in OwnershipOperation :
          Delivery(i, n, v, operation)
    BY <1>4, PurchaseDelivers
  <2>2. primary[u] = m /\ plates[m].owner = u /\ m # n
    BY <1>1, <2>1, NoneIsNoRow DEF Delivery, PrimaryIsOwned
  <2> QED
    BY <1>1, <2>1, <2>2 DEF Delivery
<1> QED
  BY <1>2, <1>3, <1>4, StepKinds

\* No profile shows a plate of somebody else, also after it was sold: only the
\* sale clears it, by the plate (clear_primary_plate).
THEOREM ProfilesShowOwnPlates == Spec => []PrimaryIsOwned
<1>1. Init => PrimaryIsOwned
  BY DEF Init, DatabaseInit, PrimaryIsOwned
<1> QED
  BY <1>1, InvariantHolds, PrimaryIsOwnedNext, PTL DEF Spec

-----------------------------------------------------------------------------
(* Marketplace implements PlateRegistry                                    *)

LEMMA TopUpPays ==
  ASSUME IInv, NEW c \in Charge, NEW i \in Intent, CompleteTopUp(c, i)
  PROVE  /\ PaidInStep(i, c)
         /\ intents[i].user \in User /\ intents[i].kind = "TOP_UP"
         /\ UNCHANGED <<plates, history, primary, revenue, sales>>
BY PaidOnce DEF CompleteTopUp, Payable

\* A row that was never inserted is made out to nobody.
AbsentHasNoPayer ==
  \A i \in Intent : intents[i].status = "ABSENT" => intents[i].user = None

LEMMA AbsentHasNoPayerNext ==
  IInv /\ AbsentHasNoPayer /\ [Next]_vars => AbsentHasNoPayer'
<1> SUFFICES ASSUME IInv, AbsentHasNoPayer, [Next]_vars PROVE AbsentHasNoPayer'
  OBVIOUS
<1>1. CASE Quiet
  BY <1>1 DEF Quiet, Started, PassedOver, AbsentHasNoPayer
<1>2. ASSUME NEW c \in Charge, NEW i \in Intent, CompleteTopUp(c, i) PROVE AbsentHasNoPayer'
  BY <1>2, TopUpPays DEF PaidInStep, AbsentHasNoPayer
<1>3. ASSUME NEW c \in Charge, NEW i \in Intent, CompletePurchase(c, i)
      PROVE  AbsentHasNoPayer'
  BY <1>3, PurchaseDelivers DEF PaidInStep, AbsentHasNoPayer
<1> QED
  BY <1>1, <1>2, <1>3, StepKinds

\* The variables of the registry, as Marketplace computes them.
RegistryOwner == [n \in Number |-> plates[n].owner]
RegistryIssued == {n \in Number : plates[n].status # "ABSENT"}
RegistryPayer == [i \in Intent |-> intents[i].user]
RegistrySettled == {i \in Intent : intents[i].status = "PAID"}

LEMMA PaidIsSettled ==
  ASSUME IInv, NEW i \in Intent, NEW c, PaidInStep(i, c), intents[i].user \in User
  PROVE  Registry!Settle(i)
<1>1. RegistryPayer' = RegistryPayer /\ RegistrySettled' = RegistrySettled \cup {i}
  BY DEF PaidInStep, SameTerms, RegistryPayer, RegistrySettled
<1>2. RegistryPayer[i] # None /\ i \notin RegistrySettled
  BY NoneIsNoRow DEF PaidInStep, RegistryPayer, RegistrySettled
<1> QED
  BY <1>1, <1>2 DEF Registry!Settle, RegistryPayer, RegistrySettled

LEMMA QuietStepInRegistry ==
  ASSUME IInv, AbsentHasNoPayer, Quiet
  PROVE  [Registry!Next]_(Registry!registryVars)
<1>1. RegistryOwner' = RegistryOwner /\ RegistryIssued' = RegistryIssued
  BY DEF Quiet, OwnersKept, RegistryOwner, RegistryIssued
<1>2. CASE intents' = intents
  <2>1. RegistryPayer' = RegistryPayer /\ RegistrySettled' = RegistrySettled
    BY <1>2 DEF RegistryPayer, RegistrySettled
  <2> QED
    BY <1>1, <2>1
    DEF Registry!registryVars, RegistryOwner, RegistryIssued, RegistryPayer, RegistrySettled
<1>3. ASSUME NEW i \in Intent, PassedOver(i)
      PROVE  [Registry!Next]_(Registry!registryVars)
  <2>1. RegistryPayer' = RegistryPayer /\ RegistrySettled' = RegistrySettled
    BY <1>3 DEF PassedOver, SameTerms, RegistryPayer, RegistrySettled
  <2> QED
    BY <1>1, <2>1
    DEF Registry!registryVars, RegistryOwner, RegistryIssued, RegistryPayer, RegistrySettled
<1>4. ASSUME NEW i \in Intent, Started(i)
      PROVE  [Registry!Next]_(Registry!registryVars)
  <2>1. PICK u \in User : u = intents'[i].user
    BY <1>4 DEF Started
  <2>2. RegistryPayer[i] = None /\ RegistryPayer' = [RegistryPayer EXCEPT ![i] = u]
    BY <1>4, <2>1 DEF Started, RegistryPayer, AbsentHasNoPayer
  <2>3. RegistrySettled' = RegistrySettled
    BY <1>4 DEF Started, RegistrySettled
  <2>4. Registry!Invoice(i, u)
    BY <1>1, <2>2, <2>3
    DEF Registry!Invoice, RegistryOwner, RegistryIssued, RegistryPayer, RegistrySettled
  <2> QED
    BY <2>4 DEF Registry!Next
<1> QED
  BY <1>2, <1>3, <1>4 DEF Quiet

LEMMA TopUpInRegistry ==
  ASSUME IInv, NEW c \in Charge, NEW i \in Intent, CompleteTopUp(c, i)
  PROVE  Registry!Next
<1>1. Registry!Settle(i)
  BY TopUpPays, PaidIsSettled
<1>2. RegistryOwner' = RegistryOwner /\ RegistryIssued' = RegistryIssued
  BY TopUpPays DEF RegistryOwner, RegistryIssued
<1>3. Registry!Deposit(i)
  BY <1>1, <1>2 DEF Registry!Deposit, RegistryOwner, RegistryIssued
<1> QED
  BY <1>3 DEF Registry!Next

LEMMA PurchaseInRegistry ==
  ASSUME IInv, NEW c \in Charge, NEW i \in Intent, CompletePurchase(c, i)
  PROVE  Registry!Next
<1>1. PICK n \in Number, u \in User, operation \in OwnershipOperation :
        Delivery(i, n, u, operation) /\ PaidInStep(i, c)
  BY PurchaseDelivers
<1>2. intents[i].user = u /\ RegistryPayer[i] = u
  BY <1>1 DEF Delivery, RegistryPayer
<1>3. Registry!Settle(i)
  BY <1>1, <1>2, PaidIsSettled
<1>4. /\ RegistryOwner' = [RegistryOwner EXCEPT ![n] = u]
      /\ RegistryOwner[n] # u
      /\ RegistryIssued' = RegistryIssued \cup {n}
  BY <1>1 DEF Delivery, RegistryOwner, RegistryIssued
<1>5. CASE n \notin RegistryIssued
  <2>1. Registry!Issue(i, n)
    BY <1>2, <1>3, <1>4, <1>5 DEF Registry!Issue, RegistryOwner, RegistryIssued, RegistryPayer
  <2> QED
    BY <2>1 DEF Registry!Next
<1>6. CASE n \in RegistryIssued
  <2>1. RegistryIssued' = RegistryIssued
    BY <1>4, <1>6
  <2>2. Registry!Sell(i, n)
    BY <1>2, <1>3, <1>4, <1>6, <2>1
    DEF Registry!Sell, RegistryOwner, RegistryIssued, RegistryPayer
  <2> QED
    BY <2>2 DEF Registry!Next
<1> QED
  BY <1>5, <1>6

LEMMA RegistryInit == Init => Registry!Init
<1> SUFFICES ASSUME Init PROVE Registry!Init
  OBVIOUS
<1>1. RegistryOwner = [n \in Number |-> None]
  BY PlatesInit DEF RegistryOwner
<1>2. RegistryPayer = [i \in Intent |-> None] /\ RegistrySettled = {}
  BY DEF Init, PaymentInit, NoIntent, RegistryPayer, RegistrySettled
<1> QED
  BY <1>1, <1>2 DEF Registry!Init, RegistryOwner, RegistryPayer, RegistrySettled

LEMMA RegistryNext ==
  IInv /\ AbsentHasNoPayer /\ [Next]_vars => [Registry!Next]_(Registry!registryVars)
BY StepKinds, QuietStepInRegistry, TopUpInRegistry, PurchaseInRegistry

\* The marketplace implements the registry: in spite of reservations that lapse
\* and payments that come late or twice, a plate is issued once and changes hands
\* only by an invoice that is settled, once, for the user it was made out to
\* (complete_telegram_payment).
THEOREM MarketplaceImplementsRegistry == Spec => RegistrySpec
<1>1. Init => AbsentHasNoPayer
  BY DEF Init, PaymentInit, NoIntent, AbsentHasNoPayer
<1>2. Spec => []AbsentHasNoPayer
  BY <1>1, InvariantHolds, AbsentHasNoPayerNext, PTL DEF Spec
<1> QED
  BY <1>2, InvariantHolds, RegistryInit, RegistryNext, PTL DEF Spec, RegistrySpec, Registry!Spec

-----------------------------------------------------------------------------
(* Stars                                                                   *)

Stars == [u \in User |-> wallets[u].available + wallets[u].frozen]
Received == [i \in Intent |-> IF intents[i].status = "PAID" THEN intents[i].amount ELSE 0]

LEMMA SumsAreWhole ==
  ASSUME TypeOK
  PROVE  /\ \A u \in User : Stars[u] \in Int
         /\ \A i \in Intent : Received[i] \in Int
         /\ SumFunctionOnSet(Stars, User) \in Int
         /\ SumFunctionOnSet(Received, Intent) \in Int
         /\ revenue \in Int
<1>1. /\ \A u \in User : Stars[u] \in Int
      /\ \A i \in Intent : Received[i] \in Int
      /\ revenue \in Int
  BY DEF TypeOK, DatabaseTypeOK, Wallet, PaymentIntent, Stars, Received
<1> QED
  BY <1>1, SumType, UsersAreFinite, RowsAreFinite

\* A paid invoice adds its amount to what was received.
LEMMA ReceivedGrows ==
  ASSUME IInv, NEW i \in Intent, NEW c, PaidInStep(i, c)
  PROVE  SumFunctionOnSet(Received, Intent)'
           = SumFunctionOnSet(Received, Intent) + intents[i].amount
<1>1. /\ Received[i] = 0 /\ Received'[i] = intents[i].amount
      /\ \A j \in Intent \ {i} : Received'[j] = Received[j]
  BY DEF PaidInStep, SameTerms, Received
<1>2. \A j \in Intent : Received[j] \in Int
  BY SumsAreWhole DEF IInv
<1>3. intents[i].amount \in Int /\ Received'[i] \in Int
  BY <1>1 DEF IInv, TypeOK, PaymentIntent
<1>4. Received'[i] = Received[i] + intents[i].amount
  BY <1>1, <1>3
<1> QED
  BY <1>1, <1>2, <1>3, <1>4, SumGrows, RowsAreFinite

\* A credit adds its amount to what the users have.
LEMMA StarsGrow ==
  ASSUME IInv, NEW u \in User, NEW amount \in Int,
         wallets' = [wallets EXCEPT ![u] = Credited(wallets[u], amount)]
  PROVE  SumFunctionOnSet(Stars, User)' = SumFunctionOnSet(Stars, User) + amount
<1>1. wallets \in [User -> Wallet]
  BY DEF IInv, TypeOK, DatabaseTypeOK
<1>2. /\ wallets'[u] = Credited(wallets[u], amount)
      /\ \A v \in User \ {u} : wallets'[v] = wallets[v]
  BY <1>1
<1>3. /\ Stars'[u] = Stars[u] + amount
      /\ \A v \in User \ {u} : Stars'[v] = Stars[v]
  BY <1>1, <1>2 DEF Stars, Credited, Wallet
<1>4. \A v \in User : Stars[v] \in Int
  BY SumsAreWhole DEF IInv
<1> QED
  BY <1>3, <1>4, SumGrows, UsersAreFinite

LEMMA StarsInit == Init => StarsAreConserved
<1> SUFFICES ASSUME Init PROVE StarsAreConserved
  OBVIOUS
<1>1. (\A u \in User : Stars[u] = 0) /\ (\A i \in Intent : Received[i] = 0) /\ revenue = 0
  BY DEF Init, DatabaseInit, PaymentInit, EmptyWallets, NoIntent, Stars, Received
<1>2. Cardinality(User) \in Nat /\ Cardinality(Intent) \in Nat
  BY FS_CardinalityType, UsersAreFinite, RowsAreFinite
<1>3. /\ SumFunctionOnSet(Stars, User) = 0 * Cardinality(User)
      /\ SumFunctionOnSet(Received, Intent) = 0 * Cardinality(Intent)
  BY <1>1, SumOfConstant, UsersAreFinite, RowsAreFinite
<1> QED
  BY <1>1, <1>2, <1>3 DEF StarsAreConserved, Stars, Received

LEMMA StarsNext == IInv /\ StarsAreConserved /\ [Next]_vars => StarsAreConserved'
<1> SUFFICES ASSUME IInv, StarsAreConserved, [Next]_vars PROVE StarsAreConserved'
  OBVIOUS
<1> DEFINE total == SumFunctionOnSet(Stars, User)
           received == SumFunctionOnSet(Received, Intent)
<1>1. total \in Int /\ received \in Int /\ revenue \in Int
  BY SumsAreWhole DEF IInv
<1>2. total + revenue = received
  BY DEF StarsAreConserved, Stars, Received
<1> SUFFICES total' + revenue' = received'
  BY DEF StarsAreConserved, Stars, Received
<1>3. CASE Quiet
  <2>1. Received' = Received
    BY <1>3 DEF Quiet, Started, PassedOver, SameTerms, Received
  <2>2. Stars' = Stars /\ revenue' = revenue
    BY <1>3 DEF Quiet, Stars
  <2> QED
    BY <1>2, <2>1, <2>2
<1>4. ASSUME NEW c \in Charge, NEW i \in Intent, CompleteTopUp(c, i)
      PROVE  total' + revenue' = received'
  <2>1. PICK u \in User : u = intents[i].user
    BY <1>4, TopUpPays
  <2>2. /\ intents[i].amount \in Int
        /\ wallets' = [wallets EXCEPT ![u] = Credited(wallets[u], intents[i].amount)]
        /\ revenue' = revenue
    BY <1>4, <2>1 DEF CompleteTopUp, IInv, TypeOK, PaymentIntent
  <2>3. total' = total + intents[i].amount
    BY <2>2, StarsGrow
  <2>4. received' = received + intents[i].amount
    BY <1>4, TopUpPays, ReceivedGrows
  <2> QED
    BY <1>1, <1>2, <2>2, <2>3, <2>4
<1>5. ASSUME NEW c \in Charge, NEW i \in Intent, CompletePurchase(c, i)
      PROVE  total' + revenue' = received'
  <2>1. received' = received + intents[i].amount /\ intents[i].amount \in Int
    BY <1>5, PurchaseDelivers, ReceivedGrows DEF IInv, TypeOK, PaymentIntent
  <2>2. CASE CompleteStateEmission(c, i) \/ CompleteStatePurchase(c, i)
    <3>1. wallets' = wallets /\ revenue' = revenue + intents[i].amount
      BY <2>2 DEF CompleteStateEmission, CompleteStatePurchase
    <3>2. Stars' = Stars
      BY <3>1 DEF Stars
    <3> QED
      BY <1>1, <1>2, <2>1, <3>1, <3>2
  <2>3. CASE CompleteSalePurchase(c, i)
    <3>1. PICK n \in Number, s \in Sale, buyer \in User, seller \in User :
            SoldInStep(i, n, s, buyer, seller)
      BY <2>3, SalePurchaseRows
    <3>2. sales[s].price \in Int /\ sales[s].commission \in Int
      BY DEF IInv, TypeOK, SaleRow
    <3>3. total' = total + (sales[s].price - sales[s].commission)
      <4>1. wallets' = [wallets EXCEPT ![seller] =
                          Credited(wallets[seller], sales[s].price - sales[s].commission)]
        BY <3>1 DEF SoldInStep
      <4>2. sales[s].price - sales[s].commission \in Int
        BY <3>2
      <4> QED
        BY <4>1, <4>2, StarsGrow
    <3>4. revenue' = revenue + sales[s].commission /\ intents[i].amount = sales[s].price
      BY <3>1 DEF SoldInStep
    <3> QED
      BY <1>1, <1>2, <2>1, <3>2, <3>3, <3>4
  <2> QED
    BY <1>5, <2>2, <2>3 DEF CompletePurchase
<1> QED
  BY <1>3, <1>4, <1>5, StepKinds

\* Every Star of a paid invoice is in a wallet or in the revenue, once: repeated
\* and late deliveries book nothing (complete_telegram_payment, BalanceBook).
THEOREM StarsStayConserved == Spec => []StarsAreConserved
BY InvariantHolds, StarsInit, StarsNext, PTL DEF Spec

-----------------------------------------------------------------------------
(* Notifications                                                           *)

LEMMA QueuedCounts ==
  ASSUME NEW box \in [User -> [NotificationType -> Nat]], NEW u \in User,
         NEW type \in NotificationType, NEW v \in User, NEW t \in NotificationType
  PROVE  Queued(box, u, type)[v][t] = IF v = u /\ t = type THEN box[v][t] + 1 ELSE box[v][t]
BY DEF Queued

LEMMA PaidInvoicesGrow ==
  ASSUME IInv, NEW i \in Intent, NEW c, PaidInStep(i, c), NEW u \in User, NEW kinds
  PROVE  Cardinality(PaidInvoices(u, kinds))'
           = IF intents[i].user = u /\ intents[i].kind \in kinds
             THEN Cardinality(PaidInvoices(u, kinds)) + 1
             ELSE Cardinality(PaidInvoices(u, kinds))
<1> DEFINE paid == PaidInvoices(u, kinds)
<1>1. IsFiniteSet(paid)
  BY FS_Subset, RowsAreFinite DEF PaidInvoices
<1>2. CASE intents[i].user = u /\ intents[i].kind \in kinds
  <2>1. i \notin paid /\ paid' = paid \cup {i}
    BY <1>2 DEF PaidInStep, SameTerms, PaidInvoices
  <2> QED
    BY <1>1, <1>2, <2>1, FS_AddElement
<1>3. CASE ~ (intents[i].user = u /\ intents[i].kind \in kinds)
  <2>1. paid' = paid
    BY <1>3 DEF PaidInStep, SameTerms, PaidInvoices
  <2> QED
    BY <1>3, <2>1
<1> QED
  BY <1>2, <1>3

LEMMA CompletedSalesGrow ==
  ASSUME IInv, NEW s \in Sale, NEW buyer \in User, sales[s].status = "RESERVED",
         sales' = [sales EXCEPT ![s].status = "COMPLETED", ![s].buyer = buyer], NEW u \in User
  PROVE  Cardinality(CompletedSales(u))'
           = IF sales[s].seller = u THEN Cardinality(CompletedSales(u)) + 1
             ELSE Cardinality(CompletedSales(u))
<1> DEFINE done == CompletedSales(u)
<1>1. IsFiniteSet(done)
  BY FS_Subset, RowsAreFinite DEF CompletedSales
<1>2. /\ sales'[s].status = "COMPLETED" /\ sales'[s].seller = sales[s].seller
      /\ \A t \in Sale : t # s => sales'[t] = sales[t]
  BY DEF IInv, TypeOK, SaleRow
<1>3. CASE sales[s].seller = u
  <2>1. s \notin done /\ done' = done \cup {s}
    BY <1>2, <1>3 DEF CompletedSales
  <2> QED
    BY <1>1, <1>3, <2>1, FS_AddElement
<1>4. CASE sales[s].seller # u
  <2>1. done' = done
    BY <1>2, <1>4 DEF CompletedSales
  <2> QED
    BY <1>4, <2>1
<1> QED
  BY <1>3, <1>4

Topped(u) == PaidInvoices(u, {"TOP_UP"})
Bought(u) == PaidInvoices(u, PaymentKind \ {"TOP_UP"})

LEMMA AnnouncedInit == Init => DeliveriesAreAnnounced
<1> SUFFICES ASSUME Init, NEW u \in User
             PROVE  /\ outbox[u]["BALANCE_TOPUP"] = Cardinality(Topped(u))
                    /\ outbox[u]["PLATE_PURCHASED"] = Cardinality(Bought(u))
                    /\ outbox[u]["SALE_COMPLETED"] = Cardinality(CompletedSales(u))
  BY DEF DeliveriesAreAnnounced, Topped, Bought
<1>1. Topped(u) = {} /\ Bought(u) = {} /\ CompletedSales(u) = {}
  BY DEF Init, PaymentInit, NoIntent, NoSale, PaidInvoices, CompletedSales, Topped, Bought
<1>2. \A type \in NotificationType : outbox[u][type] = 0
  BY DEF Init, DatabaseInit, EmptyOutbox
<1> QED
  BY <1>1, <1>2, FS_EmptySet DEF NotificationType

LEMMA AnnouncedNext == IInv /\ DeliveriesAreAnnounced /\ [Next]_vars => DeliveriesAreAnnounced'
<1> SUFFICES ASSUME IInv, DeliveriesAreAnnounced, [Next]_vars, NEW u \in User
             PROVE  /\ outbox'[u]["BALANCE_TOPUP"] = Cardinality(Topped(u))'
                    /\ outbox'[u]["PLATE_PURCHASED"] = Cardinality(Bought(u))'
                    /\ outbox'[u]["SALE_COMPLETED"] = Cardinality(CompletedSales(u))'
  BY DEF DeliveriesAreAnnounced, Topped, Bought
<1> DEFINE told(type) == outbox[u][type]
<1>1. /\ told("BALANCE_TOPUP") = Cardinality(Topped(u))
      /\ told("PLATE_PURCHASED") = Cardinality(Bought(u))
      /\ told("SALE_COMPLETED") = Cardinality(CompletedSales(u))
  BY DEF DeliveriesAreAnnounced, Topped, Bought
<1>2. /\ outbox \in [User -> [NotificationType -> Nat]]
      /\ {"BALANCE_TOPUP", "PLATE_PURCHASED", "SALE_COMPLETED"} \subseteq NotificationType
  BY DEF IInv, TypeOK, DatabaseTypeOK, NotificationType
<1>3. CASE Quiet
  <2>1. Topped(u)' = Topped(u) /\ Bought(u)' = Bought(u)
    BY <1>3 DEF Quiet, Started, PassedOver, SameTerms, PaidInvoices, Topped, Bought
  <2>2. CompletedSales(u)' = CompletedSales(u)
    BY <1>3 DEF Quiet, SaleTermsKept, CompletionsKept, CompletedSales
  <2> QED
    BY <1>1, <1>3, <2>1, <2>2 DEF Quiet
<1>4. ASSUME NEW c \in Charge, NEW i \in Intent, CompleteTopUp(c, i)
      PROVE  /\ outbox'[u]["BALANCE_TOPUP"] = Cardinality(Topped(u))'
             /\ outbox'[u]["PLATE_PURCHASED"] = Cardinality(Bought(u))'
             /\ outbox'[u]["SALE_COMPLETED"] = Cardinality(CompletedSales(u))'
  <2>1. PICK v \in User : v = intents[i].user
    BY <1>4, TopUpPays
  <2>2. outbox' = Queued(outbox, v, "BALANCE_TOPUP") /\ sales' = sales
    BY <1>4, <2>1 DEF CompleteTopUp
  <2>3. CompletedSales(u)' = CompletedSales(u)
    BY <2>2 DEF CompletedSales
  <2>4. /\ Cardinality(Topped(u))'
             = IF v = u THEN Cardinality(Topped(u)) + 1 ELSE Cardinality(Topped(u))
        /\ Cardinality(Bought(u))' = Cardinality(Bought(u))
    BY <1>4, <2>1, TopUpPays, PaidInvoicesGrow DEF Topped, Bought
  <2>5. /\ outbox'[u]["BALANCE_TOPUP"]
             = IF v = u THEN told("BALANCE_TOPUP") + 1 ELSE told("BALANCE_TOPUP")
        /\ outbox'[u]["PLATE_PURCHASED"] = told("PLATE_PURCHASED")
        /\ outbox'[u]["SALE_COMPLETED"] = told("SALE_COMPLETED")
    BY <1>2, <2>2, QueuedCounts
  <2> QED
    BY <1>1, <2>3, <2>4, <2>5
<1>5. ASSUME NEW c \in Charge, NEW i \in Intent, CompletePurchase(c, i)
      PROVE  /\ outbox'[u]["BALANCE_TOPUP"] = Cardinality(Topped(u))'
             /\ outbox'[u]["PLATE_PURCHASED"] = Cardinality(Bought(u))'
             /\ outbox'[u]["SALE_COMPLETED"] = Cardinality(CompletedSales(u))'
  <2>1. PaidInStep(i, c) /\ intents[i].kind \in PaymentKind \ {"TOP_UP"}
    BY <1>5, PurchaseDelivers DEF Delivery, PaidInStep, IInv, RowsAreComplete
  <2>2. PICK v \in User : v = intents[i].user
    BY <2>1 DEF PaidInStep, IInv, RowsAreComplete
  <2>3. /\ Cardinality(Topped(u))' = Cardinality(Topped(u))
        /\ Cardinality(Bought(u))'
             = IF v = u THEN Cardinality(Bought(u)) + 1 ELSE Cardinality(Bought(u))
    BY <2>1, <2>2, PaidInvoicesGrow DEF Topped, Bought
  <2>4. CASE CompleteStateEmission(c, i) \/ CompleteStatePurchase(c, i)
    <3>1. outbox' = Queued(outbox, v, "PLATE_PURCHASED") /\ sales' = sales
      BY <2>2, <2>4 DEF CompleteStateEmission, CompleteStatePurchase
    <3>2. CompletedSales(u)' = CompletedSales(u)
      BY <3>1 DEF CompletedSales
    <3>3. /\ outbox'[u]["PLATE_PURCHASED"]
               = IF v = u THEN told("PLATE_PURCHASED") + 1 ELSE told("PLATE_PURCHASED")
          /\ outbox'[u]["BALANCE_TOPUP"] = told("BALANCE_TOPUP")
          /\ outbox'[u]["SALE_COMPLETED"] = told("SALE_COMPLETED")
      BY <1>2, <3>1, QueuedCounts
    <3> QED
      BY <1>1, <2>3, <3>2, <3>3
  <2>5. CASE CompleteSalePurchase(c, i)
    <3>1. PICK n \in Number, s \in Sale, buyer \in User, seller \in User :
            SoldInStep(i, n, s, buyer, seller)
      BY <2>5, SalePurchaseRows
    <3>2. /\ buyer = v /\ sales[s].seller = seller /\ sales[s].status = "RESERVED"
          /\ sales' = [sales EXCEPT ![s].status = "COMPLETED", ![s].buyer = buyer]
          /\ outbox' = Queued(Queued(outbox, seller, "SALE_COMPLETED"), v, "PLATE_PURCHASED")
      BY <2>2, <3>1 DEF SoldInStep, BothNotified
    <3>3. Cardinality(CompletedSales(u))'
            = IF seller = u THEN Cardinality(CompletedSales(u)) + 1
              ELSE Cardinality(CompletedSales(u))
      BY <3>2, CompletedSalesGrow
    <3>4. PICK first \in [User -> [NotificationType -> Nat]] :
            first = Queued(outbox, seller, "SALE_COMPLETED")
      BY <1>2, QueuedType
    <3>5. \A t \in NotificationType :
            first[u][t] = IF u = seller /\ t = "SALE_COMPLETED" THEN told(t) + 1 ELSE told(t)
      BY <1>2, <3>4 DEF Queued
    <3>6. outbox' = Queued(first, v, "PLATE_PURCHASED")
      BY <3>2, <3>4
    <3>7. \A t \in NotificationType :
            outbox'[u][t]
              = IF u = v /\ t = "PLATE_PURCHASED" THEN first[u][t] + 1 ELSE first[u][t]
      BY <1>2, <3>6, QueuedCounts
    <3>8. /\ outbox'[u]["PLATE_PURCHASED"]
               = IF v = u THEN told("PLATE_PURCHASED") + 1 ELSE told("PLATE_PURCHASED")
          /\ outbox'[u]["BALANCE_TOPUP"] = told("BALANCE_TOPUP")
          /\ outbox'[u]["SALE_COMPLETED"]
               = IF seller = u THEN told("SALE_COMPLETED") + 1 ELSE told("SALE_COMPLETED")
      BY <1>2, <3>5, <3>7
    <3> QED
      BY <1>1, <2>3, <3>3, <3>8
  <2> QED
    BY <1>5, <2>4, <2>5 DEF CompletePurchase
<1> QED
  BY <1>3, <1>4, <1>5, StepKinds

\* Each party of a fulfilled invoice is told of it exactly once, however often
\* Telegram delivers the payment (the notifications of the completions).
THEOREM DeliveriesStayAnnounced == Spec => []DeliveriesAreAnnounced
BY InvariantHolds, AnnouncedInit, AnnouncedNext, PTL DEF Spec

-----------------------------------------------------------------------------
(* What an open invoice can count on                                       *)

SaleTerms == \A s \in Sale : sales[s].status # "ABSENT" => Priced(sales[s])

LEMMA SoldOnItsTerms ==
  ASSUME IInv, NEW c \in Charge, NEW i \in Intent, CompletePurchase(c, i)
  PROVE  SaleTermsKept
<1>1. CASE CompleteStateEmission(c, i) \/ CompleteStatePurchase(c, i)
  BY <1>1 DEF CompleteStateEmission, CompleteStatePurchase, SaleTermsKept
<1>2. CASE CompleteSalePurchase(c, i)
  <2>1. PICK n \in Number, s \in Sale, buyer \in User, seller \in User :
          SoldInStep(i, n, s, buyer, seller)
    BY <1>2, SalePurchaseRows
  <2>2. /\ sales[s].status = "RESERVED" /\ sales \in [Sale -> SaleRow]
        /\ sales' = [sales EXCEPT ![s].status = "COMPLETED", ![s].buyer = buyer]
    BY <2>1 DEF SoldInStep, IInv, TypeOK
  <2>3. /\ \A t \in Sale \ {s} : sales'[t] = sales[t]
        /\ sales'[s].status = "COMPLETED"
        /\ sales'[s].plate = sales[s].plate /\ sales'[s].seller = sales[s].seller
        /\ sales'[s].price = sales[s].price
        /\ sales'[s].commission = sales[s].commission
    BY <2>2 DEF SaleRow
  <2> QED
    BY <2>2, <2>3 DEF SaleTermsKept
<1> QED
  BY <1>1, <1>2 DEF CompletePurchase

LEMMA EveryStepKeepsTerms == ASSUME IInv, [Next]_vars PROVE SaleTermsKept
<1>1. ASSUME NEW c \in Charge, NEW i \in Intent, CompleteTopUp(c, i) PROVE SaleTermsKept
  BY <1>1, TopUpPays DEF SaleTermsKept
<1> QED
  BY <1>1, StepKinds, SoldOnItsTerms DEF Quiet

LEMMA SaleTermsNext == IInv /\ SaleTerms /\ [Next]_vars => SaleTerms'
BY EveryStepKeepsTerms DEF SaleTerms, SaleTermsKept, Priced

LEMMA SaleTermsHold == Spec => []SaleTerms
<1>1. Init => SaleTerms
  BY DEF Init, PaymentInit, NoSale, SaleTerms
<1> QED
  BY <1>1, InvariantHolds, SaleTermsNext, PTL DEF Spec

LEMMA HeldMeansFulfillable == IInv /\ SaleTerms => PurchaseCanBeFulfilled
<1> SUFFICES ASSUME IInv, SaleTerms, NEW i \in Intent,
                    intents[i].status = "PENDING", intents[i].kind \in Purchase
             PROVE  Fulfillable(i) <=> ~CommissionTakesAll(i)
  BY DEF PurchaseCanBeFulfilled
<1>1. CASE intents[i].kind = "STATE_PURCHASE"
  <2>1. StatePurchaseOpen(i)
    BY <1>1, PurchaseHolds, NoneIsNoRow DEF StatePurchaseOpen
  <2> QED
    BY <1>1, <2>1 DEF Fulfillable, CommissionTakesAll
<1>2. CASE intents[i].kind = "SALE_PURCHASE"
  <2>1. PICK s \in Sale, n \in Number :
          /\ s = intents[i].sale /\ n = intents[i].plate
          /\ s \in ActiveSales(n) /\ sales[s].status = "RESERVED"
          /\ plates[n].status = "RESERVED" /\ plates[n].reservedBy = intents[i].user
    BY <1>2, PurchaseHolds
  <2>2. sales[s].price = intents[i].amount
    BY <1>2, <2>1 DEF IInv, InvoiceMatchesSale
  <2>3. sales[s].price \in Nat /\ sales[s].commission \in Nat
    BY DEF IInv, TypeOK, SaleRow
  <2>4. sales[s].commission <= sales[s].price
    BY <2>1 DEF SaleTerms, Priced
  <2>5. SalePurchaseOpen(i) <=> CanCredit(sales[s].price - sales[s].commission)
    BY <2>1, <2>2 DEF SalePurchaseOpen
  <2>6. CanCredit(sales[s].price - sales[s].commission)
          <=> sales[s].commission # sales[s].price
    BY <2>3, <2>4 DEF CanCredit
  <2> QED
    BY <1>2, <2>1, <2>5, <2>6 DEF Fulfillable, CommissionTakesAll
<1> QED
  BY <1>1, <1>2 DEF Purchase

\* Whoever holds an open invoice for a plate gets the plate for the payment, but
\* for a sale whose commission is the whole price: nothing takes the plate away
\* between the invoice and the payment (start_state_purchase, start_sale_purchase,
\* cancel_sale, the branches of complete_telegram_payment).
THEOREM PurchasesCanBeFulfilled == Spec => []PurchaseCanBeFulfilled
BY InvariantHolds, SaleTermsHold, HeldMeansFulfillable, PTL DEF Spec

-----------------------------------------------------------------------------
(* A refused payment                                                       *)

\* A number is reserved for another invoice only as that invoice is inserted.
ReservationsKept ==
  \A n \in Number : \/ reservations'[n] \in {None, reservations[n]}
                    \/ intents[reservations'[n]].status = "ABSENT"

LEMMA UserReservations ==
  ASSUME IInv, NEW u \in User, UserOperation(u)
  PROVE  ReservationsKept /\ UNCHANGED <<charged, refused>>
<1>1. reservations \in [Number -> Intent \cup {None}]
  BY DEF IInv, TypeOK
<1>2. CASE \E i \in Intent : ReserveNumber(u, i)
  <2>1. PICK i \in Intent : ReserveNumber(u, i)
    BY <1>2
  <2>2. /\ intents[i].status = "ABSENT"
        /\ reservations' = [reservations EXCEPT ![lookup[u]] = i]
        /\ UNCHANGED <<charged, refused>>
    BY <2>1 DEF ReserveNumber, NewIntent
  <2> QED
    BY <1>1, <2>2 DEF ReservationsKept
<1>3. CASE UNCHANGED <<reservations, charged, refused>>
  BY <1>3 DEF ReservationsKept
<1>4. CASE \E i \in Intent, amount \in TopUp : StartTopUp(u, i, amount)
  BY <1>3, <1>4 DEF StartTopUp
<1>5. CASE \E i \in Intent, n \in Number : StartStatePurchase(u, n, i) \/ StartSalePurchase(u, n, i)
  BY <1>3, <1>5 DEF StartStatePurchase, StartSalePurchase
<1>6. CASE ReserveNumberFails(u) \/ RepairPrimaryPlate(u)
  BY <1>3, <1>6 DEF ReserveNumberFails, RepairPrimaryPlate, paymentVars
<1>7. CASE \E n \in Number : LookUpNumber(u, n) \/ CancelSale(u, n) \/ SetPrimaryPlate(u, n)
  BY <1>3, <1>7 DEF LookUpNumber, CancelSale, SetPrimaryPlate, paymentVars
<1>8. CASE \E n \in Number, s \in Sale, price \in Price : CreateSale(u, n, s, price)
  BY <1>3, <1>8 DEF CreateSale
<1> QED
  BY <1>2, <1>4, <1>5, <1>6, <1>7, <1>8 DEF UserOperation

LEMMA ReleaseReservations ==
  ASSUME IInv, NEW i \in Intent, ExpirePendingPayment(i)
  PROVE  ReservationsKept /\ UNCHANGED <<charged, refused>>
<1>1. reservations \in [Number -> Intent \cup {None}]
  BY DEF IInv, TypeOK
<1>2. CASE ExpireEmission(i)
  <2>1. reservations' = ReservationReleased(i) /\ UNCHANGED <<charged, refused>>
    BY <1>2 DEF ExpireEmission
  <2> QED
    BY <1>1, <2>1 DEF ReservationReleased, ReservationsKept
<1>3. CASE ExpireTopUp(i) \/ ExpireStatePurchase(i) \/ ExpireSalePurchase(i)
  BY <1>3 DEF ExpireTopUp, ExpireStatePurchase, ExpireSalePurchase, ReservationsKept
<1> QED
  BY <1>2, <1>3 DEF ExpirePendingPayment

LEMMA PayReservations ==
  ASSUME IInv, NEW c \in Charge, NEW i \in Intent, CompleteTopUp(c, i) \/ CompletePurchase(c, i)
  PROVE  ReservationsKept /\ UNCHANGED <<charged, refused>>
<1>1. reservations \in [Number -> Intent \cup {None}]
  BY DEF IInv, TypeOK
<1>2. CASE CompleteStateEmission(c, i)
  <2>1. /\ reservations' = [reservations EXCEPT ![intents[i].plate] = None]
        /\ UNCHANGED <<charged, refused>>
    BY <1>2 DEF CompleteStateEmission
  <2> QED
    BY <1>1, <2>1 DEF ReservationsKept
<1>3. CASE CompleteTopUp(c, i) \/ CompleteStatePurchase(c, i) \/ CompleteSalePurchase(c, i)
  BY <1>3 DEF CompleteTopUp, CompleteStatePurchase, CompleteSalePurchase, ReservationsKept
<1> QED
  BY <1>2, <1>3 DEF CompletePurchase

\* Who writes `charged' and `refused'.
LEMMA ChargeSteps ==
  ASSUME IInv, [Next]_vars
  PROVE  /\ ReservationsKept
         /\ \/ UNCHANGED <<charged, refused>>
            \/ \E i \in Intent, c \in Charge : PayInvoice(i, c)
            \/ \E i \in Intent, c \in Charge : charged[c] = i /\ RefusePayment(c, i)
<1> DEFINE Goal == /\ ReservationsKept
                   /\ \/ UNCHANGED <<charged, refused>>
                      \/ \E i \in Intent, c \in Charge : PayInvoice(i, c)
                      \/ \E i \in Intent, c \in Charge : charged[c] = i /\ RefusePayment(c, i)
<1>1. CASE UNCHANGED <<reservations, charged, refused>>
  BY <1>1 DEF ReservationsKept
<1>2. CASE UNCHANGED vars
  BY <1>1, <1>2 DEF vars, paymentVars
<1>3. CASE \E u \in User : UserOperation(u)
  BY <1>3, UserReservations
<1>4. CASE \E i \in Intent, c \in Charge : PayInvoice(i, c)
  BY <1>4 DEF PayInvoice, ReservationsKept
<1>5. CASE \E i \in Intent : InvoiceFallsDue(i)
  BY <1>1, <1>5 DEF InvoiceFallsDue
<1>6. ASSUME NEW c \in Charge, CompleteTelegramPayment(c) PROVE Goal
  <2>1. PICK i \in Intent : charged[c] = i
    BY <1>6 DEF CompleteTelegramPayment, IInv, TypeOK
  <2>2. CASE CompleteTopUp(c, i) \/ CompletePurchase(c, i)
    BY <2>2, PayReservations
  <2>3. CASE RefusePayment(c, i)
    <3>1. ReservationsKept
      BY <2>3 DEF RefusePayment, ReservationsKept
    <3> QED
      BY <2>1, <2>3, <3>1
  <2> QED
    BY <1>6, <2>1, <2>2, <2>3 DEF CompleteTelegramPayment, CompletePurchase
<1>7. CASE \E p \in Policies : SetSetting(p) /\ UNCHANGED paymentVars
  BY <1>1, <1>7 DEF paymentVars
<1>8. CASE \E i \in Intent : ExpirePendingPayment(i)
  BY <1>8, ReleaseReservations
<1> QED
  BY <1>2, <1>3, <1>4, <1>5, <1>6, <1>7, <1>8 DEF Next, Request

ChargesMatch ==
  /\ \A c \in Charge : charged[c] # None => intents[charged[c]].status # "ABSENT"
  /\ \A i \in Intent : intents[i].charge # None =>
       intents[i].status = "PAID" /\ charged[intents[i].charge] = i

LEMMA ChargesMatchNext == IInv /\ ChargesMatch /\ [Next]_vars => ChargesMatch'
<1> SUFFICES ASSUME IInv, ChargesMatch, [Next]_vars PROVE ChargesMatch'
  OBVIOUS
<1>1. /\ charged \in [Charge -> Intent \cup {None}]
      /\ \A i \in Intent : intents[i].charge \in Charge \cup {None}
  BY DEF IInv, TypeOK, PaymentIntent
<1>2. CASE charged' = charged
  <2>1. CASE Quiet
    BY <1>1, <1>2, <2>1 DEF Quiet, Started, PassedOver, ChargesMatch
  <2>2. ASSUME NEW c \in Charge, NEW i \in Intent, charged[c] = i, PaidInStep(i, c)
        PROVE  ChargesMatch'
    BY <1>1, <1>2, <2>2 DEF PaidInStep, ChargesMatch
  <2> QED
    BY <2>1, <2>2, StepKinds, TopUpPays, PurchaseDelivers
<1>3. ASSUME NEW i \in Intent, NEW c \in Charge, PayInvoice(i, c) PROVE ChargesMatch'
  <2>1. /\ intents[i].status = "PENDING" /\ charged[c] = None /\ intents' = intents
        /\ charged' = [charged EXCEPT ![c] = i]
    BY <1>3 DEF PayInvoice
  <2> QED
    BY <1>1, <2>1, NoneIsNoRow DEF ChargesMatch
<1>4. ASSUME NEW i \in Intent, NEW c \in Charge, RefusePayment(c, i) PROVE charged' = charged
  BY <1>4 DEF RefusePayment
<1> QED
  BY <1>2, <1>3, <1>4, ChargeSteps

\* The open invoice i is past saving: no later state fulfils it.
Hopeless(i) ==
  \/ intents[i].kind = "STATE_EMISSION" /\ ~EmissionOpen(i)
  \/ CommissionTakesAll(i)

\* Why the charge c can pay nothing any more.
BeyondPaying(c, i) ==
  \/ intents[i].status = "PAID" /\ intents[i].charge # c
  \/ intents[i].status = "EXPIRED"
  \/ intents[i].status = "PENDING" /\ Hopeless(i)

RefusedStay == \A c \in refused : \E i \in Intent : charged[c] = i /\ BeyondPaying(c, i)

LEMMA HopelessIsUnpayable ==
  ASSUME IInv, NEW i \in Intent, Hopeless(i), NEW c \in Charge,
         CompleteTopUp(c, i) \/ CompletePurchase(c, i)
  PROVE  FALSE
<1>1. CASE CompleteTopUp(c, i)
  BY <1>1 DEF CompleteTopUp, Payable, Hopeless, CommissionTakesAll
<1>2. CASE CompleteStateEmission(c, i)
  BY <1>2 DEF CompleteStateEmission, Payable, Hopeless, CommissionTakesAll
<1>3. CASE CompleteStatePurchase(c, i)
  BY <1>3 DEF CompleteStatePurchase, Payable, Hopeless, CommissionTakesAll
<1>4. CASE CompleteSalePurchase(c, i)
  <2>1. PICK n \in Number, s \in Sale, buyer \in User, seller \in User :
          SoldInStep(i, n, s, buyer, seller)
    BY <1>4, SalePurchaseRows
  <2>2. CanCredit(sales[s].price - sales[s].commission) /\ sales[s].price = sales[s].commission
    BY <2>1 DEF SoldInStep, Hopeless, CommissionTakesAll
  <2>3. sales[s].price \in Nat
    BY DEF IInv, TypeOK, SaleRow
  <2> QED
    BY <2>2, <2>3 DEF CanCredit
<1> QED
  BY <1>1, <1>2, <1>3, <1>4 DEF CompletePurchase

\* A number once issued stays issued, and nobody gets a lost reservation back.
LEMMA HopelessStays ==
  ASSUME IInv, [Next]_vars, NEW i \in Intent, intents[i].status = "PENDING",
         SameTerms(i), Hopeless(i)
  PROVE  Hopeless(i)'
<1>1. CASE intents[i].kind = "STATE_EMISSION" /\ ~EmissionOpen(i)
  <2>1. PICK n \in Number : n = intents[i].plate
    BY <1>1 DEF IInv, RowsAreComplete
  <2>2. reservations'[n] = i => reservations[n] = i
    BY ChargeSteps, NoneIsNoRow DEF ReservationsKept
  <2>3. plates'[n].status = "ABSENT" => plates[n].status = "ABSENT"
    <3>1. CASE Quiet
      BY <3>1 DEF Quiet, OwnersKept
    <3>2. ASSUME NEW c \in Charge, NEW j \in Intent, CompleteTopUp(c, j)
          PROVE  plates' = plates
      BY <3>2, TopUpPays
    <3>3. ASSUME NEW c \in Charge, NEW j \in Intent, CompletePurchase(c, j)
          PROVE  plates'[n] = plates[n] \/ plates'[n].status = "OWNED"
      BY <3>3, PurchaseDelivers DEF Delivery
    <3> QED
      BY <3>1, <3>2, <3>3, StepKinds
  <2> QED
    BY <1>1, <2>1, <2>2, <2>3 DEF SameTerms, Hopeless, EmissionOpen
<1>2. CASE CommissionTakesAll(i)
  <2>1. PICK s \in Sale : s = intents[i].sale /\ sales[s].status # "ABSENT"
    BY <1>2 DEF CommissionTakesAll, IInv, RowsAreComplete, InvoiceMatchesSale
  <2> QED
    BY <1>2, <2>1, EveryStepKeepsTerms
    DEF SaleTermsKept, SameTerms, Hopeless, CommissionTakesAll
<1> QED
  BY <1>1, <1>2 DEF Hopeless

LEMMA BeyondPayingStays ==
  ASSUME IInv, [Next]_vars, NEW c, NEW i \in Intent, BeyondPaying(c, i)
  PROVE  BeyondPaying(c, i)'
<1>1. CASE Quiet
  <2>1. CASE intents'[i] = intents[i]
    BY <2>1, HopelessStays DEF SameTerms, BeyondPaying
  <2>2. CASE PassedOver(i)
    BY <2>2, HopelessStays DEF PassedOver, BeyondPaying
  <2> QED
    BY <1>1, <2>1, <2>2 DEF Quiet, Started, PassedOver, BeyondPaying
<1>2. ASSUME NEW d \in Charge, NEW j \in Intent, CompleteTopUp(d, j) \/ CompletePurchase(d, j)
      PROVE  BeyondPaying(c, i)'
  <2>1. PaidInStep(j, d)
    BY <1>2, TopUpPays, PurchaseDelivers
  <2>2. j # i
    BY <1>2, <2>1, HopelessIsUnpayable DEF PaidInStep, BeyondPaying
  <2>3. intents'[i] = intents[i]
    BY <2>1, <2>2 DEF PaidInStep
  <2> QED
    BY <2>3, HopelessStays DEF SameTerms, BeyondPaying
<1> QED
  BY <1>1, <1>2, StepKinds

LEMMA RefusedStayNext ==
  IInv /\ SaleTerms /\ RefusedStay /\ [Next]_vars => RefusedStay'
<1> SUFFICES ASSUME IInv, SaleTerms, RefusedStay, [Next]_vars, NEW c \in refused'
             PROVE  \E i \in Intent : charged'[c] = i /\ BeyondPaying(c, i)'
  BY DEF RefusedStay
<1>1. charged \in [Charge -> Intent \cup {None}] /\ refused \subseteq Charge
  BY DEF IInv, TypeOK
<1>2. ASSUME c \in refused
      PROVE  \E i \in Intent : charged'[c] = i /\ BeyondPaying(c, i)'
  <2>1. PICK i \in Intent : charged[c] = i /\ BeyondPaying(c, i)
    BY <1>2 DEF RefusedStay
  <2>2. charged'[c] = i
    BY <1>1, <1>2, <2>1, ChargeSteps, NoneIsNoRow DEF PayInvoice, RefusePayment
  <2> QED
    BY <2>1, <2>2, BeyondPayingStays
<1>3. ASSUME NEW i \in Intent, charged[c] = i, RefusePayment(c, i)
      PROVE  charged'[c] = i /\ BeyondPaying(c, i)'
  <2>1. charged' = charged
    BY <1>3 DEF RefusePayment
  <2>2. BeyondPaying(c, i)
    <3>1. CASE intents[i].status = "PENDING" /\ ~Fulfillable(i)
      <4>1. intents[i].kind \in PaymentKind
        BY <3>1 DEF IInv, RowsAreComplete
      <4>2. intents[i].kind \in Purchase => CommissionTakesAll(i)
        BY <3>1, HeldMeansFulfillable DEF PurchaseCanBeFulfilled
      <4> QED
        BY <3>1, <4>1, <4>2 DEF Fulfillable, PaymentKind, Purchase, Hopeless, BeyondPaying
    <3> QED
      BY <1>3, <3>1 DEF RefusePayment, BeyondPaying
  <2> QED
    BY <1>3, <2>1, <2>2, BeyondPayingStays
<1>4. c \in refused \/ \E i \in Intent : charged[c] = i /\ RefusePayment(c, i)
  BY ChargeSteps DEF PayInvoice, RefusePayment
<1> QED
  BY <1>2, <1>3, <1>4

\* A payment that was refused once stays refused, however often it is delivered
\* again and whatever happened since: the buyer was told to ask for the money back
\* (the raises of complete_telegram_payment).
THEOREM RefusalsAreFinal == Spec => []RefusalIsFinal
<1>1. Init => ChargesMatch /\ RefusedStay
  BY DEF Init, PaymentInit, NoIntent, ChargesMatch, RefusedStay
<1>2. Spec => []ChargesMatch
  BY <1>1, InvariantHolds, ChargesMatchNext, PTL DEF Spec
<1>3. Spec => []RefusedStay
  BY <1>1, InvariantHolds, SaleTermsHold, RefusedStayNext, PTL DEF Spec
<1>4. IInv /\ ChargesMatch /\ RefusedStay => RefusalIsFinal
  <2> SUFFICES ASSUME IInv, ChargesMatch, RefusedStay, NEW c \in refused, NEW i \in Intent,
                      intents[i].charge = c
               PROVE  FALSE
    BY DEF RefusalIsFinal
  <2>1. c # None
    BY NoneIsNoSale DEF IInv, TypeOK
  <2>2. intents[i].status = "PAID" /\ charged[c] = i
    BY <2>1 DEF ChargesMatch
  <2> QED
    BY <2>2 DEF RefusedStay, BeyondPaying
<1> QED
  BY <1>2, <1>3, <1>4, InvariantHolds, PTL

-----------------------------------------------------------------------------
(* What an open invoice holds                                              *)

LEMMA OpenTermsKept ==
  ASSUME IInv, [Next]_vars, NEW i \in Intent, intents[i].status = "PENDING"
  PROVE  SameTerms(i)
<1>1. CASE Quiet
  BY <1>1 DEF Quiet, Started, PassedOver, SameTerms
<1>2. ASSUME NEW c \in Charge, NEW j \in Intent, PaidInStep(j, c) PROVE SameTerms(i)
  BY <1>2 DEF PaidInStep, SameTerms
<1> QED
  BY <1>1, <1>2, StepKinds, TopUpPays, PurchaseDelivers

\* The reservation of a number: only a due one is replaced or released.
LEMMA ReservationHeld ==
  ASSUME IInv, [Next]_vars, NEW i \in Intent, ~intents[i].due,
         NEW n \in Number, reservations[n] = i
  PROVE  reservations'[n] = i \/ intents'[i].status = "PAID"
<1> DEFINE Kept == reservations'[n] = i \/ intents'[i].status = "PAID"
<1>1. reservations \in [Number -> Intent \cup {None}]
  BY DEF IInv, TypeOK
<1>2. CASE UNCHANGED reservations
  BY <1>2
<1>3. CASE UNCHANGED vars
  BY <1>2, <1>3 DEF vars, paymentVars
<1>4. ASSUME NEW u \in User, UserOperation(u) PROVE Kept
  <2>1. ASSUME NEW j \in Intent, ReserveNumber(u, j) PROVE Kept
    <3>1. lookup[u] # n
      BY <2>1, NoneIsNoRow DEF ReserveNumber, Reservable
    <3>2. reservations' = [reservations EXCEPT ![lookup[u]] = j]
      BY <2>1 DEF ReserveNumber
    <3> QED
      BY <1>1, <3>1, <3>2
  <2>2. CASE \E j \in Intent, amount \in TopUp : StartTopUp(u, j, amount)
    BY <1>2, <2>2 DEF StartTopUp
  <2>3. CASE \E j \in Intent, m \in Number :
               StartStatePurchase(u, m, j) \/ StartSalePurchase(u, m, j)
    BY <1>2, <2>3 DEF StartStatePurchase, StartSalePurchase
  <2>4. CASE ReserveNumberFails(u) \/ RepairPrimaryPlate(u)
    BY <1>2, <2>4 DEF ReserveNumberFails, RepairPrimaryPlate, paymentVars
  <2>5. CASE \E m \in Number : LookUpNumber(u, m) \/ CancelSale(u, m) \/ SetPrimaryPlate(u, m)
    BY <1>2, <2>5 DEF LookUpNumber, CancelSale, SetPrimaryPlate, paymentVars
  <2>6. CASE \E m \in Number, s \in Sale, price \in Price : CreateSale(u, m, s, price)
    BY <1>2, <2>6 DEF CreateSale
  <2> QED
    BY <1>4, <2>1, <2>2, <2>3, <2>4, <2>5, <2>6 DEF UserOperation
<1>5. CASE \E j \in Intent, c \in Charge : PayInvoice(j, c)
  BY <1>2, <1>5 DEF PayInvoice
<1>6. CASE \E j \in Intent : InvoiceFallsDue(j)
  BY <1>2, <1>6 DEF InvoiceFallsDue
<1>7. ASSUME NEW c \in Charge, CompleteTelegramPayment(c) PROVE Kept
  <2>1. PICK j \in Intent : charged[c] = j
    BY <1>7 DEF CompleteTelegramPayment, IInv, TypeOK
  <2>2. CASE CompleteStateEmission(c, j)
    <3>1. /\ reservations' = [reservations EXCEPT ![intents[j].plate] = None]
          /\ reservations[intents[j].plate] = j
      BY <2>2 DEF CompleteStateEmission, EmissionOpen
    <3>2. intents'[j].status = "PAID"
      BY <2>2, EmissionDelivers DEF PaidInStep
    <3> QED
      BY <1>1, <3>1, <3>2
  <2>3. CASE CompleteTopUp(c, j) \/ CompleteStatePurchase(c, j) \/ CompleteSalePurchase(c, j)
             \/ RefusePayment(c, j)
    BY <1>2, <2>3 DEF CompleteTopUp, CompleteStatePurchase, CompleteSalePurchase, RefusePayment
  <2> QED
    BY <1>7, <2>1, <2>2, <2>3 DEF CompleteTelegramPayment
<1>8. CASE \E p \in Policies : SetSetting(p) /\ UNCHANGED paymentVars
  BY <1>2, <1>8 DEF paymentVars
<1>9. ASSUME NEW j \in Intent, ExpirePendingPayment(j) PROVE Kept
  <2>1. CASE ExpireEmission(j)
    <3>1. intents[j].due /\ reservations' = ReservationReleased(j)
      BY <2>1 DEF ExpireEmission, Expired
    <3> QED
      BY <1>1, <3>1 DEF ReservationReleased
  <2>2. CASE ExpireTopUp(j) \/ ExpireStatePurchase(j) \/ ExpireSalePurchase(j)
    BY <1>2, <2>2 DEF ExpireTopUp, ExpireStatePurchase, ExpireSalePurchase
  <2> QED
    BY <1>9, <2>1, <2>2 DEF ExpirePendingPayment
<1> QED
  BY <1>3, <1>4, <1>5, <1>6, <1>7, <1>8, <1>9 DEF Next, Request

\* The reservation of a plate: no operation but the payment and the expiry of
\* the invoice that holds it writes its deadline.
LEMMA PlateHeld ==
  ASSUME IInv, [Next]_vars, NEW i \in Intent, ~intents[i].due,
         NEW n \in Number, plates[n].reservedUntil = i
  PROVE  plates'[n].reservedUntil = i \/ intents'[i].status = "PAID"
<1> DEFINE Kept == plates'[n].reservedUntil = i \/ intents'[i].status = "PAID"
<1>1. plates \in [Number -> Plate]
  BY DEF IInv, TypeOK, DatabaseTypeOK
<1>2. plates[n].status = "RESERVED"
  BY NoneIsNoRow DEF IInv, ReservedPlateHasItsInvoice
<1>3. CASE UNCHANGED plates
  BY <1>3
<1>4. CASE UNCHANGED vars
  BY <1>3, <1>4 DEF vars, databaseVars
<1>5. ASSUME NEW u \in User, UserOperation(u) PROVE Kept
  <2>1. ASSUME NEW j \in Intent, NEW m \in Number,
               StartStatePurchase(u, m, j) \/ StartSalePurchase(u, m, j)
        PROVE  Kept
    <3>1. plates[m].status \in {"STATE_SALE", "FIXED_SALE"} /\ plates' = Reserved(m, u, j)
      BY <2>1 DEF StartStatePurchase, StartSalePurchase
    <3> QED
      BY <1>1, <1>2, <3>1, ReservedRow
  <2>2. ASSUME NEW m \in Number, NEW s \in Sale, NEW price \in Price, CreateSale(u, m, s, price)
        PROVE  Kept
    <3>1. plates' = [plates EXCEPT ![m].status = "FIXED_SALE"]
      BY <2>2 DEF CreateSale
    <3> QED
      BY <1>1, <3>1, RestatedRow
  <2>3. ASSUME NEW m \in Number, CancelSale(u, m) PROVE Kept
    <3>1. plates' = [plates EXCEPT ![m].status = "OWNED"]
      BY <2>3 DEF CancelSale
    <3> QED
      BY <1>1, <3>1, RestatedRow
  <2>4. CASE \E j \in Intent : ReserveNumber(u, j) \/ \E amount \in TopUp : StartTopUp(u, j, amount)
    BY <1>3, <2>4 DEF ReserveNumber, StartTopUp, databaseVars
  <2>5. CASE ReserveNumberFails(u) \/ RepairPrimaryPlate(u)
    BY <1>3, <2>5 DEF ReserveNumberFails, RepairPrimaryPlate, databaseVars
  <2>6. CASE \E m \in Number : LookUpNumber(u, m) \/ SetPrimaryPlate(u, m)
    BY <1>3, <2>6 DEF LookUpNumber, SetPrimaryPlate, databaseVars
  <2> QED
    BY <1>5, <2>1, <2>2, <2>3, <2>4, <2>5, <2>6 DEF UserOperation
<1>6. CASE \E j \in Intent, c \in Charge : PayInvoice(j, c)
  BY <1>3, <1>6 DEF PayInvoice, databaseVars
<1>7. CASE \E j \in Intent : InvoiceFallsDue(j)
  BY <1>3, <1>7 DEF InvoiceFallsDue, databaseVars
<1>8. ASSUME NEW c \in Charge, CompleteTelegramPayment(c) PROVE Kept
  <2>1. PICK j \in Intent : charged[c] = j
    BY <1>8 DEF CompleteTelegramPayment, IInv, TypeOK
  <2>2. CASE CompletePurchase(c, j)
    <3>1. PICK m \in Number, u \in User, operation \in OwnershipOperation :
            Delivery(j, m, u, operation) /\ PaidInStep(j, c)
      BY <2>2, PurchaseDelivers
    <3>2. CASE m # n
      BY <3>1, <3>2 DEF Delivery
    <3>3. CASE m = n
      <4>1. intents[j].kind \in Purchase
        <5>1. plates[m].status # "ABSENT"
          BY <1>2, <3>3
        <5>2. ~CompleteStateEmission(c, j)
          BY <3>1, <5>1 DEF CompleteStateEmission, EmissionOpen, Delivery
        <5> QED
          BY <2>2, <5>2
          DEF CompletePurchase, CompleteStatePurchase, CompleteSalePurchase, Payable, Purchase
      <4>2. plates[n].reservedUntil = j
        BY <3>1, <3>3, <4>1, PurchaseHolds DEF Delivery, PaidInStep
      <4> QED
        BY <3>1, <4>2 DEF PaidInStep
    <3> QED
      BY <3>2, <3>3
  <2>3. CASE CompleteTopUp(c, j) \/ RefusePayment(c, j)
    BY <1>3, <2>3 DEF CompleteTopUp, RefusePayment, databaseVars
  <2> QED
    BY <1>8, <2>1, <2>2, <2>3 DEF CompleteTelegramPayment, CompletePurchase
<1>9. CASE \E p \in Policies : SetSetting(p) /\ UNCHANGED paymentVars
  BY <1>3, <1>9 DEF SetSetting
<1>10. ASSUME NEW j \in Intent, ExpirePendingPayment(j) PROVE Kept
  <2>1. CASE ExpireTopUp(j) \/ ExpireEmission(j)
    BY <1>3, <2>1 DEF ExpireTopUp, ExpireEmission, databaseVars
  <2>2. CASE ExpireStatePurchase(j) \/ ExpireSalePurchase(j)
    <3>1. /\ intents[j].status = "PENDING" /\ intents[j].kind \in Purchase /\ intents[j].due
      BY <2>2 DEF ExpireStatePurchase, ExpireSalePurchase, Expired, Purchase
    <3>2. PICK m \in Number : m = intents[j].plate /\ plates[m].reservedUntil = j
      BY <3>1, PurchaseHolds
    <3>3. \/ UNCHANGED plates
          \/ \E status \in PlateStatus : plates' = Released(m, status)
      BY <2>2, <3>2 DEF ExpireStatePurchase, ExpireSalePurchase, PlateStatus
    <3>4. m # n
      BY <3>1, <3>2
    <3> QED
      BY <1>1, <1>3, <3>3, <3>4, ReleasedRow
  <2> QED
    BY <1>10, <2>1, <2>2 DEF ExpirePendingPayment
<1> QED
  BY <1>4, <1>5, <1>6, <1>7, <1>8, <1>9, <1>10 DEF Next, Request

LEMMA HoldIsKeptNext ==
  ASSUME IInv, [Next]_vars, NEW i \in Intent,
         intents[i].status = "PENDING", ~intents[i].due, Holds(i)
  PROVE  Holds(i)' \/ intents'[i].status = "PAID"
<1>1. SameTerms(i)
  BY OpenTermsKept
<1>2. PICK n \in Number : n = intents[i].plate
  BY DEF Holds, Purchase, IInv, RowsAreComplete
<1>3. CASE intents[i].kind = "STATE_EMISSION" /\ reservations[n] = i
  BY <1>1, <1>2, <1>3, ReservationHeld DEF Holds, SameTerms
<1>4. CASE intents[i].kind \in Purchase /\ plates[n].reservedUntil = i
  BY <1>1, <1>2, <1>4, PlateHeld DEF Holds, SameTerms
<1> QED
  BY <1>2, <1>3, <1>4 DEF Holds

\* Until its deadline an open invoice keeps the number or the plate it reserved,
\* unless it is paid for: no other user, payment or sweep takes it away
\* (start_state_emission, start_state_purchase, start_sale_purchase,
\* expire_pending_payment).
THEOREM HoldsAreKept == Spec => HoldIsKept
<1>1. IInv /\ [Next]_vars =>
        [\A i \in Intent :
           intents[i].status = "PENDING" /\ ~intents[i].due /\ Holds(i)
             => Holds(i)' \/ intents'[i].status = "PAID"]_vars
  BY HoldIsKeptNext
<1> QED
  BY <1>1, InvariantHolds, PTL DEF Spec, HoldIsKept

=============================================================================
