----------------------------- MODULE Marketplace -----------------------------
(***************************************************************************)
(* MarketplaceService (app/application/services/marketplace.py): issuance  *)
(* of plates by the State, fixed-price sales, top-ups, and the Telegram    *)
(* Stars invoices (payment_intents) that pay for them, together with the   *)
(* part of Telegram that asks for the pre-checkout, takes the money and    *)
(* delivers the successful_payment update.                                 *)
(*                                                                         *)
(* Time is kept per invoice: "due" says that expires_at <= now.  Invoices  *)
(* become due in any order, because reserve_duration_minutes may change    *)
(* between two of them and top-ups have a duration of their own.           *)
(*                                                                         *)
(* start_state_emission is the one operation that uses what it read        *)
(* without a lock: no row can be locked for a plate that does not exist.   *)
(* It is two actions, with the number it found free kept in "lookup".      *)
(***************************************************************************)
EXTENDS Database, FiniteSetsExt

CONSTANTS
  Sale,         \* ids of sales
  Charge,       \* ids of Telegram charges
  Price,        \* the sale prices users type
  TopUp         \* the top-up amounts users type

ASSUME NoneIsNoSale == None \notin Sale \cup Charge
ASSUME NoneIsNoKind == None \notin {"TOP_UP", "STATE_EMISSION", "STATE_PURCHASE", "SALE_PURCHASE"}
ASSUME AmountsAreWhole == Price \subseteq Nat /\ TopUp \subseteq Nat

\* Tables have finitely many rows.
ASSUME RowsAreFinite == IsFiniteSet(Intent) /\ IsFiniteSet(Sale)

VARIABLES
  sales,        \* sales
  intents,      \* payment_intents
  reservations, \* state_emission_reservations: the payment_intent_id, by number
  lookup,       \* the number a running start_state_emission found free, by user
  charged,      \* Telegram: the invoice each charge paid
  refused       \* the charges complete_telegram_payment raised PaymentError for

paymentVars == <<sales, intents, reservations, lookup, charged, refused>>

vars == <<databaseVars, paymentVars>>

-----------------------------------------------------------------------------
(* Rows *)

SaleRow == [status : {"ABSENT", "ACTIVE", "RESERVED", "COMPLETED", "CANCELLED"},
            plate : Number \cup {None}, seller : User \cup {None},
            buyer : User \cup {None}, price : Nat, commission : Nat]

PaymentKind == {"TOP_UP", "STATE_EMISSION", "STATE_PURCHASE", "SALE_PURCHASE"}

\* `plate' is plate_id, or country_code and requested_plate_number.
PaymentIntent ==
  [status : {"ABSENT", "PENDING", "PAID", "EXPIRED"}, kind : PaymentKind \cup {None},
   user : User \cup {None}, plate : Number \cup {None}, sale : Sale \cup {None},
   amount : Nat, charge : Charge \cup {None}, due : BOOLEAN]

TypeOK ==
  /\ DatabaseTypeOK
  /\ sales \in [Sale -> SaleRow]
  /\ intents \in [Intent -> PaymentIntent]
  /\ reservations \in [Number -> Intent \cup {None}]
  /\ lookup \in [User -> Number \cup {None}]
  /\ charged \in [Charge -> Intent \cup {None}]
  /\ refused \subseteq Charge

NoSale == [status |-> "ABSENT", plate |-> None, seller |-> None, buyer |-> None,
           price |-> 0, commission |-> 0]

NoIntent == [status |-> "ABSENT", kind |-> None, user |-> None, plate |-> None,
             sale |-> None, amount |-> 0, charge |-> None, due |-> FALSE]

\* The rows with sale.status in (ACTIVE, RESERVED) that active_sale looks for.
ActiveSales(n) == {s \in Sale : sales[s].status \in {"ACTIVE", "RESERVED"} /\ sales[s].plate = n}

\* plate.reserved_until > now
HeldByInvoice(n) ==
  plates[n].reservedUntil # None /\ ~intents[plates[n].reservedUntil].due

-----------------------------------------------------------------------------
\* A number is not issued yet, or a user emitted it and it was confiscated
\* since (the only plates of an owner-less State are confiscated ones).
Absent == [status |-> "ABSENT", owner |-> None, reservedBy |-> None, reservedUntil |-> None]

Confiscated == [Absent EXCEPT !.status = "STATE_SALE"]

EmittedAndConfiscated(u) ==
  <<[old |-> None, new |-> u, operation |-> "STATE_EMISSION"],
    [old |-> u, new |-> None, operation |-> "CONFISCATION"]>>

EmptyOutbox == [u \in User |-> [type \in NotificationType |-> 0]]

EmptyWallets == [u \in User |-> [available |-> 0, frozen |-> 0]]

PaymentInit ==
  /\ sales = [s \in Sale |-> NoSale]
  /\ intents = [i \in Intent |-> NoIntent]
  /\ reservations = [n \in Number |-> None]
  /\ lookup = [u \in User |-> None]
  /\ charged = [c \in Charge |-> None]
  /\ refused = {}

DatabaseInit ==
  /\ plates \in [Number -> {Absent, Confiscated}]
  /\ \E u \in User :
       history = [n \in Number |-> IF plates[n] = Absent THEN <<>>
                                   ELSE EmittedAndConfiscated(u)]
  /\ wallets = EmptyWallets
  /\ journal = EmptyWallets
  /\ revenue = 0
  /\ primary = [u \in User |-> None]
  /\ outbox = EmptyOutbox

-----------------------------------------------------------------------------
(* Invoices.  Bound: a new invoice takes an unused id of Intent.           *)

NewIntent(i, kind, u, n, s, amount) ==
  /\ intents[i].status = "ABSENT"
  /\ intents' = [intents EXCEPT ![i] =
       [status |-> "PENDING", kind |-> kind, user |-> u, plate |-> n, sale |-> s,
        amount |-> amount, charge |-> None, due |-> FALSE]]

\* start_state_emission holds the lock of its user's row from its first
\* statement on: the operations that lock that row wait for it.
Free(u) == lookup[u] = None

TopUpAmounts == 1..99999

StartTopUp(u, i, amount) ==
  /\ Free(u)
  /\ u \notin blocked
  /\ amount \in TopUpAmounts
  /\ NewIntent(i, "TOP_UP", u, None, None, amount)
  /\ UNCHANGED <<databaseVars, sales, reservations, lookup, charged, refused>>

\* start_state_emission up to the question whether the plate exists, which
\* locks nothing when it does not.
LookUpNumber(u, n) ==
  /\ Free(u)
  /\ u \notin blocked
  /\ plates[n].status = "ABSENT"
  /\ lookup' = [lookup EXCEPT ![u] = n]
  /\ UNCHANGED <<databaseVars, sales, intents, reservations, charged, refused>>

\* Mutant: a reservation is replaced whatever its deadline.
ReservableAnyway(n) == TRUE

\* No reservation row, or one whose expires_at has passed.
Reservable(n) == reservations[n] # None => intents[reservations[n]].due

\* The rest of it: an expired reservation is deleted, the invoice and the new
\* reservation are inserted.
ReserveNumber(u, i) ==
  LET n == lookup[u] IN
  /\ n # None
  /\ Reservable(n)
  /\ NewIntent(i, "STATE_EMISSION", u, n, None, policy.state_plate_price)
  /\ reservations' = [reservations EXCEPT ![n] = i]
  /\ lookup' = [lookup EXCEPT ![u] = None]
  /\ UNCHANGED <<databaseVars, sales, charged, refused>>

\* ConflictError: the number is reserved, and nothing is written.  `now' was
\* read first, so an invoice that fell due since still counts as current.
ReserveNumberFails(u) ==
  LET n == lookup[u] IN
  /\ n # None
  /\ reservations[n] # None
  /\ lookup' = [lookup EXCEPT ![u] = None]
  /\ UNCHANGED <<databaseVars, sales, intents, reservations, charged, refused>>

Reserved(n, u, i) ==
  [plates EXCEPT ![n].status = "RESERVED", ![n].reservedBy = u, ![n].reservedUntil = i]

StartStatePurchase(u, n, i) ==
  /\ Free(u)
  /\ u \notin blocked
  /\ plates[n].status = "STATE_SALE" /\ plates[n].owner = None
  /\ ~HeldByInvoice(n)
  /\ NewIntent(i, "STATE_PURCHASE", u, n, None, policy.state_plate_price)
  /\ plates' = Reserved(n, u, i)
  /\ UNCHANGED <<wallets, journal, revenue, history, primary, blocked, outbox, policy,
                 sales, reservations, lookup, charged, refused>>

\* Mutant: sellers may buy from themselves.
BuyableByAnyone(s, u) == TRUE

Buyable(s, u) == sales[s].seller # u

StartSalePurchase(u, n, i) ==
  /\ Free(u)
  /\ u \notin blocked
  /\ plates[n].status = "FIXED_SALE"
  /\ ~HeldByInvoice(n)
  /\ \E s \in ActiveSales(n) :
       /\ Buyable(s, u)
       /\ NewIntent(i, "SALE_PURCHASE", u, n, s, sales[s].price)
       /\ sales' = [sales EXCEPT ![s].status = "RESERVED"]
  /\ plates' = Reserved(n, u, i)
  /\ UNCHANGED <<wallets, journal, revenue, history, primary, blocked, outbox, policy,
                 reservations, lookup, charged, refused>>

-----------------------------------------------------------------------------
(* Listings and the profile.  Bound: a new sale takes an unused id of Sale. *)

CreateSale(u, n, s, price) ==
  /\ Free(u)
  /\ plates[n].owner = u
  /\ u \notin blocked
  /\ plates[n].status = "OWNED"
  /\ ValidSalePrice(policy, price)
  /\ sales[s].status = "ABSENT"
  /\ sales' = [sales EXCEPT ![s] =
       [status |-> "ACTIVE", plate |-> n, seller |-> u, buyer |-> None,
        price |-> price, commission |-> Commission(policy, price)]]
  /\ plates' = [plates EXCEPT ![n].status = "FIXED_SALE"]
  /\ UNCHANGED <<wallets, journal, revenue, history, primary, blocked, outbox, policy,
                 intents, reservations, lookup, charged, refused>>

\* Mutant: the sale is cancelled under an invoice that waits for payment.
CancellableAnyway(s, u) == sales[s].seller = u

Cancellable(s, u) == sales[s].seller = u /\ sales[s].status # "RESERVED"

CancelSale(u, n) ==
  /\ Free(u)
  /\ \E s \in ActiveSales(n) :
       /\ Cancellable(s, u)
       /\ sales' = [sales EXCEPT ![s].status = "CANCELLED"]
  /\ plates' = [plates EXCEPT ![n].status = "OWNED"]
  /\ UNCHANGED <<wallets, journal, revenue, history, primary, blocked, outbox, policy,
                 intents, reservations, lookup, charged, refused>>

SetPrimaryPlate(u, n) ==
  /\ Free(u)
  /\ plates[n].owner = u /\ plates[n].status = "OWNED"
  /\ primary' = [primary EXCEPT ![u] = n]
  /\ UNCHANGED <<plates, wallets, journal, revenue, history, blocked, outbox, policy,
                 paymentVars>>

\* profile: opening it drops a primary plate that is no longer free to show.
RepairPrimaryPlate(u) ==
  /\ Free(u)
  /\ primary[u] # None
  /\ plates[primary[u]].owner # u \/ plates[primary[u]].status # "OWNED"
  /\ primary' = [primary EXCEPT ![u] = None]
  /\ UNCHANGED <<plates, wallets, journal, revenue, history, blocked, outbox, policy,
                 paymentVars>>

-----------------------------------------------------------------------------
(* Telegram (external).  A charge that was taken stays in `charged': its   *)
(* update may be delivered late, after others, or again.                   *)

\* An approved pre-checkout (validate_precheckout raises nothing) and the
\* charge that follows it.  The bot asks again for every attempt to pay.
PayInvoice(i, c) ==
  /\ intents[i].status = "PENDING"
  /\ Free(intents[i].user)
  /\ ~intents[i].due
  /\ charged[c] = None
  /\ charged' = [charged EXCEPT ![c] = i]
  /\ UNCHANGED <<databaseVars, sales, intents, reservations, lookup, refused>>

\* The clock passes the expires_at of the invoice.
InvoiceFallsDue(i) ==
  /\ intents[i].status = "PENDING"
  /\ ~intents[i].due
  /\ intents' = [intents EXCEPT ![i].due = TRUE]
  /\ UNCHANGED <<databaseVars, sales, reservations, lookup, charged, refused>>

-----------------------------------------------------------------------------
(* complete_telegram_payment, for a delivered charge c                     *)

\* Mutant: the charge is stamped on the invoice, its status is forgotten.
PaidWithoutStatus(i, c) == intents' = [intents EXCEPT ![i].charge = c]

\* The invoice is stamped with the charge.
Paid(i, c) ==
  intents' = [intents EXCEPT ![i].status = "PAID", ![i].charge = c]

\* Mutant: a repeated delivery is not recognised.
PayableAgain(i, kind) == intents[i].status # "EXPIRED" /\ intents[i].kind = kind

Payable(i, kind) == intents[i].status = "PENDING" /\ intents[i].kind = kind

\* Mutant: the reservation is trusted, the plate is not looked for again.
EmissionOpenUnchecked(i) == reservations[intents[i].plate] = i

EmissionOpen(i) ==
  reservations[intents[i].plate] = i /\ plates[intents[i].plate].status = "ABSENT"

\* Mutant: the invoice is trusted, the plate is not looked at again.
StatePurchaseOpenUnchecked(i) == intents[i].plate \in Number

StatePurchaseOpen(i) ==
  LET plate == plates[intents[i].plate] IN
  /\ plate.status = "RESERVED"
  /\ plate.owner = None
  /\ plate.reservedBy = intents[i].user
  /\ plate.reservedUntil # None

\* The last conjunct is the check in BalanceBook.credit.
SalePurchaseOpen(i) ==
  LET plate == plates[intents[i].plate]
      s == intents[i].sale IN
  /\ s \in ActiveSales(intents[i].plate)
  /\ sales[s].status = "RESERVED"
  /\ plate.status = "RESERVED"
  /\ plate.reservedBy = intents[i].user
  /\ sales[s].price = intents[i].amount
  /\ CanCredit(sales[s].price - sales[s].commission)

\* The plate as it leaves the payment.
Delivered(n, u) ==
  [plates EXCEPT ![n] =
     [status |-> "OWNED", owner |-> u, reservedBy |-> None, reservedUntil |-> None]]

CompleteTopUp(c, i) ==
  LET u == intents[i].user
      w == Credited(wallets[u], intents[i].amount) IN
  /\ Payable(i, "TOP_UP")
  /\ Free(u)
  /\ CanCredit(intents[i].amount)
  /\ Paid(i, c)
  /\ wallets' = [wallets EXCEPT ![u] = w]
  /\ journal' = [journal EXCEPT ![u] = Recorded(@, wallets[u], w)]
  /\ outbox' = Queued(outbox, u, "BALANCE_TOPUP")
  /\ UNCHANGED <<plates, revenue, history, primary, blocked, policy,
                 sales, reservations, lookup, charged, refused>>

CompleteStateEmission(c, i) ==
  LET u == intents[i].user
      n == intents[i].plate IN
  /\ Payable(i, "STATE_EMISSION")
  /\ Free(u)
  /\ EmissionOpen(i)
  /\ Paid(i, c)
  /\ plates' = Delivered(n, u)
  /\ history' = WithTransfer(history, n, None, u, "STATE_EMISSION")
  /\ revenue' = revenue + intents[i].amount
  /\ outbox' = Queued(outbox, u, "PLATE_PURCHASED")
  /\ reservations' = [reservations EXCEPT ![n] = None]
  /\ UNCHANGED <<wallets, journal, primary, blocked, policy, sales, lookup, charged, refused>>

CompleteStatePurchase(c, i) ==
  LET u == intents[i].user
      n == intents[i].plate IN
  /\ Payable(i, "STATE_PURCHASE")
  /\ Free(u)
  /\ StatePurchaseOpen(i)
  /\ Paid(i, c)
  /\ plates' = Delivered(n, u)
  /\ history' = WithTransfer(history, n, None, u, "SALE")
  /\ revenue' = revenue + intents[i].amount
  /\ outbox' = Queued(outbox, u, "PLATE_PURCHASED")
  /\ UNCHANGED <<wallets, journal, primary, blocked, policy,
                 sales, reservations, lookup, charged, refused>>

SaleRecorded(n, buyer) == WithTransfer(history, n, plates[n].owner, buyer, "SALE")

\* Mutant: the seller is not told.
BuyerNotified(seller, buyer) == Queued(outbox, buyer, "PLATE_PURCHASED")

BothNotified(seller, buyer) ==
  Queued(Queued(outbox, seller, "SALE_COMPLETED"), buyer, "PLATE_PURCHASED")

CompleteSalePurchase(c, i) ==
  LET buyer == intents[i].user
      n == intents[i].plate
      s == intents[i].sale
      seller == sales[s].seller
      w == Credited(wallets[seller], sales[s].price - sales[s].commission) IN
  /\ Payable(i, "SALE_PURCHASE")
  /\ Free(buyer) /\ Free(seller)
  /\ SalePurchaseOpen(i)
  /\ Paid(i, c)
  /\ wallets' = [wallets EXCEPT ![seller] = w]
  /\ journal' = [journal EXCEPT ![seller] = Recorded(@, wallets[seller], w)]
  /\ revenue' = revenue + sales[s].commission
  /\ plates' = Delivered(n, buyer)
  /\ primary' = WithoutPrimary(n)
  /\ sales' = [sales EXCEPT ![s].status = "COMPLETED", ![s].buyer = buyer]
  /\ history' = SaleRecorded(n, buyer)
  /\ outbox' = BothNotified(seller, buyer)
  /\ UNCHANGED <<blocked, policy, reservations, lookup, charged, refused>>

\* What the branch that the invoice's kind selects checks before it writes.
Fulfillable(i) ==
  \/ intents[i].kind = "TOP_UP"
  \/ intents[i].kind = "STATE_EMISSION" /\ EmissionOpen(i)
  \/ intents[i].kind = "STATE_PURCHASE" /\ StatePurchaseOpen(i)
  \/ intents[i].kind = "SALE_PURCHASE" /\ SalePurchaseOpen(i)

\* Every raise of complete_telegram_payment rolls the transaction back, and
\* the handler swallows the error.
RefusePayment(c, i) ==
  /\ Free(intents[i].user)
  /\ \/ intents[i].status = "PAID" /\ intents[i].charge # c
     \/ intents[i].status = "EXPIRED"
     \/ intents[i].status = "PENDING" /\ ~Fulfillable(i)
  /\ refused' = refused \cup {c}
  /\ UNCHANGED <<databaseVars, sales, intents, reservations, lookup, charged>>

CompleteTelegramPayment(c) ==
  /\ charged[c] # None
  /\ \/ CompleteTopUp(c, charged[c])
     \/ CompleteStateEmission(c, charged[c])
     \/ CompleteStatePurchase(c, charged[c])
     \/ CompleteSalePurchase(c, charged[c])
     \/ RefusePayment(c, charged[c])

-----------------------------------------------------------------------------
(* expire_pending_payment                                                  *)

Expired(i) ==
  /\ intents[i].status = "PENDING"
  /\ intents[i].due
  /\ intents' = [intents EXCEPT ![i].status = "EXPIRED"]

ExpireTopUp(i) ==
  /\ intents[i].kind = "TOP_UP"
  /\ Expired(i)
  /\ UNCHANGED <<databaseVars, sales, reservations, lookup, charged, refused>>

\* Mutant: the reservation row is left behind.
ReservationKept(i) == reservations

\* A reservation that another invoice took over meanwhile is left alone.
ReservationReleased(i) ==
  LET n == intents[i].plate IN
  IF reservations[n] = i THEN [reservations EXCEPT ![n] = None] ELSE reservations

ExpireEmission(i) ==
  /\ intents[i].kind = "STATE_EMISSION"
  /\ Expired(i)
  /\ reservations' = ReservationReleased(i)
  /\ UNCHANGED <<databaseVars, sales, lookup, charged, refused>>

\* Mutant: the buyer's deadline stays on the plate.
ReleasedHalf(n, status) == [plates EXCEPT ![n].status = status, ![n].reservedBy = None]

Released(n, status) ==
  [plates EXCEPT ![n].status = status, ![n].reservedBy = None, ![n].reservedUntil = None]

ExpireStatePurchase(i) ==
  /\ intents[i].kind = "STATE_PURCHASE"
  /\ Expired(i)
  /\ plates' = Released(intents[i].plate, "STATE_SALE")
  /\ UNCHANGED <<wallets, journal, revenue, history, primary, blocked, outbox, policy,
                 sales, reservations, lookup, charged, refused>>

\* Mutant: the sale stays RESERVED.
SaleKept(s) == sales

SaleReopened(s) == [sales EXCEPT ![s].status = "ACTIVE"]

ExpireSalePurchase(i) ==
  LET n == intents[i].plate
      s == intents[i].sale
      reserved == s \in ActiveSales(n) /\ sales[s].status = "RESERVED" IN
  /\ intents[i].kind = "SALE_PURCHASE"
  /\ Expired(i)
  /\ plates' = IF reserved THEN Released(n, "FIXED_SALE") ELSE plates
  /\ sales' = IF reserved THEN SaleReopened(s) ELSE sales
  /\ UNCHANGED <<wallets, journal, revenue, history, primary, blocked, outbox, policy,
                 reservations, lookup, charged, refused>>

ExpirePendingPayment(i) ==
  ExpireTopUp(i) \/ ExpireEmission(i) \/ ExpireStatePurchase(i) \/ ExpireSalePurchase(i)

-----------------------------------------------------------------------------
UserOperation(u) ==
  \/ \E i \in Intent :
       \/ \E amount \in TopUp : StartTopUp(u, i, amount)
       \/ ReserveNumber(u, i)
       \/ \E n \in Number : StartStatePurchase(u, n, i) \/ StartSalePurchase(u, n, i)
  \/ ReserveNumberFails(u)
  \/ RepairPrimaryPlate(u)
  \/ \E n \in Number :
       \/ LookUpNumber(u, n)
       \/ \E s \in Sale, price \in Price : CreateSale(u, n, s, price)
       \/ CancelSale(u, n)
       \/ SetPrimaryPlate(u, n)

\* What users, Telegram, the clock and the administrator's settings do.
Request ==
  \/ \E u \in User : UserOperation(u)
  \/ \E i \in Intent, c \in Charge : PayInvoice(i, c)
  \/ \E i \in Intent : InvoiceFallsDue(i)
  \/ \E c \in Charge : CompleteTelegramPayment(c)
  \/ \E p \in Policies : SetSetting(p) /\ UNCHANGED paymentVars

\* The service, with expire_pending_payment called at any moment for any
\* invoice.  ReservationSweep says when the deployed program calls it.
Next == Request \/ \E i \in Intent : ExpirePendingPayment(i)

Init ==
  /\ DatabaseInit
  /\ PaymentInit
  /\ blocked \in SUBSET User
  /\ policy \in Policies

Spec == Init /\ [][Next]_vars

-----------------------------------------------------------------------------
(* Properties *)

\* A row of state_emission_reservations always belongs to an open invoice for
\* the emission of that very number: neither payment, expiry nor replacement
\* leaves a row behind that would block the number or let a closed invoice pay.
ReservationIsPending ==
  \A n \in Number : LET i == reservations[n] IN
    i # None => /\ intents[i].status = "PENDING"
                /\ intents[i].kind = "STATE_EMISSION"
                /\ intents[i].plate = n

Purchase == {"STATE_PURCHASE", "SALE_PURCHASE"}

\* A plate is RESERVED exactly as long as one open purchase invoice exists for
\* it, namely the one whose buyer and deadline the plate carries; a plate with
\* an owner is reserved through its RESERVED sale, one without an owner is not.
ReservedPlateHasItsInvoice ==
  /\ \A n \in Number : LET i == plates[n].reservedUntil IN
       IF plates[n].status = "RESERVED"
       THEN /\ i # None
            /\ intents[i].status = "PENDING"
            /\ intents[i].plate = n
            /\ intents[i].user = plates[n].reservedBy
            /\ IF plates[n].owner = None THEN intents[i].kind = "STATE_PURCHASE"
               ELSE /\ intents[i].kind = "SALE_PURCHASE"
                    /\ sales[intents[i].sale].status = "RESERVED"
       ELSE i = None /\ plates[n].reservedBy = None
  /\ \A i \in Intent :
       intents[i].status = "PENDING" /\ intents[i].kind \in Purchase
         => plates[intents[i].plate].reservedUntil = i

\* The plate's status and the sales agree: the open sales of a plate belong to
\* its owner, there is at most one, a plate in FIXED_SALE has one, and the plate
\* is reserved if and only if its sale is.
ListingMatchesPlate ==
  /\ \A n \in Number : plates[n].status = "FIXED_SALE" => ActiveSales(n) # {}
  /\ \A n \in Number : \A s \in ActiveSales(n) :
       /\ plates[n].owner = sales[s].seller
       /\ plates[n].status = IF sales[s].status = "ACTIVE" THEN "FIXED_SALE" ELSE "RESERVED"
       /\ \A t \in ActiveSales(n) : t = s

\* A number is emitted once: of all invoices for its emission, however they
\* were reserved, replaced and delivered, at most one is ever fulfilled.
IssuedOnce ==
  \A i, j \in Intent :
    /\ intents[i].status = "PAID" /\ intents[i].kind = "STATE_EMISSION"
    /\ intents[j].status = "PAID" /\ intents[j].kind = "STATE_EMISSION"
    /\ intents[i].plate = intents[j].plate
    => i = j

\* The ownership history is a chain from the emission to the present owner.
OwnershipChain ==
  \A n \in Number :
    IF plates[n].status = "ABSENT" THEN history[n] = <<>>
    ELSE IsChain(history[n], plates[n].owner)

\* Every Star of a paid invoice is in a wallet or in the State's revenue, once,
\* whatever the order and number of the deliveries of the payment.
StarsAreConserved ==
  SumFunctionOnSet([u \in User |-> wallets[u].available + wallets[u].frozen], User) + revenue
    = SumFunctionOnSet(
        [i \in Intent |-> IF intents[i].status = "PAID" THEN intents[i].amount ELSE 0], Intent)

PaidInvoices(u, kinds) ==
  {i \in Intent : intents[i].status = "PAID" /\ intents[i].kind \in kinds /\ intents[i].user = u}

CompletedSales(u) == {s \in Sale : sales[s].status = "COMPLETED" /\ sales[s].seller = u}

\* Each fulfilled invoice and each completed sale is announced exactly once to
\* each party.
DeliveriesAreAnnounced ==
  \A u \in User :
    /\ outbox[u]["BALANCE_TOPUP"] = Cardinality(PaidInvoices(u, {"TOP_UP"}))
    /\ outbox[u]["PLATE_PURCHASED"] = Cardinality(PaidInvoices(u, PaymentKind \ {"TOP_UP"}))
    /\ outbox[u]["SALE_COMPLETED"] = Cardinality(CompletedSales(u))

\* The primary plate shown in a user's public profile is the user's own, also
\* after it was listed and sold.
PrimaryIsOwned ==
  \A u \in User : primary[u] # None => plates[primary[u]].owner = u

\* The terms of an invoice stay those of its sale until it is paid, whatever
\* becomes of the listing: the sale's plate and price, and another buyer than
\* the seller.
InvoiceMatchesSale ==
  \A i \in Intent : intents[i].kind = "SALE_PURCHASE" =>
    LET sale == sales[intents[i].sale] IN
    /\ intents[i].sale # None
    /\ sale.status # "ABSENT"
    /\ sale.plate = intents[i].plate
    /\ sale.price = intents[i].amount
    /\ sale.seller # intents[i].user

\* The commission of the sale leaves nothing for the seller: _complete_sale_purchase
\* raises when it credits him.
CommissionTakesAll(i) ==
  intents[i].kind = "SALE_PURCHASE"
    /\ sales[intents[i].sale].commission = sales[intents[i].sale].price

\* An open invoice for a plate that exists can be fulfilled by the payment it
\* asks for, for as long as it is open: no listing, cancellation or other
\* buyer takes the plate away between the invoice and the payment.  The one
\* exception is a sale created under a commission of 100 percent.
PurchaseCanBeFulfilled ==
  \A i \in Intent :
    intents[i].status = "PENDING" /\ intents[i].kind \in Purchase
      => (Fulfillable(i) <=> ~CommissionTakesAll(i))

\* What an open invoice holds: its reservation row, or its plate.
Holds(i) ==
  \/ intents[i].kind = "STATE_EMISSION" /\ reservations[intents[i].plate] = i
  \/ intents[i].kind \in Purchase /\ plates[intents[i].plate].reservedUntil = i

\* Until its deadline an invoice keeps what it holds, unless it is paid.
HoldIsKept ==
  [][\A i \in Intent :
       intents[i].status = "PENDING" /\ ~intents[i].due /\ Holds(i)
         => Holds(i)' \/ intents'[i].status = "PAID"]_vars

\* A payment that was refused once stays refused, however often it is delivered
\* again: the buyer was told to ask for the money back.
RefusalIsFinal == \A c \in refused : \A i \in Intent : intents[i].charge # c

-----------------------------------------------------------------------------
(* What the marketplace promises of the plates: see PlateRegistry.         *)

Registry == INSTANCE PlateRegistry WITH
  owner   <- [n \in Number |-> plates[n].owner],
  issued  <- {n \in Number : plates[n].status # "ABSENT"},
  payer   <- [i \in Intent |-> intents[i].user],
  settled <- {i \in Intent : intents[i].status = "PAID"}

RegistrySpec == Registry!Spec

=============================================================================
