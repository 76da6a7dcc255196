--------------------------- MODULE PlatformProofs ---------------------------
(***************************************************************************)
(* Proofs about Platform, for every number of users, plates, invoices,     *)
(* sales, auctions and charges and for every settings, prices and amounts. *)
(* The invariants of Marketplace and Auctions do not hold here: the        *)
(* administrator writes their tables.                                      *)
(***************************************************************************)
EXTENDS Platform, DatabaseProofs, FiniteLemmas, SequenceTheorems

-----------------------------------------------------------------------------
(* Marketplace and Auctions speak of the same tables as Platform           *)

LEMMA SameDatabaseTypes ==
  /\ Market!DatabaseTypeOK <=> DatabaseTypeOK
  /\ Auctioning!DatabaseTypeOK <=> DatabaseTypeOK
BY DEF Market!DatabaseTypeOK, Auctioning!DatabaseTypeOK, DatabaseTypeOK,
   Market!Plate, Market!PlateStatus, Market!Wallet, Market!Totals, Market!OwnershipHistory,
   Market!OwnershipOperation, Market!NotificationType,
   Auctioning!Plate, Auctioning!PlateStatus, Auctioning!Wallet, Auctioning!Totals,
   Auctioning!OwnershipHistory, Auctioning!OwnershipOperation, Auctioning!NotificationType,
   Plate, PlateStatus, Wallet, Totals, OwnershipHistory, OwnershipOperation, NotificationType

LEMMA SameBooks ==
  ASSUME NEW wallet, NEW amount, NEW totals, NEW after
  PROVE  /\ Market!Credited(wallet, amount) = Credited(wallet, amount)
         /\ Auctioning!Credited(wallet, amount) = Credited(wallet, amount)
         /\ Auctioning!Frozen(wallet, amount) = Frozen(wallet, amount)
         /\ Auctioning!Unfrozen(wallet, amount) = Unfrozen(wallet, amount)
         /\ Auctioning!Settled(wallet, amount) = Settled(wallet, amount)
         /\ Market!Recorded(totals, wallet, after) = Recorded(totals, wallet, after)
         /\ Auctioning!Recorded(totals, wallet, after) = Recorded(totals, wallet, after)
         /\ Market!CanCredit(amount) <=> CanCredit(amount)
         /\ Auctioning!CanCredit(amount) <=> CanCredit(amount)
         /\ Auctioning!CanFreeze(wallet, amount) <=> CanFreeze(wallet, amount)
         /\ Auctioning!CanTakeFrozen(wallet, amount) <=> CanTakeFrozen(wallet, amount)
BY DEF Market!Credited, Auctioning!Credited, Credited, Auctioning!Frozen, Frozen,
   Auctioning!Unfrozen, Unfrozen, Auctioning!Settled, Settled, Market!Recorded,
   Auctioning!Recorded, Recorded, Market!CanCredit, Auctioning!CanCredit, CanCredit,
   Auctioning!CanFreeze, CanFreeze, Auctioning!CanTakeFrozen, CanTakeFrozen

-----------------------------------------------------------------------------
(* The inductive invariant                                                 *)

\* What the columns of rows that exist hold.
InvoicesAreComplete ==
  \A i \in Intent : intents[i].status # "ABSENT" =>
    /\ intents[i].user \in User
    /\ intents[i].kind \in Market!PaymentKind
    /\ intents[i].kind # "TOP_UP" => intents[i].plate \in Number
    /\ intents[i].kind = "SALE_PURCHASE" => intents[i].sale \in Sale

SalesAreComplete ==
  \A s \in Sale : sales[s].status # "ABSENT" =>
    sales[s].plate \in Number /\ sales[s].seller \in User

\* The same of auctions, and what a running place_bid relies on.
AuctionHolds(a) ==
  /\ auctions[a].status # "ABSENT" =>
       auctions[a].plate \in Number /\ auctions[a].seller \in User /\ auctions[a].start > 0
  /\ auctions[a].status = "ABSENT" => auctions[a].leader = None
  /\ auctions[a].leader # None => auctions[a].price > 0 /\ auctions[a].leader # auctions[a].seller
  /\ bidding[a].bidder # None =>
       /\ auctions[a].status \in {"ACTIVE", "EXTENDED"}
       /\ bidding[a].bidder \notin {auctions[a].seller, auctions[a].leader}
       /\ bidding[a].amount > 0

SalesOf(n) == {s \in Sale : sales[s].status \in {"ACTIVE", "RESERVED"} /\ sales[s].plate = n}
AuctionsOf(n) ==
  {a \in Auction : auctions[a].status \in {"ACTIVE", "EXTENDED"} /\ auctions[a].plate = n}

Listed(n) == SalesOf(n) # {} \/ AuctionsOf(n) # {}

\* A listing is the only one, it is the owner's, and its plate is not free to be
\* listed again (status OWNED).  The status says no more than that here: the
\* expiry of an invoice may set it behind the back of a forced transfer.
ListingHolds(n) ==
  /\ \A s \in SalesOf(n) : sales[s].seller = plates[n].owner
  /\ \A a \in AuctionsOf(n) : auctions[a].seller = plates[n].owner
  /\ \A s, t \in SalesOf(n) : s = t
  /\ \A a, b \in AuctionsOf(n) : a = b
  /\ SalesOf(n) = {} \/ AuctionsOf(n) = {}
  /\ plates[n].status = "OWNED" => ~Listed(n)

PlateHolds(n) ==
  /\ plates[n].status = "ABSENT" =>
       /\ plates[n].owner = None
       /\ \A i \in Intent : intents[i].kind = "STATE_PURCHASE" => intents[i].plate # n
  /\ ListingHolds(n)
  /\ IF plates[n].status = "ABSENT" THEN history[n] = <<>>
     ELSE IsChain(history[n], plates[n].owner)
  /\ \A u \in User : primary[u] = n => plates[n].owner = u

PInv ==
  /\ TypeOK
  /\ InvoicesAreComplete
  /\ SalesAreComplete
  /\ \A a \in Auction : AuctionHolds(a)
  /\ \A n \in Number : PlateHolds(n)

-----------------------------------------------------------------------------
(* Types, by the service whose tables they are                             *)

PaymentTypes ==
  /\ sales \in [Sale -> Market!SaleRow]
  /\ intents \in [Intent -> Market!PaymentIntent]
  /\ reservations \in [Number -> Intent \cup {None}]
  /\ lookup \in [User -> Number \cup {None}]
  /\ charged \in [Charge -> Intent \cup {None}]
  /\ refused \subseteq Charge

AuctionTypes ==
  /\ auctions \in [Auction -> Auctioning!AuctionRow]
  /\ bids \in [Auction -> Seq(Auctioning!Bid)]
  /\ bidding \in [Auction -> Auctioning!Attempt]
  /\ now \in 0..MaxTime

AccountTypes ==
  /\ status \in [User -> UserStatus]
  /\ activity \in [User -> {Ages[k] : k \in DOMAIN Ages}]
  /\ confiscation \in [running : BOOLEAN, ids : SUBSET User]

LEMMA Types == TypeOK <=> DatabaseTypeOK /\ PaymentTypes /\ AuctionTypes /\ AccountTypes
BY SameDatabaseTypes
DEF TypeOK, Market!TypeOK, Auctioning!TypeOK, PaymentTypes, AuctionTypes, AccountTypes

LEMMA TypesPrimed ==
  ASSUME DatabaseTypeOK', PaymentTypes', AuctionTypes', AccountTypes'
  PROVE  TypeOK'
BY Types, PTL

-----------------------------------------------------------------------------
(* What a step leaves alone                                                *)

LEMMA DatabaseFrame ==
  ASSUME DatabaseTypeOK, UNCHANGED databaseVars PROVE DatabaseTypeOK'
BY DEF DatabaseTypeOK, databaseVars

LEMMA PaymentFrame ==
  ASSUME PaymentTypes, UNCHANGED paymentVars PROVE PaymentTypes'
BY DEF PaymentTypes, paymentVars

LEMMA AuctionFrame ==
  ASSUME AuctionTypes, UNCHANGED auctionVars PROVE AuctionTypes'
BY DEF AuctionTypes, auctionVars

LEMMA AccountFrame ==
  ASSUME AccountTypes, UNCHANGED accountVars PROVE AccountTypes'
BY DEF AccountTypes, accountVars

LEMMA RowsFrame ==
  ASSUME PInv, UNCHANGED <<sales, intents>>
  PROVE  InvoicesAreComplete' /\ SalesAreComplete'
BY DEF PInv, InvoicesAreComplete, SalesAreComplete

LEMMA AuctionHoldsFrame ==
  ASSUME \A a \in Auction : AuctionHolds(a), UNCHANGED <<auctions, bidding>>
  PROVE  \A a \in Auction : AuctionHolds(a)'
BY DEF AuctionHolds

\* The State sells only plates that were issued.
InvoicesKept ==
  \A i \in Intent : intents'[i].kind = "STATE_PURCHASE" =>
    \/ intents[i].kind = "STATE_PURCHASE" /\ intents'[i].plate = intents[i].plate
    \/ plates[intents'[i].plate].status # "ABSENT"

\* Listings of the plate only end.
ListingsEnd(n) ==
  /\ \A s \in SalesOf(n)' : s \in SalesOf(n) /\ sales'[s].seller = sales[s].seller
  /\ \A a \in AuctionsOf(n)' : a \in AuctionsOf(n) /\ auctions'[a].seller = auctions[a].seller

\* The plate keeps its owner, and is freed only with its listing.
Undisturbed(n) ==
  /\ ListingsEnd(n)
  /\ plates'[n].owner = plates[n].owner
  /\ plates'[n].status = "ABSENT" <=> plates[n].status = "ABSENT"
  /\ plates'[n].status = "OWNED" => plates[n].status = "OWNED" \/ ~Listed(n)'
  /\ history'[n] = history[n]
  /\ \A u \in User : primary'[u] = n => primary[u] = n \/ plates[n].owner = u

\* The plate, which is not listed any more, passes to `new' (None: the State).
Moves(n, new, operation) ==
  /\ ~Listed(n)'
  /\ plates'[n].owner = new
  /\ plates'[n].status # "ABSENT"
  /\ history'[n] = Append(history[n], [old |-> plates[n].owner, new |-> new,
                                       operation |-> operation])
  /\ plates[n].status = "ABSENT" <=> operation = "STATE_EMISSION"
  /\ \A u \in User : primary'[u] = n => new = u

LEMMA ListingStays ==
  ASSUME NEW n \in Number, ListingHolds(n), Undisturbed(n)
  PROVE  ListingHolds(n)'
<1>1. plates'[n].status = "OWNED" => ~Listed(n)'
  BY DEF ListingHolds, Undisturbed, ListingsEnd, Listed
<1> QED
  BY <1>1 DEF ListingHolds, Undisturbed, ListingsEnd

LEMMA PlateStays ==
  ASSUME NEW n \in Number, PlateHolds(n), Undisturbed(n), InvoicesKept
  PROVE  PlateHolds(n)'
<1>1. ListingHolds(n)'
  BY ListingStays DEF PlateHolds
<1> QED
  BY <1>1 DEF PlateHolds, Undisturbed, InvoicesKept

LEMMA PlateMoves ==
  ASSUME NEW n \in Number, DatabaseTypeOK, PlateHolds(n),
         NEW new \in User \cup {None}, NEW operation \in OwnershipOperation,
         Moves(n, new, operation)
  PROVE  PlateHolds(n)'
<1>1. ListingHolds(n)'
  BY DEF Moves, ListingHolds, Listed
<1>2. PICK rows \in Seq(OwnershipHistory), old \in User \cup {None} :
        rows = history[n] /\ old = plates[n].owner
  BY DEF DatabaseTypeOK, Plate
<1>3. \/ rows = <<>> /\ old = None /\ operation = "STATE_EMISSION"
      \/ IsChain(rows, old) /\ operation # "STATE_EMISSION"
  BY <1>2 DEF PlateHolds, Moves
<1>4. IsChain(Append(rows, [old |-> old, new |-> new, operation |-> operation]), new)
  BY <1>3, ChainGrows
<1>5. IsChain(history'[n], plates'[n].owner)
  BY <1>2, <1>4 DEF Moves
<1> QED
  BY <1>1, <1>5 DEF PlateHolds, Moves

\* The step does not concern the plate.
Untouched(n) ==
  /\ ListingsEnd(n)
  /\ plates'[n] = plates[n] /\ history'[n] = history[n]
  /\ \A u \in User : primary'[u] = n => primary[u] = n

LEMMA UntouchedStays ==
  ASSUME NEW n \in Number, PlateHolds(n), Untouched(n), InvoicesKept
  PROVE  PlateHolds(n)'
BY PlateStays DEF Untouched, Undisturbed

LEMMA PlatesStay ==
  ASSUME PInv, InvoicesKept,
         UNCHANGED <<plates, history, primary, sales, auctions>>
  PROVE  \A n \in Number : PlateHolds(n)'
<1>1. ASSUME NEW n \in Number PROVE Untouched(n)
  BY DEF Untouched, ListingsEnd, SalesOf, AuctionsOf
<1> QED
  BY <1>1, UntouchedStays DEF PInv

\* Steps that do not write the tables which the invariant relates.
LEMMA AsideStep ==
  ASSUME PInv, DatabaseTypeOK', PaymentTypes', AuctionTypes', AccountTypes',
         UNCHANGED <<plates, history, primary, sales, intents, auctions, bidding>>
  PROVE  PInv'
<1>1. InvoicesAreComplete' /\ SalesAreComplete' /\ \A a \in Auction : AuctionHolds(a)'
  BY RowsFrame, AuctionHoldsFrame DEF PInv
<1>2. \A n \in Number : PlateHolds(n)'
  BY PlatesStay DEF PInv, InvoicesKept
<1> QED
  BY <1>1, <1>2, TypesPrimed DEF PInv

-----------------------------------------------------------------------------
(* Accounts, settings, balances and the jobs' reads                        *)

LEMMA AccountStep ==
  ASSUME PInv, AccountTypes', UNCHANGED <<databaseVars, paymentVars, auctionVars>>
  PROVE  PInv'
<1>1. DatabaseTypeOK' /\ PaymentTypes' /\ AuctionTypes'
  BY Types, DatabaseFrame, PaymentFrame, AuctionFrame DEF PInv
<1>2. UNCHANGED <<plates, history, primary, sales, intents, auctions, bidding>>
  BY DEF databaseVars, paymentVars, auctionVars
<1> QED
  BY <1>1, <1>2, AsideStep

LEMMA TouchStep ==
  ASSUME PInv, NEW u \in User, Touch(u) \/ GrowOlder(u) PROVE PInv'
<1>1. AccountTypes
  BY Types DEF PInv
<1>2. CASE Touch(u)
  <2>1. AccountTypes'
    BY <1>1, <1>2 DEF Touch, AccountTypes, UserStatus, Ages
  <2> QED
    BY <1>2, <2>1, AccountStep DEF Touch
<1>3. CASE GrowOlder(u)
  <2>1. PICK k \in DOMAIN Ages : activity' = [activity EXCEPT ![u] = Ages[k]]
    BY <1>3 DEF GrowOlder
  <2>2. AccountTypes'
    BY <1>1, <1>3, <2>1 DEF GrowOlder, AccountTypes
  <2> QED
    BY <1>3, <2>2, AccountStep DEF GrowOlder
<1> QED
  BY <1>2, <1>3

LEMMA JobReadsStep ==
  ASSUME PInv,
         \/ ConfiscationReads \/ ConfiscationEnds
         \/ \E u \in User : ConfiscationSkips(u) \/ ConfiscationBreaksOff(u)
  PROVE  PInv'
<1>1. AccountTypes /\ confiscation.ids \subseteq User /\ confiscation.running \in BOOLEAN
  BY Types DEF PInv, AccountTypes
<1>2. UNCHANGED <<databaseVars, paymentVars, auctionVars, status, activity>>
  BY DEF ConfiscationReads, ConfiscationEnds, ConfiscationSkips, ConfiscationBreaksOff
<1>3. \E running \in BOOLEAN, ids \in SUBSET User :
        confiscation' = [running |-> running, ids |-> ids]
  <2>1. CASE ConfiscationReads
    BY <2>1 DEF ConfiscationReads
  <2>2. CASE ConfiscationEnds \/ \E u \in User : ConfiscationBreaksOff(u)
    BY <2>2 DEF ConfiscationEnds, ConfiscationBreaksOff
  <2>3. ASSUME NEW u \in User, ConfiscationSkips(u)
        PROVE  confiscation' = [running |-> confiscation.running, ids |-> confiscation.ids \ {u}]
    BY <1>1, <2>3 DEF ConfiscationSkips, AccountTypes
  <2> QED
    BY <1>1, <2>1, <2>2, <2>3
<1>4. AccountTypes'
  BY <1>1, <1>2, <1>3 DEF AccountTypes
<1> QED
  BY <1>2, <1>4, AccountStep

\* Steps that write the settings, the wallets, the journal, the notifications or
\* the blocked users, and nothing else of the database.
LEMMA BooksStep ==
  ASSUME PInv, DatabaseTypeOK', AccountTypes',
         UNCHANGED <<plates, history, primary, paymentVars, auctionVars>>
  PROVE  PInv'
<1>1. PaymentTypes' /\ AuctionTypes'
  BY Types, PaymentFrame, AuctionFrame DEF PInv
<1>2. UNCHANGED <<plates, history, primary, sales, intents, auctions, bidding>>
  BY DEF paymentVars, auctionVars
<1> QED
  BY <1>1, <1>2, AsideStep

LEMMA ChangeSettingStep ==
  ASSUME PInv, ChangeSetting PROVE PInv'
<1>1. DatabaseTypeOK' /\ AccountTypes'
  BY Types, AccountFrame DEF PInv, ChangeSetting, SetSetting, DatabaseTypeOK
<1> QED
  BY <1>1, BooksStep DEF ChangeSetting, SetSetting

LEMMA BlockStep ==
  ASSUME PInv, NEW u \in User, Block(u) \/ Unblock(u) PROVE PInv'
<1>1. DatabaseTypeOK /\ AccountTypes
  BY Types DEF PInv
<1>2. /\ UNCHANGED <<plates, history, primary, paymentVars, auctionVars>>
      /\ UNCHANGED <<wallets, journal, revenue, outbox, policy, activity, confiscation>>
      /\ blocked' \subseteq User
      /\ \E state \in UserStatus : status' = [status EXCEPT ![u] = state]
  BY <1>1 DEF Block, Unblock, UserStatus, DatabaseTypeOK
<1>3. DatabaseTypeOK' /\ AccountTypes'
  BY <1>1, <1>2 DEF DatabaseTypeOK, AccountTypes
<1> QED
  BY <1>2, <1>3, BooksStep

LEMMA AdjustBalanceStep ==
  ASSUME PInv, NEW u \in User, NEW delta \in Adjustment, AdjustBalance(u, delta) PROVE PInv'
<1> DEFINE w == IF delta > 0 THEN Credited(wallets[u], delta) ELSE Debited(wallets[u], -delta)
<1>1. DatabaseTypeOK /\ AccountTypes /\ delta \in Int
  BY Types, AdjustmentsAreWhole DEF PInv
<1>2. wallets[u] \in Wallet /\ journal[u] \in Totals
  BY <1>1 DEF DatabaseTypeOK
<1>3. w \in Wallet
  <2>1. CASE delta > 0
    BY <1>1, <1>2, <2>1, CreditedType DEF AdjustBalance
  <2>2. CASE ~ delta > 0
    <3>1. CanDebit(wallets[u], -delta) /\ -delta \in Int
      BY <1>1, <2>2 DEF AdjustBalance
    <3> QED
      BY <1>2, <2>2, <3>1, DebitedType
  <2> QED
    BY <2>1, <2>2
<1>4. /\ wallets' = [wallets EXCEPT ![u] = w]
      /\ journal' = [journal EXCEPT ![u] = Recorded(@, wallets[u], w)]
      /\ UNCHANGED <<plates, revenue, history, primary, blocked, outbox, policy>>
      /\ UNCHANGED <<paymentVars, auctionVars, accountVars>>
  BY DEF AdjustBalance
<1> HIDE DEF w
<1>5. Recorded(journal[u], wallets[u], w) \in Totals
  BY <1>2, <1>3, RecordedType
<1>6. wallets' \in [User -> Wallet] /\ journal' \in [User -> Totals]
  BY <1>1, <1>3, <1>4, <1>5 DEF DatabaseTypeOK
<1>7. DatabaseTypeOK' /\ AccountTypes'
  BY <1>1, <1>4, <1>6, AccountFrame DEF DatabaseTypeOK
<1> QED
  BY <1>4, <1>7, BooksStep

LEMMA QueueWarningsStep ==
  ASSUME PInv, QueueWarnings PROVE PInv'
<1>1. DatabaseTypeOK /\ AccountTypes
  BY Types DEF PInv
<1>2. /\ UNCHANGED <<plates, wallets, journal, revenue, history, primary, blocked, policy>>
      /\ UNCHANGED <<paymentVars, auctionVars, status, activity, confiscation>>
  BY DEF QueueWarnings
<1>3. outbox' \in [User -> [NotificationType -> Nat]]
  BY <1>1 DEF QueueWarnings, DatabaseTypeOK, NotificationType
<1>4. DatabaseTypeOK' /\ AccountTypes'
  BY <1>1, <1>2, <1>3 DEF DatabaseTypeOK, AccountTypes
<1> QED
  BY <1>2, <1>4, BooksStep

-----------------------------------------------------------------------------
(* Invoices                                                                *)

LEMMA InvoiceStarts ==
  ASSUME PInv, NEW i \in Intent, NEW kind \in Market!PaymentKind, NEW u \in User,
         NEW n \in Number \cup {None}, NEW s \in Sale \cup {None}, NEW amount \in Nat,
         kind # "TOP_UP" => n \in Number,
         kind = "SALE_PURCHASE" => s \in Sale,
         kind = "STATE_PURCHASE" => plates[n].status # "ABSENT",
         Market!NewIntent(i, kind, u, n, s, amount)
  PROVE  /\ intents' \in [Intent -> Market!PaymentIntent]
         /\ InvoicesAreComplete'
         /\ InvoicesKept
<1> DEFINE row == [status |-> "PENDING", kind |-> kind, user |-> u, plate |-> n, sale |-> s,
                   amount |-> amount, charge |-> None, due |-> FALSE]
<1>1. intents \in [Intent -> Market!PaymentIntent]
  BY Types DEF PInv, PaymentTypes
<1>2. intents' = [intents EXCEPT ![i] = row]
  BY DEF Market!NewIntent
<1>3. row \in Market!PaymentIntent
  BY DEF Market!PaymentIntent
<1>4. /\ row.status = "PENDING" /\ row.kind = kind /\ row.user = u
      /\ row.plate = n /\ row.sale = s
  OBVIOUS
<1> HIDE DEF row
<1>5. intents'[i] = row /\ \A j \in Intent : j # i => intents'[j] = intents[j]
  BY <1>1, <1>2
<1>6. intents' \in [Intent -> Market!PaymentIntent]
  BY <1>1, <1>2, <1>3
<1>7. InvoicesAreComplete' /\ InvoicesKept
  BY <1>4, <1>5 DEF PInv, InvoicesAreComplete, InvoicesKept
<1> QED
  BY <1>6, <1>7

\* The invoice i, which exists, gets another status, charge or deadline.
InvoiceChanges(i) ==
  /\ intents[i].status # "ABSENT"
  /\ intents' \in [Intent -> Market!PaymentIntent]
  /\ \A j \in Intent : j # i => intents'[j] = intents[j]
  /\ intents'[i].kind = intents[i].kind /\ intents'[i].user = intents[i].user
  /\ intents'[i].plate = intents[i].plate /\ intents'[i].sale = intents[i].sale

LEMMA InvoiceStays ==
  ASSUME PInv, NEW i \in Intent, InvoiceChanges(i)
  PROVE  InvoicesAreComplete' /\ InvoicesKept
BY DEF PInv, InvoicesAreComplete, InvoicesKept, InvoiceChanges

LEMMA InvoiceIsPaid ==
  ASSUME PInv, NEW i \in Intent, NEW c \in Charge, NEW kind,
         Market!Payable(i, kind), Market!Paid(i, c)
  PROVE  InvoiceChanges(i)
<1>1. intents \in [Intent -> Market!PaymentIntent] /\ intents[i].status = "PENDING"
  BY Types DEF PInv, PaymentTypes, Market!Payable
<1>2. intents' = [intents EXCEPT ![i] = [intents[i] EXCEPT !.status = "PAID", !.charge = c]]
  BY <1>1 DEF Market!Paid
<1>3. [intents[i] EXCEPT !.status = "PAID", !.charge = c] \in Market!PaymentIntent
  BY <1>1 DEF Market!PaymentIntent
<1> QED
  BY <1>1, <1>2, <1>3 DEF InvoiceChanges, Market!PaymentIntent

LEMMA InvoiceIsClosed ==
  ASSUME PInv, NEW i \in Intent, Market!Expired(i) \/ Market!InvoiceFallsDue(i)
  PROVE  InvoiceChanges(i)
<1>1. intents \in [Intent -> Market!PaymentIntent] /\ intents[i].status = "PENDING"
  BY Types DEF PInv, PaymentTypes, Market!Expired, Market!InvoiceFallsDue
<1>2. CASE intents' = [intents EXCEPT ![i].status = "EXPIRED"]
  <2>1. [intents[i] EXCEPT !.status = "EXPIRED"] \in Market!PaymentIntent
    BY <1>1 DEF Market!PaymentIntent
  <2> QED
    BY <1>1, <1>2, <2>1 DEF InvoiceChanges, Market!PaymentIntent
<1>3. CASE intents' = [intents EXCEPT ![i].due = TRUE]
  <2>1. [intents[i] EXCEPT !.due = TRUE] \in Market!PaymentIntent
    BY <1>1 DEF Market!PaymentIntent
  <2> QED
    BY <1>1, <1>3, <2>1 DEF InvoiceChanges, Market!PaymentIntent
<1> QED
  BY <1>2, <1>3 DEF Market!Expired, Market!InvoiceFallsDue

\* A step of Marketplace that writes neither plates nor sales.
LEMMA InvoiceStep ==
  ASSUME PInv, DatabaseTypeOK', PaymentTypes', InvoicesAreComplete', InvoicesKept,
         UNCHANGED <<plates, history, primary, sales, auctionVars, accountVars>>
  PROVE  PInv'
<1>1. AuctionTypes' /\ AccountTypes'
  BY Types, AuctionFrame, AccountFrame DEF PInv
<1>2. SalesAreComplete' /\ \A a \in Auction : AuctionHolds(a)'
  BY AuctionHoldsFrame DEF PInv, SalesAreComplete, auctionVars
<1>3. \A n \in Number : PlateHolds(n)'
  BY PlatesStay DEF auctionVars
<1> QED
  BY <1>1, <1>2, <1>3, TypesPrimed DEF PInv

\* What Marketplace leaves alone in Platform.
Elsewhere == UNCHANGED <<auctionVars, accountVars>>

LEMMA StartTopUpStep ==
  ASSUME PInv, Elsewhere, NEW u \in User, NEW i \in Intent, NEW amount \in TopUp,
         Market!StartTopUp(u, i, amount)
  PROVE  PInv'
<1>1. /\ Market!NewIntent(i, "TOP_UP", u, None, None, amount)
      /\ UNCHANGED <<databaseVars, sales, reservations, lookup, charged, refused>>
  BY DEF Market!StartTopUp, Market!databaseVars, databaseVars
<1>2. /\ intents' \in [Intent -> Market!PaymentIntent]
      /\ InvoicesAreComplete' /\ InvoicesKept
  BY <1>1, InvoiceStarts, AmountsAreWhole DEF Market!PaymentKind
<1>3. DatabaseTypeOK' /\ PaymentTypes'
  BY <1>1, <1>2, Types, DatabaseFrame DEF PInv, PaymentTypes
<1>4. UNCHANGED <<plates, history, primary, sales, auctionVars, accountVars>>
  BY <1>1 DEF databaseVars, Elsewhere
<1> QED
  BY <1>2, <1>3, <1>4, InvoiceStep

LEMMA ReserveNumberStep ==
  ASSUME PInv, Elsewhere, NEW u \in User, NEW i \in Intent, Market!ReserveNumber(u, i)
  PROVE  PInv'
<1>1. PICK n \in Number : n = lookup[u]
  BY Types DEF PInv, PaymentTypes, Market!ReserveNumber
<1>2. /\ Market!NewIntent(i, "STATE_EMISSION", u, n, None, policy.state_plate_price)
      /\ reservations' = [reservations EXCEPT ![n] = i]
      /\ lookup' = [lookup EXCEPT ![u] = None]
      /\ UNCHANGED <<databaseVars, sales, charged, refused>>
  BY <1>1 DEF Market!ReserveNumber, Market!databaseVars, databaseVars
<1>3. policy.state_plate_price \in Nat
  BY Types, PoliciesAreValid DEF PInv, DatabaseTypeOK, Policy
<1>4. /\ intents' \in [Intent -> Market!PaymentIntent]
      /\ InvoicesAreComplete' /\ InvoicesKept
  BY <1>2, <1>3, InvoiceStarts DEF Market!PaymentKind
<1>5. DatabaseTypeOK' /\ PaymentTypes'
  BY <1>2, <1>4, Types, DatabaseFrame DEF PInv, PaymentTypes
<1>6. UNCHANGED <<plates, history, primary, sales, auctionVars, accountVars>>
  BY <1>2 DEF databaseVars, Elsewhere
<1> QED
  BY <1>4, <1>5, <1>6, InvoiceStep

\* The steps of Marketplace that write none of the tables the invariant relates.
LEMMA MarketAsideStep ==
  ASSUME PInv, Elsewhere,
         \/ \E u \in User, n \in Number : Market!LookUpNumber(u, n)
         \/ \E u \in User : Market!ReserveNumberFails(u)
         \/ \E i \in Intent, c \in Charge : Market!PayInvoice(i, c) \/ Market!RefusePayment(c, i)
  PROVE  PInv'
<1>1. UNCHANGED <<databaseVars, sales, intents, reservations>>
  BY DEF Market!LookUpNumber, Market!ReserveNumberFails, Market!PayInvoice,
         Market!RefusePayment, Market!databaseVars, databaseVars
<1>2. PaymentTypes
  BY Types DEF PInv
<1>3. /\ lookup' \in [User -> Number \cup {None}]
      /\ charged' \in [Charge -> Intent \cup {None}]
      /\ refused' \subseteq Charge
  BY <1>2 DEF PaymentTypes, Market!LookUpNumber, Market!ReserveNumberFails,
              Market!PayInvoice, Market!RefusePayment
<1>4. DatabaseTypeOK' /\ PaymentTypes' /\ AuctionTypes' /\ AccountTypes'
  BY <1>1, <1>2, <1>3, Types, DatabaseFrame, AuctionFrame, AccountFrame
  DEF PInv, PaymentTypes, Elsewhere
<1>5. UNCHANGED <<plates, history, primary, sales, intents, auctions, bidding>>
  BY <1>1 DEF databaseVars, Elsewhere, auctionVars
<1> QED
  BY <1>4, <1>5, AsideStep

\* The steps that close an invoice which holds no plate.
LEMMA InvoiceClosesStep ==
  ASSUME PInv, Elsewhere, NEW i \in Intent,
         Market!InvoiceFallsDue(i) \/ Market!ExpireTopUp(i) \/ Market!ExpireEmission(i)
  PROVE  PInv'
<1>1. InvoiceChanges(i)
  BY InvoiceIsClosed DEF Market!ExpireTopUp, Market!ExpireEmission
<1>2. UNCHANGED <<databaseVars, sales, lookup, charged, refused>>
  BY DEF Market!InvoiceFallsDue, Market!ExpireTopUp, Market!ExpireEmission,
         Market!databaseVars, databaseVars
<1>3. PaymentTypes
  BY Types DEF PInv
<1>4. reservations' \in [Number -> Intent \cup {None}]
  BY <1>3 DEF PaymentTypes, Market!InvoiceFallsDue, Market!ExpireTopUp,
              Market!ExpireEmission, Market!ReservationReleased
<1>5. DatabaseTypeOK' /\ PaymentTypes'
  BY <1>1, <1>2, <1>3, <1>4, Types, DatabaseFrame DEF PInv, PaymentTypes, InvoiceChanges
<1>6. UNCHANGED <<plates, history, primary, sales, auctionVars, accountVars>>
  BY <1>2 DEF databaseVars, Elsewhere
<1> QED
  BY <1>1, <1>5, <1>6, InvoiceStays, InvoiceStep

LEMMA CompleteTopUpStep ==
  ASSUME PInv, Elsewhere, NEW c \in Charge, NEW i \in Intent, Market!CompleteTopUp(c, i)
  PROVE  PInv'
<1>1. InvoiceChanges(i) /\ intents[i].status = "PENDING"
  BY InvoiceIsPaid DEF Market!CompleteTopUp, Market!Payable
<1>2. PICK u \in User : u = intents[i].user
  BY <1>1 DEF PInv, InvoicesAreComplete
<1>3. DatabaseTypeOK /\ PaymentTypes /\ intents[i].amount \in Int
  BY Types DEF PInv, PaymentTypes, Market!PaymentIntent
<1>4. PICK w : w = Credited(wallets[u], intents[i].amount)
  OBVIOUS
<1>5. /\ CanCredit(intents[i].amount)
      /\ wallets' = [wallets EXCEPT ![u] = w]
      /\ journal' = [journal EXCEPT ![u] = Recorded(@, wallets[u], w)]
      /\ outbox' = Queued(outbox, u, "BALANCE_TOPUP")
      /\ UNCHANGED <<plates, revenue, history, primary, blocked, policy>>
      /\ UNCHANGED <<sales, reservations, lookup, charged, refused>>
  BY <1>2, <1>4 DEF Market!CompleteTopUp, Market!Queued, Queued, Market!CanCredit, CanCredit,
     Market!Credited, Credited, Market!Recorded, Recorded
<1>6. w \in Wallet /\ Recorded(journal[u], wallets[u], w) \in Totals
  BY <1>3, <1>4, <1>5, CreditedType, RecordedType DEF DatabaseTypeOK
<1>7. outbox' \in [User -> [NotificationType -> Nat]]
  BY <1>3, <1>5, QueuedType DEF DatabaseTypeOK, NotificationType
<1>8. DatabaseTypeOK' /\ PaymentTypes'
  BY <1>1, <1>3, <1>5, <1>6, <1>7 DEF DatabaseTypeOK, PaymentTypes, InvoiceChanges
<1> QED
  BY <1>1, <1>5, <1>8, InvoiceStays, InvoiceStep DEF Elsewhere

-----------------------------------------------------------------------------
(* Profiles, listings and reservations of Marketplace                      *)

LEMMA MarketStepHolds ==
  ASSUME PInv, Elsewhere, DatabaseTypeOK', PaymentTypes',
         InvoicesAreComplete', SalesAreComplete',
         \A n \in Number : PlateHolds(n)'
  PROVE  PInv'
<1>1. AuctionTypes' /\ AccountTypes' /\ \A a \in Auction : AuctionHolds(a)'
  BY Types, AuctionFrame, AccountFrame, AuctionHoldsFrame DEF PInv, Elsewhere, auctionVars
<1> QED
  BY <1>1, TypesPrimed DEF PInv

\* The step gives the plate n another status.
StatusChanges(n) ==
  /\ plates' \in [Number -> Plate]
  /\ \A m \in Number \ {n} : plates'[m] = plates[m]
  /\ plates'[n].owner = plates[n].owner
  /\ plates'[n].status # "ABSENT" /\ plates[n].status # "ABSENT"
  /\ plates'[n].status = "OWNED" => plates[n].status = "OWNED" \/ ~Listed(n)'
  /\ UNCHANGED <<history, primary>>

LEMMA StatusStep ==
  ASSUME PInv, InvoicesKept, NEW n \in Number, StatusChanges(n),
         \A m \in Number : ListingsEnd(m)
  PROVE  \A m \in Number : PlateHolds(m)'
<1>1. ASSUME NEW m \in Number \ {n} PROVE PlateHolds(m)'
  BY <1>1, UntouchedStays DEF PInv, Untouched, StatusChanges
<1>2. PlateHolds(n)'
  BY PlateStays DEF PInv, Undisturbed, StatusChanges
<1> QED
  BY <1>1, <1>2

\* A sale that exists gets another status; it is not opened again.
LEMMA SaleChanges ==
  ASSUME PInv, NEW s \in Sale,
         NEW new \in {"ACTIVE", "RESERVED", "COMPLETED", "CANCELLED"},
         new \in {"ACTIVE", "RESERVED"} => sales[s].status \in {"ACTIVE", "RESERVED"},
         sales[s].status # "ABSENT",
         sales' = [sales EXCEPT ![s].status = new], UNCHANGED auctions
  PROVE  /\ sales' \in [Sale -> Market!SaleRow]
         /\ SalesAreComplete'
         /\ \A n \in Number : ListingsEnd(n)
         /\ new \notin {"ACTIVE", "RESERVED"} => \A n \in Number : s \notin SalesOf(n)'
<1>1. sales \in [Sale -> Market!SaleRow]
  BY Types DEF PInv, PaymentTypes
<1>2. [sales[s] EXCEPT !.status = new] \in Market!SaleRow
  BY <1>1 DEF Market!SaleRow
<1>3. sales' \in [Sale -> Market!SaleRow]
  BY <1>1, <1>2
<1>4. /\ \A t \in Sale \ {s} : sales'[t] = sales[t]
      /\ sales'[s].status = new
      /\ sales'[s].plate = sales[s].plate /\ sales'[s].seller = sales[s].seller
  BY <1>1 DEF Market!SaleRow
<1>5. SalesAreComplete'
  BY <1>4 DEF PInv, SalesAreComplete
<1>6. \A n \in Number : ListingsEnd(n)
  BY <1>4 DEF ListingsEnd, SalesOf, AuctionsOf
<1>7. new \notin {"ACTIVE", "RESERVED"} => \A n \in Number : s \notin SalesOf(n)'
  BY <1>4 DEF SalesOf
<1> QED
  BY <1>3, <1>5, <1>6, <1>7

LEMMA PrimaryStep ==
  ASSUME PInv, Elsewhere, NEW u \in User,
         \/ \E n \in Number : Market!SetPrimaryPlate(u, n)
         \/ Market!RepairPrimaryPlate(u)
  PROVE  PInv'
<1>1. PICK p \in Number \cup {None} :
        /\ primary' = [primary EXCEPT ![u] = p]
        /\ p # None => plates[p].owner = u
  BY DEF Market!SetPrimaryPlate, Market!RepairPrimaryPlate
<1>2. /\ UNCHANGED <<plates, wallets, journal, revenue, history, blocked, outbox, policy>>
      /\ UNCHANGED paymentVars
  BY DEF Market!SetPrimaryPlate, Market!RepairPrimaryPlate, Market!paymentVars, paymentVars
<1>3. DatabaseTypeOK /\ PaymentTypes'
  BY <1>2, Types, PaymentFrame DEF PInv
<1>4. DatabaseTypeOK'
  BY <1>1, <1>2, <1>3 DEF DatabaseTypeOK
<1>5. UNCHANGED <<sales, intents, auctions>>
  BY <1>2 DEF paymentVars, Elsewhere, auctionVars
<1>6. ASSUME NEW n \in Number PROVE Undisturbed(n)
  <2>1. \A v \in User : primary'[v] = n => primary[v] = n \/ plates[n].owner = v
    BY <1>1, <1>3, NoneIsNoRow DEF DatabaseTypeOK
  <2>2. ListingsEnd(n)
    BY <1>5 DEF ListingsEnd, SalesOf, AuctionsOf
  <2> QED
    BY <1>2, <2>1, <2>2 DEF Undisturbed
<1>7. InvoicesAreComplete' /\ SalesAreComplete' /\ InvoicesKept
  BY <1>5, RowsFrame DEF InvoicesKept
<1> QED
  BY <1>3, <1>4, <1>6, <1>7, PlateStays, MarketStepHolds DEF PInv

LEMMA CreateSaleStep ==
  ASSUME PInv, Elsewhere, NEW u \in User, NEW n \in Number, NEW s \in Sale, NEW price \in Price,
         Market!CreateSale(u, n, s, price)
  PROVE  PInv'
<1>1. /\ DatabaseTypeOK /\ sales \in [Sale -> Market!SaleRow]
      /\ price \in Nat /\ policy \in Policy
  BY Types, AmountsAreWhole, PoliciesAreValid DEF PInv, PaymentTypes, DatabaseTypeOK
<1>2. PICK row \in Market!SaleRow :
        /\ sales' = [sales EXCEPT ![s] = row]
        /\ row.status = "ACTIVE" /\ row.plate = n /\ row.seller = u
  <2>1. Commission(policy, price) \in Nat
    BY <1>1, CommissionType
  <2> DEFINE row == [status |-> "ACTIVE", plate |-> n, seller |-> u, buyer |-> None,
                     price |-> price, commission |-> Commission(policy, price)]
  <2>2. row \in Market!SaleRow
    BY <1>1, <2>1 DEF Market!SaleRow
  <2>3. sales' = [sales EXCEPT ![s] = row]
    BY DEF Market!CreateSale, Market!Commission, Commission
  <2> QED
    BY <2>2, <2>3
<1>3. /\ plates[n].owner = u /\ plates[n].status = "OWNED"
      /\ plates' = [plates EXCEPT ![n].status = "FIXED_SALE"]
      /\ UNCHANGED <<wallets, journal, revenue, history, primary, blocked, outbox, policy>>
      /\ UNCHANGED <<intents, reservations, lookup, charged, refused>>
  BY DEF Market!CreateSale
<1>4. [plates[n] EXCEPT !.status = "FIXED_SALE"] \in Plate
  BY <1>1 DEF DatabaseTypeOK, Plate, PlateStatus
<1>5. DatabaseTypeOK' /\ PaymentTypes'
  BY <1>1, <1>2, <1>3, <1>4, Types DEF PInv, DatabaseTypeOK, PaymentTypes
<1>6. /\ sales'[s] = row /\ \A t \in Sale \ {s} : sales'[t] = sales[t]
      /\ plates'[n].status = "FIXED_SALE" /\ plates'[n].owner = u
      /\ \A m \in Number \ {n} : plates'[m] = plates[m]
  BY <1>1, <1>2, <1>3 DEF DatabaseTypeOK, Plate
<1>7. InvoicesAreComplete' /\ SalesAreComplete' /\ InvoicesKept
  BY <1>2, <1>3, <1>6 DEF PInv, InvoicesAreComplete, SalesAreComplete, InvoicesKept
<1>8. UNCHANGED auctions
  BY DEF Elsewhere, auctionVars
<1>9. ASSUME NEW m \in Number \ {n} PROVE PlateHolds(m)'
  <2>1. Untouched(m)
    BY <1>2, <1>3, <1>6, <1>8 DEF Untouched, ListingsEnd, SalesOf, AuctionsOf
  <2> QED
    BY <1>7, <2>1, UntouchedStays DEF PInv
<1>10. PlateHolds(n)'
  <2>1. SalesOf(n) = {} /\ AuctionsOf(n) = {}
    BY <1>3 DEF PInv, PlateHolds, ListingHolds, Listed
  <2>2. SalesOf(n)' = {s} /\ AuctionsOf(n)' = {}
    BY <1>2, <1>6, <1>8, <2>1 DEF SalesOf, AuctionsOf
  <2>3. ListingHolds(n)'
    BY <1>2, <1>6, <2>2 DEF ListingHolds
  <2> QED
    BY <1>3, <1>6, <2>3 DEF PInv, PlateHolds
<1> QED
  BY <1>5, <1>7, <1>9, <1>10, MarketStepHolds

\* A sale is withdrawn, by its seller or by the administrator.
LEMMA WithdrawnStep ==
  ASSUME PInv, Elsewhere, NEW n \in Number, NEW s \in SalesOf(n),
         sales' = [sales EXCEPT ![s].status = "CANCELLED"],
         plates' = [plates EXCEPT ![n].status = "OWNED"],
         UNCHANGED <<wallets, journal, revenue, history, primary, blocked, outbox, policy>>,
         UNCHANGED <<intents, reservations, lookup, charged, refused>>
  PROVE  PInv'
<1>1. UNCHANGED auctions
  BY DEF Elsewhere, auctionVars
<1>2. s \in Sale /\ sales[s].status # "ABSENT" /\ sales[s].seller \in User
      /\ plates[n].owner = sales[s].seller
  BY DEF PInv, SalesAreComplete, SalesOf, PlateHolds, ListingHolds
<1>3. /\ sales' \in [Sale -> Market!SaleRow] /\ SalesAreComplete'
      /\ \A m \in Number : ListingsEnd(m)
      /\ s \notin SalesOf(n)'
  BY <1>1, <1>2, SaleChanges
<1>4. ~Listed(n)'
  BY <1>2, <1>3 DEF PInv, PlateHolds, ListingHolds, ListingsEnd, Listed
<1>5. DatabaseTypeOK
  BY Types DEF PInv
<1>6. plates[n].status # "ABSENT"
  BY <1>2, NoneIsNoRow DEF PInv, PlateHolds
<1>7. [plates[n] EXCEPT !.status = "OWNED"] \in Plate
  BY <1>5 DEF DatabaseTypeOK, Plate, PlateStatus
<1>8. StatusChanges(n)
  BY <1>4, <1>5, <1>6, <1>7 DEF StatusChanges, DatabaseTypeOK, Plate
<1>9. DatabaseTypeOK' /\ PaymentTypes'
  BY <1>3, <1>5, <1>8, Types DEF PInv, DatabaseTypeOK, PaymentTypes, StatusChanges
<1>10. InvoicesAreComplete' /\ InvoicesKept
  BY DEF PInv, InvoicesAreComplete, InvoicesKept
<1> QED
  BY <1>3, <1>8, <1>9, <1>10, StatusStep, MarketStepHolds

LEMMA CancelSaleStep ==
  ASSUME PInv, Elsewhere, NEW u \in User, NEW n \in Number, Market!CancelSale(u, n)
  PROVE  PInv'
<1>1. PICK s \in SalesOf(n) : sales' = [sales EXCEPT ![s].status = "CANCELLED"]
  BY DEF Market!CancelSale, Market!ActiveSales, SalesOf
<1> QED
  BY <1>1, WithdrawnStep DEF Market!CancelSale

LEMMA RemoveSaleStep ==
  ASSUME PInv, NEW n \in Number, RemoveSale(n) PROVE PInv'
<1>1. PICK s \in SalesOf(n) : sales' = [sales EXCEPT ![s].status = "CANCELLED"]
  BY DEF RemoveSale, Market!ActiveSales, SalesOf
<1> QED
  BY <1>1, WithdrawnStep DEF RemoveSale, Elsewhere

\* The plate as the start of a purchase leaves it.
LEMMA ReservedStep ==
  ASSUME PInv, NEW n \in Number, NEW u \in User, NEW i \in Intent,
         plates[n].status # "ABSENT", plates' = Market!Reserved(n, u, i),
         UNCHANGED <<history, primary>>
  PROVE  StatusChanges(n)
<1>1. plates \in [Number -> Plate]
  BY Types DEF PInv, DatabaseTypeOK
<1> DEFINE row == [plates[n] EXCEPT !.status = "RESERVED", !.reservedBy = u, !.reservedUntil = i]
<1>2. row \in Plate /\ row.status = "RESERVED" /\ row.owner = plates[n].owner
  BY <1>1 DEF Plate, PlateStatus
<1>3. plates' = [plates EXCEPT ![n] = row]
  BY <1>1 DEF Market!Reserved, Plate
<1> HIDE DEF row
<1> QED
  BY <1>1, <1>2, <1>3 DEF StatusChanges

LEMMA StartStatePurchaseStep ==
  ASSUME PInv, Elsewhere, NEW u \in User, NEW n \in Number, NEW i \in Intent,
         Market!StartStatePurchase(u, n, i)
  PROVE  PInv'
<1>1. /\ plates[n].status = "STATE_SALE"
      /\ Market!NewIntent(i, "STATE_PURCHASE", u, n, None, policy.state_plate_price)
      /\ plates' = Market!Reserved(n, u, i)
      /\ UNCHANGED <<wallets, journal, revenue, history, primary, blocked, outbox, policy>>
      /\ UNCHANGED <<sales, reservations, lookup, charged, refused, auctions>>
  BY DEF Market!StartStatePurchase, Elsewhere, auctionVars
<1>2. policy.state_plate_price \in Nat
  BY Types, PoliciesAreValid DEF PInv, DatabaseTypeOK, Policy
<1>3. /\ intents' \in [Intent -> Market!PaymentIntent]
      /\ InvoicesAreComplete' /\ InvoicesKept
  BY <1>1, <1>2, InvoiceStarts DEF Market!PaymentKind
<1>4. StatusChanges(n)
  BY <1>1, ReservedStep
<1>5. \A m \in Number : ListingsEnd(m)
  BY <1>1 DEF ListingsEnd, SalesOf, AuctionsOf
<1>6. DatabaseTypeOK' /\ PaymentTypes'
  BY <1>1, <1>3, <1>4, Types DEF PInv, DatabaseTypeOK, PaymentTypes, StatusChanges
<1>7. SalesAreComplete'
  BY <1>1 DEF PInv, SalesAreComplete
<1> QED
  BY <1>3, <1>4, <1>5, <1>6, <1>7, StatusStep, MarketStepHolds

LEMMA StartSalePurchaseStep ==
  ASSUME PInv, Elsewhere, NEW u \in User, NEW n \in Number, NEW i \in Intent,
         Market!StartSalePurchase(u, n, i)
  PROVE  PInv'
<1>1. PICK s \in SalesOf(n) :
        /\ Market!NewIntent(i, "SALE_PURCHASE", u, n, s, sales[s].price)
        /\ sales' = [sales EXCEPT ![s].status = "RESERVED"]
  BY DEF Market!StartSalePurchase, Market!ActiveSales, SalesOf
<1>2. /\ plates[n].status = "FIXED_SALE"
      /\ plates' = Market!Reserved(n, u, i)
      /\ UNCHANGED <<wallets, journal, revenue, history, primary, blocked, outbox, policy>>
      /\ UNCHANGED <<reservations, lookup, charged, refused, auctions>>
  BY DEF Market!StartSalePurchase, Elsewhere, auctionVars
<1>3. s \in Sale /\ sales[s].status \in {"ACTIVE", "RESERVED"}
  BY DEF SalesOf
<1>4. /\ sales' \in [Sale -> Market!SaleRow] /\ SalesAreComplete'
      /\ \A m \in Number : ListingsEnd(m)
  BY <1>1, <1>2, <1>3, SaleChanges
<1>5. sales[s].price \in Nat
  BY <1>3, Types DEF PInv, PaymentTypes, Market!SaleRow
<1>6. /\ intents' \in [Intent -> Market!PaymentIntent]
      /\ InvoicesAreComplete' /\ InvoicesKept
  BY <1>1, <1>3, <1>5, InvoiceStarts DEF Market!PaymentKind
<1>7. StatusChanges(n)
  BY <1>2, ReservedStep
<1>8. DatabaseTypeOK' /\ PaymentTypes'
  BY <1>2, <1>4, <1>6, <1>7, Types DEF PInv, DatabaseTypeOK, PaymentTypes, StatusChanges
<1> QED
  BY <1>4, <1>6, <1>7, <1>8, StatusStep, MarketStepHolds

\* The plate as the expiry of an invoice leaves it.
LEMMA ReleasedStep ==
  ASSUME PInv, NEW n \in Number, NEW new \in {"STATE_SALE", "FIXED_SALE"},
         plates[n].status # "ABSENT", plates' = Market!Released(n, new),
         UNCHANGED <<history, primary>>
  PROVE  StatusChanges(n)
<1>1. plates \in [Number -> Plate]
  BY Types DEF PInv, DatabaseTypeOK
<1> DEFINE row == [plates[n] EXCEPT !.status = new, !.reservedBy = None, !.reservedUntil = None]
<1>2. row \in Plate /\ row.status = new /\ row.owner = plates[n].owner
  BY <1>1 DEF Plate, PlateStatus
<1>3. plates' = [plates EXCEPT ![n] = row]
  BY <1>1 DEF Market!Released, Plate
<1> HIDE DEF row
<1> QED
  BY <1>1, <1>2, <1>3 DEF StatusChanges

LEMMA ExpireStatePurchaseStep ==
  ASSUME PInv, Elsewhere, NEW i \in Intent, Market!ExpireStatePurchase(i)
  PROVE  PInv'
<1>1. InvoiceChanges(i) /\ intents[i].kind = "STATE_PURCHASE"
  BY InvoiceIsClosed DEF Market!ExpireStatePurchase
<1>2. PICK n \in Number : n = intents[i].plate
  BY <1>1 DEF PInv, InvoicesAreComplete, InvoiceChanges
<1>3. /\ plates' = Market!Released(n, "STATE_SALE")
      /\ UNCHANGED <<wallets, journal, revenue, history, primary, blocked, outbox, policy>>
      /\ UNCHANGED <<sales, reservations, lookup, charged, refused, auctions>>
  BY <1>2 DEF Market!ExpireStatePurchase, Elsewhere, auctionVars
<1>4. plates[n].status # "ABSENT"
  BY <1>1, <1>2 DEF PInv, PlateHolds
<1>5. StatusChanges(n)
  BY <1>3, <1>4, ReleasedStep
<1>6. \A m \in Number : ListingsEnd(m)
  BY <1>3 DEF ListingsEnd, SalesOf, AuctionsOf
<1>7. DatabaseTypeOK' /\ PaymentTypes'
  BY <1>1, <1>3, <1>5, Types
  DEF PInv, DatabaseTypeOK, PaymentTypes, StatusChanges, InvoiceChanges
<1>8. InvoicesAreComplete' /\ InvoicesKept /\ SalesAreComplete'
  BY <1>1, <1>3, InvoiceStays DEF PInv, SalesAreComplete
<1> QED
  BY <1>5, <1>6, <1>7, <1>8, StatusStep, MarketStepHolds

LEMMA ExpireSalePurchaseStep ==
  ASSUME PInv, Elsewhere, NEW i \in Intent, Market!ExpireSalePurchase(i)
  PROVE  PInv'
<1>1. InvoiceChanges(i) /\ intents[i].kind = "SALE_PURCHASE"
  BY InvoiceIsClosed DEF Market!ExpireSalePurchase
<1>2. PICK n \in Number, s \in Sale : n = intents[i].plate /\ s = intents[i].sale
  BY <1>1 DEF PInv, InvoicesAreComplete, InvoiceChanges
<1>3. /\ \/ /\ s \in SalesOf(n)
            /\ plates' = Market!Released(n, "FIXED_SALE")
            /\ sales' = [sales EXCEPT ![s].status = "ACTIVE"]
         \/ UNCHANGED <<plates, sales>>
      /\ UNCHANGED <<wallets, journal, revenue, history, primary, blocked, outbox, policy>>
      /\ UNCHANGED <<reservations, lookup, charged, refused, auctions>>
  BY <1>2 DEF Market!ExpireSalePurchase, Market!SaleReopened, Market!ActiveSales, SalesOf,
              Elsewhere, auctionVars
<1>4. InvoicesAreComplete' /\ InvoicesKept /\ intents' \in [Intent -> Market!PaymentIntent]
  BY <1>1, InvoiceStays DEF InvoiceChanges
<1>5. DatabaseTypeOK /\ PaymentTypes
  BY Types DEF PInv
<1>6. CASE UNCHANGED <<plates, sales>>
  <2>1. DatabaseTypeOK' /\ PaymentTypes'
    BY <1>3, <1>4, <1>5, <1>6 DEF DatabaseTypeOK, PaymentTypes
  <2> QED
    BY <1>3, <1>4, <1>6, <2>1, InvoiceStep DEF Elsewhere
<1>7. CASE /\ s \in SalesOf(n)
           /\ plates' = Market!Released(n, "FIXED_SALE")
           /\ sales' = [sales EXCEPT ![s].status = "ACTIVE"]
  <2>1. sales[s].status \in {"ACTIVE", "RESERVED"}
    BY <1>7 DEF SalesOf
  <2>2. /\ sales' \in [Sale -> Market!SaleRow] /\ SalesAreComplete'
        /\ \A m \in Number : ListingsEnd(m)
    BY <1>3, <1>7, <2>1, SaleChanges
  <2>3. plates[n].status # "ABSENT"
    BY <1>7, <2>1, NoneIsNoRow DEF PInv, PlateHolds, ListingHolds, SalesAreComplete
  <2>4. StatusChanges(n)
    BY <1>3, <1>7, <2>3, ReleasedStep
  <2>5. DatabaseTypeOK' /\ PaymentTypes'
    BY <1>3, <1>4, <1>5, <2>2, <2>4 DEF DatabaseTypeOK, PaymentTypes, StatusChanges
  <2> QED
    BY <1>4, <2>2, <2>4, <2>5, StatusStep, MarketStepHolds
<1> QED
  BY <1>3, <1>6, <1>7

-----------------------------------------------------------------------------
(* Deliveries of plates                                                    *)

LEMMA MoveStep ==
  ASSUME PInv, InvoicesKept, NEW n \in Number, NEW new \in User \cup {None},
         NEW operation \in OwnershipOperation, Moves(n, new, operation),
         \A m \in Number \ {n} : Untouched(m)
  PROVE  \A m \in Number : PlateHolds(m)'
<1>1. PlateHolds(n)'
  BY Types, PlateMoves DEF PInv
<1>2. ASSUME NEW m \in Number \ {n} PROVE PlateHolds(m)'
  BY <1>2, UntouchedStays DEF PInv
<1> QED
  BY <1>1, <1>2

LEMMA DeliveredPlate ==
  ASSUME PInv, NEW n \in Number, NEW u \in User, plates' = Market!Delivered(n, u)
  PROVE  /\ plates' \in [Number -> Plate]
         /\ plates'[n].owner = u /\ plates'[n].status = "OWNED"
         /\ \A m \in Number \ {n} : plates'[m] = plates[m]
<1>1. plates \in [Number -> Plate]
  BY Types DEF PInv, DatabaseTypeOK
<1> DEFINE row == [status |-> "OWNED", owner |-> u, reservedBy |-> None, reservedUntil |-> None]
<1>2. row \in Plate /\ row.owner = u /\ row.status = "OWNED"
  BY DEF Plate, PlateStatus
<1>3. plates' = [plates EXCEPT ![n] = row]
  BY DEF Market!Delivered
<1> HIDE DEF row
<1> QED
  BY <1>1, <1>2, <1>3

LEMMA TransferRecorded ==
  ASSUME PInv, NEW n \in Number, NEW old \in User \cup {None}, NEW new \in User \cup {None},
         NEW operation \in OwnershipOperation,
         history' = WithTransfer(history, n, old, new, operation)
  PROVE  /\ history' \in [Number -> Seq(OwnershipHistory)]
         /\ history'[n] = Append(history[n], [old |-> old, new |-> new, operation |-> operation])
         /\ \A m \in Number \ {n} : history'[m] = history[m]
<1>1. history \in [Number -> Seq(OwnershipHistory)]
  BY Types DEF PInv, DatabaseTypeOK
<1>2. history' \in [Number -> Seq(OwnershipHistory)]
  BY <1>1, WithTransferType
<1> QED
  BY <1>1, <1>2 DEF WithTransfer

\* A plate without an owner is not listed and shown in no profile.
LEMMA OwnerlessPlate ==
  ASSUME PInv, NEW n \in Number, plates[n].owner = None
  PROVE  ~Listed(n) /\ \A u \in User : primary[u] # n
BY NoneIsNoRow
DEF PInv, PlateHolds, ListingHolds, Listed, SalesOf, AuctionsOf, SalesAreComplete, AuctionHolds

\* The State's two sales: the emission of a number and the sale of its plates.
LEMMA CompleteStateStep ==
  ASSUME PInv, Elsewhere, NEW c \in Charge, NEW i \in Intent,
         Market!CompleteStateEmission(c, i) \/ Market!CompleteStatePurchase(c, i)
  PROVE  PInv'
<1>1. PICK kind \in {"STATE_EMISSION", "STATE_PURCHASE"} :
        Market!Payable(i, kind) /\ Market!Paid(i, c)
  BY DEF Market!CompleteStateEmission, Market!CompleteStatePurchase
<1>2. InvoiceChanges(i) /\ intents[i].kind = kind
  BY <1>1, InvoiceIsPaid DEF Market!Payable
<1>3. PICK u \in User, n \in Number : u = intents[i].user /\ n = intents[i].plate
  BY <1>1, <1>2 DEF PInv, InvoicesAreComplete, InvoiceChanges
<1>4. PICK operation \in {"STATE_EMISSION", "SALE"} :
        /\ plates[n].owner = None
        /\ plates[n].status = "ABSENT" <=> operation = "STATE_EMISSION"
        /\ history' = WithTransfer(history, n, None, u, operation)
  <2>1. CASE Market!CompleteStateEmission(c, i)
    BY <1>3, <2>1 DEF Market!CompleteStateEmission, Market!EmissionOpen, PInv, PlateHolds,
                      Market!WithTransfer, WithTransfer
  <2>2. CASE Market!CompleteStatePurchase(c, i)
    BY <1>3, <2>2 DEF Market!CompleteStatePurchase, Market!StatePurchaseOpen,
                      Market!WithTransfer, WithTransfer
  <2> QED
    BY <2>1, <2>2
<1>5. /\ plates' = Market!Delivered(n, u)
      /\ revenue' = revenue + intents[i].amount
      /\ outbox' = Queued(outbox, u, "PLATE_PURCHASED")
      /\ reservations' = reservations \/ reservations' = [reservations EXCEPT ![n] = None]
      /\ UNCHANGED <<wallets, journal, primary, blocked, policy>>
      /\ UNCHANGED <<sales, lookup, charged, refused, auctions>>
  BY <1>3 DEF Market!CompleteStateEmission, Market!CompleteStatePurchase, Market!Queued, Queued,
              Elsewhere, auctionVars
<1>6. DatabaseTypeOK /\ PaymentTypes /\ intents[i].amount \in Nat
  BY Types DEF PInv, PaymentTypes, Market!PaymentIntent
<1>7. operation \in OwnershipOperation
  BY DEF OwnershipOperation
<1>8. /\ plates' \in [Number -> Plate] /\ history' \in [Number -> Seq(OwnershipHistory)]
      /\ plates'[n].owner = u /\ plates'[n].status = "OWNED"
      /\ history'[n] = Append(history[n], [old |-> None, new |-> u, operation |-> operation])
      /\ \A m \in Number \ {n} : plates'[m] = plates[m] /\ history'[m] = history[m]
  BY <1>4, <1>5, <1>7, DeliveredPlate, TransferRecorded
<1>9. outbox' \in [User -> [NotificationType -> Nat]]
  BY <1>5, <1>6, QueuedType DEF DatabaseTypeOK, NotificationType
<1>10. DatabaseTypeOK' /\ PaymentTypes'
  <2>1. DatabaseTypeOK'
    BY <1>5, <1>6, <1>8, <1>9 DEF DatabaseTypeOK
  <2>2. reservations' \in [Number -> Intent \cup {None}]
    BY <1>5, <1>6 DEF PaymentTypes
  <2>3. PaymentTypes'
    BY <1>2, <1>5, <1>6, <2>2 DEF PaymentTypes, InvoiceChanges
  <2> QED
    BY <2>1, <2>3
<1>11. InvoicesAreComplete' /\ InvoicesKept /\ SalesAreComplete'
  BY <1>2, <1>5, InvoiceStays DEF PInv, SalesAreComplete
<1>12. Moves(n, u, operation)
  BY <1>4, <1>5, <1>8, OwnerlessPlate DEF Moves, Listed, SalesOf, AuctionsOf
<1>13. \A m \in Number \ {n} : Untouched(m)
  BY <1>5, <1>8 DEF Untouched, ListingsEnd, SalesOf, AuctionsOf
<1> QED
  BY <1>7, <1>10, <1>11, <1>12, <1>13, MoveStep, MarketStepHolds

LEMMA CompleteSalePurchaseStep ==
  ASSUME PInv, Elsewhere, NEW c \in Charge, NEW i \in Intent, Market!CompleteSalePurchase(c, i)
  PROVE  PInv'
<1>1. InvoiceChanges(i) /\ intents[i].kind = "SALE_PURCHASE"
  BY InvoiceIsPaid DEF Market!CompleteSalePurchase, Market!Payable
<1>2. PICK buyer \in User, n \in Number, s \in Sale :
        buyer = intents[i].user /\ n = intents[i].plate /\ s = intents[i].sale
  BY <1>1 DEF PInv, InvoicesAreComplete, InvoiceChanges
<1>3. s \in SalesOf(n) /\ sales[s].status # "ABSENT"
  BY <1>2 DEF Market!CompleteSalePurchase, Market!SalePurchaseOpen, Market!ActiveSales, SalesOf
<1>4. PICK seller \in User : seller = sales[s].seller /\ plates[n].owner = seller
  BY <1>3 DEF PInv, SalesAreComplete, PlateHolds, ListingHolds
<1>5. DatabaseTypeOK /\ PaymentTypes /\ sales[s] \in Market!SaleRow
  BY Types DEF PInv, PaymentTypes
<1>6. PICK amount \in Int : amount = sales[s].price - sales[s].commission
  BY <1>5 DEF Market!SaleRow
<1>7. PICK w : w = Credited(wallets[seller], amount)
  OBVIOUS
<1>8. /\ CanCredit(amount)
      /\ wallets' = [wallets EXCEPT ![seller] = w]
      /\ journal' = [journal EXCEPT ![seller] = Recorded(@, wallets[seller], w)]
  BY <1>2, <1>4, <1>6, <1>7
  DEF Market!CompleteSalePurchase, Market!SalePurchaseOpen, Market!CanCredit, CanCredit,
      Market!Credited, Credited, Market!Recorded, Recorded
<1>9. /\ revenue' = revenue + sales[s].commission
      /\ plates' = Market!Delivered(n, buyer)
      /\ primary' = WithoutPrimary(n)
      /\ UNCHANGED <<blocked, policy, reservations, lookup, charged, refused, auctions>>
  BY <1>2 DEF Market!CompleteSalePurchase, Market!WithoutPrimary, WithoutPrimary,
              Elsewhere, auctionVars
<1>10. history' = WithTransfer(history, n, seller, buyer, "SALE")
  BY <1>2, <1>4 DEF Market!CompleteSalePurchase, Market!SaleRecorded, Market!WithTransfer,
                    WithTransfer
<1>11. outbox' = Queued(Queued(outbox, seller, "SALE_COMPLETED"), buyer, "PLATE_PURCHASED")
  BY <1>2, <1>4 DEF Market!CompleteSalePurchase, Market!BothNotified, Market!Queued, Queued
<1>12. w \in Wallet /\ Recorded(journal[seller], wallets[seller], w) \in Totals
  BY <1>5, <1>7, <1>8, CreditedType, RecordedType DEF DatabaseTypeOK
<1>13. outbox' \in [User -> [NotificationType -> Nat]]
  <2>1. Queued(outbox, seller, "SALE_COMPLETED") \in [User -> [NotificationType -> Nat]]
    BY <1>5, QueuedType DEF DatabaseTypeOK, NotificationType
  <2> QED
    BY <1>11, <2>1, QueuedType DEF NotificationType
<1>14. sales' = [sales EXCEPT ![s] = [sales[s] EXCEPT !.status = "COMPLETED", !.buyer = buyer]]
  BY <1>2, <1>5 DEF Market!CompleteSalePurchase, PaymentTypes, Market!SaleRow
<1>15. /\ sales' \in [Sale -> Market!SaleRow]
       /\ sales'[s].status = "COMPLETED"
       /\ sales'[s].plate = sales[s].plate /\ sales'[s].seller = sales[s].seller
       /\ \A t \in Sale \ {s} : sales'[t] = sales[t]
  <2>1. [sales[s] EXCEPT !.status = "COMPLETED", !.buyer = buyer] \in Market!SaleRow
    BY <1>5 DEF Market!SaleRow
  <2> QED
    BY <1>5, <1>14, <2>1 DEF PaymentTypes, Market!SaleRow
<1>16. SalesAreComplete'
  BY <1>3, <1>15 DEF PInv, SalesAreComplete
<1>17. /\ plates' \in [Number -> Plate] /\ history' \in [Number -> Seq(OwnershipHistory)]
       /\ plates'[n].owner = buyer /\ plates'[n].status = "OWNED"
       /\ history'[n] = Append(history[n], [old |-> seller, new |-> buyer, operation |-> "SALE"])
       /\ \A m \in Number \ {n} : plates'[m] = plates[m] /\ history'[m] = history[m]
  <2>1. "SALE" \in OwnershipOperation /\ seller \in User \cup {None}
    BY DEF OwnershipOperation
  <2>2. /\ history' \in [Number -> Seq(OwnershipHistory)]
        /\ history'[n] = Append(history[n], [old |-> seller, new |-> buyer, operation |-> "SALE"])
        /\ \A m \in Number \ {n} : history'[m] = history[m]
    BY <1>10, <2>1, TransferRecorded
  <2> QED
    BY <1>9, <2>2, DeliveredPlate
<1>18. primary' \in [User -> Number \cup {None}]
  BY <1>5, <1>9, WithoutPrimaryType DEF DatabaseTypeOK
<1>19. sales[s].commission \in Nat
  BY <1>5 DEF Market!SaleRow
<1>20. DatabaseTypeOK' /\ PaymentTypes'
  <2>1. wallets' \in [User -> Wallet] /\ journal' \in [User -> Totals]
    BY <1>5, <1>8, <1>12 DEF DatabaseTypeOK
  <2> QED
    BY <1>1, <1>5, <1>9, <1>13, <1>15, <1>17, <1>18, <1>19, <2>1
    DEF DatabaseTypeOK, PaymentTypes, InvoiceChanges
<1>21. InvoicesAreComplete' /\ InvoicesKept
  BY <1>1, InvoiceStays
<1>22. Moves(n, buyer, "SALE")
  <2>1. ~Listed(n)'
    BY <1>3, <1>9, <1>15 DEF PInv, PlateHolds, ListingHolds, Listed, SalesOf, AuctionsOf
  <2>2. plates[n].status # "ABSENT"
    BY <1>4, NoneIsNoRow DEF PInv, PlateHolds
  <2>3. \A u \in User : primary'[u] # n
    BY <1>9, NoneIsNoRow DEF WithoutPrimary
  <2> QED
    BY <1>4, <1>17, <2>1, <2>2, <2>3 DEF Moves
<1>23. ASSUME NEW m \in Number \ {n} PROVE Untouched(m)
  <2>1. ListingsEnd(m)
    BY <1>3, <1>9, <1>15 DEF ListingsEnd, SalesOf, AuctionsOf
  <2>2. \A u \in User : primary'[u] = m => primary[u] = m
    BY <1>9, NoneIsNoRow DEF WithoutPrimary
  <2> QED
    BY <1>17, <2>1, <2>2 DEF Untouched
<1> QED
  BY <1>16, <1>20, <1>21, <1>22, <1>23, MoveStep, MarketStepHolds DEF OwnershipOperation

LEMMA MarketOperations ==
  ASSUME PInv, MarketStep PROVE PInv'
<1>1. Elsewhere
  BY DEF MarketStep, Elsewhere
<1>2. CASE \E u \in User : Market!UserOperation(u)
  BY <1>1, <1>2, StartTopUpStep, ReserveNumberStep, StartStatePurchaseStep,
     StartSalePurchaseStep, MarketAsideStep, PrimaryStep, CreateSaleStep, CancelSaleStep
  DEF Market!UserOperation
<1>3. CASE \E i \in Intent, c \in Charge : Market!PayInvoice(i, c)
  BY <1>1, <1>3, MarketAsideStep
<1>4. CASE \E i \in Intent : Market!InvoiceFallsDue(i) \/ Market!ExpirePendingPayment(i)
  BY <1>1, <1>4, InvoiceClosesStep, ExpireStatePurchaseStep, ExpireSalePurchaseStep
  DEF Market!ExpirePendingPayment
<1>5. ASSUME NEW c \in Charge, Market!CompleteTelegramPayment(c) PROVE PInv'
  <2>1. PICK i \in Intent : i = charged[c]
    BY <1>5, Types DEF PInv, PaymentTypes, Market!CompleteTelegramPayment
  <2>2. \/ Market!CompleteTopUp(c, i) \/ Market!CompleteStateEmission(c, i)
        \/ Market!CompleteStatePurchase(c, i) \/ Market!CompleteSalePurchase(c, i)
        \/ Market!RefusePayment(c, i)
    BY <1>5, <2>1 DEF Market!CompleteTelegramPayment
  <2> QED
    BY <1>1, <2>2, CompleteTopUpStep, CompleteStateStep, CompleteSalePurchaseStep,
       MarketAsideStep
<1> QED
  BY <1>2, <1>3, <1>4, <1>5 DEF MarketStep

-----------------------------------------------------------------------------
(* Auctions                                                                *)

\* What Auctions leaves alone in Platform.
Apart == UNCHANGED <<paymentVars, accountVars>>

LEMMA AuctionStepHolds ==
  ASSUME PInv, Apart, DatabaseTypeOK', AuctionTypes',
         \A a \in Auction : AuctionHolds(a)', \A n \in Number : PlateHolds(n)'
  PROVE  PInv'
<1>1. PaymentTypes' /\ AccountTypes' /\ InvoicesAreComplete' /\ SalesAreComplete'
  BY Types, PaymentFrame, AccountFrame, RowsFrame DEF PInv, Apart, paymentVars
<1> QED
  BY <1>1, TypesPrimed DEF PInv

LEMMA InvoicesAreKept ==
  ASSUME Apart PROVE InvoicesKept
BY DEF Apart, paymentVars, InvoicesKept

\* An auction gets another row; it is not opened again.
LEMMA AuctionChanges ==
  ASSUME PInv, Apart, NEW a \in Auction, NEW row \in Auctioning!AuctionRow,
         row.plate = auctions[a].plate, row.seller = auctions[a].seller,
         row.status \in {"ACTIVE", "EXTENDED"} => auctions[a].status \in {"ACTIVE", "EXTENDED"},
         auctions' = [auctions EXCEPT ![a] = row]
  PROVE  /\ auctions' \in [Auction -> Auctioning!AuctionRow]
         /\ auctions'[a] = row /\ \A b \in Auction \ {a} : auctions'[b] = auctions[b]
         /\ \A n \in Number : ListingsEnd(n)
         /\ row.status \notin {"ACTIVE", "EXTENDED"} => \A n \in Number : a \notin AuctionsOf(n)'
<1>1. auctions \in [Auction -> Auctioning!AuctionRow]
  BY Types DEF PInv, AuctionTypes
<1>2. auctions'[a] = row /\ \A b \in Auction \ {a} : auctions'[b] = auctions[b]
  BY <1>1
<1>3. UNCHANGED sales
  BY DEF Apart, paymentVars
<1> QED
  BY <1>1, <1>2, <1>3 DEF ListingsEnd, SalesOf, AuctionsOf

LEMMA OtherAuctionsHold ==
  ASSUME PInv, NEW a \in Auction,
         \A b \in Auction \ {a} : auctions'[b] = auctions[b] /\ bidding'[b] = bidding[b],
         AuctionHolds(a)'
  PROVE  \A b \in Auction : AuctionHolds(b)'
<1>1. ASSUME NEW b \in Auction \ {a} PROVE AuctionHolds(b)'
  BY <1>1 DEF PInv, AuctionHolds
<1> QED
  BY <1>1

LEMMA CreateStep ==
  ASSUME PInv, Apart, NEW u \in User, NEW n \in Number, NEW a \in Auction,
         NEW start \in StartPrice, NEW duration \in Duration,
         Auctioning!Create(u, n, a, start, duration)
  PROVE  PInv'
<1>1. /\ DatabaseTypeOK /\ AuctionTypes
      /\ start \in Nat /\ duration \in Nat /\ now \in Nat /\ policy \in Policy
  BY Types, AmountsAreWhole, PoliciesAreValid DEF PInv, AuctionTypes, DatabaseTypeOK
<1>2. /\ auctions[a].status = "ABSENT" /\ start > 0
      /\ plates[n].owner = u /\ plates[n].status = "OWNED"
      /\ plates' = [plates EXCEPT ![n].status = "AUCTION"]
      /\ UNCHANGED <<wallets, journal, revenue, history, primary, blocked, outbox, policy>>
      /\ UNCHANGED <<bids, bidding, now, sales, intents>>
  BY <1>1 DEF Auctioning!Create, Auctioning!ValidSalePrice, Apart, paymentVars, Policy
<1>3. PICK row \in Auctioning!AuctionRow :
        /\ auctions' = [auctions EXCEPT ![a] = row]
        /\ row.status = "ACTIVE" /\ row.plate = n /\ row.seller = u
        /\ row.leader = None /\ row.start = start
  <2> DEFINE row == [status |-> "ACTIVE", plate |-> n, seller |-> u, start |-> start,
                     price |-> start, leader |-> None, startedAt |-> now,
                     endsAt |-> now + duration]
  <2>1. row \in Auctioning!AuctionRow
    BY <1>1 DEF Auctioning!AuctionRow, Auctioning!Open
  <2>2. auctions' = [auctions EXCEPT ![a] = row]
    BY DEF Auctioning!Create
  <2> QED
    BY <2>1, <2>2
<1>4. [plates[n] EXCEPT !.status = "AUCTION"] \in Plate
  BY <1>1 DEF DatabaseTypeOK, Plate, PlateStatus
<1>5. DatabaseTypeOK' /\ AuctionTypes'
  BY <1>1, <1>2, <1>3, <1>4 DEF DatabaseTypeOK, AuctionTypes
<1>6. /\ auctions'[a] = row /\ \A b \in Auction \ {a} : auctions'[b] = auctions[b]
      /\ plates'[n].status = "AUCTION" /\ plates'[n].owner = u
      /\ \A m \in Number \ {n} : plates'[m] = plates[m]
  BY <1>1, <1>2, <1>3 DEF DatabaseTypeOK, AuctionTypes, Plate
<1>7. bidding[a].bidder = None
  BY <1>2 DEF PInv, AuctionHolds
<1>8. \A b \in Auction : AuctionHolds(b)'
  <2>1. AuctionHolds(a)'
    BY <1>2, <1>3, <1>6, <1>7 DEF AuctionHolds
  <2> QED
    BY <1>2, <1>6, <2>1, OtherAuctionsHold
<1>9. ASSUME NEW m \in Number \ {n} PROVE PlateHolds(m)'
  <2>1. Untouched(m)
    BY <1>2, <1>3, <1>6 DEF Untouched, ListingsEnd, SalesOf, AuctionsOf
  <2> QED
    BY <2>1, InvoicesAreKept, UntouchedStays DEF PInv
<1>10. PlateHolds(n)'
  <2>1. SalesOf(n) = {} /\ AuctionsOf(n) = {}
    BY <1>2 DEF PInv, PlateHolds, ListingHolds, Listed
  <2>2. SalesOf(n)' = {} /\ AuctionsOf(n)' = {a}
    BY <1>2, <1>3, <1>6, <2>1 DEF SalesOf, AuctionsOf
  <2>3. ListingHolds(n)'
    BY <1>3, <1>6, <2>2 DEF ListingHolds
  <2> QED
    BY <1>2, <1>6, <2>3 DEF PInv, PlateHolds
<1> QED
  BY <1>5, <1>8, <1>9, <1>10, AuctionStepHolds

\* An auction ends with nothing sold.
LEMMA UnsoldStep ==
  ASSUME PInv, Apart, NEW a \in Auction, NEW new \in {"FINISHED", "CANCELLED"},
         auctions[a].status \in {"ACTIVE", "EXTENDED"}, bidding[a].bidder = None,
         auctions' = [auctions EXCEPT ![a].status = new],
         plates' = [plates EXCEPT ![auctions[a].plate].status = "OWNED"],
         outbox' = outbox \/ outbox' = Queued(outbox, auctions[a].seller, "AUCTION_FINISHED"),
         UNCHANGED <<wallets, journal, revenue, history, primary, blocked, policy>>,
         UNCHANGED <<bids, bidding, now>>
  PROVE  PInv'
<1>1. DatabaseTypeOK /\ AuctionTypes
  BY Types DEF PInv
<1>2. PICK n \in Number, seller \in User : n = auctions[a].plate /\ seller = auctions[a].seller
  BY DEF PInv, AuctionHolds
<1>3. PICK row \in Auctioning!AuctionRow :
        /\ auctions' = [auctions EXCEPT ![a] = row]
        /\ row = [auctions[a] EXCEPT !.status = new]
  <2> DEFINE ended == [auctions[a] EXCEPT !.status = new]
  <2>1. ended \in Auctioning!AuctionRow
    <3>1. auctions[a] \in Auctioning!AuctionRow
      BY <1>1 DEF AuctionTypes
    <3> QED
      BY <3>1 DEF Auctioning!AuctionRow
  <2>2. auctions' = [auctions EXCEPT ![a] = ended]
    OBVIOUS
  <2> QED
    BY <2>1, <2>2
<1>4. /\ row.status = new /\ row.plate = n /\ row.seller = seller
      /\ row.leader = auctions[a].leader /\ row.price = auctions[a].price
      /\ row.start = auctions[a].start
  BY <1>1, <1>2, <1>3 DEF AuctionTypes, Auctioning!AuctionRow
<1>5. /\ auctions' \in [Auction -> Auctioning!AuctionRow]
      /\ auctions'[a] = row /\ \A b \in Auction \ {a} : auctions'[b] = auctions[b]
      /\ \A m \in Number : ListingsEnd(m)
      /\ a \notin AuctionsOf(n)'
  <2>1. row.plate = auctions[a].plate /\ row.seller = auctions[a].seller
    BY <1>2, <1>4
  <2>2. row.status \notin {"ACTIVE", "EXTENDED"}
    BY <1>4
  <2> QED
    BY <1>3, <2>1, <2>2, AuctionChanges
<1>6. AuctionHolds(a)'
  BY <1>4, <1>5 DEF PInv, AuctionHolds
<1>7. a \in AuctionsOf(n)
  BY <1>2 DEF AuctionsOf
<1>8. ~Listed(n)'
  BY <1>5, <1>7 DEF PInv, PlateHolds, ListingHolds, ListingsEnd, Listed
<1>9. plates[n].status # "ABSENT"
  BY <1>2, <1>7, NoneIsNoRow DEF PInv, PlateHolds, ListingHolds
<1>10. plates[n] \in Plate /\ [plates[n] EXCEPT !.status = "OWNED"] \in Plate
  <2>1. plates[n] \in Plate
    BY <1>1 DEF DatabaseTypeOK
  <2> QED
    BY <2>1 DEF Plate, PlateStatus
<1>11. StatusChanges(n)
  BY <1>1, <1>2, <1>8, <1>9, <1>10 DEF StatusChanges, DatabaseTypeOK, Plate
<1>12. outbox' \in [User -> [NotificationType -> Nat]]
  <2>1. outbox \in [User -> [NotificationType -> Nat]]
    BY <1>1 DEF DatabaseTypeOK
  <2>2. Queued(outbox, seller, "AUCTION_FINISHED") \in [User -> [NotificationType -> Nat]]
    BY <2>1, QueuedType DEF NotificationType
  <2>3. outbox' = outbox \/ outbox' = Queued(outbox, seller, "AUCTION_FINISHED")
    BY <1>2
  <2> QED
    BY <2>1, <2>2, <2>3
<1>13. DatabaseTypeOK' /\ AuctionTypes'
  BY <1>1, <1>5, <1>11, <1>12 DEF DatabaseTypeOK, AuctionTypes, StatusChanges
<1> QED
  BY <1>5, <1>6, <1>11, <1>13, InvoicesAreKept, StatusStep, OtherAuctionsHold, AuctionStepHolds

LEMMA CancelStep ==
  ASSUME PInv, Apart, NEW u \in User, NEW a \in Auction, Auctioning!Cancel(u, a)
  PROVE  PInv'
<1>1. auctions[a].status \in {"ACTIVE", "EXTENDED"} /\ bidding[a].bidder = None
  BY DEF Auctioning!Cancel, Auctioning!Cancellable, Auctioning!IsOpen, Auctioning!Open,
         Auctioning!Unlocked, Auctioning!NoAttempt
<1> QED
  BY <1>1, UnsoldStep DEF Auctioning!Cancel

LEMMA FinishUnsoldStep ==
  ASSUME PInv, Apart, NEW a \in Auction, Auctioning!FinishUnsold(a, TRUE)
  PROVE  PInv'
<1>1. auctions[a].status \in {"ACTIVE", "EXTENDED"} /\ bidding[a].bidder = None
  BY DEF Auctioning!FinishUnsold, Auctioning!Finishable, Auctioning!IsOpen, Auctioning!Open,
         Auctioning!Unlocked, Auctioning!NoAttempt
<1> QED
  BY <1>1, UnsoldStep DEF Auctioning!FinishUnsold, Auctioning!BackToOwner, Auctioning!Queued,
     Queued

-----------------------------------------------------------------------------
(* Bids                                                                    *)

LEMMA BidStays ==
  ASSUME PInv, Apart, DatabaseTypeOK', AuctionTypes', NEW a \in Auction,
         \A n \in Number : ListingsEnd(n), UNCHANGED <<plates, history, primary>>,
         \A b \in Auction \ {a} : auctions'[b] = auctions[b] /\ bidding'[b] = bidding[b],
         AuctionHolds(a)'
  PROVE  PInv'
<1>1. ASSUME NEW n \in Number PROVE PlateHolds(n)'
  <2>1. Untouched(n)
    BY DEF Untouched
  <2> QED
    BY <2>1, InvoicesAreKept, UntouchedStays DEF PInv
<1>2. \A b \in Auction : AuctionHolds(b)'
  BY OtherAuctionsHold
<1> QED
  BY <1>1, <1>2, AuctionStepHolds

LEMMA NoAttemptType == Auctioning!NoAttempt \in Auctioning!Attempt
BY DEF Auctioning!NoAttempt, Auctioning!Attempt, Auctioning!NoWallet, Auctioning!Wallet

LEMMA BidReadsStep ==
  ASSUME PInv, Apart, NEW u \in User, NEW a \in Auction, NEW amount \in Amount,
         NEW at \in auctions[a].startedAt..now, Auctioning!BidReads(u, a, amount, at)
  PROVE  PInv'
<1>1. DatabaseTypeOK /\ AuctionTypes
  BY Types DEF PInv
<1>2. /\ auctions[a] \in Auctioning!AuctionRow /\ wallets[u] \in Wallet
      /\ policy.auction_min_increment \in Nat \ {0}
      /\ amount \in Nat /\ at \in Nat
  <2>1. auctions[a] \in Auctioning!AuctionRow /\ wallets[u] \in Wallet /\ policy \in Policy
    BY <1>1, PoliciesAreValid DEF DatabaseTypeOK, AuctionTypes
  <2>2. now \in Nat
    BY <1>1, AmountsAreWhole DEF AuctionTypes
  <2> QED
    BY <2>1, <2>2, AmountsAreWhole DEF Auctioning!AuctionRow, Policy
<1>3. PICK try \in Auctioning!Attempt :
        /\ bidding' = [bidding EXCEPT ![a] = try]
        /\ try.bidder = u /\ try.amount = amount
  <2> DEFINE try == [bidder |-> u, amount |-> amount, at |-> at, seen |-> wallets[u]]
  <2>1. try \in Auctioning!Attempt
    BY <1>2 DEF Auctioning!Attempt, Auctioning!Wallet, Wallet
  <2>2. bidding' = [bidding EXCEPT ![a] = try]
    BY DEF Auctioning!BidReads
  <2> QED
    BY <2>1, <2>2
<1>4. /\ auctions[a].status \in {"ACTIVE", "EXTENDED"}
      /\ u \notin {auctions[a].seller, auctions[a].leader}
      /\ amount >= IF auctions[a].leader = None THEN auctions[a].start
                   ELSE auctions[a].price + policy.auction_min_increment
      /\ UNCHANGED <<databaseVars, auctions, bids, now, sales>>
  BY DEF Auctioning!BidReads, Auctioning!IsOpen, Auctioning!Open, Auctioning!Minimum,
         Auctioning!databaseVars, databaseVars, Apart, paymentVars
<1>5. bidding'[a] = try /\ \A b \in Auction \ {a} : bidding'[b] = bidding[b]
  BY <1>1, <1>3 DEF AuctionTypes
<1>6. AuctionHolds(a)'
  <2>1. amount > 0
    BY <1>2, <1>4 DEF PInv, AuctionHolds, Auctioning!AuctionRow
  <2> QED
    BY <1>3, <1>4, <1>5, <2>1 DEF PInv, AuctionHolds
<1>7. DatabaseTypeOK' /\ AuctionTypes'
  BY <1>1, <1>3, <1>4, DatabaseFrame DEF AuctionTypes
<1>8. \A n \in Number : ListingsEnd(n)
  BY <1>4 DEF ListingsEnd, SalesOf, AuctionsOf
<1> QED
  BY <1>4, <1>5, <1>6, <1>7, <1>8, BidStays DEF databaseVars

LEMMA BidFailsStep ==
  ASSUME PInv, Apart, NEW a \in Auction, Auctioning!BidFails(a)
  PROVE  PInv'
<1>1. DatabaseTypeOK /\ AuctionTypes
  BY Types DEF PInv
<1>2. /\ bidding' = [bidding EXCEPT ![a] = Auctioning!NoAttempt]
      /\ UNCHANGED <<databaseVars, auctions, bids, now, sales>>
  BY DEF Auctioning!BidFails, Auctioning!databaseVars, databaseVars, Apart, paymentVars
<1>3. bidding'[a].bidder = None /\ \A b \in Auction \ {a} : bidding'[b] = bidding[b]
  BY <1>1, <1>2 DEF AuctionTypes, Auctioning!NoAttempt
<1>4. AuctionHolds(a)'
  BY <1>2, <1>3 DEF PInv, AuctionHolds
<1>5. DatabaseTypeOK' /\ AuctionTypes'
  BY <1>1, <1>2, DatabaseFrame, NoAttemptType DEF AuctionTypes
<1>6. \A n \in Number : ListingsEnd(n)
  BY <1>2 DEF ListingsEnd, SalesOf, AuctionsOf
<1> QED
  BY <1>2, <1>3, <1>4, <1>5, <1>6, BidStays DEF databaseVars

LEMMA TickStep ==
  ASSUME PInv, Apart, Auctioning!Tick PROVE PInv'
<1>1. DatabaseTypeOK /\ PaymentTypes /\ AuctionTypes /\ AccountTypes
  BY Types DEF PInv
<1>2. UNCHANGED <<databaseVars, auctions, bids, bidding>> /\ now' \in 0..MaxTime
  BY <1>1, AmountsAreWhole
  DEF Auctioning!Tick, Auctioning!databaseVars, databaseVars, AuctionTypes
<1>3. DatabaseTypeOK' /\ PaymentTypes' /\ AuctionTypes' /\ AccountTypes'
  BY <1>1, <1>2, DatabaseFrame, PaymentFrame, AccountFrame DEF Apart, AuctionTypes
<1> QED
  BY <1>2, <1>3, AsideStep DEF databaseVars, Apart, paymentVars

\* The row of an auction after an extension.
LEMMA ExtendedRow ==
  ASSUME NEW row \in Auctioning!AuctionRow, policy \in Policies
  PROVE  LET longer == Auctioning!Extended(row)
         IN /\ longer \in Auctioning!AuctionRow
            /\ longer.status = "EXTENDED" /\ longer.plate = row.plate
            /\ longer.seller = row.seller /\ longer.start = row.start
            /\ longer.price = row.price /\ longer.leader = row.leader
<1>1. PICK end \in Nat : end = row.endsAt + policy.auction_sniping
  BY PoliciesAreValid DEF Policy, Auctioning!AuctionRow
<1>2. Auctioning!Extended(row) = [row EXCEPT !.endsAt = end, !.status = "EXTENDED"]
  BY <1>1 DEF Auctioning!Extended, Auctioning!AuctionRow
<1> QED
  BY <1>2 DEF Auctioning!AuctionRow, Auctioning!Open

LEMMA RepairSnipingStep ==
  ASSUME PInv, Apart, NEW a \in Auction, NEW k \in DOMAIN bids[a],
         Auctioning!RepairSniping(a, k)
  PROVE  PInv'
<1>1. DatabaseTypeOK /\ AuctionTypes
  BY Types DEF PInv
<1>2. auctions[a] \in Auctioning!AuctionRow /\ policy \in Policies
  BY <1>1 DEF DatabaseTypeOK, AuctionTypes
<1>3. /\ bids' = [bids EXCEPT ![a][k].applied = TRUE]
      /\ \/ UNCHANGED auctions
         \/ /\ auctions[a].status \in {"ACTIVE", "EXTENDED"}
            /\ auctions' = [auctions EXCEPT ![a] = Auctioning!Extended(auctions[a])]
      /\ UNCHANGED <<databaseVars, bidding, now, sales>>
  BY DEF Auctioning!RepairSniping, Auctioning!Marked, Auctioning!IsOpen, Auctioning!Open,
         Auctioning!databaseVars, databaseVars, Apart, paymentVars
<1>4. PICK row \in Auctioning!AuctionRow :
        /\ auctions' = [auctions EXCEPT ![a] = row]
        /\ \/ row.status = auctions[a].status
           \/ auctions[a].status \in {"ACTIVE", "EXTENDED"} /\ row.status = "EXTENDED"
        /\ row.plate = auctions[a].plate /\ row.seller = auctions[a].seller
        /\ row.start = auctions[a].start /\ row.price = auctions[a].price
        /\ row.leader = auctions[a].leader
  <2>1. CASE UNCHANGED auctions
    <3>1. auctions' = [auctions EXCEPT ![a] = auctions[a]]
      BY <1>1, <2>1 DEF AuctionTypes
    <3> QED
      BY <1>2, <3>1
  <2>2. CASE /\ auctions[a].status \in {"ACTIVE", "EXTENDED"}
             /\ auctions' = [auctions EXCEPT ![a] = Auctioning!Extended(auctions[a])]
    BY <1>2, <2>2, ExtendedRow
  <2> QED
    BY <1>3, <2>1, <2>2
<1>5. /\ auctions' \in [Auction -> Auctioning!AuctionRow]
      /\ auctions'[a] = row /\ \A b \in Auction \ {a} : auctions'[b] = auctions[b]
      /\ \A n \in Number : ListingsEnd(n)
  BY <1>4, AuctionChanges
<1>6. AuctionHolds(a)'
  BY <1>3, <1>4, <1>5 DEF PInv, AuctionHolds
<1>7. bids' \in [Auction -> Seq(Auctioning!Bid)]
  <2>1. PICK rows \in Seq(Auctioning!Bid) : rows = bids[a] /\ k \in 1..Len(rows)
    BY <1>1 DEF AuctionTypes
  <2>2. PICK bid \in Auctioning!Bid : bid = [rows[k] EXCEPT !.applied = TRUE]
    <3>1. rows[k] \in Auctioning!Bid
      BY <2>1
    <3> QED
      BY <3>1 DEF Auctioning!Bid
  <2>3. [rows EXCEPT ![k] = bid] \in Seq(Auctioning!Bid)
    BY <2>1, ExceptSeq
  <2>4. bids' = [bids EXCEPT ![a] = [rows EXCEPT ![k] = bid]]
    BY <1>1, <1>3, <2>1, <2>2 DEF AuctionTypes
  <2> QED
    BY <1>1, <2>3, <2>4 DEF AuctionTypes
<1>8. DatabaseTypeOK' /\ AuctionTypes'
  BY <1>1, <1>3, <1>5, <1>7, DatabaseFrame DEF AuctionTypes
<1> QED
  BY <1>3, <1>5, <1>6, <1>8, BidStays DEF databaseVars

\* The row of an auction after a bid.
LEMMA OutbidRow ==
  ASSUME NEW a \in Auction, NEW bid \in Auctioning!Bid,
         auctions[a] \in Auctioning!AuctionRow, policy \in Policies
  PROVE  LET row == Auctioning!Outbid(a, bid)
         IN /\ row \in Auctioning!AuctionRow
            /\ row.status = auctions[a].status \/ row.status = "EXTENDED"
            /\ row.plate = auctions[a].plate /\ row.seller = auctions[a].seller
            /\ row.start = auctions[a].start
            /\ row.price = bid.amount /\ row.leader = bid.bidder
<1> DEFINE row == [auctions[a] EXCEPT !.price = bid.amount, !.leader = bid.bidder]
<1>1. /\ row \in Auctioning!AuctionRow
      /\ row.status = auctions[a].status
      /\ row.plate = auctions[a].plate /\ row.seller = auctions[a].seller
      /\ row.start = auctions[a].start
      /\ row.price = bid.amount /\ row.leader = bid.bidder
  BY DEF Auctioning!AuctionRow, Auctioning!Bid
<1>2. Auctioning!Outbid(a, bid) = IF bid.applied THEN Auctioning!Extended(row) ELSE row
  BY DEF Auctioning!Outbid
<1> HIDE DEF row
<1> QED
  BY <1>1, <1>2, ExtendedRow

\* The totals of a user after a change of his wallet.
LEMMA RecordedTotals ==
  ASSUME NEW totals \in Totals, NEW before \in Wallet, NEW after \in Wallet
  PROVE  Auctioning!Recorded(totals, before, after) \in Totals
BY DEF Auctioning!Recorded, Totals, Wallet

LEMMA QueuedTo ==
  ASSUME NEW box \in [User -> [NotificationType -> Nat]], NEW u \in User,
         NEW type \in NotificationType
  PROVE  Auctioning!Queued(box, u, type) \in [User -> [NotificationType -> Nat]]
BY DEF Auctioning!Queued

\* The bidder and the former leader, if there is one.
LEMMA BidParties ==
  ASSUME PInv, NEW a \in Auction, Auctioning!BidCommits(a)
  PROVE  LET try == bidding[a]
             old == auctions[a].leader
         IN /\ try.bidder \in User /\ try.bidder \notin {auctions[a].seller, old}
            /\ try.amount \in Nat \ {0} /\ try.at \in Nat /\ try.seen \in Wallet
            /\ Auctioning!Frozen(try.seen, try.amount) \in Wallet
            /\ auctions[a].seller \in User
            /\ auctions[a].status \in {"ACTIVE", "EXTENDED"}
            /\ old # None =>
                 /\ old \in User
                 /\ Auctioning!Unfrozen(wallets[old], auctions[a].price) \in Wallet
<1>1. /\ bidding[a] \in Auctioning!Attempt /\ auctions[a] \in Auctioning!AuctionRow
      /\ wallets \in [User -> Wallet]
  BY Types DEF PInv, DatabaseTypeOK, AuctionTypes
<1>2. /\ bidding[a].bidder \in User /\ bidding[a].amount \in Nat \ {0}
      /\ bidding[a].at \in Nat /\ bidding[a].seen \in Wallet
      /\ bidding[a].bidder \notin {auctions[a].seller, auctions[a].leader}
      /\ auctions[a].seller \in User /\ auctions[a].status \in {"ACTIVE", "EXTENDED"}
  BY <1>1 DEF PInv, AuctionHolds, Auctioning!BidCommits, Auctioning!Attempt, Wallet,
              Auctioning!Wallet
<1>3. Auctioning!Frozen(bidding[a].seen, bidding[a].amount) \in Wallet
  <2>1. CanFreeze(bidding[a].seen, bidding[a].amount)
    BY DEF Auctioning!BidCommits, Auctioning!CanFreeze, CanFreeze
  <2>2. Frozen(bidding[a].seen, bidding[a].amount) \in Wallet
    BY <1>2, <2>1, FrozenType
  <2> QED
    BY <2>2 DEF Auctioning!Frozen, Frozen
<1>4. ASSUME auctions[a].leader # None
      PROVE  /\ auctions[a].leader \in User
             /\ Auctioning!Unfrozen(wallets[auctions[a].leader], auctions[a].price) \in Wallet
  <2>1. PICK old \in User, price \in Nat : old = auctions[a].leader /\ price = auctions[a].price
    BY <1>1, <1>4 DEF Auctioning!AuctionRow
  <2>2. CanTakeFrozen(wallets[old], price) /\ wallets[old] \in Wallet
    BY <1>1, <1>4, <2>1 DEF Auctioning!BidCommits, Auctioning!CanTakeFrozen, CanTakeFrozen
  <2>3. Unfrozen(wallets[old], price) \in Wallet
    BY <2>2, UnfrozenType
  <2> QED
    BY <2>1, <2>3 DEF Auctioning!Unfrozen, Unfrozen
<1> QED
  BY <1>2, <1>3, <1>4

LEMMA BidCommitsStep ==
  ASSUME PInv, Apart, NEW a \in Auction, Auctioning!BidCommits(a)
  PROVE  PInv'
<1> DEFINE try == bidding[a]
           u == try.bidder
           old == auctions[a].leader
           after == Auctioning!Frozen(try.seen, try.amount)
           back == Auctioning!Unfrozen(wallets[old], auctions[a].price)
           bid == [bidder |-> u, amount |-> try.amount, at |-> try.at,
                   applied |-> Auctioning!Sniping(a, try.at)]
           row == Auctioning!Outbid(a, bid)
<1>1. DatabaseTypeOK /\ AuctionTypes /\ PaymentTypes
  BY Types DEF PInv
<1>2. /\ u \in User /\ u \notin {auctions[a].seller, old}
      /\ try.amount \in Nat \ {0} /\ try.at \in Nat /\ try.seen \in Wallet
      /\ after \in Wallet
      /\ auctions[a].seller \in User /\ auctions[a].status \in {"ACTIVE", "EXTENDED"}
      /\ old # None => old \in User /\ back \in Wallet
  BY BidParties
<1>3. /\ wallets' = Auctioning!BidWallets(a, u, after)
      /\ journal' = Auctioning!BidJournal(a, u, try.seen, after)
      /\ bids' = [bids EXCEPT ![a] = Append(@, bid)]
      /\ auctions' = [auctions EXCEPT ![a] = row]
      /\ outbox' = LET told == Auctioning!Queued(outbox, auctions[a].seller, "AUCTION_BID_PLACED")
                   IN IF old = None THEN told
                      ELSE Auctioning!Queued(told, old, "AUCTION_OUTBID")
      /\ bidding' = [bidding EXCEPT ![a] = Auctioning!NoAttempt]
      /\ UNCHANGED <<plates, revenue, history, primary, blocked, policy, now>>
  BY DEF Auctioning!BidCommits
<1>4. bid \in Auctioning!Bid /\ bid.bidder = u /\ bid.amount = try.amount
  BY <1>2 DEF Auctioning!Bid, Auctioning!Sniping
<1> HIDE DEF bid
<1>5. /\ row \in Auctioning!AuctionRow
      /\ row.status \in {"ACTIVE", "EXTENDED"}
      /\ row.plate = auctions[a].plate /\ row.seller = auctions[a].seller
      /\ row.start = auctions[a].start /\ row.price = try.amount /\ row.leader = u
  <2>1. auctions[a] \in Auctioning!AuctionRow /\ policy \in Policies
    BY <1>1 DEF AuctionTypes, DatabaseTypeOK
  <2> QED
    BY <1>2, <1>4, <2>1, OutbidRow
<1> HIDE DEF row, after, back
<1>6. /\ auctions' \in [Auction -> Auctioning!AuctionRow]
      /\ auctions'[a] = row /\ \A b \in Auction \ {a} : auctions'[b] = auctions[b]
      /\ \A n \in Number : ListingsEnd(n)
  BY <1>2, <1>3, <1>5, AuctionChanges
<1>7. bidding'[a].bidder = None /\ \A b \in Auction \ {a} : bidding'[b] = bidding[b]
  BY <1>1, <1>3 DEF AuctionTypes, Auctioning!NoAttempt
<1>8. AuctionHolds(a)'
  BY <1>2, <1>5, <1>6, <1>7 DEF PInv, AuctionHolds
<1>9. AuctionTypes'
  <2>1. bids' \in [Auction -> Seq(Auctioning!Bid)]
    BY <1>1, <1>3, <1>4 DEF AuctionTypes
  <2>2. bidding' \in [Auction -> Auctioning!Attempt]
    BY <1>1, <1>3, NoAttemptType DEF AuctionTypes
  <2> QED
    BY <1>1, <1>3, <1>6, <2>1, <2>2 DEF AuctionTypes
<1>10. wallets' \in [User -> Wallet]
  <2> DEFINE frozen == [wallets EXCEPT ![u] = after]
  <2>1. frozen \in [User -> Wallet]
    BY <1>1, <1>2 DEF DatabaseTypeOK
  <2>2. old # None => frozen[old] = wallets[old]
    BY <1>1, <1>2 DEF DatabaseTypeOK
  <2>3. wallets' = IF old = None THEN frozen ELSE [frozen EXCEPT ![old] = back]
    <3>1. wallets' = IF old = None THEN frozen
                     ELSE [frozen EXCEPT
                             ![old] = Auctioning!Unfrozen(frozen[old], auctions[a].price)]
      BY <1>3 DEF Auctioning!BidWallets
    <3> QED
      BY <2>2, <3>1 DEF back
  <2> HIDE DEF frozen
  <2> QED
    BY <1>2, <2>1, <2>3
<1>11. journal' \in [User -> Totals]
  <2>1. /\ journal \in [User -> Totals] /\ wallets \in [User -> Wallet]
        /\ Auctioning!Recorded(journal[u], try.seen, after) \in Totals
    BY <1>1, <1>2, RecordedTotals DEF DatabaseTypeOK
  <2>2. [journal EXCEPT ![u] = Auctioning!Recorded(@, try.seen, after)] \in [User -> Totals]
    BY <2>1
  <2>3. ASSUME old # None
        PROVE  \A totals \in Totals : Auctioning!Recorded(totals, wallets[old], back) \in Totals
    BY <1>2, <2>1, <2>3, RecordedTotals
  <2> QED
    BY <1>2, <1>3, <2>2, <2>3 DEF Auctioning!BidJournal, back
<1>12. outbox' \in [User -> [NotificationType -> Nat]]
  <2>1. outbox \in [User -> [NotificationType -> Nat]]
    BY <1>1 DEF DatabaseTypeOK
  <2> QED
    BY <1>2, <1>3, <2>1, QueuedTo DEF NotificationType
<1>13. DatabaseTypeOK'
  BY <1>1, <1>3, <1>10, <1>11, <1>12 DEF DatabaseTypeOK
<1> QED
  BY <1>3, <1>6, <1>7, <1>8, <1>9, <1>13, BidStays

\* The winner and the seller, and what the settlement leaves them.
LEMMA SettlementParties ==
  ASSUME PInv, NEW a \in Auction, Auctioning!FinishSold(a, TRUE)
  PROVE  LET price == auctions[a].price
             winner == auctions[a].leader
             seller == auctions[a].seller
         IN /\ auctions[a].status \in {"ACTIVE", "EXTENDED"} /\ bidding[a].bidder = None
            /\ auctions[a].plate \in Number /\ seller \in User /\ winner \in User
            /\ plates[auctions[a].plate].owner = seller
            /\ Auctioning!Commission(policy, price) \in Nat
            /\ Auctioning!Settled(wallets[winner], price) \in Wallet
            /\ Auctioning!Credited(wallets[seller], Auctioning!Proceeds(a)) \in Wallet
<1>1. /\ auctions[a] \in Auctioning!AuctionRow /\ wallets \in [User -> Wallet]
      /\ policy \in Policy
  BY Types, PoliciesAreValid DEF PInv, DatabaseTypeOK, AuctionTypes
<1>2. /\ auctions[a].status \in {"ACTIVE", "EXTENDED"} /\ bidding[a].bidder = None
      /\ auctions[a].leader # None
  BY DEF Auctioning!FinishSold, Auctioning!Finishable, Auctioning!IsOpen, Auctioning!Open,
         Auctioning!Unlocked, Auctioning!NoAttempt
<1>3. PICK price \in Nat, winner \in User, seller \in User, n \in Number :
        /\ price = auctions[a].price /\ winner = auctions[a].leader
        /\ seller = auctions[a].seller /\ n = auctions[a].plate
  BY <1>1, <1>2 DEF PInv, AuctionHolds, Auctioning!AuctionRow
<1>4. a \in AuctionsOf(n)
  BY <1>2, <1>3 DEF AuctionsOf
<1>5. plates[n].owner = seller
  BY <1>3, <1>4 DEF PInv, PlateHolds, ListingHolds
<1>6. PICK commission \in Nat : commission = Auctioning!Commission(policy, price)
  BY <1>1, CommissionType DEF Auctioning!Commission, Commission
<1>7. Auctioning!Settled(wallets[winner], price) \in Wallet
  <2>1. CanTakeFrozen(wallets[winner], price)
    BY <1>3 DEF Auctioning!FinishSold, Auctioning!CanTakeFrozen, CanTakeFrozen
  <2>2. Settled(wallets[winner], price) \in Wallet
    BY <1>1, <2>1, SettledType
  <2> QED
    BY <2>2 DEF Auctioning!Settled, Settled
<1>8. Auctioning!Credited(wallets[seller], price - commission) \in Wallet
  <2>1. CanCredit(price - commission)
    BY <1>3, <1>6 DEF Auctioning!FinishSold, Auctioning!Proceeds, Auctioning!CanCredit, CanCredit
  <2>2. Credited(wallets[seller], price - commission) \in Wallet
    BY <1>1, <2>1, CreditedType
  <2> QED
    BY <2>2 DEF Auctioning!Credited, Credited
<1>9. Auctioning!Proceeds(a) = price - commission
  BY <1>3, <1>6 DEF Auctioning!Proceeds
<1> QED
  BY <1>2, <1>3, <1>5, <1>6, <1>7, <1>8, <1>9

LEMMA FinishSoldStep ==
  ASSUME PInv, Apart, NEW a \in Auction, Auctioning!FinishSold(a, TRUE)
  PROVE  PInv'
<1>1. DatabaseTypeOK /\ AuctionTypes
  BY Types DEF PInv
<1>2. PICK n \in Number, seller \in User, winner \in User, price \in Nat,
           commission \in Nat, paid \in Wallet, credited \in Wallet :
        /\ n = auctions[a].plate /\ seller = auctions[a].seller /\ winner = auctions[a].leader
        /\ price = auctions[a].price /\ commission = Auctioning!Commission(policy, price)
        /\ paid = Auctioning!Settled(wallets[winner], price)
        /\ credited = Auctioning!Credited(wallets[seller], Auctioning!Proceeds(a))
  <2>1. auctions[a].price \in Nat
    BY <1>1 DEF AuctionTypes, Auctioning!AuctionRow
  <2> QED
    BY <2>1, SettlementParties
<1>3. /\ auctions[a].status \in {"ACTIVE", "EXTENDED"} /\ bidding[a].bidder = None
      /\ plates[n].owner = seller
  BY <1>2, SettlementParties
<1>4. /\ auctions' = [auctions EXCEPT ![a].status = "FINISHED"]
      /\ wallets' = [wallets EXCEPT ![winner] = paid, ![seller] = credited]
      /\ journal' = [journal EXCEPT
                       ![winner] = Auctioning!Recorded(@, wallets[winner], paid),
                       ![seller] = Auctioning!Recorded(@, wallets[seller], credited)]
      /\ revenue' = revenue + commission
      /\ plates' = [plates EXCEPT ![n].owner = winner, ![n].status = "OWNED"]
      /\ UNCHANGED <<blocked, policy, bids, bidding, now>>
  BY <1>2 DEF Auctioning!FinishSold
<1>5. /\ primary' = WithoutPrimary(n)
      /\ history' = WithTransfer(history, n, seller, winner, "AUCTION")
  BY <1>2, <1>3 DEF Auctioning!FinishSold, Auctioning!WithoutPrimary, WithoutPrimary,
                    Auctioning!WithTransfer, WithTransfer
<1>6. outbox' = Auctioning!Queued(Auctioning!Queued(outbox, winner, "AUCTION_WON"),
                                  seller, "AUCTION_FINISHED")
  BY <1>2 DEF Auctioning!FinishSold
<1>7. PICK row \in Auctioning!AuctionRow :
        /\ auctions' = [auctions EXCEPT ![a] = row]
        /\ row.status = "FINISHED" /\ row.plate = n /\ row.seller = seller
        /\ row.leader = winner /\ row.price = price /\ row.start = auctions[a].start
  <2>1. PICK old \in Auctioning!AuctionRow : old = auctions[a]
    BY <1>1 DEF AuctionTypes
  <2> DEFINE row == [old EXCEPT !.status = "FINISHED"]
  <2>2. /\ row \in Auctioning!AuctionRow
        /\ row.status = "FINISHED" /\ row.plate = old.plate /\ row.seller = old.seller
        /\ row.leader = old.leader /\ row.price = old.price /\ row.start = old.start
    BY DEF Auctioning!AuctionRow
  <2>3. auctions' = [auctions EXCEPT ![a] = row]
    BY <1>4, <2>1
  <2> HIDE DEF row
  <2> QED
    BY <1>2, <2>1, <2>2, <2>3
<1>8. /\ auctions' \in [Auction -> Auctioning!AuctionRow]
      /\ auctions'[a] = row /\ \A b \in Auction \ {a} : auctions'[b] = auctions[b]
      /\ \A m \in Number : ListingsEnd(m)
      /\ a \notin AuctionsOf(n)'
  <2>1. row.plate = auctions[a].plate /\ row.seller = auctions[a].seller
    BY <1>2, <1>7
  <2>2. row.status \notin {"ACTIVE", "EXTENDED"}
    BY <1>7
  <2> QED
    BY <1>7, <2>1, <2>2, AuctionChanges
<1>9. \A b \in Auction : AuctionHolds(b)'
  <2>1. AuctionHolds(a)'
    BY <1>2, <1>3, <1>4, <1>7, <1>8 DEF PInv, AuctionHolds
  <2> QED
    BY <1>4, <1>8, <2>1, OtherAuctionsHold
<1>10. wallets' \in [User -> Wallet] /\ journal' \in [User -> Totals]
  <2>1. wallets \in [User -> Wallet] /\ journal \in [User -> Totals]
    BY <1>1 DEF DatabaseTypeOK
  <2>2. wallets' \in [User -> Wallet]
    BY <1>4, <2>1
  <2>3. /\ \A totals \in Totals : Auctioning!Recorded(totals, wallets[winner], paid) \in Totals
        /\ \A totals \in Totals : Auctioning!Recorded(totals, wallets[seller], credited) \in Totals
    BY <2>1, RecordedTotals
  <2>4. [journal EXCEPT ![winner] = Auctioning!Recorded(@, wallets[winner], paid)]
          \in [User -> Totals]
    BY <2>1, <2>3
  <2> QED
    BY <1>4, <2>2, <2>3, <2>4
<1>11. outbox' \in [User -> [NotificationType -> Nat]]
  <2>1. outbox \in [User -> [NotificationType -> Nat]]
    BY <1>1 DEF DatabaseTypeOK
  <2> QED
    BY <1>6, <2>1, QueuedTo DEF NotificationType
<1>12. /\ plates' \in [Number -> Plate]
       /\ plates'[n].owner = winner /\ plates'[n].status = "OWNED"
       /\ \A m \in Number \ {n} : plates'[m] = plates[m]
  <2>1. plates \in [Number -> Plate] /\ plates[n] \in Plate
    BY <1>1 DEF DatabaseTypeOK
  <2>2. PICK old \in Plate : old = plates[n]
    BY <2>1
  <2> DEFINE plate == [old EXCEPT !.owner = winner, !.status = "OWNED"]
  <2>3. plate \in Plate /\ plate.owner = winner /\ plate.status = "OWNED"
    BY DEF Plate, PlateStatus
  <2>4. plates' = [plates EXCEPT ![n] = plate]
    BY <1>4, <2>1, <2>2
  <2> HIDE DEF plate
  <2> QED
    BY <2>1, <2>3, <2>4
<1>13. /\ history' \in [Number -> Seq(OwnershipHistory)]
       /\ history'[n] = Append(history[n], [old |-> seller, new |-> winner,
                                            operation |-> "AUCTION"])
       /\ \A m \in Number \ {n} : history'[m] = history[m]
  <2>1. "AUCTION" \in OwnershipOperation /\ seller \in User \cup {None}
    BY DEF OwnershipOperation
  <2> QED
    BY <1>5, <2>1, TransferRecorded
<1>14. /\ primary' \in [User -> Number \cup {None}]
       /\ \A u \in User : primary'[u] # n /\ \A m \in Number : primary'[u] = m => primary[u] = m
  <2>1. primary' \in [User -> Number \cup {None}]
    BY <1>1, <1>5, WithoutPrimaryType DEF DatabaseTypeOK
  <2> QED
    BY <1>5, <2>1, NoneIsNoRow DEF WithoutPrimary
<1>15. revenue' \in Nat
  BY <1>1, <1>4 DEF DatabaseTypeOK
<1>16. DatabaseTypeOK' /\ AuctionTypes'
  BY <1>1, <1>4, <1>8, <1>10, <1>11, <1>12, <1>13, <1>14, <1>15 DEF DatabaseTypeOK, AuctionTypes
<1>17. Moves(n, winner, "AUCTION")
  <2>1. a \in AuctionsOf(n)
    BY <1>2, <1>3 DEF AuctionsOf
  <2>2. ~Listed(n)'
    BY <1>8, <2>1 DEF PInv, PlateHolds, ListingHolds, ListingsEnd, Listed
  <2>3. plates[n].status # "ABSENT"
    BY <1>3, NoneIsNoRow DEF PInv, PlateHolds
  <2> QED
    BY <1>3, <1>12, <1>13, <1>14, <2>2, <2>3 DEF Moves
<1>18. \A m \in Number \ {n} : Untouched(m)
  BY <1>8, <1>12, <1>13, <1>14 DEF Untouched
<1> QED
  BY <1>9, <1>16, <1>17, <1>18, InvoicesAreKept, MoveStep, AuctionStepHolds
  DEF OwnershipOperation

LEMMA AuctionOperations ==
  ASSUME PInv, AuctionStep PROVE PInv'
<1>1. Apart
  BY DEF AuctionStep, Apart
<1> QED
  BY <1>1, CreateStep, CancelStep, BidReadsStep, BidCommitsStep, BidFailsStep, FinishUnsoldStep,
     FinishSoldStep, RepairSnipingStep, TickStep
  DEF AuctionStep, Auctioning!UserOperation, Auctioning!ServiceStep, Auctioning!Finish

-----------------------------------------------------------------------------
(* Listings withdrawn by force                                             *)

LEMMA OpenOnPlates ==
  ASSUME NEW P \in SUBSET Number, NEW a \in Auction
  PROVE  a \in OpenAuctionsOf(P) <=>
           auctions[a].status \in {"ACTIVE", "EXTENDED"} /\ auctions[a].plate \in P
BY DEF OpenAuctionsOf, Auctioning!IsOpen, Auctioning!Open

\* What _clear_listing gives back to a user.
LEMMA BackingType ==
  ASSUME AuctionTypes, NEW P \in SUBSET Number, NEW u \in User
  PROVE  /\ IsFiniteSet(Led(u, P)) /\ Cardinality(Led(u, P)) \in Nat
         /\ Backing(u, P) \in Nat
         /\ Led(u, P) = {} => Backing(u, P) = 0
<1> DEFINE L == Led(u, P)
           price == [a \in Auction |-> auctions[a].price]
<1>1. L \in SUBSET Auction
  BY DEF Led, OpenAuctionsOf
<1>2. IsFiniteSet(L) /\ Cardinality(L) \in Nat
  BY <1>1, RowsAreFinite, FS_Subset, FS_CardinalityType
<1>3. \A a \in L : price[a] \in Nat
  BY <1>1 DEF AuctionTypes, Auctioning!AuctionRow
<1>4. SumFunctionOnSet(price, L) \in Nat
  BY <1>2, <1>3, SumOfNaturals
<1>5. L = {} => SumFunctionOnSet(price, L) = 0
  BY SumOfNothing
<1>6. Backing(u, P) = SumFunctionOnSet(price, L)
  BY DEF Backing
<1> QED
  BY <1>2, <1>4, <1>5, <1>6

LEMMA ClearedWallet ==
  ASSUME DatabaseTypeOK, AuctionTypes, NEW P \in SUBSET Number, ClearListings(P), NEW u \in User
  PROVE  Unfrozen(wallets[u], Backing(u, P)) \in Wallet
<1>1. wallets[u] \in Wallet
  BY DEF DatabaseTypeOK
<1>2. CASE Led(u, P) = {}
  <2>1. Backing(u, P) = 0
    BY <1>2, BackingType
  <2>2. /\ wallets[u].available + Backing(u, P) \in Nat
        /\ wallets[u].frozen - Backing(u, P) \in Nat
    BY <1>1, <2>1 DEF Wallet
  <2> QED
    BY <1>1, <2>2 DEF Unfrozen, Wallet
<1>3. CASE Led(u, P) # {}
  <2>1. CanTakeFrozen(wallets[u], Backing(u, P)) /\ Backing(u, P) \in Nat
    BY <1>3, BackingType DEF ClearListings, CannotClear
  <2> QED
    BY <1>1, <2>1, UnfrozenType
<1> QED
  BY <1>2, <1>3

LEMMA ClearedBooks ==
  ASSUME DatabaseTypeOK, AuctionTypes, NEW P \in SUBSET Number, ClearListings(P)
  PROVE  /\ wallets' \in [User -> Wallet] /\ journal' \in [User -> Totals]
         /\ outbox' \in [User -> [NotificationType -> Nat]]
<1>1. ASSUME NEW u \in User
      PROVE  /\ Unfrozen(wallets[u], Backing(u, P)) \in Wallet
             /\ Recorded(journal[u], wallets[u], Unfrozen(wallets[u], Backing(u, P))) \in Totals
             /\ [outbox[u] EXCEPT !["AUCTION_CANCELLED"] = @ + Cardinality(Led(u, P))]
                  \in [NotificationType -> Nat]
  <2>1. wallets[u] \in Wallet /\ journal[u] \in Totals /\ outbox[u] \in [NotificationType -> Nat]
    BY DEF DatabaseTypeOK
  <2>2. Unfrozen(wallets[u], Backing(u, P)) \in Wallet
    BY ClearedWallet
  <2>3. Recorded(journal[u], wallets[u], Unfrozen(wallets[u], Backing(u, P))) \in Totals
    BY <2>1, <2>2, RecordedType
  <2>4. Cardinality(Led(u, P)) \in Nat
    BY BackingType
  <2>5. [outbox[u] EXCEPT !["AUCTION_CANCELLED"] = @ + Cardinality(Led(u, P))]
          \in [NotificationType -> Nat]
    BY <2>1, <2>4 DEF NotificationType
  <2> QED
    BY <2>2, <2>3, <2>5
<1> QED
  BY <1>1 DEF ClearListings, BidsReleased, ReleaseRecorded

LEMMA ClearedRows ==
  ASSUME PInv, NEW P \in SUBSET Number, ClearListings(P), UNCHANGED bidding
  PROVE  /\ sales' \in [Sale -> Market!SaleRow] /\ SalesAreComplete'
         /\ auctions' \in [Auction -> Auctioning!AuctionRow]
         /\ \A a \in Auction : AuctionHolds(a)'
         /\ \A n \in Number : ListingsEnd(n)
         /\ \A n \in P : ~Listed(n)'
<1>1. PaymentTypes /\ AuctionTypes
  BY Types DEF PInv
<1>2. ASSUME NEW s \in Sale
      PROVE  /\ sales'[s] \in Market!SaleRow
             /\ sales'[s].plate = sales[s].plate /\ sales'[s].seller = sales[s].seller
             /\ sales'[s].status = IF sales[s].plate \in P /\ sales[s].status = "ACTIVE"
                                   THEN "CANCELLED" ELSE sales[s].status
  <2>1. sales[s] \in Market!SaleRow
    BY <1>1 DEF PaymentTypes
  <2>2. sales'[s] = IF sales[s].plate \in P /\ sales[s].status = "ACTIVE"
                    THEN [sales[s] EXCEPT !.status = "CANCELLED"] ELSE sales[s]
    BY DEF ClearListings
  <2> QED
    BY <2>1, <2>2 DEF Market!SaleRow
<1>3. ASSUME NEW a \in Auction
      PROVE  /\ auctions'[a] \in Auctioning!AuctionRow
             /\ auctions'[a].plate = auctions[a].plate /\ auctions'[a].seller = auctions[a].seller
             /\ auctions'[a].leader = auctions[a].leader
             /\ auctions'[a].price = auctions[a].price /\ auctions'[a].start = auctions[a].start
             /\ auctions'[a].status = IF a \in OpenAuctionsOf(P) THEN "CANCELLED"
                                      ELSE auctions[a].status
  <2>1. auctions[a] \in Auctioning!AuctionRow
    BY <1>1 DEF AuctionTypes
  <2>2. auctions'[a] = IF a \in OpenAuctionsOf(P)
                       THEN [auctions[a] EXCEPT !.status = "CANCELLED"] ELSE auctions[a]
    BY DEF ClearListings, AuctionsCancelled
  <2> QED
    BY <2>1, <2>2 DEF Auctioning!AuctionRow
<1>4. sales' \in [Sale -> Market!SaleRow] /\ auctions' \in [Auction -> Auctioning!AuctionRow]
  <2>1. sales' = [s \in Sale |-> sales'[s]] /\ auctions' = [a \in Auction |-> auctions'[a]]
    BY DEF ClearListings, AuctionsCancelled
  <2> QED
    BY <1>2, <1>3, <2>1
<1>5. SalesAreComplete'
  BY <1>2 DEF PInv, SalesAreComplete
<1>6. ASSUME NEW a \in Auction PROVE AuctionHolds(a)'
  <2>1. a \in OpenAuctionsOf(P) => bidding[a].bidder = None
    BY DEF ClearListings, Auctioning!Unlocked, Auctioning!NoAttempt
  <2> QED
    BY <1>3, <2>1, OpenOnPlates DEF PInv, AuctionHolds
<1>7. ASSUME NEW n \in Number PROVE ListingsEnd(n)
  BY <1>2, <1>3 DEF ListingsEnd, SalesOf, AuctionsOf
<1>8. ASSUME NEW n \in P PROVE ~Listed(n)'
  <2>1. \A s \in SalesOf(n) : sales[s].status = "ACTIVE"
    BY DEF ClearListings, CannotClear, PaymentAwaited, Market!ActiveSales, SalesOf
  <2>2. SalesOf(n)' = {}
    BY <1>2, <2>1 DEF SalesOf
  <2>3. AuctionsOf(n)' = {}
    BY <1>3, OpenOnPlates DEF AuctionsOf
  <2> QED
    BY <2>2, <2>3 DEF Listed
<1> QED
  BY <1>4, <1>5, <1>6, <1>7, <1>8

\* Plates are taken by force, and go to the State or to a user.
LEMMA ForcedMove ==
  ASSUME PInv, AccountTypes', NEW P \in SUBSET Number, ClearListings(P),
         \A n \in P : plates[n].status # "ABSENT",
         NEW row \in Plate, row.status # "ABSENT",
         NEW operation \in OwnershipOperation \ {"STATE_EMISSION"},
         plates' = Moved(P, row), primary' = PrimaryOutside(P),
         history' = MoveRecorded(P, row.owner, operation),
         UNCHANGED <<revenue, blocked, policy, intents, reservations, lookup, charged, refused>>,
         UNCHANGED <<bids, bidding, now>>
  PROVE  PInv'
<1>1. DatabaseTypeOK /\ PaymentTypes /\ AuctionTypes
  BY Types DEF PInv
<1>2. /\ sales' \in [Sale -> Market!SaleRow] /\ SalesAreComplete'
      /\ auctions' \in [Auction -> Auctioning!AuctionRow]
      /\ \A a \in Auction : AuctionHolds(a)'
      /\ \A n \in Number : ListingsEnd(n)
      /\ \A n \in P : ~Listed(n)'
  BY ClearedRows
<1>3. /\ wallets' \in [User -> Wallet] /\ journal' \in [User -> Totals]
      /\ outbox' \in [User -> [NotificationType -> Nat]]
  BY <1>1, ClearedBooks
<1>4. /\ plates' \in [Number -> Plate]
      /\ \A n \in Number : plates'[n] = IF n \in P THEN row ELSE plates[n]
  BY <1>1 DEF Moved, DatabaseTypeOK
<1>5. /\ primary' \in [User -> Number \cup {None}]
      /\ \A u \in User, n \in Number : primary'[u] = n => primary[u] = n /\ n \notin P
  BY <1>1, NoneIsNoRow DEF PrimaryOutside, DatabaseTypeOK
<1>6. row.owner \in User \cup {None}
  BY DEF Plate
<1>7. /\ history' \in [Number -> Seq(OwnershipHistory)]
      /\ \A n \in Number :
           history'[n] = IF n \in P
             THEN Append(history[n], [old |-> plates[n].owner, new |-> row.owner,
                                      operation |-> operation])
             ELSE history[n]
  <2>1. ASSUME NEW n \in Number
        PROVE  /\ [old |-> plates[n].owner, new |-> row.owner, operation |-> operation]
                    \in OwnershipHistory
               /\ history[n] \in Seq(OwnershipHistory)
    BY <1>1, <1>6 DEF DatabaseTypeOK, Plate, OwnershipHistory
  <2> QED
    BY <2>1 DEF MoveRecorded
<1>8. DatabaseTypeOK'
  BY <1>1, <1>3, <1>4, <1>5, <1>7 DEF DatabaseTypeOK
<1>9. PaymentTypes' /\ AuctionTypes'
  BY <1>1, <1>2 DEF PaymentTypes, AuctionTypes
<1>10. InvoicesAreComplete' /\ InvoicesKept
  BY DEF PInv, InvoicesAreComplete, InvoicesKept
<1>11. ASSUME NEW n \in P PROVE PlateHolds(n)'
  <2>1. Moves(n, row.owner, operation)
    BY <1>2, <1>4, <1>5, <1>7, <1>11 DEF Moves
  <2> QED
    BY <1>1, <1>6, <2>1, PlateMoves DEF PInv
<1>12. ASSUME NEW n \in Number \ P PROVE PlateHolds(n)'
  <2>1. Untouched(n)
    BY <1>2, <1>4, <1>5, <1>7, <1>12 DEF Untouched
  <2> QED
    BY <1>10, <2>1, UntouchedStays DEF PInv
<1> QED
  BY <1>2, <1>8, <1>9, <1>10, <1>11, <1>12, TypesPrimed DEF PInv

LEMMA StatePlate ==
  Market!Confiscated \in Plate /\ Market!Confiscated.status = "STATE_SALE"
    /\ Market!Confiscated.owner = None
BY DEF Market!Confiscated, Market!Absent, Plate, PlateStatus

LEMMA OwnedPlate ==
  ASSUME NEW u \in User
  PROVE  Owned(u) \in Plate /\ Owned(u).status = "OWNED" /\ Owned(u).owner = u
BY DEF Owned, Market!Absent, Plate, PlateStatus

LEMMA ForceMoveStep ==
  ASSUME PInv, NEW n \in Number, ForceReturnToState(n) \/ \E u \in User : ForceTransfer(n, u)
  PROVE  PInv'
<1>1. PICK row \in Plate, operation \in OwnershipOperation \ {"STATE_EMISSION"} :
        row.status # "ABSENT" /\ ForceMove(n, row, operation)
  BY StatePlate, OwnedPlate DEF ForceReturnToState, ForceTransfer, OwnershipOperation
<1>2. AccountTypes'
  BY <1>1, Types, AccountFrame DEF PInv, ForceMove
<1> QED
  BY <1>1, <1>2, ForcedMove DEF ForceMove

LEMMA ForceCancelAuctionStep ==
  ASSUME PInv, NEW a \in Auction, ForceCancelAuction(a) PROVE PInv'
<1>1. DatabaseTypeOK /\ PaymentTypes /\ AuctionTypes /\ AccountTypes
  BY Types DEF PInv
<1>2. auctions[a].status \in {"ACTIVE", "EXTENDED"}
  BY DEF ForceCancelAuction, Auctioning!IsOpen, Auctioning!Open
<1>3. PICK n \in Number : n = auctions[a].plate
  BY <1>2 DEF PInv, AuctionHolds
<1>4. /\ ClearListings({n})
      /\ plates' = [plates EXCEPT ![n].status = "OWNED"]
      /\ UNCHANGED <<revenue, history, primary, blocked, policy>>
      /\ UNCHANGED <<intents, reservations, lookup, charged, refused>>
      /\ UNCHANGED <<bids, bidding, now, accountVars>>
  BY <1>3 DEF ForceCancelAuction
<1>5. /\ sales' \in [Sale -> Market!SaleRow] /\ SalesAreComplete'
      /\ auctions' \in [Auction -> Auctioning!AuctionRow]
      /\ \A b \in Auction : AuctionHolds(b)'
      /\ \A m \in Number : ListingsEnd(m)
      /\ ~Listed(n)'
  BY <1>4, ClearedRows
<1>6. /\ wallets' \in [User -> Wallet] /\ journal' \in [User -> Totals]
      /\ outbox' \in [User -> [NotificationType -> Nat]]
  BY <1>1, <1>4, ClearedBooks
<1>7. plates[n].status # "ABSENT"
  <2>1. a \in AuctionsOf(n)
    BY <1>2, <1>3 DEF AuctionsOf
  <2> QED
    BY <1>2, <2>1, NoneIsNoRow DEF PInv, PlateHolds, ListingHolds, AuctionHolds
<1>8. [plates[n] EXCEPT !.status = "OWNED"] \in Plate
  BY <1>1 DEF DatabaseTypeOK, Plate, PlateStatus
<1>9. StatusChanges(n)
  BY <1>1, <1>4, <1>5, <1>7, <1>8 DEF StatusChanges, DatabaseTypeOK, Plate
<1>10. DatabaseTypeOK'
  BY <1>1, <1>4, <1>6, <1>9 DEF DatabaseTypeOK, StatusChanges
<1>11. PaymentTypes' /\ AuctionTypes' /\ AccountTypes'
  BY <1>1, <1>4, <1>5, AccountFrame DEF PaymentTypes, AuctionTypes
<1>12. InvoicesAreComplete' /\ InvoicesKept
  BY <1>4 DEF PInv, InvoicesAreComplete, InvoicesKept
<1> QED
  BY <1>5, <1>9, <1>10, <1>11, <1>12, StatusStep, TypesPrimed DEF PInv

LEMMA ConfiscateStep ==
  ASSUME PInv, NEW u \in User, ConfiscateFrom(u) PROVE PInv'
<1>1. AccountTypes
  BY Types DEF PInv
<1>2. AccountTypes'
  <2>1. confiscation' \in [running : BOOLEAN, ids : SUBSET User]
    BY <1>1 DEF AccountTypes, ConfiscateFrom
  <2>2. status' \in [User -> UserStatus] /\ activity' = activity
    BY <1>1 DEF AccountTypes, ConfiscateFrom, UserStatus
  <2> QED
    BY <1>1, <2>1, <2>2 DEF AccountTypes
<1>3. PlatesOf(u) \in SUBSET Number /\ \A n \in PlatesOf(u) : plates[n].status # "ABSENT"
  BY NoneIsNoRow DEF PlatesOf, PInv, PlateHolds
<1>4. /\ ClearListings(PlatesOf(u))
      /\ plates' = Moved(PlatesOf(u), Market!Confiscated)
      /\ primary' = PrimaryOutside(PlatesOf(u))
      /\ history' = MoveRecorded(PlatesOf(u), Market!Confiscated.owner, "CONFISCATION")
      /\ UNCHANGED <<revenue, blocked, policy, intents, reservations, lookup, charged, refused>>
      /\ UNCHANGED <<bids, bidding, now>>
  BY StatePlate DEF ConfiscateFrom
<1> QED
  BY <1>2, <1>3, <1>4, StatePlate, ForcedMove DEF OwnershipOperation

-----------------------------------------------------------------------------
(* The invariant holds                                                     *)

LEMMA PlateInit ==
  ASSUME Init, NEW n \in Number
  PROVE  /\ plates[n] \in Plate
         /\ plates[n].status = "ABSENT" => plates[n].owner = None
         /\ history[n] \in Seq(OwnershipHistory)
         /\ IF plates[n].status = "ABSENT" THEN history[n] = <<>>
            ELSE IsChain(history[n], plates[n].owner)
<1>1. PICK u \in User :
        history = [m \in Number |->
          CASE plates[m].status = "ABSENT" -> <<>>
            [] plates[m].status = "STATE_SALE" -> Market!EmittedAndConfiscated(u)
            [] plates[m].status = "OWNED" ->
                 <<[old |-> None, new |-> plates[m].owner, operation |-> "STATE_EMISSION"]>>]
  BY DEF Init
<1>2. plates[n] \in {Market!Absent, Market!Confiscated} \cup {Owned(v) : v \in User}
  BY DEF Init
<1>3. CASE plates[n] = Market!Absent
  <2>1. plates[n] \in Plate /\ plates[n].status = "ABSENT" /\ plates[n].owner = None
    BY <1>3 DEF Market!Absent, Plate, PlateStatus
  <2> QED
    BY <1>1, <2>1
<1>4. CASE plates[n] = Market!Confiscated
  <2> DEFINE first == [old |-> None, new |-> u, operation |-> "STATE_EMISSION"]
             second == [old |-> u, new |-> None, operation |-> "CONFISCATION"]
  <2>1. history[n] = <<first, second>>
    BY <1>1, <1>4, StatePlate DEF Market!EmittedAndConfiscated
  <2>2. first \in OwnershipHistory /\ second \in OwnershipHistory
    BY DEF OwnershipHistory, OwnershipOperation
  <2>3. IsChain(<<first, second>>, None)
    BY DEF IsChain
  <2> QED
    BY <1>4, <2>1, <2>2, <2>3, StatePlate
<1>5. ASSUME NEW v \in User, plates[n] = Owned(v)
      PROVE  /\ history[n] \in Seq(OwnershipHistory)
             /\ IsChain(history[n], v)
  <2> DEFINE first == [old |-> None, new |-> v, operation |-> "STATE_EMISSION"]
  <2>1. history[n] = <<first>>
    BY <1>1, <1>5, OwnedPlate
  <2>2. first \in OwnershipHistory
    BY DEF OwnershipHistory, OwnershipOperation
  <2>3. IsChain(<<first>>, v)
    BY DEF IsChain
  <2> QED
    BY <2>1, <2>2, <2>3
<1> QED
  BY <1>2, <1>3, <1>4, <1>5, OwnedPlate

LEMMA PInvInit == Init => PInv
<1> SUFFICES ASSUME Init PROVE PInv
  OBVIOUS
<1>1. /\ wallets = [u \in User |-> [available |-> Balance, frozen |-> 0]] /\ journal = wallets
      /\ revenue = 0 /\ primary = [u \in User |-> None] /\ blocked = {}
      /\ outbox = [u \in User |-> [type \in NotificationType |-> 0]]
      /\ policy \in Policies
  BY DEF Init, Market!EmptyOutbox, Market!NotificationType, NotificationType
<1>2. /\ plates = [n \in Number |-> plates[n]] /\ history = [n \in Number |-> history[n]]
  BY DEF Init
<1>3. plates \in [Number -> Plate] /\ history \in [Number -> Seq(OwnershipHistory)]
  BY <1>2, PlateInit
<1>4. DatabaseTypeOK
  <2>1. wallets \in [User -> Wallet] /\ journal \in [User -> Totals]
    BY <1>1, AmountsAreWhole DEF Wallet, Totals
  <2> QED
    BY <1>1, <1>3, <2>1 DEF DatabaseTypeOK
<1>5. /\ sales = [s \in Sale |-> Market!NoSale] /\ intents = [i \in Intent |-> Market!NoIntent]
      /\ reservations = [n \in Number |-> None] /\ lookup = [u \in User |-> None]
      /\ charged = [c \in Charge |-> None] /\ refused = {}
  BY DEF Init, Market!PaymentInit
<1>6. PaymentTypes
  <2>1. Market!NoSale \in Market!SaleRow /\ Market!NoIntent \in Market!PaymentIntent
    BY DEF Market!NoSale, Market!SaleRow, Market!NoIntent, Market!PaymentIntent
  <2> QED
    BY <1>5, <2>1 DEF PaymentTypes
<1>7. /\ auctions = [a \in Auction |-> Auctioning!NoAuction]
      /\ bids = [a \in Auction |-> <<>>]
      /\ bidding = [a \in Auction |-> Auctioning!NoAttempt] /\ now = 0
  BY DEF Init, Auctioning!AuctionInit
<1>8. AuctionTypes
  <2>1. Auctioning!NoAuction \in Auctioning!AuctionRow
    BY DEF Auctioning!NoAuction, Auctioning!AuctionRow
  <2> QED
    BY <1>7, <2>1, NoAttemptType, AmountsAreWhole DEF AuctionTypes
<1>9. AccountTypes
  BY DEF Init, AccountTypes, UserStatus, Ages
<1>10. InvoicesAreComplete /\ SalesAreComplete
  BY <1>5 DEF InvoicesAreComplete, SalesAreComplete, Market!NoIntent, Market!NoSale
<1>11. \A a \in Auction : AuctionHolds(a)
  BY <1>7 DEF AuctionHolds, Auctioning!NoAuction, Auctioning!NoAttempt
<1>12. ASSUME NEW n \in Number PROVE PlateHolds(n)
  <2>1. SalesOf(n) = {} /\ AuctionsOf(n) = {}
    BY <1>5, <1>7 DEF SalesOf, AuctionsOf, Market!NoSale, Auctioning!NoAuction
  <2>2. ListingHolds(n)
    BY <2>1 DEF ListingHolds, Listed
  <2>3. \A i \in Intent : intents[i].kind = None
    BY <1>5 DEF Market!NoIntent
  <2> QED
    BY <1>1, <2>2, <2>3, PlateInit, NoneIsNoRow, NoneIsNoId DEF PlateHolds
<1> QED
  BY <1>4, <1>6, <1>8, <1>9, <1>10, <1>11, <1>12, Types DEF PInv

LEMMA PInvNext == PInv /\ [Next]_vars => PInv'
<1> SUFFICES ASSUME PInv, [Next]_vars PROVE PInv'
  OBVIOUS
<1>1. CASE UNCHANGED vars
  BY <1>1, AccountStep, AccountFrame, Types DEF vars, PInv
<1>2. CASE \E u \in User : Touch(u) \/ GrowOlder(u)
  BY <1>2, TouchStep
<1>3. CASE MarketStep \/ AuctionStep \/ ChangeSetting
  BY <1>3, MarketOperations, AuctionOperations, ChangeSettingStep
<1>4. CASE AdminStep
  BY <1>4, RemoveSaleStep, ForceMoveStep, ForceCancelAuctionStep, AdjustBalanceStep, BlockStep
  DEF AdminStep
<1>5. CASE JobStep
  BY <1>5, QueueWarningsStep, JobReadsStep, ConfiscateStep DEF JobStep
<1> QED
  BY <1>1, <1>2, <1>3, <1>4, <1>5 DEF Next

\* The invariant of the whole database, in particular that the rows exist which
\* sales, auctions and invoices refer to.
THEOREM InvariantHolds == Spec => []PInv
<1> QED
  BY PInvInit, PInvNext, PTL DEF Spec

\* Every column holds a value of its type, whatever the services, the
\* administrator and the jobs write.
THEOREM TypeCorrect == Spec => []TypeOK
<1>1. PInv => TypeOK
  BY DEF PInv
<1> QED
  BY <1>1, InvariantHolds, PTL

LEMMA AtMostOne ==
  ASSUME NEW S, NEW T, \A x, y \in S : x = y, \A x, y \in T : x = y, S = {} \/ T = {}
  PROVE  Cardinality(S) + Cardinality(T) <= 1
<1>1. ASSUME NEW R, \A x, y \in R : x = y
      PROVE  \/ R = {} /\ Cardinality(R) = 0
             \/ Cardinality(R) = 1
  <2>1. CASE R = {}
    BY <2>1, FS_EmptySet
  <2>2. CASE R # {}
    <3>1. PICK x \in R : R = {x}
      BY <1>1, <2>2
    <3> QED
      BY <3>1, FS_Singleton
  <2> QED
    BY <2>1, <2>2
<1>2. \/ S = {} /\ Cardinality(S) = 0
      \/ Cardinality(S) = 1
  BY <1>1
<1>3. \/ T = {} /\ Cardinality(T) = 0
      \/ Cardinality(T) = 1
  BY <1>1
<1> QED
  BY <1>2, <1>3, FS_EmptySet

\* Sales of Marketplace and auctions of Auctions never offer a plate twice, and
\* nobody offers a plate that was taken from him: their operations and the
\* administrator's leave at most one open listing of a plate, its owner's.
THEOREM PlatesAreListedOnce == Spec => []OneListing
<1>1. PInv => OneListing
  <2> SUFFICES ASSUME PInv, NEW n \in Number
               PROVE  /\ Cardinality(SalesOf(n)) + Cardinality(AuctionsOf(n)) <= 1
                      /\ \A s \in SalesOf(n) : sales[s].seller = plates[n].owner
                      /\ \A a \in AuctionsOf(n) : auctions[a].seller = plates[n].owner
    BY DEF OneListing, Market!ActiveSales, SalesOf, Auctioning!OpenAuctions, AuctionsOf,
           Auctioning!IsOpen, Auctioning!Open
  <2>1. ListingHolds(n)
    BY DEF PInv, PlateHolds
  <2> QED
    BY <2>1, AtMostOne DEF ListingHolds
<1> QED
  BY <1>1, InvariantHolds, PTL

\* The ownership history of every plate is a chain from the emission to the
\* present owner, through sales, auctions, forced transfers and confiscations.
THEOREM HistoryIsChain == Spec => []OwnershipChain
<1>1. PInv => OwnershipChain
  BY DEF PInv, PlateHolds, OwnershipChain, Market!OwnershipChain, Market!IsChain, IsChain
<1> QED
  BY <1>1, InvariantHolds, PTL

\* A profile shows only plates of its owner: _clear_listing and the deliveries of
\* Marketplace and Auctions leave no profile with a plate that went away.
THEOREM ProfilesShowOwnPlates == Spec => []PrimaryIsOwned
<1>1. PInv => PrimaryIsOwned
  BY DEF PInv, TypeOK, Market!TypeOK, Market!DatabaseTypeOK, PlateHolds, PrimaryIsOwned,
         Market!PrimaryIsOwned
<1> QED
  BY <1>1, InvariantHolds, PTL

-----------------------------------------------------------------------------
(* Confiscation                                                            *)

\* Only confiscate_inactive makes a user inactive.
LEMMA OnlyConfiscated ==
  ASSUME TypeOK, [Next]_vars, NEW u \in User, status[u] # "INACTIVE", status'[u] = "INACTIVE"
  PROVE  ConfiscateFrom(u)
<1>1. status \in [User -> UserStatus]
  BY DEF TypeOK
<1>2. ASSUME UNCHANGED status PROVE FALSE
  BY <1>2
<1>3. CASE \E v \in User : Touch(v) \/ GrowOlder(v)
  BY <1>1, <1>2, <1>3 DEF Touch, GrowOlder
<1>4. CASE MarketStep \/ AuctionStep \/ ChangeSetting \/ UNCHANGED vars
  BY <1>2, <1>4 DEF MarketStep, AuctionStep, ChangeSetting, vars, accountVars
<1>5. CASE AdminStep
  BY <1>1, <1>2, <1>5
  DEF AdminStep, RemoveSale, ForceReturnToState, ForceTransfer, ForceMove, ForceCancelAuction,
      AdjustBalance, Block, Unblock, accountVars
<1>6. CASE JobStep
  <2>1. CASE \E v \in User : ConfiscateFrom(v)
    BY <1>1, <2>1 DEF ConfiscateFrom
  <2>2. CASE ~ \E v \in User : ConfiscateFrom(v)
    BY <1>2, <1>6, <2>2
    DEF JobStep, QueueWarnings, ConfiscationReads, ConfiscationSkips, ConfiscationBreaksOff,
        ConfiscationEnds
  <2> QED
    BY <2>1, <2>2
<1> QED
  BY <1>3, <1>4, <1>5, <1>6 DEF Next

\* A user who came back between the two transactions of confiscate_inactive is
\* not confiscated.
THEOREM LapsedAreConfiscated == Spec => OnlyLapsedAreConfiscated
<1>1. TypeOK /\ [Next]_vars =>
        \A u \in User : status[u] # "INACTIVE" /\ status'[u] = "INACTIVE" => activity[u] = "lapsed"
  BY OnlyConfiscated DEF ConfiscateFrom, StillInactive
<1> QED
  BY <1>1, TypeCorrect, PTL DEF Spec, OnlyLapsedAreConfiscated

\* After confiscate_inactive a user owns nothing and sells nothing: the listings
\* that _clear_listing withdraws are all there were.
THEOREM ConfiscationTakesEverything == Spec => ConfiscationIsComplete
<1>1. ASSUME PInv, [Next]_vars, NEW u \in User, status[u] # "INACTIVE", status'[u] = "INACTIVE"
      PROVE  /\ \A n \in Number : plates'[n].owner # u
             /\ \A s \in Sale : sales'[s].seller = u => sales'[s].status \notin {"ACTIVE", "RESERVED"}
             /\ \A a \in Auction :
                  auctions'[a].seller = u => auctions'[a].status \notin {"ACTIVE", "EXTENDED"}
  <2>1. ConfiscateFrom(u) /\ PInv'
    BY <1>1, OnlyConfiscated, PInvNext DEF PInv
  <2>2. \A n \in Number : plates'[n].owner # u
    BY <2>1, StatePlate, NoneIsNoRow DEF ConfiscateFrom, Moved, PlatesOf
  <2>3. ASSUME NEW s \in Sale, sales'[s].status \in {"ACTIVE", "RESERVED"}
        PROVE  sales'[s].seller # u
    <3>1. PICK n \in Number : n = sales'[s].plate
      BY <2>1, <2>3 DEF PInv, SalesAreComplete
    <3>2. s \in SalesOf(n)'
      BY <2>3, <3>1 DEF SalesOf
    <3> QED
      BY <2>1, <2>2, <3>2 DEF PInv, PlateHolds, ListingHolds
  <2>4. ASSUME NEW a \in Auction, auctions'[a].status \in {"ACTIVE", "EXTENDED"}
        PROVE  auctions'[a].seller # u
    <3>1. PICK n \in Number : n = auctions'[a].plate
      BY <2>1, <2>4 DEF PInv, AuctionHolds
    <3>2. a \in AuctionsOf(n)'
      BY <2>4, <3>1 DEF AuctionsOf
    <3> QED
      BY <2>1, <2>2, <3>2 DEF PInv, PlateHolds, ListingHolds
  <2> QED
    BY <2>2, <2>3, <2>4
<1>2. PInv /\ [Next]_vars =>
        \A u \in User : status[u] # "INACTIVE" /\ status'[u] = "INACTIVE" =>
          /\ \A n \in Number : plates'[n].owner # u
          /\ \A s \in Sale : sales'[s].seller = u => sales'[s].status \notin {"ACTIVE", "RESERVED"}
          /\ \A a \in Auction :
               auctions'[a].seller = u => auctions'[a].status \notin {"ACTIVE", "EXTENDED"}
  BY <1>1
<1> QED
  BY <1>2, InvariantHolds, PTL DEF Spec, ConfiscationIsComplete

-----------------------------------------------------------------------------
(* How plates change hands                                                 *)

OwnersStay == \A n \in Number : plates'[n].owner = plates[n].owner

IsExchanged(n) ==
  \/ IsTaken(n)
  \/ \E s \in Market!ActiveSales(n) : IsSoldBy(plates[n].owner, n, s)
  \/ \E a \in Auctioning!OpenAuctions(n) : IsAuctionedBy(plates[n].owner, n, a)

\* What OwnersArePaid says of a step.
Exchanges ==
  \A n \in Number :
    plates[n].owner # None /\ plates'[n].owner # plates[n].owner => IsExchanged(n)

LEMMA StatusKeepsOwners ==
  ASSUME DatabaseTypeOK, NEW n, NEW s, plates' = [plates EXCEPT ![n].status = s]
  PROVE  OwnersStay
BY DEF DatabaseTypeOK, Plate, OwnersStay

LEMMA ReservationKeepsOwners ==
  ASSUME DatabaseTypeOK, NEW n, NEW u, NEW i, NEW s,
         plates' = Market!Reserved(n, u, i) \/ plates' = Market!Released(n, s)
  PROVE  OwnersStay
<1>1. CASE plates' = Market!Reserved(n, u, i)
  BY <1>1 DEF DatabaseTypeOK, Plate, OwnersStay, Market!Reserved
<1>2. CASE plates' = Market!Released(n, s)
  BY <1>2 DEF DatabaseTypeOK, Plate, OwnersStay, Market!Released
<1> QED
  BY <1>1, <1>2

\* What users do in Marketplace changes no owner: only payments do.
LEMMA MarketUsersKeepOwners ==
  ASSUME DatabaseTypeOK, NEW u \in User, Market!UserOperation(u) PROVE OwnersStay
<1>1. CASE UNCHANGED plates
  BY <1>1 DEF OwnersStay
<1>2. ASSUME NEW i \in Intent, \/ \E amount \in TopUp : Market!StartTopUp(u, i, amount)
                               \/ Market!ReserveNumber(u, i)
      PROVE  OwnersStay
  BY <1>1, <1>2 DEF Market!StartTopUp, Market!ReserveNumber, Market!databaseVars
<1>3. ASSUME NEW i \in Intent, NEW n \in Number,
             Market!StartStatePurchase(u, n, i) \/ Market!StartSalePurchase(u, n, i)
      PROVE  OwnersStay
  BY <1>3, ReservationKeepsOwners DEF Market!StartStatePurchase, Market!StartSalePurchase
<1>4. CASE Market!ReserveNumberFails(u) \/ Market!RepairPrimaryPlate(u)
  BY <1>1, <1>4 DEF Market!ReserveNumberFails, Market!RepairPrimaryPlate, Market!databaseVars
<1>5. ASSUME NEW n \in Number, Market!LookUpNumber(u, n) \/ Market!SetPrimaryPlate(u, n)
      PROVE  OwnersStay
  BY <1>1, <1>5 DEF Market!LookUpNumber, Market!SetPrimaryPlate, Market!databaseVars
<1>6. ASSUME NEW n \in Number, \/ \E s \in Sale, price \in Price : Market!CreateSale(u, n, s, price)
                               \/ Market!CancelSale(u, n)
      PROVE  OwnersStay
  BY <1>6, StatusKeepsOwners DEF Market!CreateSale, Market!CancelSale
<1> QED
  BY <1>2, <1>3, <1>4, <1>5, <1>6 DEF Market!UserOperation

LEMMA ExpiryKeepsOwners ==
  ASSUME DatabaseTypeOK, NEW i \in Intent,
         Market!InvoiceFallsDue(i) \/ Market!ExpirePendingPayment(i)
  PROVE  OwnersStay
<1>1. CASE UNCHANGED plates
  BY <1>1 DEF OwnersStay
<1>2. CASE Market!InvoiceFallsDue(i) \/ Market!ExpireTopUp(i) \/ Market!ExpireEmission(i)
  BY <1>1, <1>2 DEF Market!InvoiceFallsDue, Market!ExpireTopUp, Market!ExpireEmission,
                    Market!databaseVars
<1>3. CASE Market!ExpireStatePurchase(i)
  BY <1>3, ReservationKeepsOwners DEF Market!ExpireStatePurchase
<1>4. CASE Market!ExpireSalePurchase(i)
  BY <1>1, <1>4, ReservationKeepsOwners DEF Market!ExpireSalePurchase
<1> QED
  BY <1>2, <1>3, <1>4 DEF Market!ExpirePendingPayment

\* A payment to the State moves a plate nobody owns.
LEMMA StateSellsItsOwn ==
  ASSUME PInv, NEW c \in Charge, NEW i \in Intent,
         Market!CompleteStateEmission(c, i) \/ Market!CompleteStatePurchase(c, i)
  PROVE  Exchanges
<1>1. DatabaseTypeOK
  BY Types DEF PInv
<1>2. PICK n : n = intents[i].plate /\ plates' = Market!Delivered(n, intents[i].user)
  BY DEF Market!CompleteStateEmission, Market!CompleteStatePurchase
<1>3. n \in Number => plates[n].owner = None
  BY <1>2 DEF Market!CompleteStateEmission, Market!CompleteStatePurchase, Market!EmissionOpen,
              Market!StatePurchaseOpen, PInv, PlateHolds
<1>4. \A m \in Number \ {n} : plates'[m] = plates[m]
  BY <1>1, <1>2 DEF Market!Delivered, DatabaseTypeOK
<1> QED
  BY <1>3, <1>4 DEF Exchanges

LEMMA BuyersPay ==
  ASSUME PInv, NEW c \in Charge, NEW i \in Intent, Market!CompleteSalePurchase(c, i)
  PROVE  Exchanges
<1>1. DatabaseTypeOK /\ PaymentTypes
  BY Types DEF PInv
<1>2. InvoiceChanges(i) /\ intents[i].kind = "SALE_PURCHASE" /\ intents[i].status = "PENDING"
  BY InvoiceIsPaid DEF Market!CompleteSalePurchase, Market!Payable
<1>3. PICK buyer \in User, n \in Number, s \in Sale :
        buyer = intents[i].user /\ n = intents[i].plate /\ s = intents[i].sale
  BY <1>2 DEF PInv, InvoicesAreComplete, InvoiceChanges
<1>4. s \in Market!ActiveSales(n) /\ s \in SalesOf(n) /\ sales[s].price = intents[i].amount
  BY <1>3 DEF Market!CompleteSalePurchase, Market!SalePurchaseOpen, Market!ActiveSales, SalesOf
<1>5. PICK seller \in User : seller = sales[s].seller /\ plates[n].owner = seller
  BY <1>4 DEF PInv, SalesAreComplete, PlateHolds, ListingHolds, SalesOf
<1>6. PICK w : w = Market!Credited(wallets[seller], sales[s].price - sales[s].commission)
  OBVIOUS
<1>7. wallets' = [wallets EXCEPT ![seller] = w] /\ plates' = Market!Delivered(n, buyer)
  BY <1>3, <1>5, <1>6 DEF Market!CompleteSalePurchase
<1>8. wallets'[seller] = Credited(wallets[seller], sales[s].price - sales[s].commission)
  BY <1>1, <1>6, <1>7, SameBooks DEF DatabaseTypeOK
<1>9. sales'[s].status = "COMPLETED"
  BY <1>1, <1>3 DEF Market!CompleteSalePurchase, PaymentTypes, Market!SaleRow
<1>10. intents'[i].status = "PAID"
  BY <1>1 DEF Market!CompleteSalePurchase, Market!Paid, PaymentTypes, Market!PaymentIntent
<1>11. plates'[n].owner = buyer /\ \A m \in Number \ {n} : plates'[m] = plates[m]
  BY <1>1, <1>7 DEF Market!Delivered, DatabaseTypeOK
<1>12. IsSoldBy(seller, n, s)
  BY <1>2, <1>3, <1>4, <1>5, <1>8, <1>9, <1>10, <1>11 DEF IsSoldBy
<1> QED
  BY <1>4, <1>5, <1>11, <1>12 DEF Exchanges, IsExchanged

LEMMA MarketExchanges == ASSUME PInv, MarketStep PROVE Exchanges
<1>1. DatabaseTypeOK /\ PaymentTypes
  BY Types DEF PInv
<1>2. CASE OwnersStay
  BY <1>2 DEF OwnersStay, Exchanges
<1>3. CASE UNCHANGED plates
  BY <1>3 DEF Exchanges
<1>4. CASE \E u \in User : Market!UserOperation(u)
  BY <1>1, <1>2, <1>4, MarketUsersKeepOwners
<1>5. CASE \E i \in Intent, c \in Charge : Market!PayInvoice(i, c)
  BY <1>3, <1>5 DEF Market!PayInvoice, Market!databaseVars
<1>6. CASE \E i \in Intent : Market!InvoiceFallsDue(i) \/ Market!ExpirePendingPayment(i)
  BY <1>1, <1>2, <1>6, ExpiryKeepsOwners
<1>7. ASSUME NEW c \in Charge, Market!CompleteTelegramPayment(c) PROVE Exchanges
  <2>1. PICK i \in Intent : i = charged[c]
    BY <1>1, <1>7 DEF PaymentTypes, Market!CompleteTelegramPayment
  <2>2. CASE Market!CompleteTopUp(c, i) \/ Market!RefusePayment(c, i)
    BY <1>3, <2>2 DEF Market!CompleteTopUp, Market!RefusePayment, Market!databaseVars
  <2> QED
    BY <1>7, <2>1, <2>2, StateSellsItsOwn, BuyersPay DEF Market!CompleteTelegramPayment
<1> QED
  BY <1>4, <1>5, <1>6, <1>7 DEF MarketStep

\* Whoever wins an auction pays what he bid, and the seller gets it.
LEMMA WinnersPay ==
  ASSUME PInv, NEW a \in Auction, Auctioning!FinishSold(a, TRUE) PROVE Exchanges
<1>1. DatabaseTypeOK /\ AuctionTypes
  BY Types DEF PInv
<1>2. auctions[a].price \in Nat
  BY <1>1 DEF AuctionTypes, Auctioning!AuctionRow
<1>3. PICK n \in Number, seller \in User, winner \in User, price \in Nat, commission \in Nat :
        /\ n = auctions[a].plate /\ seller = auctions[a].seller /\ winner = auctions[a].leader
        /\ price = auctions[a].price /\ commission = Commission(policy, price)
  BY <1>2, SettlementParties DEF Auctioning!Commission, Commission
<1>4. a \in Auctioning!OpenAuctions(n) /\ a \in AuctionsOf(n)
  BY <1>3 DEF Auctioning!FinishSold, Auctioning!Finishable, Auctioning!OpenAuctions,
              Auctioning!IsOpen, Auctioning!Open, AuctionsOf
<1>5. plates[n].owner = seller /\ winner # seller
  BY <1>3, <1>4, NoneIsNoRow DEF PInv, PlateHolds, ListingHolds, AuctionHolds
<1>6. Auctioning!Proceeds(a) = price - commission
  BY <1>3 DEF Auctioning!Proceeds, Auctioning!Commission, Commission
<1>7. PICK paid, credited :
        /\ paid = Auctioning!Settled(wallets[winner], price)
        /\ credited = Auctioning!Credited(wallets[seller], price - commission)
  OBVIOUS
<1>8. /\ wallets' = [wallets EXCEPT ![winner] = paid, ![seller] = credited]
      /\ plates' = [plates EXCEPT ![n].owner = winner, ![n].status = "OWNED"]
      /\ auctions' = [auctions EXCEPT ![a].status = "FINISHED"]
  BY <1>3, <1>6, <1>7 DEF Auctioning!FinishSold
<1>9. wallets'[seller] = Credited(wallets[seller], price - commission)
  BY <1>1, <1>7, <1>8, SameBooks DEF DatabaseTypeOK
<1>10. wallets'[winner].frozen = wallets[winner].frozen - price
  BY <1>1, <1>5, <1>7, <1>8 DEF DatabaseTypeOK, Wallet, Auctioning!Settled
<1>11. auctions'[a].status = "FINISHED"
  BY <1>1, <1>8 DEF AuctionTypes, Auctioning!AuctionRow
<1>12. plates'[n].owner = winner /\ \A m \in Number \ {n} : plates'[m] = plates[m]
  BY <1>1, <1>8 DEF DatabaseTypeOK, Plate
<1>13. IsAuctionedBy(seller, n, a)
  BY <1>3, <1>9, <1>10, <1>11, <1>12 DEF IsAuctionedBy
<1> QED
  BY <1>4, <1>5, <1>12, <1>13 DEF Exchanges, IsExchanged

LEMMA AuctionExchanges == ASSUME PInv, AuctionStep PROVE Exchanges
<1>1. DatabaseTypeOK
  BY Types DEF PInv
<1>2. CASE OwnersStay
  BY <1>2 DEF OwnersStay, Exchanges
<1>3. CASE UNCHANGED plates
  BY <1>3 DEF Exchanges
<1>4. ASSUME NEW u \in User, Auctioning!UserOperation(u) PROVE Exchanges
  <2>1. ASSUME NEW a \in Auction, NEW n \in Number, NEW start \in StartPrice,
               NEW duration \in Duration, Auctioning!Create(u, n, a, start, duration)
        PROVE  OwnersStay
    BY <1>1, <2>1, StatusKeepsOwners DEF Auctioning!Create
  <2>2. ASSUME NEW a \in Auction, Auctioning!Cancel(u, a) PROVE OwnersStay
    BY <1>1, <2>2, StatusKeepsOwners DEF Auctioning!Cancel
  <2>3. ASSUME NEW a \in Auction, NEW amount, NEW at,
               Auctioning!BidReads(u, a, amount, at)
        PROVE  UNCHANGED plates
    BY <2>3 DEF Auctioning!BidReads, Auctioning!databaseVars
  <2> QED
    BY <1>2, <1>3, <1>4, <2>1, <2>2, <2>3 DEF Auctioning!UserOperation
<1>5. ASSUME NEW a \in Auction, Auctioning!Finish(a, TRUE) PROVE Exchanges
  <2>1. CASE Auctioning!FinishUnsold(a, TRUE)
    BY <1>1, <1>2, <2>1, StatusKeepsOwners DEF Auctioning!FinishUnsold, Auctioning!BackToOwner
  <2> QED
    BY <1>5, <2>1, WinnersPay DEF Auctioning!Finish
<1>6. ASSUME NEW a \in Auction, \/ Auctioning!BidCommits(a) \/ Auctioning!BidFails(a)
                                \/ \E k \in DOMAIN bids[a] : Auctioning!RepairSniping(a, k)
      PROVE  Exchanges
  BY <1>3, <1>6 DEF Auctioning!BidCommits, Auctioning!BidFails, Auctioning!RepairSniping,
                    Auctioning!databaseVars
<1>7. CASE Auctioning!Tick
  BY <1>3, <1>7 DEF Auctioning!Tick, Auctioning!databaseVars
<1> QED
  BY <1>4, <1>5, <1>6, <1>7 DEF AuctionStep, Auctioning!ServiceStep

\* The administrator and the confiscation write what they take into the history.
LEMMA ForceIsRecorded ==
  ASSUME DatabaseTypeOK, NEW P \in SUBSET Number, NEW row,
         NEW operation \in {"CONFISCATION", "ADMIN_TRANSFER"},
         plates' = Moved(P, row), history' = MoveRecorded(P, row.owner, operation)
  PROVE  Exchanges
<1>1. \A n \in Number : plates'[n] = IF n \in P THEN row ELSE plates[n]
  BY DEF Moved
<1>2. \A n \in P : history'[n] = Append(history[n],
        [old |-> plates[n].owner, new |-> plates'[n].owner, operation |-> operation])
  BY <1>1 DEF MoveRecorded
<1> QED
  BY <1>1, <1>2 DEF Exchanges, IsExchanged, IsTaken

LEMMA AdminExchanges == ASSUME PInv, AdminStep PROVE Exchanges
<1>1. DatabaseTypeOK
  BY Types DEF PInv
<1>2. CASE OwnersStay
  BY <1>2 DEF OwnersStay, Exchanges
<1>3. CASE UNCHANGED plates
  BY <1>3 DEF Exchanges
<1>4. ASSUME NEW n \in Number, RemoveSale(n) PROVE OwnersStay
  BY <1>1, <1>4, StatusKeepsOwners DEF RemoveSale
<1>5. ASSUME NEW a \in Auction, ForceCancelAuction(a) PROVE OwnersStay
  BY <1>1, <1>5, StatusKeepsOwners DEF ForceCancelAuction
<1>6. ASSUME NEW n \in Number, ForceReturnToState(n) \/ \E u \in User : ForceTransfer(n, u)
      PROVE  Exchanges
  <2>1. PICK row \in Plate, operation \in {"CONFISCATION", "ADMIN_TRANSFER"} :
          ForceMove(n, row, operation)
    BY <1>6, StatePlate, OwnedPlate DEF ForceReturnToState, ForceTransfer
  <2> QED
    BY <1>1, <2>1, ForceIsRecorded DEF ForceMove
<1>7. ASSUME NEW u \in User, \/ \E delta \in Adjustment : AdjustBalance(u, delta)
                             \/ Block(u) \/ Unblock(u)
      PROVE  Exchanges
  BY <1>3, <1>7 DEF AdjustBalance, Block, Unblock
<1> QED
  BY <1>2, <1>4, <1>5, <1>6, <1>7 DEF AdminStep

LEMMA JobExchanges == ASSUME PInv, JobStep PROVE Exchanges
<1>1. DatabaseTypeOK
  BY Types DEF PInv
<1>2. CASE UNCHANGED plates
  BY <1>2 DEF Exchanges
<1>3. ASSUME NEW u \in User, ConfiscateFrom(u) PROVE Exchanges
  <2>1. history' = MoveRecorded(PlatesOf(u), Market!Confiscated.owner, "CONFISCATION")
    BY <1>3, StatePlate DEF ConfiscateFrom
  <2>2. PlatesOf(u) \in SUBSET Number
    BY DEF PlatesOf
  <2> QED
    BY <1>1, <1>3, <2>1, <2>2, ForceIsRecorded DEF ConfiscateFrom
<1>4. CASE QueueWarnings \/ ConfiscationReads \/ ConfiscationEnds
  BY <1>2, <1>4 DEF QueueWarnings, ConfiscationReads, ConfiscationEnds, databaseVars
<1>5. CASE \E u \in User : ConfiscationSkips(u) \/ ConfiscationBreaksOff(u)
  BY <1>2, <1>5 DEF ConfiscationSkips, ConfiscationBreaksOff, databaseVars
<1> QED
  BY <1>3, <1>4, <1>5 DEF JobStep

\* Nobody loses a plate but by force or for the price he listed it at: deliveries
\* of Marketplace and settlements of Auctions find the plate with the owner who
\* listed it, whatever the administrator moved before.
THEOREM LosersArePaid == Spec => OwnersArePaid
<1>1. PInv /\ [Next]_vars => [Exchanges]_vars
  <2> SUFFICES ASSUME PInv, Next PROVE Exchanges
    OBVIOUS
  <2>1. CASE \E u \in User : Touch(u) \/ GrowOlder(u)
    BY <2>1 DEF Touch, GrowOlder, databaseVars, Exchanges
  <2>2. CASE ChangeSetting
    BY <2>2 DEF ChangeSetting, SetSetting, Exchanges
  <2> QED
    BY <2>1, <2>2, MarketExchanges, AuctionExchanges, AdminExchanges, JobExchanges DEF Next
<1>2. Exchanges <=> \A n \in Number : LET u == plates[n].owner IN
        u # None /\ plates'[n].owner # u =>
          \/ IsTaken(n)
          \/ \E s \in Market!ActiveSales(n) : IsSoldBy(u, n, s)
          \/ \E a \in Auctioning!OpenAuctions(n) : IsAuctionedBy(u, n, a)
  BY DEF Exchanges, IsExchanged
<1> QED
  BY <1>1, <1>2, InvariantHolds, PTL DEF Spec, OwnersArePaid

-----------------------------------------------------------------------------
(* Wallets                                                                 *)

Prices == [a \in Auction |-> auctions[a].price]

LedBy(u) ==
  {a \in Auction : auctions[a].status \in {"ACTIVE", "EXTENDED"} /\ auctions[a].leader = u}

\* LeadingBidsAreFrozen for one user.
Backed(u) == wallets[u].frozen = SumFunctionOnSet(Prices, LedBy(u))

\* What a running place_bid has read is still so, and it is the only one of its
\* bidder.
ReadsAreCurrent ==
  \A a \in Auction : bidding[a].bidder # None =>
    /\ bidding[a].seen = wallets[bidding[a].bidder]
    /\ \A b \in Auction : bidding[b].bidder = bidding[a].bidder => b = a

\* An auction that may be cancelled by its seller has no leader.
LeadersBid == \A a \in Auction : bids[a] = <<>> => auctions[a].leader = None

WInv ==
  /\ \A u \in User : journal[u] = wallets[u]
  /\ \A u \in User : Backed(u)
  /\ ReadsAreCurrent
  /\ LeadersBid

\* Auctions sums with its own copy of the operator.
LEMMA SameSums ==
  ASSUME NEW f, NEW S
  PROVE  Auctioning!SumFunctionOnSet(f, S) = SumFunctionOnSet(f, S)
BY DEF Auctioning!SumFunctionOnSet, SumFunctionOnSet, Auctioning!FoldFunctionOnSet,
       FoldFunctionOnSet, Auctioning!MapThenFoldSet, MapThenFoldSet

LEMMA FrozenBids == (\A u \in User : Backed(u)) <=> LeadingBidsAreFrozen
BY SameSums
DEF Backed, Prices, LedBy, LeadingBidsAreFrozen, Auctioning!FrozenBacksBids, Auctioning!LedBy,
    Auctioning!IsOpen, Auctioning!Open

LEMMA PricesAreNatural ==
  ASSUME AuctionTypes
  PROVE  /\ \A a \in Auction : Prices[a] \in Nat /\ Prices[a] \in Int
         /\ \A u : IsFiniteSet(LedBy(u)) /\ LedBy(u) \subseteq Auction
<1>1. \A a \in Auction : Prices[a] \in Nat
  BY DEF AuctionTypes, Auctioning!AuctionRow, Prices
<1>2. \A u : LedBy(u) \in SUBSET Auction
  BY DEF LedBy
<1> QED
  BY <1>1, <1>2, RowsAreFinite, FS_Subset

\* The row written with a change of a wallet brings the totals along with it.
LEMMA RecordedIsAfter ==
  ASSUME NEW before \in Wallet, NEW after \in Wallet
  PROVE  Recorded(before, before, after) = after
BY DEF Recorded, Wallet

LEMMA BackedFrame ==
  ASSUME AuctionTypes, NEW u \in User, Backed(u), wallets'[u].frozen = wallets[u].frozen,
         LedBy(u)' = LedBy(u), \A a \in LedBy(u) : auctions'[a].price = auctions[a].price
  PROVE  Backed(u)'
<1>1. \A a \in LedBy(u) : Prices'[a] = Prices[a]
  BY PricesAreNatural DEF Prices
<1>2. SumFunctionOnSet(Prices', LedBy(u)) = SumFunctionOnSet(Prices, LedBy(u))
  BY <1>1, PricesAreNatural, SumOfEquals
<1> QED
  BY <1>2 DEF Backed

\* Whoever takes the lead with a bid freezes it.
LEMMA BackedByBid ==
  ASSUME AuctionTypes, AuctionTypes', NEW u \in User, Backed(u),
         NEW a \in Auction, a \notin LedBy(u), LedBy(u)' = LedBy(u) \cup {a},
         \A b \in LedBy(u) : auctions'[b].price = auctions[b].price,
         wallets'[u].frozen = wallets[u].frozen + auctions'[a].price
  PROVE  Backed(u)'
<1>1. \A b \in LedBy(u) : Prices'[b] = Prices[b]
  BY PricesAreNatural DEF Prices
<1>2. SumFunctionOnSet(Prices', LedBy(u)) = SumFunctionOnSet(Prices, LedBy(u))
  BY <1>1, PricesAreNatural, SumOfEquals
<1>3. \A b \in Auction : Prices'[b] \in Int /\ Prices'[b] = auctions'[b].price
  BY DEF AuctionTypes, Auctioning!AuctionRow, Prices
<1>4. SumFunctionOnSet(Prices', LedBy(u) \cup {a})
        = Prices'[a] + SumFunctionOnSet(Prices', LedBy(u))
  BY <1>3, PricesAreNatural, SumWith
<1>5. SumFunctionOnSet(Prices, LedBy(u)) \in Int
  BY PricesAreNatural, SumType
<1> QED
  BY <1>2, <1>3, <1>4, <1>5 DEF Backed

\* Whoever stops leading some auctions has that much less frozen.
LEMMA BackedWithout ==
  ASSUME AuctionTypes, NEW u \in User, Backed(u), NEW L \in SUBSET LedBy(u),
         LedBy(u)' = LedBy(u) \ L,
         \A b \in LedBy(u) \ L : auctions'[b].price = auctions[b].price,
         wallets'[u].frozen = wallets[u].frozen - SumFunctionOnSet(Prices, L)
  PROVE  Backed(u)'
<1>1. \A b \in LedBy(u) \ L : Prices'[b] = Prices[b]
  BY PricesAreNatural DEF Prices
<1>2. IsFiniteSet(LedBy(u) \ L) /\ IsFiniteSet(L) /\ IsFiniteSet(LedBy(u))
  BY PricesAreNatural, FS_Subset
<1>3. SumFunctionOnSet(Prices', LedBy(u) \ L) = SumFunctionOnSet(Prices, LedBy(u) \ L)
  BY <1>1, <1>2, SumOfEquals
<1>4. \A b \in LedBy(u) : Prices[b] \in Int
  BY PricesAreNatural
<1>5. SumFunctionOnSet(Prices, LedBy(u))
        = SumFunctionOnSet(Prices, L) + SumFunctionOnSet(Prices, LedBy(u) \ L)
  BY <1>2, <1>4, SumOfParts
<1>6. SumFunctionOnSet(Prices, L) \in Int /\ SumFunctionOnSet(Prices, LedBy(u) \ L) \in Int
  BY <1>2, <1>4, SumType
<1> QED
  BY <1>3, <1>5, <1>6 DEF Backed

\* Wallets are written with their journal and not under a running place_bid.
LEMMA WalletsMove ==
  ASSUME WInv,
         \A u \in User : wallets'[u] = wallets[u] \/ \A a \in Auction : bidding'[a].bidder # u,
         \A a \in Auction : bidding'[a] = bidding[a] \/ bidding'[a].bidder = None,
         \A a \in Auction : bidding'[a].bidder \in User \cup {None},
         \A u \in User : journal'[u] = wallets'[u],
         \A u \in User : Backed(u)',
         LeadersBid'
  PROVE  WInv'
<1>1. ReadsAreCurrent'
  BY DEF WInv, ReadsAreCurrent
<1> QED
  BY <1>1 DEF WInv

\* Steps that move no Stars and change no leader.
LEMMA WalletsStay ==
  ASSUME PInv, WInv, UNCHANGED <<wallets, journal>>,
         \A u \in User : LedBy(u)' = LedBy(u),
         \A u \in User : \A a \in LedBy(u) : auctions'[a].price = auctions[a].price,
         \A a \in Auction : bidding'[a] = bidding[a] \/ bidding'[a].bidder = None,
         LeadersBid'
  PROVE  WInv'
<1>1. AuctionTypes
  BY Types DEF PInv
<1>2. \A u \in User : Backed(u)'
  BY <1>1, BackedFrame DEF WInv
<1>3. \A a \in Auction : bidding'[a].bidder \in User \cup {None}
  BY <1>1 DEF AuctionTypes, Auctioning!Attempt
<1> QED
  BY <1>2, <1>3, WalletsMove DEF WInv

LEMMA WalletsAside ==
  ASSUME PInv, WInv, UNCHANGED <<wallets, journal, auctionVars>>
  PROVE  WInv'
<1>1. UNCHANGED <<auctions, bids, bidding>>
  BY DEF auctionVars
<1> QED
  BY <1>1, WalletsStay DEF WInv, LedBy, LeadersBid

-----------------------------------------------------------------------------
(* Wallets under payments, accounts and adjustments                        *)

\* Available Stars change, with their row in transactions.
LEMMA WalletIsBooked ==
  ASSUME PInv, WInv, UNCHANGED auctionVars, NEW u \in User, Auctioning!Idle(u), NEW w \in Wallet,
         w.frozen = wallets[u].frozen,
         wallets' = [wallets EXCEPT ![u] = w],
         journal' = [journal EXCEPT ![u] = Recorded(@, wallets[u], w)]
  PROVE  WInv'
<1>1. AuctionTypes /\ wallets \in [User -> Wallet] /\ journal \in [User -> Totals]
  BY Types DEF PInv, DatabaseTypeOK
<1>2. UNCHANGED <<auctions, bids, bidding>>
  BY DEF auctionVars
<1>3. journal'[u] = w /\ wallets'[u] = w
      /\ \A v \in User \ {u} : journal'[v] = journal[v] /\ wallets'[v] = wallets[v]
  BY <1>1, RecordedIsAfter DEF WInv
<1>4. \A v \in User : journal'[v] = wallets'[v] /\ wallets'[v].frozen = wallets[v].frozen
  BY <1>3 DEF WInv
<1>5. \A v \in User : LedBy(v)' = LedBy(v)
  BY <1>2 DEF LedBy
<1>6. \A v \in User : Backed(v)'
  BY <1>1, <1>2, <1>4, <1>5, BackedFrame DEF WInv
<1>7. \A a \in Auction : bidding[a].bidder # u /\ bidding[a].bidder \in User \cup {None}
  BY <1>1 DEF Auctioning!Idle, AuctionTypes, Auctioning!Attempt
<1> QED
  BY <1>2, <1>3, <1>4, <1>6, <1>7, WalletsMove DEF WInv, LeadersBid

LEMMA AdjustBalanceWallets ==
  ASSUME PInv, WInv, NEW u \in User, NEW delta \in Adjustment, AdjustBalance(u, delta)
  PROVE  WInv'
<1>1. wallets[u] \in Wallet /\ delta \in Int
  BY Types, AdjustmentsAreWhole DEF PInv, DatabaseTypeOK
<1>2. PICK w \in Wallet :
        /\ w = IF delta > 0 THEN Credited(wallets[u], delta) ELSE Debited(wallets[u], -delta)
        /\ w.frozen = wallets[u].frozen
  <2>1. CASE delta > 0
    <3>1. Credited(wallets[u], delta) \in Wallet
      BY <1>1, <2>1, CreditedType DEF AdjustBalance
    <3> QED BY <1>1, <2>1, <3>1 DEF Credited, Wallet
  <2>2. CASE ~ (delta > 0)
    <3>1. Debited(wallets[u], -delta) \in Wallet
      <4>1. CanDebit(wallets[u], -delta) /\ -delta \in Int
        BY <1>1, <2>2 DEF AdjustBalance
      <4> QED BY <1>1, <4>1, DebitedType
    <3> QED BY <1>1, <2>2, <3>1 DEF Debited, Wallet
  <2> QED
    BY <2>1, <2>2
<1>3. /\ wallets' = [wallets EXCEPT ![u] = w]
      /\ journal' = [journal EXCEPT ![u] = Recorded(@, wallets[u], w)]
      /\ UNCHANGED auctionVars /\ Auctioning!Idle(u)
  BY <1>2 DEF AdjustBalance, Available
<1> QED
  BY <1>2, <1>3, WalletIsBooked

\* Marketplace credits the wallet of a user who tops up or has sold.
LEMMA MarketCredits ==
  ASSUME PInv, WInv, MarketStep, NEW u \in User, NEW amount \in Int, CanCredit(amount),
         NEW w, w = Credited(wallets[u], amount),
         wallets' = [wallets EXCEPT ![u] = w],
         journal' = [journal EXCEPT ![u] = Recorded(@, wallets[u], w)]
  PROVE  WInv'
<1>1. wallets \in [User -> Wallet] /\ wallets[u] \in Wallet
  BY Types DEF PInv, DatabaseTypeOK
<1>2. w \in Wallet /\ w.frozen = wallets[u].frozen
  <2>1. Credited(wallets[u], amount) \in Wallet
    BY <1>1, CreditedType
  <2> QED BY <1>1, <2>1 DEF Credited, Wallet
<1>3. wallets'[u] # wallets[u]
  BY <1>1 DEF Credited, CanCredit, Wallet
<1>4. Auctioning!Idle(u) /\ UNCHANGED auctionVars
  BY <1>3 DEF MarketStep, Rebooked
<1> QED
  BY <1>2, <1>4, WalletIsBooked

LEMMA CompleteTopUpWallets ==
  ASSUME PInv, WInv, MarketStep, NEW c \in Charge, NEW i \in Intent, Market!CompleteTopUp(c, i)
  PROVE  WInv'
<1>1. intents[i].status = "PENDING"
  BY DEF Market!CompleteTopUp, Market!Payable
<1>2. PICK u \in User : u = intents[i].user
  BY <1>1 DEF PInv, InvoicesAreComplete
<1>3. PICK amount \in Int : amount = intents[i].amount
  BY Types DEF PInv, PaymentTypes, Market!PaymentIntent
<1>4. PICK w : w = Credited(wallets[u], amount)
  OBVIOUS
<1>5. /\ CanCredit(amount)
      /\ wallets' = [wallets EXCEPT ![u] = w]
      /\ journal' = [journal EXCEPT ![u] = Recorded(@, wallets[u], w)]
  BY <1>2, <1>3, <1>4 DEF Market!CompleteTopUp, Market!CanCredit, CanCredit,
     Market!Credited, Credited, Market!Recorded, Recorded
<1> QED
  BY <1>4, <1>5, MarketCredits

LEMMA CompleteSalePurchaseWallets ==
  ASSUME PInv, WInv, MarketStep, NEW c \in Charge, NEW i \in Intent,
         Market!CompleteSalePurchase(c, i)
  PROVE  WInv'
<1>1. intents[i].status = "PENDING" /\ intents[i].kind = "SALE_PURCHASE"
  BY DEF Market!CompleteSalePurchase, Market!Payable
<1>2. PICK s \in Sale : s = intents[i].sale
  BY <1>1 DEF PInv, InvoicesAreComplete
<1>3. sales[s].status # "ABSENT"
  BY <1>2 DEF Market!CompleteSalePurchase, Market!SalePurchaseOpen, Market!ActiveSales
<1>4. PICK seller \in User : seller = sales[s].seller
  BY <1>3 DEF PInv, SalesAreComplete
<1>5. PICK amount \in Int : amount = sales[s].price - sales[s].commission
  <2>1. sales[s] \in Market!SaleRow
    BY Types DEF PInv, PaymentTypes
  <2> QED BY <2>1 DEF Market!SaleRow
<1>6. PICK w : w = Credited(wallets[seller], amount)
  OBVIOUS
<1>7. /\ wallets' = [wallets EXCEPT ![seller] = w]
      /\ journal' = [journal EXCEPT ![seller] = Recorded(@, wallets[seller], w)]
  BY <1>2, <1>4, <1>5, <1>6 DEF Market!CompleteSalePurchase, Market!Credited, Credited,
     Market!Recorded, Recorded
<1>8. CanCredit(amount)
  BY <1>2, <1>5 DEF Market!CompleteSalePurchase, Market!SalePurchaseOpen, Market!CanCredit,
     CanCredit
<1> QED
  BY <1>6, <1>7, <1>8, MarketCredits

LEMMA MarketWallets ==
  ASSUME PInv, WInv, MarketStep PROVE WInv'
<1>1. UNCHANGED auctionVars
  BY DEF MarketStep
<1>2. ASSUME UNCHANGED <<wallets, journal>> PROVE WInv'
  BY <1>1, <1>2, WalletsAside
<1>3. ASSUME UNCHANGED databaseVars PROVE WInv'
  BY <1>2, <1>3 DEF databaseVars
<1>4. ASSUME NEW u \in User, Market!UserOperation(u) PROVE WInv'
  BY <1>2, <1>3, <1>4
  DEF Market!UserOperation, Market!StartTopUp, Market!ReserveNumber, Market!StartStatePurchase,
      Market!StartSalePurchase, Market!ReserveNumberFails, Market!RepairPrimaryPlate,
      Market!LookUpNumber, Market!CreateSale, Market!CancelSale, Market!SetPrimaryPlate,
      databaseVars, Market!databaseVars
<1>5. ASSUME NEW i \in Intent, NEW c \in Charge, Market!PayInvoice(i, c) PROVE WInv'
  BY <1>3, <1>5 DEF Market!PayInvoice, databaseVars, Market!databaseVars
<1>6. ASSUME NEW i \in Intent, Market!InvoiceFallsDue(i) \/ Market!ExpirePendingPayment(i)
      PROVE  WInv'
  BY <1>2, <1>3, <1>6
  DEF Market!InvoiceFallsDue, Market!ExpirePendingPayment, Market!ExpireTopUp,
      Market!ExpireEmission, Market!ExpireStatePurchase, Market!ExpireSalePurchase,
      databaseVars, Market!databaseVars
<1>7. ASSUME NEW c \in Charge, Market!CompleteTelegramPayment(c) PROVE WInv'
  <2>1. PICK i \in Intent : i = charged[c]
    BY <1>7, Types DEF PInv, PaymentTypes, Market!CompleteTelegramPayment
  <2>2. \/ Market!CompleteTopUp(c, i) \/ Market!CompleteStateEmission(c, i)
        \/ Market!CompleteStatePurchase(c, i) \/ Market!CompleteSalePurchase(c, i)
        \/ Market!RefusePayment(c, i)
    BY <1>7, <2>1 DEF Market!CompleteTelegramPayment
  <2>3. CASE Market!CompleteStateEmission(c, i) \/ Market!CompleteStatePurchase(c, i)
    BY <1>2, <2>3 DEF Market!CompleteStateEmission, Market!CompleteStatePurchase
  <2>4. CASE Market!RefusePayment(c, i)
    BY <1>3, <2>4 DEF Market!RefusePayment, databaseVars, Market!databaseVars
  <2> QED
    BY <2>1, <2>2, <2>3, <2>4, CompleteTopUpWallets, CompleteSalePurchaseWallets
<1> QED
  BY <1>4, <1>5, <1>6, <1>7 DEF MarketStep

-----------------------------------------------------------------------------
(* Wallets under forced operations                                         *)

LEMMA NothingUnfrozen ==
  ASSUME NEW w \in Wallet PROVE Unfrozen(w, 0) = w
<1>1. Unfrozen(w, 0) \in Wallet
  <2>1. w.available + 0 \in Nat /\ w.frozen - 0 \in Nat
    BY DEF Wallet
  <2> QED
    BY <2>1 DEF Unfrozen, Wallet
<1>2. Unfrozen(w, 0).available = w.available /\ Unfrozen(w, 0).frozen = w.frozen
  BY DEF Unfrozen, Wallet
<1> QED
  BY <1>1, <1>2 DEF Wallet

\* _clear_listing gives back what backed the auctions it cancels.
LEMMA ClearedWallets ==
  ASSUME PInv, WInv, NEW P \in SUBSET Number, ClearListings(P), UNCHANGED <<bids, bidding>>
  PROVE  WInv'
<1>1. DatabaseTypeOK /\ AuctionTypes
  BY Types DEF PInv
<1>2. ASSUME NEW a \in Auction
      PROVE  /\ auctions'[a].leader = auctions[a].leader /\ auctions'[a].price = auctions[a].price
             /\ auctions'[a].status = IF a \in OpenAuctionsOf(P) THEN "CANCELLED"
                                      ELSE auctions[a].status
  <2>1. auctions[a] \in Auctioning!AuctionRow
    BY <1>1 DEF AuctionTypes
  <2>2. auctions'[a] = IF a \in OpenAuctionsOf(P)
                       THEN [auctions[a] EXCEPT !.status = "CANCELLED"] ELSE auctions[a]
    BY DEF ClearListings, AuctionsCancelled
  <2> QED
    BY <2>1, <2>2 DEF Auctioning!AuctionRow
<1>3. ASSUME NEW u \in User
      PROVE  /\ wallets'[u] = Unfrozen(wallets[u], Backing(u, P)) /\ wallets'[u] \in Wallet
             /\ wallets'[u].frozen = wallets[u].frozen - Backing(u, P)
             /\ journal'[u] = wallets'[u]
             /\ Led(u, P) = {} => wallets'[u] = wallets[u]
  <2>1. wallets[u] \in Wallet
    BY <1>1 DEF DatabaseTypeOK
  <2>2. wallets'[u] = Unfrozen(wallets[u], Backing(u, P)) /\ wallets'[u] \in Wallet
    <3>1. wallets'[u] = Unfrozen(wallets[u], Backing(u, P))
      BY DEF ClearListings, BidsReleased
    <3> QED
      BY <1>1, <3>1, ClearedWallet
  <2>3. journal'[u] = Recorded(wallets[u], wallets[u], wallets'[u])
    BY <2>2 DEF ClearListings, ReleaseRecorded, WInv
  <2>4. wallets'[u].frozen = wallets[u].frozen - Backing(u, P)
    BY <2>1, <2>2 DEF Unfrozen, Wallet
  <2>5. ASSUME Led(u, P) = {} PROVE wallets'[u] = wallets[u]
    <3>1. Backing(u, P) = 0
      BY <1>1, <2>5, BackingType
    <3> QED
      BY <2>1, <2>2, <3>1, NothingUnfrozen
  <2> QED
    BY <2>1, <2>2, <2>3, <2>4, <2>5, RecordedIsAfter
<1>4. ASSUME NEW u \in User PROVE Backed(u)'
  <2>1. /\ Led(u, P) \in SUBSET LedBy(u) /\ LedBy(u)' = LedBy(u) \ Led(u, P)
        /\ LedBy(u) \subseteq Auction
    <3>1. Led(u, P) = {a \in LedBy(u) : a \in OpenAuctionsOf(P)} /\ LedBy(u) \subseteq Auction
      BY DEF Led, LedBy, OpenAuctionsOf, Auctioning!IsOpen, Auctioning!Open
    <3>2. \A a \in Auction : a \in LedBy(u)' <=> a \in LedBy(u) /\ a \notin OpenAuctionsOf(P)
      BY <1>2 DEF LedBy
    <3>3. LedBy(u)' \subseteq Auction
      BY DEF LedBy
    <3> QED
      BY <3>1, <3>2, <3>3
  <2>2. wallets'[u].frozen = wallets[u].frozen - SumFunctionOnSet(Prices, Led(u, P))
    BY <1>3 DEF Backing, Prices
  <2> QED
    BY <1>1, <1>2, <2>1, <2>2, BackedWithout DEF WInv
<1>5. \A u \in User : wallets'[u] = wallets[u] \/ \A a \in Auction : bidding[a].bidder # u
  BY <1>3 DEF ClearListings, Available, Auctioning!Idle
<1>6. \A a \in Auction : bidding[a].bidder \in User \cup {None}
  BY <1>1 DEF AuctionTypes, Auctioning!Attempt
<1>7. LeadersBid'
  BY <1>2 DEF WInv, LeadersBid
<1> QED
  BY <1>3, <1>4, <1>5, <1>6, <1>7, WalletsMove

LEMMA AdminWallets ==
  ASSUME PInv, WInv, AdminStep PROVE WInv'
<1>1. ASSUME NEW n \in Number, RemoveSale(n) PROVE WInv'
  BY <1>1, WalletsAside DEF RemoveSale
<1>2. ASSUME NEW n \in Number, NEW row, NEW operation, ForceMove(n, row, operation) PROVE WInv'
  BY <1>2, ClearedWallets DEF ForceMove
<1>3. ASSUME NEW a \in Auction, ForceCancelAuction(a) PROVE WInv'
  <2>1. {auctions[a].plate} \in SUBSET Number
    BY <1>3 DEF PInv, AuctionHolds, ForceCancelAuction, Auctioning!IsOpen, Auctioning!Open
  <2> QED
    BY <1>3, <2>1, ClearedWallets DEF ForceCancelAuction
<1>4. ASSUME NEW u \in User, Block(u) \/ Unblock(u) PROVE WInv'
  BY <1>4, WalletsAside DEF Block, Unblock
<1> QED
  BY <1>1, <1>2, <1>3, <1>4, AdjustBalanceWallets
  DEF AdminStep, ForceReturnToState, ForceTransfer

LEMMA JobWallets ==
  ASSUME PInv, WInv, JobStep PROVE WInv'
<1>1. CASE QueueWarnings
  BY <1>1, WalletsAside DEF QueueWarnings
<1>2. ASSUME UNCHANGED <<databaseVars, auctionVars>> PROVE WInv'
  <2>1. UNCHANGED <<wallets, journal, auctionVars>>
    BY <1>2 DEF databaseVars
  <2> QED
    BY <2>1, WalletsAside
<1>3. CASE ConfiscationReads \/ ConfiscationEnds
  BY <1>2, <1>3 DEF ConfiscationReads, ConfiscationEnds
<1>4. ASSUME NEW u \in User, ConfiscationSkips(u) \/ ConfiscationBreaksOff(u) PROVE WInv'
  BY <1>2, <1>4 DEF ConfiscationSkips, ConfiscationBreaksOff
<1>5. ASSUME NEW u \in User, ConfiscateFrom(u) PROVE WInv'
  <2>1. PlatesOf(u) \in SUBSET Number
    BY DEF PlatesOf
  <2> QED
    BY <1>5, <2>1, ClearedWallets DEF ConfiscateFrom
<1> QED
  BY <1>1, <1>3, <1>4, <1>5 DEF JobStep

-----------------------------------------------------------------------------
(* Wallets under auctions                                                  *)

LEMMA BidReadsWallets ==
  ASSUME PInv, WInv, NEW u \in User, NEW a \in Auction, NEW amount, NEW at,
         Auctioning!BidReads(u, a, amount, at)
  PROVE  WInv'
<1> DEFINE try == [bidder |-> u, amount |-> amount, at |-> at, seen |-> wallets[u]]
<1>1. /\ \A b \in Auction : bidding[b].bidder # u
      /\ bidding' = [bidding EXCEPT ![a] = try]
      /\ UNCHANGED <<wallets, journal, auctions, bids>>
  BY DEF Auctioning!BidReads, Auctioning!Idle, Auctioning!databaseVars
<1>2. AuctionTypes
  BY Types DEF PInv
<1>3. bidding'[a] = try /\ \A b \in Auction \ {a} : bidding'[b] = bidding[b]
  BY <1>1, <1>2 DEF AuctionTypes
<1>4. ReadsAreCurrent'
  BY <1>1, <1>3 DEF WInv, ReadsAreCurrent
<1>5. \A v \in User : Backed(v)'
  <2>1. \A v \in User : LedBy(v)' = LedBy(v)
    BY <1>1 DEF LedBy
  <2> QED
    BY <1>1, <1>2, <2>1, BackedFrame DEF WInv
<1> QED
  BY <1>1, <1>4, <1>5 DEF WInv, LeadersBid

\* What a bid does to the auctions and to the wallets of the bidder and of the
\* former leader, and that transactions records it.
LEMMA BidEffects ==
  ASSUME PInv, WInv, NEW a \in Auction, Auctioning!BidCommits(a),
         NEW u \in User, u = bidding[a].bidder,
         NEW old \in User \cup {None}, old = auctions[a].leader
  PROVE  /\ u # old
         /\ auctions'[a].price = bidding[a].amount /\ auctions'[a].leader = u
         /\ auctions'[a].status \in {"ACTIVE", "EXTENDED"}
         /\ \A b \in Auction \ {a} : auctions'[b] = auctions[b]
         /\ wallets'[u].frozen = wallets[u].frozen + bidding[a].amount
         /\ old # None => wallets'[old].frozen = wallets[old].frozen - auctions[a].price
         /\ \A v \in User \ {u, old} : wallets'[v] = wallets[v]
         /\ \A v \in User : journal'[v] = wallets'[v]
<1> DEFINE try == bidding[a]
           price == auctions[a].price
           after == Frozen(try.seen, try.amount)
           back == Unfrozen(wallets[old], price)
           bid == [bidder |-> u, amount |-> try.amount, at |-> try.at,
                   applied |-> Auctioning!Sniping(a, try.at)]
           row == Auctioning!Outbid(a, bid)
<1>1. DatabaseTypeOK /\ AuctionTypes
  BY Types DEF PInv
<1>2. /\ u # old /\ try.amount \in Nat /\ try.at \in Nat /\ after \in Wallet
      /\ auctions[a].status \in {"ACTIVE", "EXTENDED"}
      /\ old # None => old \in User /\ back \in Wallet
  BY BidParties, SameBooks
<1>3. try.seen = wallets[u] /\ wallets[u] \in Wallet /\ wallets \in [User -> Wallet]
      /\ journal \in [User -> Totals] /\ price \in Nat
  BY <1>1, NoneIsNoRow DEF WInv, ReadsAreCurrent, DatabaseTypeOK, AuctionTypes,
     Auctioning!AuctionRow
<1>4. /\ wallets' = LET frozen == [wallets EXCEPT ![u] = after]
                    IN IF old = None THEN frozen
                       ELSE [frozen EXCEPT ![old] = Unfrozen(@, price)]
      /\ journal' = LET frozen == [journal EXCEPT ![u] = Recorded(@, wallets[u], after)]
                    IN IF old = None THEN frozen
                       ELSE [frozen EXCEPT ![old] = Recorded(@, wallets[old], back)]
      /\ auctions' = [auctions EXCEPT ![a] = row]
  BY <1>3
  DEF Auctioning!BidCommits, Auctioning!BidWallets, Auctioning!BidJournal, Auctioning!Recorded,
      Recorded, Auctioning!Frozen, Frozen, Auctioning!Unfrozen, Unfrozen
<1>5. row.price = try.amount /\ row.leader = u /\ row.status \in {"ACTIVE", "EXTENDED"}
  <2>1. auctions[a] \in Auctioning!AuctionRow /\ policy \in Policies
    BY <1>1 DEF AuctionTypes, DatabaseTypeOK
  <2>2. bid \in Auctioning!Bid /\ bid.bidder = u /\ bid.amount = try.amount
    BY <1>2 DEF Auctioning!Bid, Auctioning!Sniping
  <2> HIDE DEF bid
  <2> QED
    BY <1>2, <2>1, <2>2, OutbidRow
<1> HIDE DEF row, bid
<1>6. auctions'[a] = row /\ \A b \in Auction \ {a} : auctions'[b] = auctions[b]
  BY <1>1, <1>4 DEF AuctionTypes
<1>7. /\ after.frozen = wallets[u].frozen + try.amount
      /\ old # None => back.frozen = wallets[old].frozen - price
  BY <1>2, <1>3 DEF Frozen, Unfrozen, Wallet
<1>8. /\ Recorded(wallets[u], wallets[u], after) = after
      /\ old # None => Recorded(wallets[old], wallets[old], back) = back
  BY <1>2, <1>3, RecordedIsAfter
<1> HIDE DEF after
<1>9. /\ wallets'[u] = after
      /\ old # None => wallets'[old] = back
      /\ \A v \in User \ {u, old} : wallets'[v] = wallets[v]
  BY <1>2, <1>3, <1>4
<1> HIDE DEF back
<1>10. /\ journal'[u] = after
       /\ old # None => journal'[old] = back
       /\ \A v \in User \ {u, old} : journal'[v] = wallets[v]
  BY <1>2, <1>3, <1>4, <1>8 DEF WInv
<1> QED
  BY <1>2, <1>5, <1>6, <1>7, <1>9, <1>10, NoneIsNoRow

LEMMA BidCommitsWallets ==
  ASSUME PInv, PInv', WInv, NEW a \in Auction, Auctioning!BidCommits(a)
  PROVE  WInv'
<1>1. AuctionTypes /\ AuctionTypes'
  BY Types, PTL DEF PInv
<1>2. PICK u \in User : u = bidding[a].bidder
  BY BidParties
<1>3. PICK old \in User \cup {None} : old = auctions[a].leader
  BY <1>1 DEF AuctionTypes, Auctioning!AuctionRow
<1>4. /\ u # old
      /\ auctions'[a].price = bidding[a].amount /\ auctions'[a].leader = u
      /\ auctions'[a].status \in {"ACTIVE", "EXTENDED"}
      /\ \A b \in Auction \ {a} : auctions'[b] = auctions[b]
      /\ wallets'[u].frozen = wallets[u].frozen + bidding[a].amount
      /\ old # None => wallets'[old].frozen = wallets[old].frozen - auctions[a].price
      /\ \A v \in User \ {u, old} : wallets'[v] = wallets[v]
      /\ \A v \in User : journal'[v] = wallets'[v]
  BY <1>2, <1>3, BidEffects
<1>5. /\ bidding' = [bidding EXCEPT ![a] = Auctioning!NoAttempt]
      /\ old # None => \A b \in Auction : bidding[b].bidder # old
      /\ \E bid : bids' = [bids EXCEPT ![a] = Append(@, bid)]
  BY <1>3 DEF Auctioning!BidCommits, Auctioning!Idle
<1>6. bidding'[a].bidder = None /\ \A b \in Auction \ {a} : bidding'[b] = bidding[b]
  BY <1>1, <1>5 DEF AuctionTypes, Auctioning!NoAttempt
<1>7. auctions[a].status \in {"ACTIVE", "EXTENDED"}
  BY BidParties
<1>8. ASSUME NEW v \in User PROVE Backed(v)'
  <2>1. Backed(v) /\ LedBy(v) \subseteq Auction
    BY <1>1, PricesAreNatural DEF WInv
  <2>2. CASE v = u
    <3>1. a \notin LedBy(v) /\ LedBy(v)' = LedBy(v) \cup {a}
      BY <1>3, <1>4, <1>7, <2>2 DEF LedBy
    <3> QED
      BY <1>1, <1>4, <2>1, <2>2, <3>1, BackedByBid
  <2>3. CASE v = old
    <3>1. a \in LedBy(v) /\ LedBy(v)' = LedBy(v) \ {a}
      BY <1>3, <1>4, <1>7, <2>3 DEF LedBy
    <3>2. SumFunctionOnSet(Prices, {a}) = auctions[a].price
      BY <1>1, PricesAreNatural, SumOfOne DEF Prices
    <3>3. wallets'[v].frozen = wallets[v].frozen - SumFunctionOnSet(Prices, {a})
      BY <1>4, <2>3, <3>2, NoneIsNoRow
    <3> QED
      BY <1>1, <1>4, <2>1, <3>1, <3>3, BackedWithout
  <2>4. CASE v \notin {u, old}
    <3>1. a \notin LedBy(v) /\ LedBy(v)' = LedBy(v)
      BY <1>3, <1>4, <2>4 DEF LedBy
    <3> QED
      BY <1>1, <1>4, <2>1, <2>4, <3>1, BackedFrame
  <2> QED
    BY <2>2, <2>3, <2>4
<1>9. LeadersBid'
  <2>1. bids'[a] # <<>> /\ \A b \in Auction \ {a} : bids'[b] = bids[b]
    <3>1. PICK bid : bids' = [bids EXCEPT ![a] = Append(bids[a], bid)]
      BY <1>5
    <3>2. bids \in [Auction -> Seq(Auctioning!Bid)] /\ Len(bids[a]) \in Nat
      BY <1>1 DEF AuctionTypes
    <3>3. Append(bids[a], bid) # <<>>
      BY <3>2
    <3> QED
      BY <3>1, <3>2, <3>3
  <2> QED
    BY <1>4, <2>1 DEF WInv, LeadersBid
<1>10. \A v \in User : wallets'[v] = wallets[v] \/ \A b \in Auction : bidding'[b].bidder # v
  <2>1. \A b \in Auction \ {a} : bidding[b].bidder # u
    BY <1>2, NoneIsNoRow DEF WInv, ReadsAreCurrent
  <2> QED
    BY <1>4, <1>5, <1>6, <2>1, NoneIsNoRow
<1>11. \A b \in Auction : bidding'[b].bidder \in User \cup {None}
  BY <1>1 DEF AuctionTypes, Auctioning!Attempt
<1> QED
  BY <1>4, <1>6, <1>8, <1>9, <1>10, <1>11, WalletsMove

LEMMA FinishSoldWallets ==
  ASSUME PInv, WInv, NEW a \in Auction, Auctioning!FinishSold(a, TRUE)
  PROVE  WInv'
<1>1. DatabaseTypeOK /\ AuctionTypes
  BY Types DEF PInv
<1>2. PICK seller \in User, winner \in User, price \in Nat, paid \in Wallet, credited \in Wallet :
        /\ seller = auctions[a].seller /\ winner = auctions[a].leader
        /\ price = auctions[a].price
        /\ paid = Settled(wallets[winner], price)
        /\ credited = Credited(wallets[seller], Auctioning!Proceeds(a))
  <2>1. auctions[a].price \in Nat
    BY <1>1 DEF AuctionTypes, Auctioning!AuctionRow
  <2> QED
    BY <2>1, SettlementParties DEF Auctioning!Settled, Settled, Auctioning!Credited, Credited
<1>3. /\ auctions[a].status \in {"ACTIVE", "EXTENDED"}
      /\ winner # seller
  BY <1>2, SettlementParties, NoneIsNoRow DEF PInv, AuctionHolds
<1>4. /\ auctions' = [auctions EXCEPT ![a].status = "FINISHED"]
      /\ wallets' = [wallets EXCEPT ![winner] = paid, ![seller] = credited]
      /\ journal' = [journal EXCEPT ![winner] = Recorded(@, wallets[winner], paid),
                                    ![seller] = Recorded(@, wallets[seller], credited)]
      /\ \A b \in Auction : bidding[b].bidder \notin {winner, seller}
      /\ UNCHANGED <<bids, bidding>>
  BY <1>2 DEF Auctioning!FinishSold, Auctioning!Idle, Auctioning!Settled, Settled,
     Auctioning!Credited, Credited, Auctioning!Recorded, Recorded
<1>5. wallets \in [User -> Wallet] /\ journal = [u \in User |-> wallets[u]]
  BY <1>1 DEF WInv, DatabaseTypeOK
<1>6. /\ wallets'[winner] = paid /\ wallets'[seller] = credited
      /\ \A v \in User \ {winner, seller} : wallets'[v] = wallets[v]
  BY <1>3, <1>4, <1>5
<1>7. \A v \in User : journal'[v] = wallets'[v]
  <2>1. /\ Recorded(wallets[winner], wallets[winner], paid) = paid
        /\ Recorded(wallets[seller], wallets[seller], credited) = credited
    BY <1>5, RecordedIsAfter
  <2>2. journal[winner] = wallets[winner] /\ journal[seller] = wallets[seller]
    BY <1>5
  <2>3. /\ journal'[winner] = paid /\ journal'[seller] = credited
        /\ \A v \in User \ {winner, seller} : journal'[v] = journal[v]
    BY <1>3, <1>4, <1>5, <2>1, <2>2
  <2> QED
    BY <1>5, <1>6, <2>3
<1>8. wallets'[winner].frozen = wallets[winner].frozen - price
      /\ wallets'[seller].frozen = wallets[seller].frozen
  BY <1>2, <1>5, <1>6 DEF Settled, Credited, Wallet
<1>9. /\ auctions'[a].status = "FINISHED" /\ \A b \in Auction \ {a} : auctions'[b] = auctions[b]
      /\ \A b \in Auction : auctions'[b].leader = auctions[b].leader
      /\ \A b \in Auction : auctions'[b].price = auctions[b].price
  BY <1>1, <1>4 DEF AuctionTypes, Auctioning!AuctionRow
<1>10. ASSUME NEW v \in User PROVE Backed(v)'
  <2>1. Backed(v) /\ LedBy(v) \subseteq Auction
    BY <1>1, PricesAreNatural DEF WInv
  <2>2. CASE v = winner
    <3>1. a \in LedBy(v) /\ LedBy(v)' = LedBy(v) \ {a}
      BY <1>2, <1>3, <1>9, <2>2 DEF LedBy
    <3>2. SumFunctionOnSet(Prices, {a}) = price
      BY <1>2, SumOfOne DEF Prices
    <3>3. wallets'[v].frozen = wallets[v].frozen - SumFunctionOnSet(Prices, {a})
      BY <1>8, <2>2, <3>2
    <3> QED
      BY <1>1, <1>9, <2>1, <3>1, <3>3, BackedWithout
  <2>3. CASE v # winner
    <3>1. LedBy(v)' = LedBy(v)
      BY <1>2, <1>9, <2>3 DEF LedBy
    <3>2. wallets'[v].frozen = wallets[v].frozen
      BY <1>6, <1>8, <2>3
    <3> QED
      BY <1>1, <1>9, <2>1, <3>1, <3>2, BackedFrame
  <2> QED
    BY <2>2, <2>3
<1>11. LeadersBid' /\ \A b \in Auction : bidding[b].bidder \in User \cup {None}
  BY <1>1, <1>4, <1>9 DEF WInv, LeadersBid, AuctionTypes, Auctioning!Attempt
<1> QED
  BY <1>4, <1>6, <1>7, <1>10, <1>11, WalletsMove

\* An auction without a leader is closed, or opened.
LEMMA UnledWallets ==
  ASSUME PInv, WInv, NEW a \in Auction, auctions[a].leader = None, auctions'[a].leader = None,
         \A b \in Auction \ {a} : auctions'[b] = auctions[b],
         UNCHANGED <<wallets, journal, bids, bidding>>
  PROVE  WInv'
<1>1. \A u \in User : LedBy(u)' = LedBy(u) /\ a \notin LedBy(u) /\ LedBy(u) \subseteq Auction
  BY NoneIsNoRow DEF LedBy
<1>2. LeadersBid'
  BY DEF WInv, LeadersBid
<1> QED
  BY <1>1, <1>2, WalletsStay

LEMMA RepairSnipingWallets ==
  ASSUME PInv, WInv, NEW a \in Auction, NEW k \in DOMAIN bids[a],
         Auctioning!RepairSniping(a, k)
  PROVE  WInv'
<1>1. DatabaseTypeOK /\ AuctionTypes
  BY Types DEF PInv
<1>2. UNCHANGED <<wallets, journal, bidding>>
  BY DEF Auctioning!RepairSniping, Auctioning!databaseVars
<1>3. \/ auctions' = auctions
      \/ /\ Auctioning!IsOpen(a)
         /\ auctions' = [auctions EXCEPT ![a] = Auctioning!Extended(auctions[a])]
  BY DEF Auctioning!RepairSniping
<1>4. /\ \A b \in Auction : auctions'[b].leader = auctions[b].leader
      /\ \A b \in Auction : auctions'[b].price = auctions[b].price
      /\ \A b \in Auction : auctions'[b].status \in {"ACTIVE", "EXTENDED"}
                              <=> auctions[b].status \in {"ACTIVE", "EXTENDED"}
  <2>1. CASE auctions' = auctions
    BY <2>1
  <2>2. CASE /\ Auctioning!IsOpen(a)
             /\ auctions' = [auctions EXCEPT ![a] = Auctioning!Extended(auctions[a])]
    <3>1. LET longer == Auctioning!Extended(auctions[a])
          IN /\ longer.status = "EXTENDED" /\ longer.leader = auctions[a].leader
             /\ longer.price = auctions[a].price
      BY <1>1, ExtendedRow DEF AuctionTypes, DatabaseTypeOK
    <3>2. auctions[a].status \in {"ACTIVE", "EXTENDED"}
      BY <2>2 DEF Auctioning!IsOpen, Auctioning!Open
    <3>3. auctions'[a] = Auctioning!Extended(auctions[a])
          /\ \A b \in Auction \ {a} : auctions'[b] = auctions[b]
      BY <1>1, <2>2 DEF AuctionTypes
    <3> QED
      BY <3>1, <3>2, <3>3
  <2> QED
    BY <1>3, <2>1, <2>2
<1>5. \A b \in Auction : bids'[b] = <<>> => bids[b] = <<>>
  <2>1. bids' = [bids EXCEPT ![a] = [bids[a] EXCEPT ![k] = [bids[a][k] EXCEPT !.applied = TRUE]]]
    BY <1>1 DEF Auctioning!RepairSniping, Auctioning!Marked, AuctionTypes
  <2>2. DOMAIN [bids[a] EXCEPT ![k] = [bids[a][k] EXCEPT !.applied = TRUE]] = DOMAIN bids[a]
    OBVIOUS
  <2>3. DOMAIN bids[a] # DOMAIN <<>>
    OBVIOUS
  <2> QED
    BY <1>1, <2>1, <2>2, <2>3 DEF AuctionTypes
<1>6. LeadersBid'
  BY <1>4, <1>5 DEF WInv, LeadersBid
<1>7. \A u \in User : LedBy(u)' = LedBy(u) /\ LedBy(u) \subseteq Auction
  BY <1>4 DEF LedBy
<1> QED
  BY <1>2, <1>4, <1>6, <1>7, WalletsStay

LEMMA AuctionWallets ==
  ASSUME PInv, PInv', WInv, AuctionStep PROVE WInv'
<1>1. AuctionTypes
  BY Types DEF PInv
<1>2. ASSUME NEW u \in User, NEW n \in Number, NEW a \in Auction, NEW start \in StartPrice,
             NEW duration \in Duration, Auctioning!Create(u, n, a, start, duration)
      PROVE  WInv'
  <2>1. /\ auctions[a].leader = None /\ auctions'[a].leader = None
        /\ \A b \in Auction \ {a} : auctions'[b] = auctions[b]
        /\ UNCHANGED <<wallets, journal, bids, bidding>>
    BY <1>1, <1>2 DEF Auctioning!Create, PInv, AuctionHolds, AuctionTypes
  <2> QED
    BY <2>1, UnledWallets
<1>3. ASSUME NEW a \in Auction, NEW new, auctions[a].leader = None,
             auctions' = [auctions EXCEPT ![a].status = new],
             UNCHANGED <<wallets, journal, bids, bidding>>
      PROVE  WInv'
  <2>1. auctions'[a].leader = None /\ \A b \in Auction \ {a} : auctions'[b] = auctions[b]
    BY <1>1, <1>3 DEF AuctionTypes, Auctioning!AuctionRow
  <2> QED
    BY <1>3, <2>1, UnledWallets
<1>4. ASSUME NEW u \in User, NEW a \in Auction, Auctioning!Cancel(u, a) PROVE WInv'
  <2>1. auctions[a].leader = None
    BY <1>4 DEF Auctioning!Cancel, Auctioning!Cancellable, WInv, LeadersBid
  <2> QED
    BY <1>3, <1>4, <2>1 DEF Auctioning!Cancel
<1>5. ASSUME NEW a \in Auction, Auctioning!FinishUnsold(a, TRUE) PROVE WInv'
  BY <1>3, <1>5 DEF Auctioning!FinishUnsold
<1>6. ASSUME NEW a \in Auction, Auctioning!BidFails(a) PROVE WInv'
  <2>1. /\ UNCHANGED <<wallets, journal, auctions, bids>>
        /\ \A b \in Auction : bidding'[b] = bidding[b] \/ bidding'[b].bidder = None
    BY <1>1, <1>6 DEF Auctioning!BidFails, Auctioning!databaseVars, Auctioning!NoAttempt,
       AuctionTypes
  <2> QED
    BY <2>1, WalletsStay DEF WInv, LedBy, LeadersBid
<1>7. ASSUME Auctioning!Tick PROVE WInv'
  <2>1. UNCHANGED <<wallets, journal, auctions, bids, bidding>>
    BY <1>7 DEF Auctioning!Tick, Auctioning!databaseVars
  <2> QED
    BY <2>1, WalletsStay DEF WInv, LedBy, LeadersBid
<1>8. ASSUME NEW u \in User, Auctioning!UserOperation(u) PROVE WInv'
  BY <1>2, <1>4, <1>8, BidReadsWallets DEF Auctioning!UserOperation
<1>9. ASSUME Auctioning!ServiceStep PROVE WInv'
  BY <1>5, <1>6, <1>7, <1>9, BidCommitsWallets, FinishSoldWallets, RepairSnipingWallets
  DEF Auctioning!ServiceStep, Auctioning!Finish
<1> QED
  BY <1>8, <1>9 DEF AuctionStep

LEMMA WInvInit == Init => WInv
<1> SUFFICES ASSUME Init PROVE WInv
  OBVIOUS
<1>1. /\ wallets = [u \in User |-> [available |-> Balance, frozen |-> 0]] /\ journal = wallets
      /\ auctions = [a \in Auction |-> Auctioning!NoAuction]
      /\ bidding = [a \in Auction |-> Auctioning!NoAttempt]
  BY DEF Init, Auctioning!AuctionInit
<1>2. ASSUME NEW u \in User PROVE Backed(u)
  <2>1. LedBy(u) = {}
    BY <1>1 DEF LedBy, Auctioning!NoAuction
  <2> QED
    BY <1>1, <2>1, SumOfNothing DEF Backed
<1>3. ReadsAreCurrent /\ LeadersBid
  BY <1>1 DEF ReadsAreCurrent, LeadersBid, Auctioning!NoAuction, Auctioning!NoAttempt
<1> QED
  BY <1>1, <1>2, <1>3 DEF WInv

LEMMA WInvNext == PInv /\ PInv' /\ WInv /\ [Next]_vars => WInv'
<1> SUFFICES ASSUME PInv, PInv', WInv, [Next]_vars PROVE WInv'
  OBVIOUS
<1>1. ASSUME UNCHANGED <<databaseVars, auctionVars>> PROVE WInv'
  <2>1. UNCHANGED <<wallets, journal, auctionVars>>
    BY <1>1 DEF databaseVars
  <2> QED
    BY <2>1, WalletsAside
<1>2. CASE UNCHANGED vars
  BY <1>1, <1>2 DEF vars
<1>3. CASE \E u \in User : Touch(u) \/ GrowOlder(u)
  BY <1>1, <1>3 DEF Touch, GrowOlder
<1>4. CASE ChangeSetting
  BY <1>4, WalletsAside DEF ChangeSetting, SetSetting
<1> QED
  BY <1>2, <1>3, <1>4, MarketWallets, AuctionWallets, AdminWallets, JobWallets DEF Next

\* The invariant of the wallets, of the running place_bids that have read them
\* and of the auctions whose leaders they back.
THEOREM WalletsInvariantHolds == Spec => []WInv
<1> QED
  BY WInvInit, WInvNext, InvariantHolds, PTL DEF Spec

\* The rows of transactions explain every balance: bids and settlements,
\* payments, adjustments and forced cancellations record what they do to it,
\* and none works on a balance that another has changed since it was read.
THEOREM JournalIsComplete == Spec => []JournalExplainsWallets
<1>1. PInv /\ WInv => JournalExplainsWallets
  <2> SUFFICES ASSUME PInv, WInv PROVE journal = wallets
    BY DEF JournalExplainsWallets
  <2>1. journal \in [User -> Totals] /\ wallets \in [User -> Wallet]
    BY Types DEF PInv, DatabaseTypeOK
  <2> QED
    BY <2>1 DEF WInv
<1> QED
  BY <1>1, InvariantHolds, WalletsInvariantHolds, PTL

\* What is frozen in a wallet is exactly the leading bids of its owner, whatever
\* the administrator and the confiscation withdraw (_clear_listing).
THEOREM LeadingBidsStayFrozen == Spec => []LeadingBidsAreFrozen
<1>1. WInv => LeadingBidsAreFrozen
  BY FrozenBids DEF WInv
<1> QED
  BY <1>1, WalletsInvariantHolds, PTL
=============================================================================
