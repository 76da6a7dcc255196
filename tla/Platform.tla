------------------------------ MODULE Platform ------------------------------
(***************************************************************************)
(* The whole database at work: Marketplace and Auctions over one set of    *)
(* tables, AdminService (app/application/services/admin.py), which writes  *)
(* the tables of both, the registration of active users, and the jobs that *)
(* warn inactive users and confiscate their plates.                        *)
(*                                                                         *)
(* Administrators are not among User: the operations below do not apply to *)
(* them.  Their audit rows are not modelled.                               *)
(***************************************************************************)
EXTENDS Database, FiniteSetsExt

CONSTANTS
  Sale, Charge, Price, TopUp,                                     \* see Marketplace
  Auction, StartPrice, Amount, Duration, MaxTime, Balance,        \* see Auctions
  Adjustment,  \* the amounts an administrator adds to a balance
  Age,         \* bound: how old the last activity of a user may get
  MaxBalance,  \* bound of adjusted balances
  MaxHistory   \* bound of the transfers of a plate that forced operations extend

Ages == <<"recent", "quiet", "lapsed">>

ASSUME AdjustmentsAreWhole ==
  /\ Adjustment \subseteq Int /\ MaxBalance \in Nat /\ MaxHistory \in Nat
  /\ Age \subseteq {Ages[k] : k \in DOMAIN Ages}

\* The assumptions of Marketplace and Auctions.
ASSUME NoneIsNoId ==
  None \notin Sale \cup Charge \cup {"TOP_UP", "STATE_EMISSION", "STATE_PURCHASE", "SALE_PURCHASE"}
ASSUME AmountsAreWhole ==
  /\ Price \subseteq Nat /\ TopUp \subseteq Nat /\ StartPrice \subseteq Nat /\ Amount \subseteq Nat
  /\ Duration \subseteq Nat \ {0} /\ MaxTime \in Nat /\ Balance \in Nat
ASSUME RowsAreFinite == IsFiniteSet(Intent) /\ IsFiniteSet(Sale) /\ IsFiniteSet(Auction)

VARIABLES
  sales, intents, reservations, lookup, charged, refused,         \* see Marketplace
  auctions, bids, bidding, now,                                   \* see Auctions
  status,      \* users.status
  activity,    \* users.last_activity against the setting inactive_days
  confiscation \* the job inactive_accounts: the ids it read and has not handled

Market == INSTANCE Marketplace

\* Operations on one wallet take turns; what happens if they do not is shown
\* with Auctions alone.
Auctioning == INSTANCE Auctions WITH serialised <- TRUE, Disciplines <- {TRUE}

accountVars == <<status, activity, confiscation>>

paymentVars == <<sales, intents, reservations, lookup, charged, refused>>
auctionVars == <<auctions, bids, bidding, now>>

vars == <<databaseVars, paymentVars, auctionVars, accountVars>>

-----------------------------------------------------------------------------
(* Accounts.  `quiet': the last 30 days before the account lapses.         *)

UserStatus == {"ACTIVE", "BLOCKED", "INACTIVE"}

TypeOK ==
  /\ Market!TypeOK
  /\ Auctioning!TypeOK
  /\ status \in [User -> UserStatus]
  /\ activity \in [User -> {Ages[k] : k \in DOMAIN Ages}]
  /\ confiscation \in [running : BOOLEAN, ids : SUBSET User]

Owned(u) == [Market!Absent EXCEPT !.status = "OWNED", !.owner = u]

\* Numbers not issued yet, plates the State got back and plates owned; every
\* user topped up.
Init ==
  /\ plates \in [Number -> {Market!Absent, Market!Confiscated} \cup {Owned(u) : u \in User}]
  /\ \E u \in User :
       history = [n \in Number |->
         CASE plates[n].status = "ABSENT" -> <<>>
           [] plates[n].status = "STATE_SALE" -> Market!EmittedAndConfiscated(u)
           [] plates[n].status = "OWNED" ->
                <<[old |-> None, new |-> plates[n].owner, operation |-> "STATE_EMISSION"]>>]
  /\ wallets = [u \in User |-> [available |-> Balance, frozen |-> 0]]
  /\ journal = wallets
  /\ revenue = 0
  /\ primary = [u \in User |-> None]
  /\ outbox = Market!EmptyOutbox
  /\ blocked = {}
  /\ policy \in Policies
  /\ Market!PaymentInit
  /\ Auctioning!AuctionInit
  /\ status = [u \in User |-> "ACTIVE"]
  /\ activity = [u \in User |-> "recent"]
  /\ confiscation = [running |-> FALSE, ids |-> {}]

\* The row of the user is locked by no other operation (see Marketplace and
\* Auctions).
Available(u) == Market!Free(u) /\ Auctioning!Idle(u)

\* register_user, which the middleware calls before every update of the user.
Touch(u) ==
  /\ Market!Free(u)
  /\ activity' = [activity EXCEPT ![u] = "recent"]
  /\ status' = IF status[u] = "INACTIVE" /\ u \notin blocked
               THEN [status EXCEPT ![u] = "ACTIVE"] ELSE status
  /\ UNCHANGED <<databaseVars, paymentVars, auctionVars, confiscation>>

\* Days pass in which the user does nothing.
GrowOlder(u) ==
  /\ Market!Free(u)
  /\ \A a \in Auction : bidding[a].bidder # u
  /\ \E k, l \in DOMAIN Ages :
       /\ activity[u] = Ages[k] /\ k < l /\ Ages[l] \in Age
       /\ activity' = [activity EXCEPT ![u] = Ages[l]]
  /\ UNCHANGED <<databaseVars, paymentVars, auctionVars, status, confiscation>>

-----------------------------------------------------------------------------
(* The two services.  A user who does something was touched just before.   *)

\* Each module sees to the locks of its own operations.
Rebooked == {u \in User : wallets'[u] # wallets[u]}

MarketStep ==
  /\ \/ \E u \in User : activity[u] = "recent" /\ Market!UserOperation(u)
     \/ \E i \in Intent, c \in Charge :
          intents[i].user # None /\ activity[intents[i].user] = "recent" /\ Market!PayInvoice(i, c)
     \/ \E i \in Intent : Market!InvoiceFallsDue(i) \/ Market!ExpirePendingPayment(i)
     \/ \E c \in Charge :
          /\ charged[c] # None /\ activity[intents[charged[c]].user] = "recent"
          /\ Market!CompleteTelegramPayment(c)
  /\ \A u \in Rebooked : Auctioning!Idle(u)
  /\ UNCHANGED <<auctionVars, accountVars>>

\* The forced finish in ServiceStep may do whatever the timely one may.
AuctionStep ==
  /\ \/ \E u \in User : activity[u] = "recent" /\ Auctioning!UserOperation(u)
     \/ Auctioning!ServiceStep
  /\ \A u \in Rebooked : Market!Free(u)
  /\ UNCHANGED <<paymentVars, accountVars>>

ChangeSetting ==
  /\ \E p \in Policies : SetSetting(p)
  /\ UNCHANGED <<paymentVars, auctionVars, accountVars>>

-----------------------------------------------------------------------------
(* _clear_listing, for the plates of the set P                             *)

OpenAuctionsOf(P) == {a \in Auction : Auctioning!IsOpen(a) /\ auctions[a].plate \in P}

\* An invoice for the sale of one of the plates is open.
PaymentAwaited(P) == \E n \in P : \E s \in Market!ActiveSales(n) : sales[s].status = "RESERVED"

Led(u, P) == {a \in OpenAuctionsOf(P) : auctions[a].leader = u}

\* What is frozen in the wallet of u for the open auctions of P.
Backing(u, P) == SumFunctionOnSet([a \in Auction |-> auctions[a].price], Led(u, P))

\* Mutant: the leading bids stay frozen.
StillFrozen(P) == wallets

BidsReleased(P) == [u \in User |-> Unfrozen(wallets[u], Backing(u, P))]

\* Mutant: the release writes no transactions row.
ReleaseUnrecorded(P) == journal

ReleaseRecorded(P) ==
  [u \in User |-> Recorded(journal[u], wallets[u], Unfrozen(wallets[u], Backing(u, P)))]

\* Mutant: only sales are listings.
AuctionsKept(P) == auctions

AuctionsCancelled(P) ==
  [a \in Auction |-> IF a \in OpenAuctionsOf(P)
                     THEN [auctions[a] EXCEPT !.status = "CANCELLED"] ELSE auctions[a]]

\* ConflictError, or a wallet that has less frozen than it should.
CannotClear(P) ==
  PaymentAwaited(P) \/ \E u \in User : Led(u, P) # {} /\ ~CanTakeFrozen(wallets[u], Backing(u, P))

ClearListings(P) ==
  /\ ~CannotClear(P)
  /\ \A a \in OpenAuctionsOf(P) : Auctioning!Unlocked(a)
  /\ \A u \in User : Led(u, P) # {} => Available(u)
  /\ sales' = [s \in Sale |-> IF sales[s].plate \in P /\ sales[s].status = "ACTIVE"
                              THEN [sales[s] EXCEPT !.status = "CANCELLED"] ELSE sales[s]]
  /\ auctions' = AuctionsCancelled(P)
  /\ wallets' = BidsReleased(P)
  /\ journal' = ReleaseRecorded(P)
  /\ outbox' = [u \in User |->
       [outbox[u] EXCEPT !["AUCTION_CANCELLED"] = @ + Cardinality(Led(u, P))]]

\* The plates of P as State property, or as the property of u.
Moved(P, row) == [n \in Number |-> IF n \in P THEN row ELSE plates[n]]

\* Mutant: the former owner is not recorded.
MovedFromState(P, u, operation) ==
  [n \in Number |-> IF n \in P
     THEN Append(history[n], [old |-> None, new |-> u, operation |-> operation])
     ELSE history[n]]

MoveRecorded(P, u, operation) ==
  [n \in Number |-> IF n \in P
     THEN Append(history[n], [old |-> plates[n].owner, new |-> u, operation |-> operation])
     ELSE history[n]]

\* Mutant: the former owner's profile is left alone.
PrimaryWithin(P) == primary

PrimaryOutside(P) == [u \in User |-> IF primary[u] \in P THEN None ELSE primary[u]]

-----------------------------------------------------------------------------
(* The administrator's operations                                          *)

RemoveSale(n) ==
  /\ \E s \in Market!ActiveSales(n) :
       /\ sales[s].status # "RESERVED"
       /\ sales' = [sales EXCEPT ![s].status = "CANCELLED"]
  /\ plates' = [plates EXCEPT ![n].status = "OWNED"]
  /\ UNCHANGED <<wallets, journal, revenue, history, primary, blocked, outbox, policy,
                 intents, reservations, lookup, charged, refused, auctionVars,
                 accountVars>>

ForceCancelAuction(a) ==
  /\ Auctioning!IsOpen(a)
  /\ ClearListings({auctions[a].plate})
  /\ plates' = [plates EXCEPT ![auctions[a].plate].status = "OWNED"]
  /\ UNCHANGED <<revenue, history, primary, blocked, policy, intents, reservations, lookup,
                 charged, refused, bids, bidding, now, accountVars>>

ForceMove(n, row, operation) ==
  /\ plates[n].status # "ABSENT"
  /\ Len(history[n]) < MaxHistory
  /\ ClearListings({n})
  /\ plates' = Moved({n}, row)
  /\ primary' = PrimaryOutside({n})
  /\ history' = MoveRecorded({n}, row.owner, operation)
  /\ UNCHANGED <<revenue, blocked, policy, intents, reservations, lookup, charged, refused,
                 bids, bidding, now, accountVars>>

ForceReturnToState(n) == ForceMove(n, Market!Confiscated, "CONFISCATION")

ForceTransfer(n, u) ==
  /\ Market!Free(u)
  /\ u \notin blocked
  /\ ForceMove(n, Owned(u), "ADMIN_TRANSFER")

AdjustBalance(u, delta) ==
  LET w == IF delta > 0 THEN Credited(wallets[u], delta) ELSE Debited(wallets[u], -delta) IN
  /\ Available(u)
  /\ IF delta > 0 THEN CanCredit(delta) ELSE CanDebit(wallets[u], -delta)
  /\ w.available <= MaxBalance
  /\ wallets' = [wallets EXCEPT ![u] = w]
  /\ journal' = [journal EXCEPT ![u] = Recorded(@, wallets[u], w)]
  /\ UNCHANGED <<plates, revenue, history, primary, blocked, outbox, policy,
                 paymentVars, auctionVars, accountVars>>

Block(u) ==
  /\ Market!Free(u)
  /\ blocked' = blocked \cup {u}
  /\ status' = [status EXCEPT ![u] = "BLOCKED"]
  /\ UNCHANGED <<plates, wallets, journal, revenue, history, primary, outbox, policy,
                 paymentVars, auctionVars, activity, confiscation>>

Unblock(u) ==
  /\ Market!Free(u)
  /\ blocked' = blocked \ {u}
  /\ status' = [status EXCEPT ![u] = "ACTIVE"]
  /\ UNCHANGED <<plates, wallets, journal, revenue, history, primary, outbox, policy,
                 paymentVars, auctionVars, activity, confiscation>>

AdminStep ==
  \/ \E n \in Number :
       \/ RemoveSale(n)
       \/ ForceReturnToState(n)
       \/ \E u \in User : ForceTransfer(n, u)
  \/ \E a \in Auction : ForceCancelAuction(a)
  \/ \E u \in User :
       \/ \E delta \in Adjustment : AdjustBalance(u, delta)
       \/ Block(u)
       \/ Unblock(u)

-----------------------------------------------------------------------------
(* queue_inactivity_warnings: one warning for ever, whoever returned since. *)

QueueWarnings ==
  LET reached == {u \in User : /\ status[u] = "ACTIVE" /\ u \notin blocked
                               /\ activity[u] = "quiet"
                               /\ outbox[u]["ACCOUNT_INACTIVE_WARNING"] = 0} IN
  /\ outbox' = [u \in User |-> IF u \in reached
                  THEN [outbox[u] EXCEPT !["ACCOUNT_INACTIVE_WARNING"] = @ + 1] ELSE outbox[u]]
  /\ UNCHANGED <<plates, wallets, journal, revenue, history, primary, blocked, policy,
                 paymentVars, auctionVars, status, activity, confiscation>>

-----------------------------------------------------------------------------
(* confiscate_inactive: one transaction that reads the ids, then one for   *)
(* each id, in the order the database returned them.                       *)

ConfiscationReads ==
  /\ ~confiscation.running
  /\ confiscation' = [running |-> TRUE,
       ids |-> {u \in User : activity[u] = "lapsed" /\ u \notin blocked /\ status[u] = "ACTIVE"}]
  /\ UNCHANGED <<databaseVars, paymentVars, auctionVars, status, activity>>

\* Mutant: what the first transaction read is trusted.
StillListed(u) == TRUE

StillInactive(u) == status[u] = "ACTIVE" /\ activity[u] = "lapsed"

\* Mutant: only plates that are not listed are taken.
UnlistedPlatesOf(u) == {n \in Number : plates[n].owner = u /\ plates[n].status = "OWNED"}

PlatesOf(u) == {n \in Number : plates[n].owner = u}

ConfiscateFrom(u) ==
  /\ confiscation.running /\ u \in confiscation.ids
  /\ Market!Free(u)
  /\ StillInactive(u)
  /\ ClearListings(PlatesOf(u))
  /\ plates' = Moved(PlatesOf(u), Market!Confiscated)
  /\ primary' = PrimaryOutside(PlatesOf(u))
  /\ history' = MoveRecorded(PlatesOf(u), None, "CONFISCATION")
  /\ status' = [status EXCEPT ![u] = "INACTIVE"]
  /\ confiscation' = [confiscation EXCEPT !.ids = @ \ {u}]
  /\ UNCHANGED <<revenue, blocked, policy, intents, reservations, lookup, charged, refused,
                 bids, bidding, now, activity>>

ConfiscationSkips(u) ==
  /\ confiscation.running /\ u \in confiscation.ids
  /\ Market!Free(u)
  /\ ~StillInactive(u)
  /\ confiscation' = [confiscation EXCEPT !.ids = @ \ {u}]
  /\ UNCHANGED <<databaseVars, paymentVars, auctionVars, status, activity>>

\* An exception of _clear_listing leaves the loop.
ConfiscationBreaksOff(u) ==
  /\ confiscation.running /\ u \in confiscation.ids
  /\ Market!Free(u)
  /\ StillInactive(u)
  /\ CannotClear(PlatesOf(u))
  /\ confiscation' = [running |-> FALSE, ids |-> {}]
  /\ UNCHANGED <<databaseVars, paymentVars, auctionVars, status, activity>>

ConfiscationEnds ==
  /\ confiscation.running /\ confiscation.ids = {}
  /\ confiscation' = [running |-> FALSE, ids |-> {}]
  /\ UNCHANGED <<databaseVars, paymentVars, auctionVars, status, activity>>

JobStep ==
  \/ QueueWarnings
  \/ ConfiscationReads
  \/ \E u \in User : ConfiscateFrom(u) \/ ConfiscationSkips(u) \/ ConfiscationBreaksOff(u)
  \/ ConfiscationEnds

-----------------------------------------------------------------------------
Next ==
  \/ \E u \in User : Touch(u) \/ GrowOlder(u)
  \/ MarketStep
  \/ AuctionStep
  \/ ChangeSetting
  \/ AdminStep
  \/ JobStep

Spec == Init /\ [][Next]_vars

-----------------------------------------------------------------------------
(* Properties *)

\* Whatever is withdrawn by force, what is frozen in a wallet is exactly the
\* leading bids of its owner (_clear_listing gives them back).
LeadingBidsAreFrozen == Auctioning!FrozenBacksBids

\* Bids, payments, refunds and adjustments by the administrator: the rows of
\* transactions explain every balance.
JournalExplainsWallets == journal = wallets

\* Marketplace and Auctions never sell a plate twice, and nobody sells a plate
\* that was taken from him: all open sales and auctions of a plate are one, and
\* it was opened by the present owner.
OneListing ==
  \A n \in Number :
    LET inSale == Market!ActiveSales(n)
        inAuction == Auctioning!OpenAuctions(n) IN
    /\ Cardinality(inSale) + Cardinality(inAuction) <= 1
    /\ \A s \in inSale : sales[s].seller = plates[n].owner
    /\ \A a \in inAuction : auctions[a].seller = plates[n].owner

\* The ownership history stays a chain, also across forced transfers and
\* confiscations.
OwnershipChain == Market!OwnershipChain

\* A profile shows no plate that was taken from its owner by force.
PrimaryIsOwned == Market!PrimaryIsOwned

\* Only a user who has not come back is confiscated, although the ids were
\* read before, in another transaction.
OnlyLapsedAreConfiscated ==
  [][\A u \in User :
       status[u] # "INACTIVE" /\ status'[u] = "INACTIVE" => activity[u] = "lapsed"]_vars

\* Confiscation is complete: afterwards the user owns nothing and sells
\* nothing, whatever the user had listed.
ConfiscationIsComplete ==
  [][\A u \in User : status[u] # "INACTIVE" /\ status'[u] = "INACTIVE" =>
       /\ \A n \in Number : plates'[n].owner # u
       /\ \A s \in Sale : sales'[s].seller = u => sales'[s].status \notin {"ACTIVE", "RESERVED"}
       /\ \A a \in Auction : auctions'[a].seller = u => auctions'[a].status \notin {"ACTIVE", "EXTENDED"}]_vars

\* In this step the plate n is taken from its owner, as its history says.
IsTaken(n) ==
  \E operation \in {"CONFISCATION", "ADMIN_TRANSFER"} :
    history'[n] = Append(history[n],
      [old |-> plates[n].owner, new |-> plates'[n].owner, operation |-> operation])

\* In this step the sale s ends with a payment of its price, which u gets less
\* the commission, and the plate goes to whoever paid.
IsSoldBy(u, n, s) ==
  /\ sales[s].seller = u /\ sales'[s].status = "COMPLETED"
  /\ wallets'[u] = Credited(wallets[u], sales[s].price - sales[s].commission)
  /\ \E i \in Intent :
       /\ intents[i].status = "PENDING" /\ intents'[i].status = "PAID"
       /\ intents[i].amount = sales[s].price /\ intents[i].user = plates'[n].owner

\* In this step the auction a ends, its leader pays his bid, which u gets less the
\* commission, and the plate goes to the leader.
IsAuctionedBy(u, n, a) ==
  LET leader == auctions[a].leader
      price == auctions[a].price IN
  /\ auctions[a].seller = u /\ auctions'[a].status = "FINISHED"
  /\ wallets'[u] = Credited(wallets[u], price - Commission(policy, price))
  /\ leader = plates'[n].owner /\ wallets'[leader].frozen = wallets[leader].frozen - price

\* Nobody loses a plate for nothing: it leaves its owner by force, which the
\* history says, or through the open sale or auction that he started, which ends
\* in that very step and pays him.  An invoice or a bid that outlives a forced
\* transfer takes nothing from the new owner.
OwnersArePaid ==
  [][\A n \in Number : LET u == plates[n].owner IN
       u # None /\ plates'[n].owner # u =>
         \/ IsTaken(n)
         \/ \E s \in Market!ActiveSales(n) : IsSoldBy(u, n, s)
         \/ \E a \in Auctioning!OpenAuctions(n) : IsAuctionedBy(u, n, a)]_vars

\* "A plate cannot be changed while the payment of an invoice is awaited"
\* (admin.py:550): whoever changes it, an open invoice keeps what it holds
\* until its deadline, unless it is paid.
HoldIsKept == Market!HoldIsKept

\* A run of the job leaves out nobody who is still inactive and whose plates
\* could be taken.
EveryInactiveUserIsServed ==
  [][confiscation.running /\ ~confiscation'.running =>
       \A u \in confiscation.ids : StillInactive(u) => CannotClear(PlatesOf(u))]_vars

=============================================================================
