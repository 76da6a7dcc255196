------------------------------ MODULE Auctions ------------------------------
(***************************************************************************)
(* AuctionService (app/application/services/auction.py): English auctions  *)
(* of plates with bids frozen in the bidders' wallets.                     *)
(*                                                                         *)
(* place_bid is two actions.  It locks the auction, but reads the bidder   *)
(* without a lock; it locks the wallets later, and SQLAlchemy's session    *)
(* then returns the bidder object it already has, with the balances of the *)
(* first read.  "bidding" holds what the running place_bid of each auction *)
(* has read; whatever needs the lock of that auction waits for it to end.  *)
(*                                                                         *)
(* Time is the number of ticks since the start, up to MaxTime.             *)
(***************************************************************************)
EXTENDS Database, FiniteSetsExt

CONSTANTS
  Auction,     \* ids of auctions
  StartPrice,  \* the start prices sellers type
  Amount,      \* the amounts bidders type
  Duration,    \* the durations sellers choose, in ticks
  MaxTime,     \* bound of the clock
  Balance,     \* what every user has topped up before
  Disciplines  \* the values `serialised' may start with

ASSUME NumbersAreWhole ==
  /\ StartPrice \subseteq Nat /\ Amount \subseteq Nat /\ Duration \subseteq Nat \ {0}
  /\ MaxTime \in Nat /\ Balance \in Nat /\ Disciplines \subseteq BOOLEAN

\* A table has finitely many rows; durations (validate_auction) and windows
\* (set_setting) have a largest value.
ASSUME AuctionsAreFinite == IsFiniteSet(Auction)
ASSUME TimesAreBounded ==
  /\ IsFiniteSet(Duration) /\ Duration # {}
  /\ IsFiniteSet({p.auction_sniping : p \in Policies})

VARIABLES
  auctions,    \* auctions
  bids,        \* bids, by auction, in the order of insertion
  bidding,     \* the place_bid that holds the lock of the auction
  now,         \* the clock
  serialised   \* whether operations on one wallet never overlap (see Idle);
               \* chosen at the start and never changed

auctionVars == <<auctions, bids, bidding, now>>

vars == <<databaseVars, auctionVars, serialised>>

-----------------------------------------------------------------------------
(* Rows *)

Open == {"ACTIVE", "EXTENDED"}

\* is_finished and is_cancelled only repeat the status.
AuctionRow ==
  [status : Open \cup {"ABSENT", "FINISHED", "CANCELLED"}, plate : Number \cup {None},
   seller : User \cup {None}, start : Nat, price : Nat, leader : User \cup {None},
   startedAt : Nat, endsAt : Nat]

\* `applied' is anti_sniping_applied, `at' is created_at.
Bid == [bidder : User, amount : Nat, at : Nat, applied : BOOLEAN]

\* The bidder as place_bid read it, and the time it took at its start.
Attempt == [bidder : User \cup {None}, amount : Nat, at : Nat, seen : Wallet]

TypeOK ==
  /\ DatabaseTypeOK
  /\ auctions \in [Auction -> AuctionRow]
  /\ bids \in [Auction -> Seq(Bid)]
  /\ bidding \in [Auction -> Attempt]
  /\ now \in 0..MaxTime
  /\ serialised \in BOOLEAN

NoAuction == [status |-> "ABSENT", plate |-> None, seller |-> None, start |-> 0, price |-> 0,
              leader |-> None, startedAt |-> 0, endsAt |-> 0]

NoWallet == [available |-> 0, frozen |-> 0]

NoAttempt == [bidder |-> None, amount |-> 0, at |-> 0, seen |-> NoWallet]

IsOpen(a) == auctions[a].status \in Open

\* The row of the auction is not locked by a place_bid.
Unlocked(a) == bidding[a] = NoAttempt

\* Whether an operation may write the wallet of u now.  The code lets it: the
\* place_bid that has read the wallet holds no lock on it.  When serialised, the
\* operations on one wallet take turns, as if that read had locked the row.
Idle(u) == serialised => \A a \in Auction : bidding[a].bidder # u

-----------------------------------------------------------------------------
AuctionInit ==
  /\ auctions = [a \in Auction |-> NoAuction]
  /\ bids = [a \in Auction |-> <<>>]
  /\ bidding = [a \in Auction |-> NoAttempt]
  /\ now = 0

\* Some plates are owned, each through its emission, and every user topped up.
\* Bounds: at most one user is blocked, and no profile shows a plate (it may in
\* Platform).
Init ==
  /\ \E owner \in [Number -> User] :
       /\ plates = [n \in Number |-> [status |-> "OWNED", owner |-> owner[n],
                                      reservedBy |-> None, reservedUntil |-> None]]
       /\ history = [n \in Number |->
            <<[old |-> None, new |-> owner[n], operation |-> "STATE_EMISSION"]>>]
  /\ primary = [u \in User |-> None]
  /\ wallets = [u \in User |-> [available |-> Balance, frozen |-> 0]]
  /\ journal = [u \in User |-> [available |-> Balance, frozen |-> 0]]
  /\ revenue = 0
  /\ outbox = [u \in User |-> [type \in NotificationType |-> 0]]
  /\ blocked \in {{}} \cup {{u} : u \in User}
  /\ policy \in Policies
  /\ serialised \in Disciplines
  /\ AuctionInit

-----------------------------------------------------------------------------
(* Opening and cancelling.  Bound: a new auction takes an unused id.       *)

Create(u, n, a, start, duration) ==
  /\ plates[n].owner = u
  /\ u \notin blocked
  /\ plates[n].status = "OWNED"
  /\ ValidSalePrice(policy, start)
  /\ auctions[a].status = "ABSENT"
  /\ auctions' = [auctions EXCEPT ![a] =
       [status |-> "ACTIVE", plate |-> n, seller |-> u, start |-> start, price |-> start,
        leader |-> None, startedAt |-> now, endsAt |-> now + duration]]
  /\ plates' = [plates EXCEPT ![n].status = "AUCTION"]
  /\ UNCHANGED <<wallets, journal, revenue, history, primary, blocked, outbox, policy,
                 bids, bidding, now>>

\* Mutant: bids do not keep the seller from cancelling.
CancellableAnyway(u, a) == IsOpen(a) /\ auctions[a].seller = u

Cancellable(u, a) == IsOpen(a) /\ auctions[a].seller = u /\ bids[a] = <<>>

Cancel(u, a) ==
  /\ Unlocked(a)
  /\ Cancellable(u, a)
  /\ auctions' = [auctions EXCEPT ![a].status = "CANCELLED"]
  /\ plates' = [plates EXCEPT ![auctions[a].plate].status = "OWNED"]
  /\ UNCHANGED <<wallets, journal, revenue, history, primary, blocked, outbox, policy,
                 bids, bidding, now>>

-----------------------------------------------------------------------------
(* place_bid                                                               *)

Minimum(a) ==
  IF auctions[a].leader = None THEN auctions[a].start
  ELSE auctions[a].price + policy.auction_min_increment

\* From the lock of the auction to the lock of the wallets.  The clock was read
\* before the wait for the auction's lock, at some earlier moment `at'.
BidReads(u, a, amount, at) ==
  /\ Unlocked(a)
  /\ Idle(u)
  /\ IsOpen(a)
  /\ auctions[a].endsAt > at
  /\ u # auctions[a].seller
  /\ u \notin blocked
  /\ u # auctions[a].leader
  /\ amount >= Minimum(a)
  /\ bidding' = [bidding EXCEPT ![a] =
       [bidder |-> u, amount |-> amount, at |-> at, seen |-> wallets[u]]]
  /\ UNCHANGED <<databaseVars, auctions, bids, now>>

\* Mutant: off by one at the edge of the window.
SnipingInside(a, at) == auctions[a].endsAt - at < policy.auction_sniping

\* Whether the bid is within the window before the end that extends it.
Sniping(a, at) == auctions[a].endsAt - at <= policy.auction_sniping

Extended(row) ==
  [row EXCEPT !.endsAt = @ + policy.auction_sniping, !.status = "EXTENDED"]

\* The auction's row after a bid.
Outbid(a, bid) ==
  LET row == [auctions[a] EXCEPT !.price = bid.amount, !.leader = bid.bidder]
  IN IF bid.applied THEN Extended(row) ELSE row

\* Mutant: the former leader's Stars stay frozen.
BidWalletsKept(a, bidder, after) == [wallets EXCEPT ![bidder] = after]

\* Mutant: the former leader gets the new price back.
BidWalletsOverpaid(a, bidder, after) ==
  LET old == auctions[a].leader
      frozen == [wallets EXCEPT ![bidder] = after]
  IN IF old = None THEN frozen
     ELSE [frozen EXCEPT ![old] = Unfrozen(@, bidding[a].amount)]

\* The wallets of the bidder, as first read, and of the former leader, who is
\* loaded only now and therefore current.
BidWallets(a, bidder, after) ==
  LET old == auctions[a].leader
      frozen == [wallets EXCEPT ![bidder] = after]
  IN IF old = None THEN frozen
     ELSE [frozen EXCEPT ![old] = Unfrozen(@, auctions[a].price)]

BidJournal(a, bidder, seen, after) ==
  LET old == auctions[a].leader
      frozen == [journal EXCEPT ![bidder] = Recorded(@, seen, after)]
  IN IF old = None THEN frozen
     ELSE [frozen EXCEPT ![old] =
             Recorded(@, wallets[old], Unfrozen(wallets[old], auctions[a].price))]

BidCommits(a) ==
  LET try == bidding[a]
      u == try.bidder
      old == auctions[a].leader
      after == Frozen(try.seen, try.amount)
      bid == [bidder |-> u, amount |-> try.amount, at |-> try.at,
              applied |-> Sniping(a, try.at)]
  IN
  /\ u # None
  /\ CanFreeze(try.seen, try.amount)
  /\ old # None => Idle(old) /\ CanTakeFrozen(wallets[old], auctions[a].price)
  /\ wallets' = BidWallets(a, u, after)
  /\ journal' = BidJournal(a, u, try.seen, after)
  /\ bids' = [bids EXCEPT ![a] = Append(@, bid)]
  /\ auctions' = [auctions EXCEPT ![a] = Outbid(a, bid)]
  /\ outbox' = LET told == Queued(outbox, auctions[a].seller, "AUCTION_BID_PLACED")
               IN IF old = None THEN told ELSE Queued(told, old, "AUCTION_OUTBID")
  /\ bidding' = [bidding EXCEPT ![a] = NoAttempt]
  /\ UNCHANGED <<plates, revenue, history, primary, blocked, policy, now>>

\* The bidder cannot pay, the former leader's balance is inconsistent, or the
\* process or its connection dies: the transaction is rolled back.
BidFails(a) ==
  /\ bidding[a].bidder # None
  /\ bidding' = [bidding EXCEPT ![a] = NoAttempt]
  /\ UNCHANGED <<databaseVars, auctions, bids, now>>

-----------------------------------------------------------------------------
(* finish; `force' is the administrator's force_finish_auction             *)

\* Mutant: an auction that was closed meanwhile is finished again.
FinishableAgain(a, force) ==
  Unlocked(a) /\ auctions[a].status # "ABSENT" /\ (force \/ auctions[a].endsAt <= now)

Finishable(a, force) ==
  /\ Unlocked(a)
  /\ IsOpen(a)
  /\ force \/ auctions[a].endsAt <= now

\* Mutant: the unsold plate is not given back to its owner's use.
StillListed(a) == plates

BackToOwner(a) == [plates EXCEPT ![auctions[a].plate].status = "OWNED"]

FinishUnsold(a, force) ==
  /\ Finishable(a, force)
  /\ auctions[a].leader = None
  /\ auctions' = [auctions EXCEPT ![a].status = "FINISHED"]
  /\ plates' = BackToOwner(a)
  /\ outbox' = Queued(outbox, auctions[a].seller, "AUCTION_FINISHED")
  /\ UNCHANGED <<wallets, journal, revenue, history, primary, blocked, policy,
                 bids, bidding, now>>

\* Mutant: the commission is booked but not deducted.
ProceedsInFull(a) == auctions[a].price

\* What the seller gets.
Proceeds(a) == auctions[a].price - Commission(policy, auctions[a].price)

FinishSold(a, force) ==
  LET n == auctions[a].plate
      seller == auctions[a].seller
      winner == auctions[a].leader
      price == auctions[a].price
      paid == Settled(wallets[winner], price)
      credited == Credited(wallets[seller], Proceeds(a))
  IN
  /\ Finishable(a, force)
  /\ winner # None
  /\ Idle(seller) /\ Idle(winner)
  /\ CanTakeFrozen(wallets[winner], price)
  /\ CanCredit(Proceeds(a))
  /\ auctions' = [auctions EXCEPT ![a].status = "FINISHED"]
  /\ wallets' = [wallets EXCEPT ![winner] = paid, ![seller] = credited]
  /\ journal' = [journal EXCEPT ![winner] = Recorded(@, wallets[winner], paid),
                                ![seller] = Recorded(@, wallets[seller], credited)]
  /\ revenue' = revenue + Commission(policy, price)
  /\ plates' = [plates EXCEPT ![n].owner = winner, ![n].status = "OWNED"]
  /\ primary' = WithoutPrimary(n)
  /\ history' = WithTransfer(history, n, plates[n].owner, winner, "AUCTION")
  /\ outbox' = Queued(Queued(outbox, winner, "AUCTION_WON"), seller, "AUCTION_FINISHED")
  /\ UNCHANGED <<blocked, policy, bids, bidding, now>>

Finish(a, force) == FinishUnsold(a, force) \/ FinishSold(a, force)

-----------------------------------------------------------------------------
(* apply_pending_anti_sniping, for the k-th bid of the auction             *)

\* Mutant: the bid is not marked, and is repaired again in the next minute.
NotMarked(a, k) == bids

Marked(a, k) == [bids EXCEPT ![a][k].applied = TRUE]

RepairSniping(a, k) ==
  LET bid == bids[a][k] IN
  /\ Unlocked(a)
  /\ ~bid.applied
  /\ bids' = Marked(a, k)
  /\ auctions' = IF IsOpen(a) /\ Sniping(a, bid.at)
                 THEN [auctions EXCEPT ![a] = Extended(@)] ELSE auctions
  /\ UNCHANGED <<databaseVars, bidding, now>>

Tick ==
  /\ now < MaxTime
  /\ now' = now + 1
  /\ UNCHANGED <<databaseVars, auctions, bids, bidding>>

-----------------------------------------------------------------------------
UserOperation(u) ==
  \E a \in Auction :
    \/ \E n \in Number, start \in StartPrice, duration \in Duration :
         Create(u, n, a, start, duration)
    \/ Cancel(u, a)
    \/ \E amount \in Amount, at \in auctions[a].startedAt..now : BidReads(u, a, amount, at)

\* What goes on without a user: a running place_bid, the repair job, the
\* administrator's force_finish_auction, and time.
ServiceStep ==
  \/ \E a \in Auction :
       \/ BidCommits(a)
       \/ BidFails(a)
       \/ Finish(a, TRUE)
       \/ \E k \in DOMAIN bids[a] : RepairSniping(a, k)
  \/ Tick

Request ==
  \/ \E u \in User : UserOperation(u)
  \/ ServiceStep
  \/ \E p \in Policies : SetSetting(p) /\ UNCHANGED auctionVars

\* The service, with finish called at any moment for any auction: by the job, if
\* it worked (its failure is that of ReservationSweep), or by the administrator.
Next ==
  /\ Request \/ \E a \in Auction : Finish(a, FALSE)
  /\ UNCHANGED serialised

Spec == Init /\ [][Next]_vars

-----------------------------------------------------------------------------
(* Properties *)

OpenAuctions(n) == {a \in Auction : IsOpen(a) /\ auctions[a].plate = n}

\* A plate is in the status AUCTION exactly as long as one auction of it is
\* open, which its owner opened: no end of an auction, and no order of them,
\* leaves a plate locked without an auction or auctioned for a former owner.
AuctionHoldsPlate ==
  /\ \A n \in Number : plates[n].status = "AUCTION" => OpenAuctions(n) # {}
  /\ \A n \in Number : \A a \in OpenAuctions(n) :
       /\ plates[n].status = "AUCTION"
       /\ plates[n].owner = auctions[a].seller
       /\ \A b \in OpenAuctions(n) : b = a

\* An auction that received a bid is never cancelled by its seller, whatever
\* runs between the bid and the cancellation.
BidsAreBinding ==
  \A a \in Auction : auctions[a].status = "CANCELLED" => bids[a] = <<>>

ShortestWindow == Min({p.auction_sniping : p \in Policies})
LongestWindow == Max({p.auction_sniping : p \in Policies})

\* After the last bid more than the anti-sniping window is left to answer it,
\* counted from the bidder's clock, also when the setting is changed between.
LateBidsCanBeAnswered ==
  \A a \in Auction :
    IsOpen(a) /\ bids[a] # <<>>
      => auctions[a].endsAt > bids[a][Len(bids[a])].at + ShortestWindow

\* Every bid extends its auction at most once, by place_bid or by the repair
\* job ("exactly once").
ExtendedOncePerBid ==
  \A a \in Auction :
    auctions[a].status # "ABSENT" =>
      auctions[a].endsAt <= auctions[a].startedAt + Max(Duration)
        + LongestWindow * Cardinality({k \in DOMAIN bids[a] : bids[a][k].applied})

\* A closed auction is never touched again: its result stands against the jobs
\* and requests that listed it while it was open.
ResultIsFinal ==
  [][\A a \in Auction :
       auctions[a].status \in {"FINISHED", "CANCELLED"} => auctions'[a] = auctions[a]]_vars

LedBy(u) == {a \in Auction : IsOpen(a) /\ auctions[a].leader = u}

\* What is frozen in a wallet is the sum of the prices of the open auctions its
\* owner leads: every leading bid is covered and nothing else is frozen.
FrozenBacksBids ==
  \A u \in User :
    wallets[u].frozen = SumFunctionOnSet([a \in Auction |-> auctions[a].price], LedBy(u))

\* With wallet operations that take turns, every leading bid is covered, however
\* bids in two auctions, withdrawals and settlements are interleaved.
FrozenBacksBidsInTurn == serialised => FrozenBacksBids

\* Bidding, outbidding and settling neither create nor lose Stars, as long as
\* operations on one wallet take turns.
StarsAreConserved ==
  serialised =>
    SumFunctionOnSet([u \in User |-> wallets[u].available + wallets[u].frozen], User) + revenue
      = Balance * Cardinality(User)

\* The settlement of an open auction raises in one case only, if operations on
\* one wallet take turns: the leader's Stars are there, and the seller gets at
\* least one of them, unless the commission is 100 percent.
SettlementIsPossible ==
  \A a \in Auction :
    serialised /\ IsOpen(a) /\ auctions[a].leader # None =>
      /\ CanTakeFrozen(wallets[auctions[a].leader], auctions[a].price)
      /\ CanCredit(Proceeds(a)) <=> policy.commission_percent < 100

=============================================================================
