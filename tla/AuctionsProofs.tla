---------------------------- MODULE AuctionsProofs ----------------------------
(***************************************************************************)
(* Proofs about Auctions, for every number of users, plates and auctions,  *)
(* every prices, amounts, durations and settings, and whether or not the   *)
(* operations on one wallet take turns.                                    *)
(***************************************************************************)
EXTENDS Auctions, DatabaseProofs, FiniteLemmas, SequenceTheorems

-----------------------------------------------------------------------------
(* The inductive invariant                                                 *)

\* What the columns of an auction hold that exists; the leader is the bidder of
\* the last bid, has bid something, and is not the seller.
RowIsComplete(a) ==
  /\ auctions[a].status # "ABSENT" =>
       auctions[a].plate \in Number /\ auctions[a].seller \in User /\ auctions[a].start > 0
  /\ auctions[a].status = "ABSENT" => auctions[a].leader = None
  /\ auctions[a].leader = None <=> bids[a] = <<>>
  /\ auctions[a].leader # None => auctions[a].price > 0 /\ auctions[a].leader # auctions[a].seller

\* What a running place_bid has found out stays true while it holds the lock.
AttemptIsValid(a) ==
  ~ Unlocked(a) =>
    /\ bidding[a].bidder \in User
    /\ IsOpen(a)
    /\ bidding[a].bidder \notin {auctions[a].seller, auctions[a].leader}
    /\ bidding[a].amount > 0
    /\ bidding[a].at < auctions[a].endsAt

\* The properties of Auctions that speak of one auction at a time.
BindsSeller(a) == auctions[a].status = "CANCELLED" => bids[a] = <<>>

LeavesTimeToAnswer(a) ==
  IsOpen(a) /\ bids[a] # <<>> => auctions[a].endsAt > bids[a][Len(bids[a])].at + ShortestWindow

\* The positions of the bids that have extended their auction.
Applied(rows) == {k \in DOMAIN rows : rows[k].applied}

IsExtendedOncePerBid(a) ==
  auctions[a].status # "ABSENT" =>
    auctions[a].endsAt <= auctions[a].startedAt + Max(Duration)
                            + LongestWindow * Cardinality(Applied(bids[a]))

AuctionHolds(a) ==
  /\ RowIsComplete(a)
  /\ AttemptIsValid(a)
  /\ BindsSeller(a)
  /\ LeavesTimeToAnswer(a)
  /\ IsExtendedOncePerBid(a)

IInv ==
  /\ TypeOK
  /\ AuctionHoldsPlate
  /\ \A a \in Auction : AuctionHolds(a)

\* With wallet operations that take turns: the wallets the running place_bids
\* have read are different ones, and current.
ReadsAreCurrent ==
  serialised =>
    \A a \in Auction : ~ Unlocked(a) =>
      /\ bidding[a].seen = wallets[bidding[a].bidder]
      /\ \A b \in Auction : ~ Unlocked(b) /\ bidding[b].bidder = bidding[a].bidder => b = a

\* The invariant about Stars, on top of IInv.
SInv ==
  /\ ReadsAreCurrent
  /\ FrozenBacksBidsInTurn
  /\ StarsAreConserved

-----------------------------------------------------------------------------
(* Windows and durations                                                   *)

LEMMA WindowBounds ==
  ASSUME NEW p \in Policies
  PROVE  /\ ShortestWindow \in Nat /\ LongestWindow \in Nat
         /\ ShortestWindow <= p.auction_sniping /\ p.auction_sniping <= LongestWindow
<1> DEFINE W == {q.auction_sniping : q \in Policies}
<1>1. W # {} /\ IsFiniteSet(W) /\ p.auction_sniping \in W
  BY TimesAreBounded
<1>2. \A x \in W : x \in Nat
  BY PoliciesAreValid DEF Policy
<1> HIDE DEF W
<1>3. \A x \in W : x \in Int
  BY <1>2
<1>4. Max(W) \in W /\ \A x \in W : Max(W) >= x
  BY <1>1, <1>3, MaxOfFinite
<1>5. Min(W) \in W /\ \A x \in W : Min(W) =< x
  BY <1>1, <1>3, MinOfFinite
<1>6. ShortestWindow = Min(W) /\ LongestWindow = Max(W)
  BY DEF ShortestWindow, LongestWindow, W
<1> QED
  BY <1>1, <1>2, <1>4, <1>5, <1>6

LEMMA DurationBound ==
  Max(Duration) \in Nat /\ \A d \in Duration : d \in Nat /\ d <= Max(Duration)
<1>1. \A d \in Duration : d \in Nat
  BY NumbersAreWhole
<1>2. \A d \in Duration : d \in Int
  BY <1>1
<1>3. Max(Duration) \in Duration /\ \A d \in Duration : Max(Duration) >= d
  BY <1>2, TimesAreBounded, MaxOfFinite
<1> QED
  BY <1>1, <1>3

LEMMA AppliedIsFinite ==
  ASSUME NEW rows \in Seq(Bid)
  PROVE  IsFiniteSet(Applied(rows)) /\ Cardinality(Applied(rows)) \in Nat
<1>1. Len(rows) \in Nat /\ DOMAIN rows = 1..Len(rows)
  OBVIOUS
<1>2. IsFiniteSet(1..Len(rows))
  BY <1>1, FS_Interval
<1>3. Applied(rows) \in SUBSET (1..Len(rows))
  BY <1>1 DEF Applied
<1>4. IsFiniteSet(Applied(rows))
  BY <1>2, <1>3, FS_Subset
<1> QED
  BY <1>4, FS_CardinalityType

LEMMA AppliedAppend ==
  ASSUME NEW rows \in Seq(Bid), NEW bid \in Bid
  PROVE  Cardinality(Applied(Append(rows, bid)))
           = Cardinality(Applied(rows)) + (IF bid.applied THEN 1 ELSE 0)
<1> DEFINE more == Append(rows, bid)
           e == Len(rows) + 1
<1>1. DOMAIN more = 1..e /\ DOMAIN rows = 1..Len(rows) /\ Len(rows) \in Nat
  BY AppendProperties
<1>2. more[e] = bid /\ \A k \in 1..Len(rows) : more[k] = rows[k]
  BY AppendProperties
<1>3. CASE bid.applied
  <2>1. Applied(more) = Applied(rows) \cup {e}
    BY <1>1, <1>2, <1>3 DEF Applied
  <2>2. e \notin Applied(rows)
    BY <1>1 DEF Applied
  <2> QED
    BY <1>3, <2>1, <2>2, AppliedIsFinite, FS_AddElement
<1>4. CASE ~ bid.applied
  <2>1. Applied(more) = Applied(rows)
    BY <1>1, <1>2, <1>4 DEF Applied
  <2> QED
    BY <1>4, <2>1, AppliedIsFinite
<1> QED BY <1>3, <1>4

LEMMA BidMarked ==
  ASSUME NEW rows \in Seq(Bid), NEW k \in DOMAIN rows
  PROVE  LET marked == [rows EXCEPT ![k].applied = TRUE]
         IN /\ marked \in Seq(Bid)
            /\ marked # <<>>
            /\ Len(marked) = Len(rows)
            /\ \A l \in 1..Len(rows) : marked[l].at = rows[l].at
            /\ ~ rows[k].applied =>
                 Cardinality(Applied(marked)) = Cardinality(Applied(rows)) + 1
<1> DEFINE marked == [rows EXCEPT ![k].applied = TRUE]
           bid == [rows[k] EXCEPT !.applied = TRUE]
<1>1. k \in 1..Len(rows) /\ rows[k] \in Bid /\ Len(rows) \in Nat
  OBVIOUS
<1>2. bid \in Bid /\ bid.applied /\ bid.at = rows[k].at
  BY <1>1 DEF Bid
<1>3. marked = [rows EXCEPT ![k] = bid]
  OBVIOUS
<1> HIDE DEF bid, marked
<1>4. /\ marked \in Seq(Bid) /\ Len(marked) = Len(rows)
      /\ \A l \in 1..Len(rows) : marked[l] = IF l = k THEN bid ELSE rows[l]
  BY <1>1, <1>2, <1>3, ExceptSeq
<1>5. ASSUME ~ rows[k].applied
      PROVE  Cardinality(Applied(marked)) = Cardinality(Applied(rows)) + 1
  <2>1. Applied(marked) = Applied(rows) \cup {k} /\ k \notin Applied(rows)
    BY <1>1, <1>2, <1>4, <1>5 DEF Applied
  <2> QED
    BY <2>1, AppliedIsFinite, FS_AddElement
<1>6. marked # <<>>
  BY <1>1, <1>4
<1>7. \A l \in 1..Len(rows) : marked[l].at = rows[l].at
  BY <1>2, <1>4
<1> QED
  BY <1>4, <1>5, <1>6, <1>7 DEF marked

-----------------------------------------------------------------------------
(* Frames                                                                  *)

\* What an action leaves alone keeps holding.
LEMMA AuctionFrame ==
  ASSUME NEW a \in Auction, AuctionHolds(a), auctions'[a] = auctions[a], bids'[a] = bids[a],
         bidding'[a] = bidding[a]
  PROVE  AuctionHolds(a)'
BY DEF AuctionHolds, RowIsComplete, AttemptIsValid, BindsSeller, LeavesTimeToAnswer,
       IsExtendedOncePerBid, IsOpen, Unlocked

\* Most actions write one auction only.
LEMMA OneAuctionChanges ==
  ASSUME IInv, NEW a \in Auction,
         \A b \in Auction \ {a} : /\ auctions'[b] = auctions[b]
                                  /\ bids'[b] = bids[b]
                                  /\ bidding'[b] = bidding[b],
         TypeOK', AuctionHoldsPlate', AuctionHolds(a)'
  PROVE  IInv'
<1>1. \A b \in Auction : AuctionHolds(b)'
  BY AuctionFrame DEF IInv
<1> QED
  BY <1>1 DEF IInv

\* Bids and extensions do not touch the plate of an auction.
LEMMA PlatesFrame ==
  ASSUME AuctionHoldsPlate, plates' = plates,
         \A a \in Auction : /\ IsOpen(a)' <=> IsOpen(a)
                            /\ auctions'[a].plate = auctions[a].plate
                            /\ auctions'[a].seller = auctions[a].seller
  PROVE  AuctionHoldsPlate'
<1>1. \A n : OpenAuctions(n)' = OpenAuctions(n)
  BY DEF OpenAuctions
<1> QED
  BY <1>1 DEF AuctionHoldsPlate, OpenAuctions

\* The end of an auction frees its plate, whoever owns it then.
LEMMA PlateIsFreed ==
  ASSUME IInv, NEW a \in Auction, IsOpen(a), ~ IsOpen(a)',
         \A b \in Auction \ {a} : auctions'[b] = auctions[b],
         plates'[auctions[a].plate].status = "OWNED",
         \A n \in Number \ {auctions[a].plate} : plates'[n] = plates[n]
  PROVE  AuctionHoldsPlate'
<1>0. PICK m \in Number : m = auctions[a].plate
  BY DEF IInv, AuctionHolds, RowIsComplete, IsOpen, Open
<1>1. a \in OpenAuctions(m)
  BY <1>0 DEF OpenAuctions
<1>2. OpenAuctions(m) = {a}
  BY <1>1 DEF IInv, AuctionHoldsPlate
<1>3. OpenAuctions(m)' = {}
  BY <1>2 DEF OpenAuctions, IsOpen
<1>4. \A n \in Number \ {m} : OpenAuctions(n)' = OpenAuctions(n)
  BY <1>0 DEF OpenAuctions, IsOpen
<1>5. \A n \in Number \ {m} : \A b \in OpenAuctions(n) : b # a
  BY <1>0 DEF OpenAuctions
<1>6. ASSUME NEW n \in Number
      PROVE  /\ (plates[n].status = "AUCTION" => OpenAuctions(n) # {})'
             /\ (\A b \in OpenAuctions(n) : /\ plates[n].status = "AUCTION"
                                            /\ plates[n].owner = auctions[b].seller
                                            /\ \A c \in OpenAuctions(n) : c = b)'
  <2>1. CASE n = m
    BY <1>0, <1>3, <2>1
  <2>2. CASE n # m
    <3>1. \A b \in OpenAuctions(n) : b \in Auction \ {a}
      BY <1>5, <2>2 DEF OpenAuctions
    <3> QED BY <1>0, <1>4, <2>2, <3>1 DEF IInv, AuctionHoldsPlate
  <2> QED BY <2>1, <2>2
<1> QED
  BY <1>6 DEF AuctionHoldsPlate

LEMMA StatusType ==
  ASSUME plates \in [Number -> Plate], NEW n \in Number, NEW status \in PlateStatus
  PROVE  [plates EXCEPT ![n].status = status] \in [Number -> Plate]
BY DEF Plate

LEMMA ClosedType ==
  ASSUME auctions \in [Auction -> AuctionRow], NEW a \in Auction,
         NEW status \in {"FINISHED", "CANCELLED"}
  PROVE  [auctions EXCEPT ![a].status = status] \in [Auction -> AuctionRow]
BY DEF AuctionRow

-----------------------------------------------------------------------------
(* One lemma per action: it preserves the inductive invariant              *)

LEMMA CreateStep ==
  ASSUME IInv, NEW u \in User, NEW n \in Number, NEW a \in Auction,
         NEW start \in StartPrice, NEW duration \in Duration,
         Create(u, n, a, start, duration), UNCHANGED serialised
  PROVE  IInv'
<1> DEFINE row == [status |-> "ACTIVE", plate |-> n, seller |-> u, start |-> start,
                   price |-> start, leader |-> None, startedAt |-> now,
                   endsAt |-> now + duration]
<1>1. /\ auctions \in [Auction -> AuctionRow] /\ plates \in [Number -> Plate]
      /\ bids \in [Auction -> Seq(Bid)] /\ now \in Nat /\ policy \in Policies
  BY NumbersAreWhole DEF IInv, TypeOK, DatabaseTypeOK
<1>2. start \in Nat /\ start > 0 /\ duration \in Nat /\ duration <= Max(Duration)
  <2>1. policy \in Policy
    BY <1>1, PoliciesAreValid
  <2> QED BY <2>1, NumbersAreWhole, DurationBound DEF Create, ValidSalePrice, Policy
<1>3. row \in AuctionRow
  BY <1>1, <1>2 DEF AuctionRow, Open
<1>4. /\ auctions[a].status = "ABSENT" /\ auctions' = [auctions EXCEPT ![a] = row]
      /\ plates[n].owner = u /\ plates[n].status = "OWNED"
      /\ plates' = [plates EXCEPT ![n].status = "AUCTION"]
      /\ bids' = bids /\ bidding' = bidding
  BY DEF Create
<1> HIDE DEF row
<1>5. auctions'[a] = row /\ \A b \in Auction \ {a} : auctions'[b] = auctions[b]
  BY <1>1, <1>4
<1>6. TypeOK'
  <2>1. auctions' \in [Auction -> AuctionRow]
    BY <1>1, <1>3, <1>4
  <2>2. plates' \in [Number -> Plate]
    BY <1>1, <1>4, StatusType DEF PlateStatus
  <2> QED BY <2>1, <2>2 DEF IInv, TypeOK, DatabaseTypeOK, Create
<1>7. /\ plates'[n].status = "AUCTION" /\ plates'[n].owner = u
      /\ \A m \in Number \ {n} : plates'[m] = plates[m]
  BY <1>1, <1>4 DEF Plate
<1>8. AuctionHoldsPlate'
  <2>1. OpenAuctions(n) = {}
    BY <1>4 DEF IInv, AuctionHoldsPlate
  <2>2. OpenAuctions(n)' = {a}
    BY <1>5, <2>1 DEF OpenAuctions, IsOpen, Open, row
  <2>3. ~ IsOpen(a)
    BY <1>4 DEF IsOpen, Open
  <2>4. \A m \in Number \ {n} : OpenAuctions(m)' = OpenAuctions(m)
    BY <1>5, <2>3 DEF OpenAuctions, IsOpen, row
  <2>5. \A m \in Number : \A b \in OpenAuctions(m) : b \in Auction \ {a}
    BY <2>3 DEF OpenAuctions
  <2>6. ASSUME NEW m \in Number
        PROVE  /\ (plates[m].status = "AUCTION" => OpenAuctions(m) # {})'
               /\ (\A b \in OpenAuctions(m) : /\ plates[m].status = "AUCTION"
                                              /\ plates[m].owner = auctions[b].seller
                                              /\ \A c \in OpenAuctions(m) : c = b)'
    <3>1. CASE m = n
      BY <1>5, <1>7, <2>2, <3>1 DEF row
    <3>2. CASE m # n
      BY <1>5, <1>7, <2>4, <2>5, <3>2 DEF IInv, AuctionHoldsPlate
    <3> QED BY <3>1, <3>2
  <2> QED BY <2>6 DEF AuctionHoldsPlate
<1>9. AuctionHolds(a)'
  <2>1. AuctionHolds(a)
    BY DEF IInv
  <2>2. bids[a] = <<>> /\ Unlocked(a)
    BY <1>4, <2>1 DEF AuctionHolds, RowIsComplete, AttemptIsValid, IsOpen, Open
  <2>3. RowIsComplete(a)' /\ AttemptIsValid(a)' /\ BindsSeller(a)' /\ LeavesTimeToAnswer(a)'
    BY <1>2, <1>4, <1>5, <2>2
    DEF RowIsComplete, AttemptIsValid, BindsSeller, LeavesTimeToAnswer, Unlocked, row
  <2>4. Cardinality(Applied(bids[a])) = 0
    BY <2>2, FS_EmptySet DEF Applied
  <2>5. LongestWindow \in Nat
    BY <1>1, WindowBounds
  <2>6. IsExtendedOncePerBid(a)'
    BY <1>1, <1>2, <1>4, <1>5, <2>4, <2>5, DurationBound DEF IsExtendedOncePerBid, row
  <2> QED BY <2>3, <2>6 DEF AuctionHolds
<1> QED
  BY <1>4, <1>5, <1>6, <1>8, <1>9, OneAuctionChanges

\* The two ends of an auction that move no Stars.
LEMMA ClosedStep ==
  ASSUME IInv, NEW a \in Auction, IsOpen(a), Unlocked(a),
         NEW status \in {"FINISHED", "CANCELLED"}, status = "CANCELLED" => bids[a] = <<>>,
         auctions' = [auctions EXCEPT ![a].status = status],
         plates'[auctions[a].plate].status = "OWNED",
         \A n \in Number \ {auctions[a].plate} : plates'[n] = plates[n],
         UNCHANGED <<bids, bidding>>, TypeOK'
  PROVE  IInv'
<1>1. auctions \in [Auction -> AuctionRow]
  BY DEF IInv, TypeOK
<1>2. /\ auctions'[a] = [auctions[a] EXCEPT !.status = status]
      /\ \A b \in Auction \ {a} : auctions'[b] = auctions[b]
  BY <1>1
<1>3. ~ IsOpen(a)'
  BY <1>1, <1>2 DEF IsOpen, Open, AuctionRow
<1>4. AuctionHoldsPlate'
  BY <1>2, <1>3, PlateIsFreed
<1>5. AuctionHolds(a)'
  <2>1. AuctionHolds(a)
    BY DEF IInv
  <2>2. RowIsComplete(a)' /\ AttemptIsValid(a)' /\ BindsSeller(a)' /\ LeavesTimeToAnswer(a)'
    BY <1>1, <1>2, <1>3, <2>1
    DEF AuctionHolds, RowIsComplete, AttemptIsValid, BindsSeller, LeavesTimeToAnswer,
        IsOpen, Open, Unlocked, AuctionRow
  <2>3. IsExtendedOncePerBid(a)'
    BY <1>1, <1>2, <2>1 DEF AuctionHolds, IsExtendedOncePerBid, IsOpen, Open, AuctionRow
  <2> QED BY <2>2, <2>3 DEF AuctionHolds
<1> QED
  BY <1>2, <1>4, <1>5, OneAuctionChanges

LEMMA CancelStep ==
  ASSUME IInv, NEW u \in User, NEW a \in Auction, Cancel(u, a), UNCHANGED serialised
  PROVE  IInv'
<1>1. auctions[a].plate \in Number
  BY DEF IInv, AuctionHolds, RowIsComplete, Cancel, Cancellable, IsOpen, Open
<1>2. auctions \in [Auction -> AuctionRow] /\ plates \in [Number -> Plate]
  BY DEF IInv, TypeOK, DatabaseTypeOK
<1>3. TypeOK'
  <2>1. auctions' \in [Auction -> AuctionRow]
    BY <1>2, ClosedType DEF Cancel
  <2>2. plates' \in [Number -> Plate]
    BY <1>1, <1>2, StatusType DEF Cancel, PlateStatus
  <2> QED BY <2>1, <2>2 DEF IInv, TypeOK, DatabaseTypeOK, Cancel
<1>4. /\ plates'[auctions[a].plate].status = "OWNED"
      /\ \A n \in Number \ {auctions[a].plate} : plates'[n] = plates[n]
  BY <1>1, <1>2 DEF Cancel, Plate
<1> QED
  BY <1>3, <1>4, ClosedStep DEF Cancel, Cancellable

LEMMA FinishUnsoldStep ==
  ASSUME IInv, NEW a \in Auction, NEW force, FinishUnsold(a, force), UNCHANGED serialised
  PROVE  IInv'
<1>1. auctions[a].plate \in Number /\ auctions[a].seller \in User
  BY DEF IInv, AuctionHolds, RowIsComplete, FinishUnsold, Finishable, IsOpen, Open
<1>2. auctions \in [Auction -> AuctionRow] /\ plates \in [Number -> Plate]
  BY DEF IInv, TypeOK, DatabaseTypeOK
<1>3. TypeOK'
  <2>1. auctions' \in [Auction -> AuctionRow]
    BY <1>2, ClosedType DEF FinishUnsold
  <2>2. plates' \in [Number -> Plate]
    BY <1>1, <1>2, StatusType DEF FinishUnsold, BackToOwner, PlateStatus
  <2>3. outbox' \in [User -> [NotificationType -> Nat]]
    BY <1>1, QueuedType
    DEF IInv, TypeOK, DatabaseTypeOK, FinishUnsold, NotificationType
  <2> QED BY <2>1, <2>2, <2>3 DEF IInv, TypeOK, DatabaseTypeOK, FinishUnsold
<1>4. /\ plates'[auctions[a].plate].status = "OWNED"
      /\ \A n \in Number \ {auctions[a].plate} : plates'[n] = plates[n]
  BY <1>1, <1>2 DEF FinishUnsold, BackToOwner, Plate
<1> QED
  BY <1>3, <1>4, ClosedStep DEF FinishUnsold, Finishable

\* Who takes part in the settlement, and with which wallets.
LEMMA SettlementParties ==
  ASSUME IInv, NEW a \in Auction, IsOpen(a), auctions[a].leader # None
  PROVE  /\ auctions[a].plate \in Number
         /\ auctions[a].seller \in User /\ auctions[a].leader \in User
         /\ auctions[a].leader # auctions[a].seller
         /\ auctions[a].price \in Nat /\ auctions[a].price > 0
         /\ Commission(policy, auctions[a].price) \in Nat
         /\ Proceeds(a) \in Nat
         /\ policy \in Policy
<1>1. auctions[a] \in AuctionRow /\ policy \in Policy
  BY PoliciesAreValid DEF IInv, TypeOK, DatabaseTypeOK
<1>2. auctions[a].price \in Nat /\ auctions[a].leader \in User \cup {None}
  BY <1>1 DEF AuctionRow
<1>3. /\ auctions[a].plate \in Number /\ auctions[a].seller \in User
      /\ auctions[a].leader # auctions[a].seller /\ auctions[a].price > 0
  BY DEF IInv, AuctionHolds, RowIsComplete, IsOpen, Open
<1>4. /\ Commission(policy, auctions[a].price) \in Nat
      /\ Commission(policy, auctions[a].price) <= auctions[a].price
  BY <1>1, <1>2, CommissionType, CommissionBound
<1> QED
  BY <1>1, <1>2, <1>3, <1>4 DEF Proceeds

LEMMA FinishSoldStep ==
  ASSUME IInv, NEW a \in Auction, NEW force, FinishSold(a, force), UNCHANGED serialised
  PROVE  IInv'
<1> DEFINE n == auctions[a].plate
           seller == auctions[a].seller
           winner == auctions[a].leader
           price == auctions[a].price
           paid == Settled(wallets[winner], price)
           credited == Credited(wallets[seller], Proceeds(a))
<1>1. /\ IsOpen(a) /\ Unlocked(a) /\ winner # None
      /\ CanTakeFrozen(wallets[winner], price) /\ CanCredit(Proceeds(a))
  BY DEF FinishSold, Finishable
<1>2. /\ n \in Number /\ seller \in User /\ winner \in User /\ price \in Nat
      /\ Proceeds(a) \in Nat /\ Commission(policy, price) \in Nat
  BY <1>1, SettlementParties
<1>3. /\ auctions \in [Auction -> AuctionRow] /\ plates \in [Number -> Plate]
      /\ wallets \in [User -> Wallet] /\ journal \in [User -> Totals] /\ revenue \in Nat
      /\ history \in [Number -> Seq(OwnershipHistory)]
      /\ primary \in [User -> Number \cup {None}]
      /\ outbox \in [User -> [NotificationType -> Nat]]
  BY DEF IInv, TypeOK, DatabaseTypeOK
<1>4. paid \in Wallet /\ credited \in Wallet
  BY <1>1, <1>2, <1>3, SettledType, CreditedType
<1>5. /\ auctions' = [auctions EXCEPT ![a].status = "FINISHED"]
      /\ wallets' = [wallets EXCEPT ![winner] = paid, ![seller] = credited]
      /\ journal' = [journal EXCEPT ![winner] = Recorded(@, wallets[winner], paid),
                                    ![seller] = Recorded(@, wallets[seller], credited)]
      /\ revenue' = revenue + Commission(policy, price)
      /\ plates' = [plates EXCEPT ![n].owner = winner, ![n].status = "OWNED"]
      /\ primary' = WithoutPrimary(n)
      /\ history' = WithTransfer(history, n, plates[n].owner, winner, "AUCTION")
      /\ outbox' = Queued(Queued(outbox, winner, "AUCTION_WON"), seller, "AUCTION_FINISHED")
      /\ UNCHANGED <<blocked, policy, bids, bidding, now>>
  BY DEF FinishSold
<1> HIDE DEF n, seller, winner, price, paid, credited
<1>6. TypeOK'
  <2>1. auctions' \in [Auction -> AuctionRow]
    BY <1>3, <1>5, ClosedType
  <2>2. wallets' \in [User -> Wallet]
    BY <1>3, <1>4, <1>5
  <2>3. journal' \in [User -> Totals]
    <3>1. Recorded(journal[winner], wallets[winner], paid) \in Totals
      BY <1>2, <1>3, <1>4, RecordedType
    <3>2. \A totals \in Totals : Recorded(totals, wallets[seller], credited) \in Totals
      BY <1>2, <1>3, <1>4, RecordedType
    <3> QED BY <1>3, <1>5, <3>1, <3>2
  <2>4. revenue' \in Nat
    BY <1>2, <1>3, <1>5
  <2>5. plates' \in [Number -> Plate]
    <3>1. \A plate \in Plate : /\ [plate EXCEPT !.owner = winner] \in Plate
                               /\ [plate EXCEPT !.status = "OWNED"] \in Plate
      BY <1>2 DEF Plate, PlateStatus
    <3>2. [plates EXCEPT ![n].owner = winner] \in [Number -> Plate]
      BY <1>2, <1>3, <3>1
    <3> QED BY <1>2, <1>5, <3>1, <3>2
  <2>6. primary' \in [User -> Number \cup {None}]
    BY <1>2, <1>3, <1>5, WithoutPrimaryType
  <2>7. history' \in [Number -> Seq(OwnershipHistory)]
    <3>1. plates[n].owner \in User \cup {None}
      BY <1>2, <1>3 DEF Plate
    <3> QED BY <1>2, <1>3, <1>5, <3>1, WithTransferType DEF OwnershipOperation
  <2>8. outbox' \in [User -> [NotificationType -> Nat]]
    BY <1>2, <1>3, <1>5, QueuedType DEF NotificationType
  <2> QED BY <1>5, <2>1, <2>2, <2>3, <2>4, <2>5, <2>6, <2>7, <2>8
          DEF IInv, TypeOK, DatabaseTypeOK
<1>7. plates'[n].status = "OWNED" /\ \A m \in Number \ {n} : plates'[m] = plates[m]
  BY <1>2, <1>3, <1>5 DEF Plate
<1> QED
  BY <1>1, <1>5, <1>6, <1>7, ClosedStep DEF n

LEMMA BidReadsStep ==
  ASSUME IInv, NEW u \in User, NEW a \in Auction, NEW amount \in Amount,
         NEW at \in auctions[a].startedAt..now, BidReads(u, a, amount, at), UNCHANGED serialised
  PROVE  IInv'
<1> DEFINE try == [bidder |-> u, amount |-> amount, at |-> at, seen |-> wallets[u]]
<1>1. /\ auctions[a] \in AuctionRow /\ bidding \in [Auction -> Attempt]
      /\ wallets[u] \in Wallet /\ policy \in Policy /\ now \in Nat
  BY PoliciesAreValid, NumbersAreWhole DEF IInv, TypeOK, DatabaseTypeOK
<1>2. amount \in Nat /\ at \in Nat
  BY <1>1, NumbersAreWhole DEF AuctionRow
<1>3. try \in Attempt
  BY <1>1, <1>2 DEF Attempt
<1>4. /\ bidding' = [bidding EXCEPT ![a] = try]
      /\ UNCHANGED <<databaseVars, auctions, bids, now>>
      /\ IsOpen(a) /\ auctions[a].endsAt > at /\ amount >= Minimum(a)
      /\ u \notin {auctions[a].seller, auctions[a].leader}
  BY DEF BidReads
<1> HIDE DEF try
<1>5. bidding'[a] = try /\ \A b \in Auction \ {a} : bidding'[b] = bidding[b]
  BY <1>1, <1>4
<1>6. TypeOK'
  BY <1>1, <1>3, <1>4 DEF IInv, TypeOK, DatabaseTypeOK, databaseVars
<1>7. AuctionHoldsPlate'
  BY <1>4, PlatesFrame DEF IInv, IsOpen, databaseVars
<1>8. AuctionHolds(a)'
  <2>1. AuctionHolds(a)
    BY DEF IInv
  <2>2. RowIsComplete(a)' /\ BindsSeller(a)' /\ LeavesTimeToAnswer(a)' /\ IsExtendedOncePerBid(a)'
    BY <1>4, <2>1
    DEF AuctionHolds, RowIsComplete, BindsSeller, LeavesTimeToAnswer, IsExtendedOncePerBid, IsOpen
  <2>3. Minimum(a) > 0 /\ Minimum(a) \in Nat
    BY <1>1, <1>4, <2>1 DEF Minimum, AuctionHolds, RowIsComplete, AuctionRow, Policy, IsOpen, Open
  <2>4. amount > 0
    BY <1>2, <1>4, <2>3
  <2>5. AttemptIsValid(a)'
    BY <1>1, <1>2, <1>4, <1>5, <2>4 DEF AttemptIsValid, IsOpen, AuctionRow, try
  <2> QED BY <2>2, <2>5 DEF AuctionHolds
<1> QED
  BY <1>4, <1>5, <1>6, <1>7, <1>8, OneAuctionChanges

LEMMA BidFailsStep ==
  ASSUME IInv, NEW a \in Auction, BidFails(a), UNCHANGED serialised
  PROVE  IInv'
<1>1. /\ bidding' = [bidding EXCEPT ![a] = NoAttempt]
      /\ UNCHANGED <<databaseVars, auctions, bids, now>>
      /\ bidding \in [Auction -> Attempt]
  BY DEF BidFails, IInv, TypeOK
<1>2. bidding'[a] = NoAttempt /\ \A b \in Auction \ {a} : bidding'[b] = bidding[b]
  BY <1>1
<1>3. TypeOK'
  <2>1. NoAttempt \in Attempt
    BY DEF NoAttempt, Attempt, NoWallet, Wallet
  <2> QED BY <1>1, <2>1 DEF IInv, TypeOK, DatabaseTypeOK, databaseVars
<1>4. AuctionHoldsPlate'
  BY <1>1, PlatesFrame DEF IInv, IsOpen, databaseVars
<1>5. AuctionHolds(a)'
  BY <1>1, <1>2
  DEF IInv, AuctionHolds, RowIsComplete, AttemptIsValid, BindsSeller, LeavesTimeToAnswer,
      IsExtendedOncePerBid, IsOpen, Unlocked
<1> QED
  BY <1>1, <1>2, <1>3, <1>4, <1>5, OneAuctionChanges

\* The row of the auction after an extension.
LEMMA ExtendedRow ==
  ASSUME NEW row \in AuctionRow, policy \in Policies
  PROVE  /\ Extended(row) \in AuctionRow
         /\ Extended(row).endsAt = row.endsAt + policy.auction_sniping
         /\ Extended(row).status = "EXTENDED"
         /\ Extended(row).plate = row.plate /\ Extended(row).seller = row.seller
         /\ Extended(row).start = row.start /\ Extended(row).price = row.price
         /\ Extended(row).leader = row.leader /\ Extended(row).startedAt = row.startedAt
<1>1. policy.auction_sniping \in Nat
  BY PoliciesAreValid DEF Policy
<1> DEFINE end == row.endsAt + policy.auction_sniping
<1>2. end \in Nat
  BY <1>1 DEF AuctionRow
<1>3. Extended(row) = [row EXCEPT !.endsAt = end, !.status = "EXTENDED"]
  BY DEF Extended, AuctionRow
<1> HIDE DEF end
<1>4. Extended(row) \in AuctionRow
  BY <1>2, <1>3 DEF AuctionRow, Open
<1>5. Extended(row).endsAt = end /\ Extended(row).status = "EXTENDED"
  BY <1>3 DEF AuctionRow
<1> QED
  BY <1>3, <1>4, <1>5 DEF AuctionRow, end

\* The row of the auction after a bid.
LEMMA OutbidRow ==
  ASSUME NEW a \in Auction, NEW bid \in Bid, auctions[a] \in AuctionRow, policy \in Policies
  PROVE  LET row == Outbid(a, bid)
             w == IF bid.applied THEN policy.auction_sniping ELSE 0
         IN /\ row \in AuctionRow
            /\ row.endsAt = auctions[a].endsAt + w
            /\ row.status = IF bid.applied THEN "EXTENDED" ELSE auctions[a].status
            /\ row.plate = auctions[a].plate /\ row.seller = auctions[a].seller
            /\ row.start = auctions[a].start /\ row.startedAt = auctions[a].startedAt
            /\ row.price = bid.amount /\ row.leader = bid.bidder
<1> DEFINE row == [auctions[a] EXCEPT !.price = bid.amount, !.leader = bid.bidder]
<1>1. bid.amount \in Nat /\ bid.bidder \in User
  BY DEF Bid
<1>2. /\ row \in AuctionRow
      /\ row.price = bid.amount /\ row.leader = bid.bidder
      /\ row.endsAt = auctions[a].endsAt /\ row.status = auctions[a].status
      /\ row.plate = auctions[a].plate /\ row.seller = auctions[a].seller
      /\ row.start = auctions[a].start /\ row.startedAt = auctions[a].startedAt
  BY <1>1 DEF AuctionRow
<1>3. Outbid(a, bid) = IF bid.applied THEN Extended(row) ELSE row
  BY DEF Outbid
<1>4. auctions[a].endsAt \in Nat
  BY DEF AuctionRow
<1> HIDE DEF row
<1> QED
  BY <1>2, <1>3, <1>4, ExtendedRow

\* Who takes part in a bid that is placed, and with which wallets.
LEMMA BidParties ==
  ASSUME IInv, NEW a \in Auction, BidCommits(a)
  PROVE  LET try == bidding[a]
             old == auctions[a].leader
             bid == [bidder |-> try.bidder, amount |-> try.amount, at |-> try.at,
                     applied |-> Sniping(a, try.at)]
         IN /\ try.bidder \in User /\ try.bidder # auctions[a].seller /\ try.bidder # old
            /\ try.amount \in Nat /\ try.amount > 0 /\ try.at \in Nat
            /\ try.at < auctions[a].endsAt
            /\ try.seen \in Wallet
            /\ Frozen(try.seen, try.amount) \in Wallet
            /\ bid \in Bid
            /\ IsOpen(a) /\ ~ Unlocked(a)
            /\ auctions[a].seller \in User
            /\ old # None => /\ old \in User
                             /\ Unfrozen(wallets[old], auctions[a].price) \in Wallet
<1> DEFINE try == bidding[a]
           old == auctions[a].leader
           bid == [bidder |-> try.bidder, amount |-> try.amount, at |-> try.at,
                   applied |-> Sniping(a, try.at)]
<1>1. /\ try.bidder # None /\ CanFreeze(try.seen, try.amount)
      /\ old # None => CanTakeFrozen(wallets[old], auctions[a].price)
  BY DEF BidCommits
<1>2. ~ Unlocked(a)
  BY <1>1 DEF Unlocked, NoAttempt
<1>3. try \in Attempt /\ auctions[a] \in AuctionRow /\ wallets \in [User -> Wallet]
  BY DEF IInv, TypeOK, DatabaseTypeOK
<1>4. AttemptIsValid(a) /\ RowIsComplete(a)
  BY DEF IInv, AuctionHolds
<1>5. try.amount \in Nat /\ try.at \in Nat /\ try.seen \in Wallet
  BY <1>3 DEF Attempt
<1>6. /\ try.bidder \in User /\ try.bidder # auctions[a].seller /\ try.bidder # old
      /\ try.amount > 0 /\ try.at < auctions[a].endsAt /\ IsOpen(a)
  BY <1>2, <1>4 DEF AttemptIsValid
<1>7. bid \in Bid
  BY <1>5, <1>6 DEF Bid, Sniping
<1>8. Frozen(try.seen, try.amount) \in Wallet
  BY <1>1, <1>5, FrozenType
<1>9. auctions[a].seller \in User
  BY <1>4, <1>6 DEF RowIsComplete, IsOpen, Open
<1>10. ASSUME old # None PROVE old \in User /\ Unfrozen(wallets[old], auctions[a].price) \in Wallet
  <2>1. old \in User /\ auctions[a].price \in Nat
    BY <1>3, <1>10 DEF AuctionRow
  <2> QED BY <1>1, <1>3, <1>10, <2>1, UnfrozenType
<1> QED
  BY <1>2, <1>5, <1>6, <1>7, <1>8, <1>9, <1>10

LEMMA BidCommitsStep ==
  ASSUME IInv, NEW a \in Auction, BidCommits(a), UNCHANGED serialised
  PROVE  IInv'
<1> DEFINE try == bidding[a]
           u == try.bidder
           old == auctions[a].leader
           after == Frozen(try.seen, try.amount)
           bid == [bidder |-> u, amount |-> try.amount, at |-> try.at,
                   applied |-> Sniping(a, try.at)]
           row == Outbid(a, bid)
           w == policy.auction_sniping
<1>1. /\ u \in User /\ u \notin {auctions[a].seller, old}
      /\ try.amount \in Nat /\ try.amount > 0
      /\ try.at \in Nat /\ try.at < auctions[a].endsAt /\ try.seen \in Wallet
      /\ after \in Wallet /\ bid \in Bid /\ IsOpen(a) /\ auctions[a].seller \in User
      /\ old # None => old \in User /\ Unfrozen(wallets[old], auctions[a].price) \in Wallet
  BY BidParties
<1>2. /\ wallets' = BidWallets(a, u, after)
      /\ journal' = BidJournal(a, u, try.seen, after)
      /\ bids' = [bids EXCEPT ![a] = Append(@, bid)]
      /\ auctions' = [auctions EXCEPT ![a] = row]
      /\ outbox' = LET told == Queued(outbox, auctions[a].seller, "AUCTION_BID_PLACED")
                   IN IF old = None THEN told ELSE Queued(told, old, "AUCTION_OUTBID")
      /\ bidding' = [bidding EXCEPT ![a] = NoAttempt]
      /\ UNCHANGED <<plates, revenue, history, primary, blocked, policy, now>>
  BY DEF BidCommits
<1>3. /\ bid.bidder = u /\ bid.amount = try.amount /\ bid.at = try.at
      /\ bid.applied <=> Sniping(a, try.at)
  OBVIOUS
<1> HIDE DEF bid, row, after
<1>4. /\ auctions \in [Auction -> AuctionRow] /\ bids \in [Auction -> Seq(Bid)]
      /\ bidding \in [Auction -> Attempt]
      /\ wallets \in [User -> Wallet] /\ journal \in [User -> Totals]
      /\ outbox \in [User -> [NotificationType -> Nat]]
      /\ policy \in Policies
  BY DEF IInv, TypeOK, DatabaseTypeOK
<1>5. /\ row \in AuctionRow
      /\ row.endsAt = auctions[a].endsAt + (IF bid.applied THEN w ELSE 0)
      /\ row.status = IF bid.applied THEN "EXTENDED" ELSE auctions[a].status
      /\ row.plate = auctions[a].plate /\ row.seller = auctions[a].seller
      /\ row.start = auctions[a].start /\ row.startedAt = auctions[a].startedAt
      /\ row.price = try.amount /\ row.leader = u
  BY <1>1, <1>3, <1>4, OutbidRow DEF row
<1>6. /\ auctions'[a] = row /\ bids'[a] = Append(bids[a], bid) /\ bidding'[a] = NoAttempt
      /\ \A b \in Auction \ {a} : /\ auctions'[b] = auctions[b]
                                  /\ bids'[b] = bids[b]
                                  /\ bidding'[b] = bidding[b]
  BY <1>2, <1>4
<1>7. TypeOK'
  <2>1. auctions' \in [Auction -> AuctionRow]
    BY <1>2, <1>4, <1>5
  <2>2. bids' \in [Auction -> Seq(Bid)]
    BY <1>1, <1>2, <1>4
  <2>3. bidding' \in [Auction -> Attempt]
    <3>1. NoAttempt \in Attempt
      BY DEF NoAttempt, Attempt, NoWallet, Wallet
    <3> QED BY <1>2, <1>4, <3>1
  <2>4. wallets' \in [User -> Wallet]
    <3> DEFINE frozen == [wallets EXCEPT ![u] = after]
    <3>1. frozen \in [User -> Wallet]
      BY <1>1, <1>4
    <3>2. old # None => frozen[old] = wallets[old]
      BY <1>1, <1>4
    <3>3. wallets' = IF old = None THEN frozen
                     ELSE [frozen EXCEPT ![old] = Unfrozen(frozen[old], auctions[a].price)]
      BY <1>2 DEF BidWallets
    <3> HIDE DEF frozen
    <3> QED BY <1>1, <3>1, <3>2, <3>3
  <2>5. journal' \in [User -> Totals]
    <3>1. Recorded(journal[u], try.seen, after) \in Totals
      BY <1>1, <1>4, RecordedType
    <3>2. [journal EXCEPT ![u] = Recorded(@, try.seen, after)] \in [User -> Totals]
      BY <1>4, <3>1
    <3>3. ASSUME old # None
          PROVE  \A totals \in Totals :
                   Recorded(totals, wallets[old], Unfrozen(wallets[old], auctions[a].price)) \in Totals
      BY <1>1, <1>4, <3>3, RecordedType
    <3> QED BY <1>1, <1>2, <3>2, <3>3 DEF BidJournal
  <2>6. outbox' \in [User -> [NotificationType -> Nat]]
    BY <1>1, <1>2, <1>4, QueuedType DEF NotificationType
  <2> QED BY <1>2, <2>1, <2>2, <2>3, <2>4, <2>5, <2>6 DEF IInv, TypeOK, DatabaseTypeOK
<1>8. IsOpen(a)'
  BY <1>1, <1>5, <1>6 DEF IsOpen, Open
<1>9. AuctionHoldsPlate'
  <2>1. \A b \in Auction : /\ IsOpen(b)' <=> IsOpen(b)
                           /\ auctions'[b].plate = auctions[b].plate
                           /\ auctions'[b].seller = auctions[b].seller
    BY <1>1, <1>5, <1>6, <1>8 DEF IsOpen
  <2> QED BY <1>2, <2>1, PlatesFrame DEF IInv
<1>10. AuctionHolds(a)'
  <2>1. RowIsComplete(a) /\ BindsSeller(a) /\ IsExtendedOncePerBid(a)
    BY DEF IInv, AuctionHolds
  <2>2. /\ bids[a] \in Seq(Bid) /\ bids'[a] # <<>>
        /\ bids'[a][Len(bids'[a])] = bid
    BY <1>1, <1>4, <1>6, AppendProperties
  <2>3. ShortestWindow \in Nat /\ LongestWindow \in Nat /\ w \in Nat
        /\ ShortestWindow <= w /\ w <= LongestWindow
    BY <1>4, WindowBounds, PoliciesAreValid DEF Policy
  <2>4. auctions[a].endsAt \in Nat /\ auctions[a].startedAt \in Nat /\ auctions[a].status # "ABSENT"
    BY <1>1, <1>4 DEF AuctionRow, IsOpen, Open
  <2>5. RowIsComplete(a)' /\ BindsSeller(a)' /\ AttemptIsValid(a)'
    BY <1>1, <1>5, <1>6, <1>8, <2>1, <2>2, <2>4, NoneIsNoRow
    DEF RowIsComplete, BindsSeller, AttemptIsValid, Unlocked, IsOpen, Open
  <2>6. LeavesTimeToAnswer(a)'
    <3>1. auctions'[a].endsAt > try.at + ShortestWindow
      BY <1>1, <1>3, <1>5, <1>6, <2>3, <2>4 DEF Sniping
    <3> QED BY <1>3, <2>2, <3>1 DEF LeavesTimeToAnswer, ShortestWindow
  <2>7. IsExtendedOncePerBid(a)'
    <3> DEFINE c == Cardinality(Applied(bids[a]))
               more == IF bid.applied THEN 1 ELSE 0
    <3>1. Cardinality(Applied(bids'[a])) = c + more /\ c \in Nat /\ more \in {0, 1}
      BY <1>1, <1>6, <2>2, AppliedAppend, AppliedIsFinite
    <3>2. LongestWindow * (c + more) = LongestWindow * c + LongestWindow * more
      BY <2>3, <3>1
    <3>3. auctions'[a].endsAt <= auctions[a].endsAt + LongestWindow * more
      BY <1>5, <1>6, <2>3, <2>4
    <3>4. auctions[a].endsAt <= auctions[a].startedAt + Max(Duration) + LongestWindow * c
      BY <2>1, <2>4 DEF IsExtendedOncePerBid
    <3>5. LongestWindow * c \in Nat /\ LongestWindow * more \in Nat
      BY <2>3, <3>1
    <3>6. auctions'[a].endsAt
            <= auctions[a].startedAt + Max(Duration) + LongestWindow * (c + more)
      <4> HIDE DEF c, more
      <4>1. auctions'[a].endsAt \in Nat
        BY <1>5, <1>6 DEF AuctionRow
      <4> QED BY <2>4, <3>2, <3>3, <3>4, <3>5, <4>1, DurationBound
    <3>7. auctions'[a].startedAt = auctions[a].startedAt
      BY <1>5, <1>6
    <3> HIDE DEF c, more
    <3> QED BY <3>1, <3>6, <3>7 DEF IsExtendedOncePerBid, LongestWindow
  <2> QED BY <2>5, <2>6, <2>7 DEF AuctionHolds
<1> QED
  BY <1>6, <1>7, <1>9, <1>10, OneAuctionChanges

LEMMA RepairSnipingStep ==
  ASSUME IInv, NEW a \in Auction, NEW k \in DOMAIN bids[a], RepairSniping(a, k),
         UNCHANGED serialised
  PROVE  IInv'
<1> DEFINE rows == bids[a]
           marked == [rows EXCEPT ![k].applied = TRUE]
           extends == IsOpen(a) /\ Sniping(a, rows[k].at)
           row == IF extends THEN Extended(auctions[a]) ELSE auctions[a]
           w == policy.auction_sniping
<1>1. /\ auctions \in [Auction -> AuctionRow] /\ bids \in [Auction -> Seq(Bid)]
      /\ policy \in Policies
  BY DEF IInv, TypeOK, DatabaseTypeOK
<1>2. /\ ~ rows[k].applied /\ Unlocked(a)
      /\ bids' = [bids EXCEPT ![a] = marked]
      /\ auctions' = [auctions EXCEPT ![a] = row]
      /\ UNCHANGED <<databaseVars, bidding, now>>
  <2>1. bids' = [bids EXCEPT ![a] = marked]
    BY <1>1 DEF RepairSniping, Marked
  <2>2. auctions' = IF extends THEN [auctions EXCEPT ![a] = Extended(auctions[a])] ELSE auctions
    BY <1>1 DEF RepairSniping
  <2>3. auctions' = [auctions EXCEPT ![a] = row]
    BY <1>1, <2>2
  <2> QED BY <2>1, <2>3 DEF RepairSniping
<1>3. rows \in Seq(Bid)
  BY <1>1
<1>4. /\ marked \in Seq(Bid) /\ marked # <<>> /\ Len(marked) = Len(rows)
      /\ \A l \in 1..Len(rows) : marked[l].at = rows[l].at
      /\ Cardinality(Applied(marked)) = Cardinality(Applied(rows)) + 1
      /\ Cardinality(Applied(rows)) \in Nat
  BY <1>2, <1>3, BidMarked, AppliedIsFinite
<1>5. rows # <<>> /\ Len(rows) \in 1..Len(rows)
  <2>1. k \in 1..Len(rows) /\ Len(rows) \in Nat
    BY <1>3
  <2> QED BY <2>1
<1>6. w \in Nat /\ LongestWindow \in Nat /\ w <= LongestWindow
  BY <1>1, WindowBounds, PoliciesAreValid DEF Policy
<1>7. /\ row \in AuctionRow
      /\ row.endsAt = auctions[a].endsAt + (IF extends THEN w ELSE 0)
      /\ row.status = IF extends THEN "EXTENDED" ELSE auctions[a].status
      /\ row.plate = auctions[a].plate /\ row.seller = auctions[a].seller
      /\ row.start = auctions[a].start /\ row.startedAt = auctions[a].startedAt
      /\ row.price = auctions[a].price /\ row.leader = auctions[a].leader
  <2>1. auctions[a] \in AuctionRow /\ auctions[a].endsAt \in Nat
    BY <1>1 DEF AuctionRow
  <2> HIDE DEF extends
  <2> QED BY <1>1, <2>1, ExtendedRow
<1>8. extends => IsOpen(a)
  OBVIOUS
<1> HIDE DEF row, marked, extends
<1>9. /\ auctions'[a] = row /\ bids'[a] = marked /\ bidding'[a] = bidding[a]
      /\ \A b \in Auction \ {a} : /\ auctions'[b] = auctions[b]
                                  /\ bids'[b] = bids[b]
                                  /\ bidding'[b] = bidding[b]
  BY <1>1, <1>2
<1>10. TypeOK'
  BY <1>1, <1>2, <1>4, <1>7 DEF IInv, TypeOK, DatabaseTypeOK, databaseVars
<1>11. IsOpen(a)' <=> IsOpen(a)
  BY <1>7, <1>8, <1>9 DEF IsOpen, Open
<1>12. AuctionHoldsPlate'
  <2>1. \A b \in Auction : /\ IsOpen(b)' <=> IsOpen(b)
                           /\ auctions'[b].plate = auctions[b].plate
                           /\ auctions'[b].seller = auctions[b].seller
    BY <1>7, <1>9, <1>11 DEF IsOpen
  <2> QED BY <1>2, <2>1, PlatesFrame DEF IInv, databaseVars
<1>13. AuctionHolds(a)'
  <2>1. /\ RowIsComplete(a) /\ BindsSeller(a) /\ LeavesTimeToAnswer(a)
        /\ IsExtendedOncePerBid(a)
    BY DEF IInv, AuctionHolds
  <2>2. auctions[a].endsAt \in Nat /\ auctions[a].startedAt \in Nat
    BY <1>1 DEF AuctionRow
  <2>3. auctions[a].status # "ABSENT" /\ auctions[a].leader # None
    BY <1>5, <2>1 DEF RowIsComplete
  <2>4. RowIsComplete(a)' /\ BindsSeller(a)' /\ AttemptIsValid(a)'
    BY <1>2, <1>4, <1>5, <1>7, <1>9, <2>1, <2>3
    DEF RowIsComplete, BindsSeller, AttemptIsValid, Unlocked
  <2>5. LeavesTimeToAnswer(a)'
    <3>1. bids'[a][Len(bids'[a])].at = rows[Len(rows)].at
      BY <1>4, <1>5, <1>9
    <3>2. rows[Len(rows)].at \in Nat
      <4>1. rows[Len(rows)] \in Bid
        BY <1>3, <1>5, ElementOfSeq
      <4> QED BY <4>1 DEF Bid
    <3>3. ShortestWindow \in Nat
      BY <1>1, WindowBounds
    <3> QED BY <1>5, <1>6, <1>7, <1>9, <1>11, <2>1, <2>2, <3>1, <3>2, <3>3
            DEF LeavesTimeToAnswer, ShortestWindow
  <2>6. IsExtendedOncePerBid(a)'
    <3> DEFINE c == Cardinality(Applied(rows))
               bound == LongestWindow * c
    <3>1. LongestWindow * (c + 1) = bound + LongestWindow /\ bound \in Nat
      BY <1>4, <1>6
    <3>2. auctions[a].endsAt <= auctions[a].startedAt + Max(Duration) + bound
      BY <2>1, <2>3 DEF IsExtendedOncePerBid
    <3>3. Cardinality(Applied(bids'[a])) = c + 1
      BY <1>4, <1>9
    <3> HIDE DEF c, bound
    <3>4. auctions'[a].endsAt <= auctions[a].startedAt + Max(Duration) + (bound + LongestWindow)
      BY <1>6, <1>7, <1>9, <2>2, <3>1, <3>2, DurationBound
    <3>5. auctions'[a].startedAt = auctions[a].startedAt
      BY <1>7, <1>9
    <3> QED BY <3>1, <3>3, <3>4, <3>5 DEF IsExtendedOncePerBid, LongestWindow
  <2> QED BY <2>4, <2>5, <2>6 DEF AuctionHolds
<1> QED
  BY <1>9, <1>10, <1>12, <1>13, OneAuctionChanges

\* The clock, a setting and a stuttering step.
LEMMA AuctionsStay ==
  ASSUME IInv, TypeOK', UNCHANGED <<plates, auctions, bids, bidding>>
  PROVE  IInv'
<1>1. \A a \in Auction : AuctionHolds(a)'
  BY AuctionFrame DEF IInv
<1>2. AuctionHoldsPlate'
  BY PlatesFrame DEF IInv, IsOpen
<1> QED BY <1>1, <1>2 DEF IInv

LEMMA TickStep ==
  ASSUME IInv, Tick, UNCHANGED serialised
  PROVE  IInv'
<1>1. TypeOK'
  BY NumbersAreWhole DEF IInv, TypeOK, DatabaseTypeOK, databaseVars, Tick
<1> QED BY <1>1, AuctionsStay DEF Tick, databaseVars

LEMMA SetSettingStep ==
  ASSUME IInv, NEW p \in Policies, SetSetting(p), UNCHANGED <<auctionVars, serialised>>
  PROVE  IInv'
<1>1. TypeOK'
  BY DEF IInv, TypeOK, DatabaseTypeOK, SetSetting, auctionVars
<1> QED BY <1>1, AuctionsStay DEF SetSetting, auctionVars

-----------------------------------------------------------------------------
(* The initial states, and every step                                      *)

LEMMA WalletsInit ==
  ASSUME Init
  PROVE  wallets \in [User -> Wallet] /\ journal \in [User -> Totals]
<1> DEFINE wallet == [available |-> Balance, frozen |-> 0]
<1>1. wallet \in Wallet /\ wallet \in Totals
  BY NumbersAreWhole DEF Wallet, Totals
<1>2. wallets = [u \in User |-> wallet] /\ journal = [u \in User |-> wallet]
  BY DEF Init
<1> HIDE DEF wallet
<1> QED BY <1>1, <1>2

LEMMA IInvInit == Init => IInv
<1> SUFFICES ASSUME Init PROVE IInv
  OBVIOUS
<1>1. /\ auctions = [a \in Auction |-> NoAuction] /\ bids = [a \in Auction |-> <<>>]
      /\ bidding = [a \in Auction |-> NoAttempt] /\ now = 0
  BY DEF Init, AuctionInit
<1>2. PICK owner \in [Number -> User] :
        /\ plates = [n \in Number |-> [status |-> "OWNED", owner |-> owner[n],
                                       reservedBy |-> None, reservedUntil |-> None]]
        /\ history = [n \in Number |->
             <<[old |-> None, new |-> owner[n], operation |-> "STATE_EMISSION"]>>]
  BY DEF Init
<1>3. TypeOK
  <2>1. plates \in [Number -> Plate]
    BY <1>2 DEF Plate, PlateStatus
  <2>2. history \in [Number -> Seq(OwnershipHistory)]
    <3>1. \A n \in Number :
            [old |-> None, new |-> owner[n], operation |-> "STATE_EMISSION"] \in OwnershipHistory
      BY DEF OwnershipHistory, OwnershipOperation
    <3>2. \A row \in OwnershipHistory : <<row>> \in Seq(OwnershipHistory)
      OBVIOUS
    <3> QED BY <1>2, <3>1, <3>2
  <2>3. auctions \in [Auction -> AuctionRow] /\ bids \in [Auction -> Seq(Bid)]
    BY <1>1 DEF NoAuction, AuctionRow
  <2>4. bidding \in [Auction -> Attempt]
    BY <1>1 DEF NoAttempt, Attempt, NoWallet, Wallet
  <2>5. outbox \in [User -> [NotificationType -> Nat]]
    BY DEF Init
  <2>6. blocked \subseteq User /\ serialised \in BOOLEAN /\ now \in 0..MaxTime
    BY <1>1, NumbersAreWhole DEF Init
  <2>7. revenue \in Nat /\ primary \in [User -> Number \cup {None}] /\ policy \in Policies
    BY DEF Init
  <2> QED BY <2>1, <2>2, <2>3, <2>4, <2>5, <2>6, <2>7, WalletsInit DEF TypeOK, DatabaseTypeOK
<1>4. AuctionHoldsPlate
  <2>1. \A n \in Number : plates[n].status = "OWNED"
    BY <1>2
  <2>2. \A n \in Number : OpenAuctions(n) = {}
    BY <1>1 DEF OpenAuctions, IsOpen, Open, NoAuction
  <2> QED BY <2>1, <2>2 DEF AuctionHoldsPlate
<1>5. \A a \in Auction : AuctionHolds(a)
  BY <1>1
  DEF AuctionHolds, RowIsComplete, AttemptIsValid, BindsSeller, LeavesTimeToAnswer,
      IsExtendedOncePerBid, IsOpen, Open, Unlocked, NoAuction
<1> QED BY <1>3, <1>4, <1>5 DEF IInv

LEMMA IInvNext == IInv /\ [Next]_vars => IInv'
<1> SUFFICES ASSUME IInv, [Next]_vars PROVE IInv'
  OBVIOUS
<1>1. CASE UNCHANGED vars
  <2>1. TypeOK'
    BY <1>1 DEF IInv, TypeOK, DatabaseTypeOK, vars, databaseVars, auctionVars
  <2> QED BY <1>1, <2>1, AuctionsStay DEF vars, databaseVars, auctionVars
<1>2. CASE Next
  <2>1. UNCHANGED serialised
    BY <1>2 DEF Next
  <2>2. ASSUME NEW u \in User, UserOperation(u) PROVE IInv'
    BY <2>1, <2>2, CreateStep, CancelStep, BidReadsStep DEF UserOperation
  <2>3. ASSUME NEW a \in Auction, NEW force \in BOOLEAN, Finish(a, force) PROVE IInv'
    BY <2>1, <2>3, FinishUnsoldStep, FinishSoldStep DEF Finish
  <2>4. ASSUME ServiceStep PROVE IInv'
    BY <2>1, <2>3, <2>4, BidCommitsStep, BidFailsStep, RepairSnipingStep, TickStep
    DEF ServiceStep
  <2>5. ASSUME NEW p \in Policies, SetSetting(p), UNCHANGED auctionVars PROVE IInv'
    BY <2>1, <2>5, SetSettingStep
  <2> QED BY <1>2, <2>2, <2>3, <2>4, <2>5 DEF Next, Request
<1> QED BY <1>1, <1>2

-----------------------------------------------------------------------------
(* The theorems                                                            *)

\* The invariant of the auctions is inductive: whatever bidders, sellers, jobs,
\* administrators and the clock do, in any order, also between the two halves
\* of a place_bid, the tables plates, auctions and bids agree.
THEOREM InvariantHolds == Spec => []IInv
BY IInvInit, IInvNext, PTL DEF Spec

\* Every column keeps a value of its type; no wallet that a bid or a settlement
\* writes becomes negative, although place_bid computes it from an old read.
THEOREM TypeCorrect == Spec => []TypeOK
<1>1. IInv => TypeOK
  BY DEF IInv
<1> QED BY <1>1, InvariantHolds, PTL

\* A plate is in the status AUCTION exactly as long as one auction of it is
\* open, which its owner opened (create, cancel, finish, force_finish_auction).
THEOREM AuctionsHoldPlates == Spec => []AuctionHoldsPlate
<1>1. IInv => AuctionHoldsPlate
  BY DEF IInv
<1> QED BY <1>1, InvariantHolds, PTL

\* An auction with a bid is never cancelled by its seller: cancel waits for the
\* lock of a running place_bid and then finds its bid.
THEOREM BidsBindTheSeller == Spec => []BidsAreBinding
<1>1. IInv => BidsAreBinding
  BY DEF IInv, AuctionHolds, BindsSeller, BidsAreBinding
<1> QED BY <1>1, InvariantHolds, PTL

\* After the last bid more than the shortest window of the settings is left to
\* answer it, counted from the bidder's clock (place_bid, anti-sniping).
THEOREM LateBidsLeaveTime == Spec => []LateBidsCanBeAnswered
<1>1. IInv => LateBidsCanBeAnswered
  BY DEF IInv, AuctionHolds, LeavesTimeToAnswer, LateBidsCanBeAnswered
<1> QED BY <1>1, InvariantHolds, PTL

\* Every bid extends its auction at most once, by place_bid or by
\* apply_pending_anti_sniping, by at most the longest window of the settings.
THEOREM BidsExtendOnce == Spec => []ExtendedOncePerBid
<1>1. IInv => ExtendedOncePerBid
  BY DEF IInv, AuctionHolds, IsExtendedOncePerBid, ExtendedOncePerBid, Applied
<1> QED BY <1>1, InvariantHolds, PTL

-----------------------------------------------------------------------------
(* Stars: the sums that wallets and auctions must agree on                 *)

Prices == [a \in Auction |-> auctions[a].price]

Owns == [u \in User |-> wallets[u].available + wallets[u].frozen]

LEMMA Backing ==
  ASSUME TypeOK
  PROVE  /\ \A a \in Auction : Prices[a] \in Nat
         /\ \A u \in User : Owns[u] \in Nat
         /\ \A u : IsFiniteSet(LedBy(u)) /\ LedBy(u) \subseteq Auction
<1>1. \A a \in Auction : Prices[a] \in Nat
  BY DEF TypeOK, AuctionRow, Prices
<1>2. \A u \in User : Owns[u] \in Nat
  BY DEF TypeOK, DatabaseTypeOK, Wallet, Owns
<1>3. \A u : LedBy(u) \in SUBSET Auction
  BY DEF LedBy
<1>4. \A u : IsFiniteSet(LedBy(u))
  BY <1>3, AuctionsAreFinite, FS_Subset
<1> QED BY <1>1, <1>2, <1>3, <1>4

\* FrozenBacksBids for one user.
Backed(u) == wallets[u].frozen = SumFunctionOnSet(Prices, LedBy(u))

\* Whoever neither wins nor loses the lead stays covered.
LEMMA BackedFrame ==
  ASSUME TypeOK, TypeOK', NEW u \in User, Backed(u), wallets'[u].frozen = wallets[u].frozen,
         LedBy(u)' = LedBy(u), \A a \in LedBy(u) : auctions'[a].price = auctions[a].price
  PROVE  Backed(u)'
<1>1. \A a \in LedBy(u) : Prices'[a] = Prices[a]
  BY Backing DEF Prices
<1>2. SumFunctionOnSet(Prices', LedBy(u)) = SumFunctionOnSet(Prices, LedBy(u))
  BY <1>1, Backing, SumOfEquals
<1> QED
  BY <1>2 DEF Backed

\* Whoever takes the lead with a bid freezes it.
LEMMA BackedByBid ==
  ASSUME TypeOK, TypeOK', NEW u \in User, Backed(u), NEW a \in Auction, a \notin LedBy(u),
         LedBy(u)' = LedBy(u) \cup {a},
         \A b \in LedBy(u) : auctions'[b].price = auctions[b].price,
         wallets'[u].frozen = wallets[u].frozen + auctions'[a].price
  PROVE  Backed(u)'
<1>1. \A b \in LedBy(u) : Prices'[b] = Prices[b]
  BY Backing DEF Prices
<1>2. SumFunctionOnSet(Prices', LedBy(u)) = SumFunctionOnSet(Prices, LedBy(u))
  BY <1>1, Backing, SumOfEquals
<1>3. \A b \in LedBy(u) \cup {a} : Prices'[b] \in Int
  <2>1. \A b \in Auction : Prices'[b] \in Nat
    BY DEF TypeOK, AuctionRow, Prices
  <2> QED BY <2>1, Backing
<1>4. SumFunctionOnSet(Prices', LedBy(u) \cup {a})
        = Prices'[a] + SumFunctionOnSet(Prices', LedBy(u))
  BY <1>3, Backing, SumWith
<1>5. Prices'[a] = auctions'[a].price /\ auctions'[a].price \in Nat
  BY DEF TypeOK, AuctionRow, Prices
<1>6. wallets[u].frozen \in Nat
  BY DEF TypeOK, DatabaseTypeOK, Wallet
<1> QED
  BY <1>2, <1>4, <1>5, <1>6 DEF Backed

\* Whoever loses the lead, or pays, has that much less frozen.
LEMMA BackedWithout ==
  ASSUME TypeOK, TypeOK', NEW u \in User, Backed(u), NEW a \in LedBy(u),
         LedBy(u)' = LedBy(u) \ {a},
         \A b \in LedBy(u) \ {a} : auctions'[b].price = auctions[b].price,
         wallets'[u].frozen = wallets[u].frozen - auctions[a].price
  PROVE  Backed(u)'
<1>1. \A b \in LedBy(u) \ {a} : Prices'[b] = Prices[b]
  BY Backing DEF Prices
<1>2. IsFiniteSet(LedBy(u) \ {a})
  BY Backing, FS_Subset
<1>3. SumFunctionOnSet(Prices', LedBy(u) \ {a}) = SumFunctionOnSet(Prices, LedBy(u) \ {a})
  BY <1>1, <1>2, SumOfEquals
<1>4. \A b \in LedBy(u) : Prices[b] \in Nat /\ Prices[b] \in Int
  BY Backing
<1>5. SumFunctionOnSet(Prices, LedBy(u))
        = Prices[a] + SumFunctionOnSet(Prices, LedBy(u) \ {a})
  BY <1>4, Backing, SumElement
<1>6. SumFunctionOnSet(Prices, LedBy(u) \ {a}) \in Nat
  BY <1>2, <1>4, SumOfNaturals
<1>7. Prices[a] = auctions[a].price /\ auctions[a].price \in Nat
  BY <1>4, Backing DEF Prices
<1> QED
  BY <1>3, <1>5, <1>6, <1>7 DEF Backed

\* Neither wallets nor the State gain or lose.
LEMMA ConservedFrame ==
  ASSUME TypeOK, SumFunctionOnSet(Owns, User) + revenue = Balance * Cardinality(User),
         \A u \in User : Owns'[u] = Owns[u], revenue' = revenue
  PROVE  (SumFunctionOnSet(Owns, User) + revenue = Balance * Cardinality(User))'
<1>1. SumFunctionOnSet(Owns', User) = SumFunctionOnSet(Owns, User)
  BY UsersAreFinite, SumOfEquals
<1> QED BY <1>1

\* What the invariant says when operations on one wallet take turns.
TInv ==
  /\ \A a \in Auction : ~ Unlocked(a) =>
       /\ bidding[a].seen = wallets[bidding[a].bidder]
       /\ \A b \in Auction : ~ Unlocked(b) /\ bidding[b].bidder = bidding[a].bidder => b = a
  /\ \A u \in User : Backed(u)
  /\ SumFunctionOnSet(Owns, User) + revenue = Balance * Cardinality(User)

LEMMA TakingTurns == SInv <=> (serialised => TInv)
BY DEF SInv, TInv, ReadsAreCurrent, FrozenBacksBidsInTurn, FrozenBacksBids, StarsAreConserved,
       Backed, Prices, Owns

\* Steps that move no Stars and change no leader.
LEMMA StarsStay ==
  ASSUME IInv, IInv', TInv, UNCHANGED <<wallets, revenue>>,
         \A u \in User : LedBy(u)' = LedBy(u),
         \A u \in User : \A a \in LedBy(u) : auctions'[a].price = auctions[a].price,
         \A a \in Auction : bidding'[a] = bidding[a] \/ bidding'[a] = NoAttempt
  PROVE  TInv'
<1>1. TypeOK /\ TypeOK'
  BY DEF IInv
<1>2. \A u \in User : Backed(u)'
  BY <1>1, BackedFrame DEF TInv
<1>3. (SumFunctionOnSet(Owns, User) + revenue = Balance * Cardinality(User))'
  BY <1>1, ConservedFrame DEF TInv, Owns
<1> QED
  BY <1>2, <1>3 DEF TInv, Unlocked

LEMMA BidReadsStars ==
  ASSUME IInv, IInv', TInv, serialised, NEW u \in User, NEW a \in Auction, NEW amount, NEW at,
         BidReads(u, a, amount, at)
  PROVE  TInv'
<1> DEFINE try == [bidder |-> u, amount |-> amount, at |-> at, seen |-> wallets[u]]
<1>1. /\ Unlocked(a) /\ \A b \in Auction : bidding[b].bidder # u
      /\ bidding' = [bidding EXCEPT ![a] = try]
      /\ UNCHANGED <<databaseVars, auctions, bids, now>>
  BY DEF BidReads, Idle
<1>2. bidding \in [Auction -> Attempt] /\ TypeOK /\ TypeOK'
  BY DEF IInv, TypeOK
<1>3. bidding'[a] = try /\ \A b \in Auction \ {a} : bidding'[b] = bidding[b]
  BY <1>1, <1>2
<1>4. \A b \in Auction : ~ Unlocked(b)' =>
        /\ bidding'[b].seen = wallets'[bidding'[b].bidder]
        /\ \A c \in Auction : ~ Unlocked(c)' /\ bidding'[c].bidder = bidding'[b].bidder => c = b
  BY <1>1, <1>3 DEF TInv, Unlocked, databaseVars
<1>5. \A v \in User : Backed(v)'
  <2>1. \A v \in User : LedBy(v)' = LedBy(v)
    BY <1>1 DEF LedBy, IsOpen
  <2> QED BY <1>1, <1>2, <2>1, BackedFrame DEF TInv, databaseVars
<1>6. (SumFunctionOnSet(Owns, User) + revenue = Balance * Cardinality(User))'
  BY <1>1, <1>2, ConservedFrame DEF TInv, Owns, databaseVars
<1> QED
  BY <1>4, <1>5, <1>6 DEF TInv

\* A new bid: what it does to the wallets and to the leaders.  The bidder and
\* the former leader are constants here, for the step writes where they stood.
LEMMA BidEffects ==
  ASSUME IInv, TInv, serialised, NEW a \in Auction, BidCommits(a),
         NEW u \in User, u = bidding[a].bidder,
         NEW old \in User \cup {None}, old = auctions[a].leader
  PROVE  /\ u # old /\ ~ Unlocked(a) /\ bidding[a].amount \in Nat
         /\ auctions'[a].price = bidding[a].amount
         /\ \A b \in Auction \ {a} : auctions'[b] = auctions[b]
         /\ LedBy(u)' = LedBy(u) \cup {a} /\ a \notin LedBy(u)
         /\ old # None => LedBy(old)' = LedBy(old) \ {a} /\ a \in LedBy(old)
         /\ \A v \in User \ {u, old} : LedBy(v)' = LedBy(v) /\ a \notin LedBy(v)
         /\ wallets'[u].available = wallets[u].available - bidding[a].amount
         /\ wallets'[u].frozen = wallets[u].frozen + bidding[a].amount
         /\ old # None =>
              /\ wallets'[old].available = wallets[old].available + auctions[a].price
              /\ wallets'[old].frozen = wallets[old].frozen - auctions[a].price
         /\ \A v \in User \ {u, old} : wallets'[v] = wallets[v]
<1> DEFINE try == bidding[a]
           price == auctions[a].price
           after == Frozen(try.seen, try.amount)
           bid == [bidder |-> u, amount |-> try.amount, at |-> try.at,
                   applied |-> Sniping(a, try.at)]
           row == Outbid(a, bid)
<1>1. /\ auctions \in [Auction -> AuctionRow] /\ bidding \in [Auction -> Attempt]
      /\ wallets \in [User -> Wallet] /\ policy \in Policies
      /\ price \in Nat
  BY DEF IInv, TypeOK, DatabaseTypeOK, AuctionRow
<1>2. /\ u # old /\ try.amount \in Nat /\ bid \in Bid
      /\ IsOpen(a) /\ ~ Unlocked(a)
      /\ old # None => old \in User
  BY BidParties
<1>3. try.seen = wallets[u]
  BY <1>2 DEF TInv
<1>4. wallets' = BidWallets(a, u, after) /\ auctions' = [auctions EXCEPT ![a] = row]
  BY DEF BidCommits
<1>5. /\ row.price = try.amount /\ row.leader = u
      /\ row.status = IF bid.applied THEN "EXTENDED" ELSE auctions[a].status
  BY <1>1, <1>2, OutbidRow
<1> HIDE DEF row, bid
<1>6. auctions'[a] = row /\ \A b \in Auction \ {a} : auctions'[b] = auctions[b]
  BY <1>1, <1>4
<1>7. /\ wallets'[u] = after
      /\ old # None => wallets'[old] = Unfrozen(wallets[old], price)
      /\ \A v \in User \ {u, old} : wallets'[v] = wallets[v]
  BY <1>1, <1>2, <1>4 DEF BidWallets
<1>8. wallets'[u].available = wallets[u].available - try.amount
      /\ wallets'[u].frozen = wallets[u].frozen + try.amount
  <2>1. wallets[u] \in Wallet
    BY <1>1
  <2> QED BY <1>3, <1>7, <2>1 DEF Frozen, Wallet
<1>9. ASSUME old # None
      PROVE  /\ wallets'[old].available = wallets[old].available + price
             /\ wallets'[old].frozen = wallets[old].frozen - price
  <2>1. wallets[old] \in Wallet
    BY <1>1, <1>2, <1>9
  <2> QED BY <1>7, <1>9, <2>1 DEF Unfrozen, Wallet
<1>10. IsOpen(a)'
  BY <1>2, <1>5, <1>6 DEF IsOpen, Open
<1>11. LedBy(u)' = LedBy(u) \cup {a} /\ a \notin LedBy(u)
  BY <1>2, <1>5, <1>6, <1>10 DEF LedBy, IsOpen
<1>12. ASSUME old # None PROVE LedBy(old)' = LedBy(old) \ {a} /\ a \in LedBy(old)
  BY <1>2, <1>5, <1>6, <1>12 DEF LedBy, IsOpen
<1>13. \A v \in User \ {u, old} : LedBy(v)' = LedBy(v) /\ a \notin LedBy(v)
  BY <1>2, <1>5, <1>6 DEF LedBy, IsOpen
<1> QED
  BY <1>2, <1>5, <1>6, <1>7, <1>8, <1>9, <1>11, <1>12, <1>13

LEMMA BidCommitsStars ==
  ASSUME IInv, IInv', TInv, serialised, NEW a \in Auction, BidCommits(a)
  PROVE  TInv'
<1>1. TypeOK /\ TypeOK'
  BY DEF IInv
<1>2. PICK u \in User : u = bidding[a].bidder
  BY BidParties
<1>3. PICK old \in User \cup {None} : old = auctions[a].leader
  BY <1>1 DEF TypeOK, AuctionRow
<1> DEFINE amount == bidding[a].amount
           price == auctions[a].price
<1>4. /\ u # old /\ ~ Unlocked(a) /\ amount \in Nat /\ auctions'[a].price = amount
      /\ \A b \in Auction \ {a} : auctions'[b] = auctions[b]
      /\ LedBy(u)' = LedBy(u) \cup {a} /\ a \notin LedBy(u)
      /\ old # None => LedBy(old)' = LedBy(old) \ {a} /\ a \in LedBy(old)
      /\ \A v \in User \ {u, old} : LedBy(v)' = LedBy(v) /\ a \notin LedBy(v)
  <2>1. /\ u # old /\ ~ Unlocked(a) /\ amount \in Nat /\ auctions'[a].price = amount
        /\ \A b \in Auction \ {a} : auctions'[b] = auctions[b]
    BY <1>2, <1>3, BidEffects
  <2>2. /\ LedBy(u)' = LedBy(u) \cup {a} /\ a \notin LedBy(u)
        /\ old # None => LedBy(old)' = LedBy(old) \ {a} /\ a \in LedBy(old)
    BY <1>2, <1>3, BidEffects
  <2>3. \A v \in User \ {u, old} : LedBy(v)' = LedBy(v) /\ a \notin LedBy(v)
    BY <1>2, <1>3, BidEffects
  <2> QED BY <2>1, <2>2, <2>3
<1>5. /\ wallets'[u].available = wallets[u].available - amount
      /\ wallets'[u].frozen = wallets[u].frozen + amount
      /\ old # None => /\ wallets'[old].available = wallets[old].available + price
                       /\ wallets'[old].frozen = wallets[old].frozen - price
      /\ \A v \in User \ {u, old} : wallets'[v] = wallets[v]
  BY <1>2, <1>3, BidEffects
<1>6. /\ bidding' = [bidding EXCEPT ![a] = NoAttempt] /\ revenue' = revenue
      /\ old # None => \A b \in Auction : bidding[b].bidder # old
  BY <1>3 DEF BidCommits, Idle
<1>7. \A v \in User : LedBy(v) \subseteq Auction
  BY <1>1, Backing
<1> HIDE DEF amount, price
<1>8. ASSUME NEW b \in Auction, ~ Unlocked(b)'
      PROVE  /\ bidding'[b].seen = wallets'[bidding'[b].bidder]
             /\ \A c \in Auction : ~ Unlocked(c)' /\ bidding'[c].bidder = bidding'[b].bidder => c = b
  <2>1. bidding'[a] = NoAttempt /\ \A c \in Auction \ {a} : bidding'[c] = bidding[c]
    BY <1>1, <1>6 DEF TypeOK
  <2>2. b # a /\ ~ Unlocked(b)
    BY <1>8, <2>1 DEF Unlocked
  <2>3. bidding[b].bidder \in User /\ bidding[b].bidder \notin {u, old}
    <3>1. bidding[b].bidder \in User
      BY <2>2 DEF IInv, AuctionHolds, AttemptIsValid
    <3>2. bidding[b].bidder # u
      BY <1>2, <1>4, <2>2 DEF TInv
    <3> QED BY <1>6, <3>1, <3>2, NoneIsNoRow
  <2>4. bidding'[b].seen = wallets'[bidding'[b].bidder]
    BY <1>5, <2>1, <2>2, <2>3 DEF TInv
  <2> QED BY <2>1, <2>2, <2>4 DEF TInv, Unlocked
<1>9. ASSUME NEW v \in User PROVE Backed(v)'
  <2>1. Backed(v)
    BY DEF TInv
  <2>2. CASE v = u
    BY <1>1, <1>4, <1>5, <1>7, <2>1, <2>2, BackedByBid
  <2>3. CASE v = old
    <3>1. a \in LedBy(v) /\ LedBy(v)' = LedBy(v) \ {a}
      BY <1>4, <2>3, NoneIsNoRow
    <3>2. wallets'[v].frozen = wallets[v].frozen - auctions[a].price
      BY <1>5, <2>3, NoneIsNoRow DEF price
    <3>3. \A b \in LedBy(v) \ {a} : auctions'[b].price = auctions[b].price
      BY <1>4, <1>7
    <3> QED BY <1>1, <2>1, <3>1, <3>2, <3>3, BackedWithout
  <2>4. CASE v \notin {u, old}
    BY <1>1, <1>4, <1>5, <1>7, <2>1, <2>4, BackedFrame
  <2> QED BY <2>2, <2>3, <2>4
<1>10. (SumFunctionOnSet(Owns, User) + revenue = Balance * Cardinality(User))'
  <2>1. \A v \in User : wallets[v].available \in Nat /\ wallets[v].frozen \in Nat
    BY <1>1 DEF TypeOK, DatabaseTypeOK, Wallet
  <2>2. price \in Nat
    BY <1>1 DEF TypeOK, AuctionRow, price
  <2>3. \A v \in User : wallets'[v].available + wallets'[v].frozen
                          = wallets[v].available + wallets[v].frozen
    BY <1>4, <1>5, <2>1, <2>2, NoneIsNoRow
  <2>4. \A v \in User : Owns'[v] = Owns[v]
    BY <2>3 DEF Owns
  <2> QED BY <1>1, <1>6, <2>4, ConservedFrame DEF TInv
<1> QED
  BY <1>8, <1>9, <1>10 DEF TInv

LEMMA FinishSoldStars ==
  ASSUME IInv, IInv', TInv, serialised, NEW a \in Auction, NEW force, FinishSold(a, force)
  PROVE  TInv'
<1>1. TypeOK /\ TypeOK' /\ wallets \in [User -> Wallet]
  BY DEF IInv, TypeOK, DatabaseTypeOK
<1>2. IsOpen(a) /\ Unlocked(a) /\ auctions[a].leader # None
  BY DEF FinishSold, Finishable
<1>3. PICK winner \in User : winner = auctions[a].leader
  BY <1>2, SettlementParties
<1>4. PICK seller \in User : seller = auctions[a].seller
  BY <1>2, SettlementParties
<1> DEFINE price == auctions[a].price
           fee == Commission(policy, price)
           paid == Settled(wallets[winner], price)
           credited == Credited(wallets[seller], Proceeds(a))
<1>5. /\ winner # seller /\ price \in Nat /\ fee \in Nat /\ Proceeds(a) \in Nat
      /\ Proceeds(a) = price - fee
  BY <1>2, <1>3, <1>4, SettlementParties DEF Proceeds
<1>6. /\ wallets' = [wallets EXCEPT ![winner] = paid, ![seller] = credited]
      /\ auctions' = [auctions EXCEPT ![a].status = "FINISHED"]
      /\ bidding' = bidding /\ revenue' = revenue + fee
      /\ \A b \in Auction : bidding[b].bidder \notin {winner, seller}
  BY <1>3, <1>4 DEF FinishSold, Idle
<1>7. /\ auctions'[a].status = "FINISHED" /\ \A b \in Auction \ {a} : auctions'[b] = auctions[b]
      /\ \A b \in Auction : auctions'[b].leader = auctions[b].leader
      /\ \A b \in Auction : auctions'[b].price = auctions[b].price
  BY <1>1, <1>6 DEF TypeOK, AuctionRow
<1>8. /\ wallets'[winner] = paid /\ wallets'[seller] = credited
      /\ \A v \in User \ {winner, seller} : wallets'[v] = wallets[v]
  BY <1>1, <1>5, <1>6
<1>9. /\ wallets'[winner].available = wallets[winner].available
      /\ wallets'[winner].frozen = wallets[winner].frozen - price
      /\ wallets'[seller].available = wallets[seller].available + (price - fee)
      /\ wallets'[seller].frozen = wallets[seller].frozen
  <2>1. wallets[winner] \in Wallet /\ wallets[seller] \in Wallet
    BY <1>1
  <2> QED BY <1>5, <1>8, <2>1 DEF Settled, Credited, Wallet
<1>10. /\ LedBy(winner)' = LedBy(winner) \ {a} /\ a \in LedBy(winner)
       /\ \A v \in User \ {winner} : LedBy(v)' = LedBy(v) /\ a \notin LedBy(v)
  BY <1>2, <1>3, <1>7 DEF LedBy, IsOpen, Open
<1> HIDE DEF price, fee, paid, credited
<1>11. ASSUME NEW b \in Auction, ~ Unlocked(b)'
       PROVE  /\ bidding'[b].seen = wallets'[bidding'[b].bidder]
              /\ \A c \in Auction : ~ Unlocked(c)' /\ bidding'[c].bidder = bidding'[b].bidder => c = b
  <2>1. ~ Unlocked(b) /\ bidding[b].bidder \in User \ {winner, seller}
    BY <1>6, <1>11 DEF IInv, AuctionHolds, AttemptIsValid, Unlocked
  <2> QED BY <1>6, <1>8, <2>1 DEF TInv, Unlocked
<1>12. ASSUME NEW v \in User PROVE Backed(v)'
  <2>1. Backed(v)
    BY DEF TInv
  <2>2. LedBy(v) \subseteq Auction
    BY <1>1, Backing
  <2>3. CASE v = winner
    BY <1>1, <1>7, <1>9, <1>10, <2>1, <2>2, <2>3, BackedWithout DEF price
  <2>4. CASE v # winner
    <3>1. wallets'[v].frozen = wallets[v].frozen
      BY <1>8, <1>9, <2>4
    <3> QED BY <1>1, <1>7, <1>10, <2>1, <2>2, <2>4, <3>1, BackedFrame
  <2> QED BY <2>3, <2>4
<1>13. (SumFunctionOnSet(Owns, User) + revenue = Balance * Cardinality(User))'
  <2> DEFINE half == [Owns EXCEPT ![winner] = @ - price]
  <2>1. /\ \A v \in User : Owns[v] \in Nat /\ Owns'[v] \in Nat
        /\ \A v \in User : Owns[v] \in Int /\ revenue \in Nat
    <3>1. \A v \in User : Owns[v] \in Nat
      BY <1>1, Backing
    <3>2. \A v \in User : Owns'[v] \in Nat
      <4>1. \A v \in User : wallets'[v] \in Wallet
        BY <1>1 DEF TypeOK, DatabaseTypeOK
      <4> QED BY <4>1 DEF Wallet, Owns
    <3>3. revenue \in Nat
      BY <1>1 DEF TypeOK, DatabaseTypeOK
    <3> QED BY <3>1, <3>2, <3>3
  <2>2. /\ Owns[winner] = wallets[winner].available + wallets[winner].frozen
        /\ Owns[seller] = wallets[seller].available + wallets[seller].frozen
        /\ Owns'[winner] = wallets'[winner].available + wallets'[winner].frozen
        /\ Owns'[seller] = wallets'[seller].available + wallets'[seller].frozen
    BY DEF Owns
  <2>3. /\ wallets[winner].available \in Nat /\ wallets[winner].frozen \in Nat
        /\ wallets[seller].available \in Nat /\ wallets[seller].frozen \in Nat
    BY <1>1 DEF Wallet
  <2>4. /\ Owns'[winner] = Owns[winner] - price
        /\ Owns'[seller] = Owns[seller] + (price - fee)
    BY <1>5, <1>9, <2>2, <2>3
  <2>5. /\ half[winner] = Owns[winner] - price
        /\ \A v \in User \ {winner} : half[v] = Owns[v]
    BY DEF Owns
  <2>6. \A v \in User : half[v] \in Int
    BY <1>5, <2>1, <2>5
  <2> HIDE DEF half
  <2>7. \A v \in User \ {seller} : Owns'[v] = half[v]
    <3>1. \A v \in User \ {winner, seller} : Owns'[v] = Owns[v]
      BY <1>8 DEF Owns
    <3> QED BY <2>4, <2>5, <3>1
  <2>8. SumFunctionOnSet(Owns, User) = SumFunctionOnSet(half, User) + (Owns[winner] - half[winner])
    <3>1. \A v \in User \ {winner} : Owns[v] = half[v]
      BY <2>5
    <3> QED BY <2>1, <2>6, <3>1, UsersAreFinite, SumChanged
  <2>9. SumFunctionOnSet(Owns', User) = SumFunctionOnSet(half, User) + (Owns'[seller] - half[seller])
    BY <2>1, <2>6, <2>7, UsersAreFinite, SumChanged
  <2>10. half[seller] = Owns[seller]
    BY <1>5, <2>5
  <2>11. SumFunctionOnSet(Owns, User) \in Int /\ SumFunctionOnSet(half, User) \in Int
    BY <2>1, <2>6, UsersAreFinite, SumType
  <2>12. SumFunctionOnSet(Owns', User) = SumFunctionOnSet(Owns, User) - fee
    BY <1>5, <2>1, <2>4, <2>5, <2>8, <2>9, <2>10, <2>11
  <2>13. SumFunctionOnSet(Owns', User) + revenue' = SumFunctionOnSet(Owns, User) + revenue
    BY <1>5, <1>6, <2>1, <2>11, <2>12
  <2> QED BY <2>13 DEF TInv
<1> QED
  BY <1>11, <1>12, <1>13 DEF TInv

LEMMA TInvInit == Init => TInv
<1> SUFFICES ASSUME Init PROVE TInv
  OBVIOUS
<1>1. /\ auctions = [a \in Auction |-> NoAuction] /\ bidding = [a \in Auction |-> NoAttempt]
      /\ wallets = [u \in User |-> [available |-> Balance, frozen |-> 0]] /\ revenue = 0
  BY DEF Init, AuctionInit
<1>2. \A a \in Auction : Unlocked(a)
  BY <1>1 DEF Unlocked
<1>3. ASSUME NEW u \in User PROVE Backed(u)
  <2>1. LedBy(u) = {}
    BY <1>1 DEF LedBy, IsOpen, Open, NoAuction
  <2> QED BY <1>1, <2>1, SumOfNothing DEF Backed
<1>4. SumFunctionOnSet(Owns, User) + revenue = Balance * Cardinality(User)
  <2>1. \A u \in User : Owns[u] = Balance
    BY <1>1, NumbersAreWhole DEF Owns
  <2>2. SumFunctionOnSet(Owns, User) = Balance * Cardinality(User)
    BY <2>1, UsersAreFinite, NumbersAreWhole, SumOfConstant
  <2>3. Balance * Cardinality(User) \in Nat
    BY UsersAreFinite, FS_CardinalityType, NumbersAreWhole
  <2> QED BY <1>1, <2>2, <2>3
<1> QED BY <1>2, <1>3, <1>4 DEF TInv

LEMMA TInvNext ==
  ASSUME IInv, IInv', TInv, serialised, [Next]_vars
  PROVE  TInv'
<1>1. CASE UNCHANGED vars
  <2>1. UNCHANGED <<wallets, revenue, auctions, bidding>>
    BY <1>1 DEF vars, databaseVars, auctionVars
  <2>2. \A u \in User : LedBy(u)' = LedBy(u)
    BY <2>1 DEF LedBy, IsOpen
  <2> QED BY <2>1, <2>2, StarsStay
<1>2. ASSUME NEW u \in User, NEW n \in Number, NEW a \in Auction, NEW start \in StartPrice,
             NEW duration \in Duration, Create(u, n, a, start, duration)
      PROVE  TInv'
  <2>1. /\ auctions[a].status = "ABSENT" /\ auctions'[a].leader = None
        /\ \A b \in Auction \ {a} : auctions'[b] = auctions[b]
        /\ UNCHANGED <<wallets, revenue, bidding>>
    BY <1>2 DEF Create, IInv, TypeOK
  <2>2. \A v \in User : LedBy(v)' = LedBy(v) /\ a \notin LedBy(v) /\ LedBy(v) \subseteq Auction
    BY <2>1, NoneIsNoRow DEF LedBy, IsOpen, Open
  <2> QED BY <2>1, <2>2, StarsStay
<1>3. ASSUME NEW a \in Auction, auctions[a].leader = None, NEW status,
             auctions' = [auctions EXCEPT ![a].status = status],
             UNCHANGED <<wallets, revenue, bidding>>
      PROVE  TInv'
  <2>1. /\ auctions'[a].leader = None /\ \A b \in Auction \ {a} : auctions'[b] = auctions[b]
    BY <1>3 DEF IInv, TypeOK, AuctionRow
  <2>2. \A v \in User : LedBy(v)' = LedBy(v) /\ a \notin LedBy(v) /\ LedBy(v) \subseteq Auction
    BY <1>3, <2>1, NoneIsNoRow DEF LedBy, IsOpen
  <2> QED BY <1>3, <2>1, <2>2, StarsStay
<1>4. ASSUME NEW u \in User, NEW a \in Auction, Cancel(u, a) PROVE TInv'
  <2>1. auctions[a].leader = None
    BY <1>4 DEF IInv, AuctionHolds, RowIsComplete, Cancel, Cancellable
  <2> QED BY <1>3, <1>4, <2>1 DEF Cancel
<1>5. ASSUME NEW a \in Auction, NEW force \in BOOLEAN, FinishUnsold(a, force) PROVE TInv'
  BY <1>3, <1>5 DEF FinishUnsold
<1>6. ASSUME NEW a \in Auction, BidFails(a) PROVE TInv'
  <2>1. /\ UNCHANGED <<wallets, revenue, auctions>>
        /\ \A b \in Auction : bidding'[b] = bidding[b] \/ bidding'[b] = NoAttempt
    BY <1>6 DEF BidFails, databaseVars, IInv, TypeOK
  <2>2. \A v \in User : LedBy(v)' = LedBy(v)
    BY <2>1 DEF LedBy, IsOpen
  <2> QED BY <2>1, <2>2, StarsStay
<1>7. ASSUME NEW a \in Auction, NEW k \in DOMAIN bids[a], RepairSniping(a, k) PROVE TInv'
  <2>1. auctions[a] \in AuctionRow /\ policy \in Policies /\ auctions \in [Auction -> AuctionRow]
    BY DEF IInv, TypeOK, DatabaseTypeOK
  <2>2. /\ \A b \in Auction \ {a} : auctions'[b] = auctions[b]
        /\ \/ auctions'[a] = auctions[a]
           \/ IsOpen(a) /\ auctions'[a] = Extended(auctions[a])
        /\ UNCHANGED <<wallets, revenue, bidding>>
    <3>1. UNCHANGED <<wallets, revenue, bidding>>
      <4>1. UNCHANGED databaseVars /\ UNCHANGED bidding
        BY <1>7 DEF RepairSniping
      <4> QED BY <4>1 DEF databaseVars
    <3>2. \/ auctions' = auctions
          \/ IsOpen(a) /\ auctions' = [auctions EXCEPT ![a] = Extended(auctions[a])]
      <4>1. auctions' = IF IsOpen(a) /\ Sniping(a, bids[a][k].at)
                        THEN [auctions EXCEPT ![a] = Extended(auctions[a])] ELSE auctions
        BY <1>7, <2>1 DEF RepairSniping
      <4> QED BY <4>1
    <3> QED BY <2>1, <3>1, <3>2
  <2>3. /\ IsOpen(a)' <=> IsOpen(a)
        /\ auctions'[a].leader = auctions[a].leader /\ auctions'[a].price = auctions[a].price
    BY <2>1, <2>2, ExtendedRow DEF IsOpen, Open
  <2>4. \A v \in User : LedBy(v)' = LedBy(v) /\ LedBy(v) \subseteq Auction
    BY <2>2, <2>3 DEF LedBy, IsOpen
  <2> QED BY <2>2, <2>3, <2>4, StarsStay
<1>8. ASSUME UNCHANGED <<wallets, revenue, auctions, bidding>> PROVE TInv'
  <2>1. \A v \in User : LedBy(v)' = LedBy(v)
    BY <1>8 DEF LedBy, IsOpen
  <2> QED BY <1>8, <2>1, StarsStay
<1>9. ASSUME NEW u \in User, UserOperation(u) PROVE TInv'
  BY <1>2, <1>4, <1>9, BidReadsStars DEF UserOperation
<1>10. ASSUME NEW a \in Auction, NEW force \in BOOLEAN, Finish(a, force) PROVE TInv'
  BY <1>5, <1>10, FinishSoldStars DEF Finish
<1>11. ASSUME Tick PROVE TInv'
  BY <1>8, <1>11 DEF Tick, databaseVars
<1>12. ASSUME ServiceStep PROVE TInv'
  BY <1>6, <1>7, <1>10, <1>11, <1>12, BidCommitsStars DEF ServiceStep
<1>13. ASSUME NEW p \in Policies, SetSetting(p), UNCHANGED auctionVars PROVE TInv'
  BY <1>8, <1>13 DEF SetSetting, auctionVars
<1> QED BY <1>1, <1>9, <1>10, <1>12, <1>13 DEF Next, Request

\* Bids, withdrawals and settlements of several auctions, interleaved in any
\* order: the reads of running place_bids stay current, every leading bid is
\* frozen, and no Star is lost, if operations on one wallet take turns.
THEOREM StarsInvariantHolds == Spec => []SInv
<1>1. Init => SInv
  BY TInvInit, TakingTurns
<1>2. SInv /\ IInv /\ IInv' /\ [Next]_vars => SInv'
  <2> SUFFICES ASSUME SInv, IInv, IInv', [Next]_vars PROVE SInv'
    OBVIOUS
  <2>1. serialised' = serialised
    BY DEF Next, vars
  <2>2. SInv' <=> (serialised' => TInv')
    BY TakingTurns, PTL
  <2> QED BY <2>1, <2>2, TInvNext, TakingTurns
<1> QED BY <1>1, <1>2, InvariantHolds, PTL DEF Spec

\* With wallet operations that take turns, what is frozen in a wallet is the sum
\* of the prices of the open auctions its owner leads (place_bid, finish).
THEOREM FrozenStarsBackBids == Spec => []FrozenBacksBidsInTurn
<1>1. SInv => FrozenBacksBidsInTurn
  BY DEF SInv
<1> QED BY <1>1, StarsInvariantHolds, PTL

\* Bidding, outbidding and settling neither create nor lose Stars (BalanceBook
\* as place_bid and finish use it), as long as operations on a wallet take turns.
THEOREM StarsStayConserved == Spec => []StarsAreConserved
<1>1. SInv => StarsAreConserved
  BY DEF SInv
<1> QED BY <1>1, StarsInvariantHolds, PTL

\* finish raises for an open auction with a bid only if the commission is 100
\* percent: the leader's Stars are there, and the seller gets at least one.
THEOREM SettlementsArePossible == Spec => []SettlementIsPossible
<1>1. IInv /\ SInv => SettlementIsPossible
  <2> SUFFICES ASSUME IInv, SInv, NEW a \in Auction, serialised, IsOpen(a),
                      auctions[a].leader # None
               PROVE  /\ CanTakeFrozen(wallets[auctions[a].leader], auctions[a].price)
                      /\ CanCredit(Proceeds(a)) <=> policy.commission_percent < 100
    BY DEF SettlementIsPossible
  <2> DEFINE u == auctions[a].leader
             price == auctions[a].price
  <2>1. u \in User /\ price \in Nat /\ price > 0 /\ policy \in Policy
        /\ Commission(policy, price) \in Nat
    BY SettlementParties
  <2>2. TypeOK /\ Backed(u)
    BY <2>1, TakingTurns DEF IInv, TInv
  <2>3. a \in LedBy(u) /\ IsFiniteSet(LedBy(u)) /\ LedBy(u) \subseteq Auction
        /\ \A b \in Auction : Prices[b] \in Nat
    BY <2>2, Backing DEF LedBy
  <2>4. Prices[a] <= SumFunctionOnSet(Prices, LedBy(u))
    BY <2>3, SummandIsBounded
  <2>5. CanTakeFrozen(wallets[u], price)
    BY <2>1, <2>2, <2>4 DEF CanTakeFrozen, Backed, Prices
  <2>6. CanCredit(Proceeds(a)) <=> policy.commission_percent < 100
    BY <2>1, CommissionBound DEF CanCredit, Proceeds
  <2> QED BY <2>5, <2>6
<1> QED BY <1>1, InvariantHolds, StarsInvariantHolds, PTL

-----------------------------------------------------------------------------
(* What a step may never do                                                *)

\* An action that writes one auction writes an open or a new one.
LEMMA ClosedIsLeftAlone ==
  ASSUME IInv, [Next]_vars, NEW a \in Auction, auctions[a].status \in {"FINISHED", "CANCELLED"}
  PROVE  auctions'[a] = auctions[a]
<1>1. ~ IsOpen(a) /\ auctions[a].status # "ABSENT" /\ Unlocked(a)
  BY DEF IInv, AuctionHolds, AttemptIsValid, IsOpen, Open
<1>2. auctions \in [Auction -> AuctionRow]
  BY DEF IInv, TypeOK
<1>3. CASE UNCHANGED vars
  BY <1>3 DEF vars, auctionVars
<1>4. ASSUME NEW u \in User, UserOperation(u) PROVE auctions'[a] = auctions[a]
  BY <1>1, <1>2, <1>4 DEF UserOperation, Create, Cancel, Cancellable, BidReads
<1>5. ASSUME NEW b \in Auction, BidCommits(b) PROVE auctions'[a] = auctions[a]
  BY <1>1, <1>2, <1>5 DEF BidCommits, Unlocked, NoAttempt
<1>6. ASSUME NEW b \in Auction, NEW force \in BOOLEAN, Finish(b, force)
      PROVE  auctions'[a] = auctions[a]
  BY <1>1, <1>2, <1>6 DEF Finish, FinishUnsold, FinishSold, Finishable
<1>7. ASSUME NEW b \in Auction, NEW k \in DOMAIN bids[b], RepairSniping(b, k)
      PROVE  auctions'[a] = auctions[a]
  BY <1>1, <1>2, <1>7 DEF RepairSniping
<1>8. ASSUME ServiceStep PROVE auctions'[a] = auctions[a]
  BY <1>5, <1>6, <1>7, <1>8 DEF ServiceStep, BidFails, Tick
<1>9. ASSUME NEW p \in Policies, UNCHANGED auctionVars PROVE auctions'[a] = auctions[a]
  BY <1>9 DEF auctionVars
<1> QED BY <1>3, <1>4, <1>6, <1>8, <1>9 DEF Next, Request

\* A closed auction is never touched again, by no job and no request that listed
\* it while it was open (finish, apply_pending_anti_sniping, place_bid).
THEOREM ResultsAreFinal == Spec => ResultIsFinal
<1>1. IInv /\ [Next]_vars =>
        [\A a \in Auction :
           auctions[a].status \in {"FINISHED", "CANCELLED"} => auctions'[a] = auctions[a]]_vars
  BY ClosedIsLeftAlone
<1> QED BY <1>1, InvariantHolds, PTL DEF Spec, ResultIsFinal

=============================================================================
