------------------------------ MODULE RowLocks ------------------------------
(***************************************************************************)
(* The order in which the transactions of the services lock rows           *)
(* (SELECT ... FOR UPDATE, repositories/marketplace.py), and what          *)
(* PostgreSQL makes of it: a transaction keeps its locks to its end, one   *)
(* that asks for a row another has locked waits, and of those that wait    *)
(* for each other in a circle one is rolled back.                          *)
(*                                                                         *)
(* An operation is the list of its locks.  It may end before it has them   *)
(* all: it returns or raises early, or its connection is lost; so the list *)
(* of an operation stands for those whose locks begin that list.  Which    *)
(* users, plates and invoices it meets is open, as other transactions may  *)
(* have changed that.  A plate has one open sale, one open auction and one *)
(* reservation of its number at a time; they go by its id.                 *)
(***************************************************************************)
EXTENDS Naturals, Sequences

CONSTANTS
  User, Plate, Intent,  \* the rows of users, plates and payment_intents
  Txn                   \* transactions that may be open at once

VARIABLES
  op,  \* the operation of a transaction
  at   \* which of its locks it asks for

vars == <<op, at>>

Lock(table, id) == [row |-> <<table, id>>, shared |-> FALSE]

UserRow(u) == Lock("users", u)
PlateRow(p) == Lock("plates", p)
SaleRow(p) == Lock("sales", p)
AuctionRow(p) == Lock("auctions", p)
NumberRow(p) == Lock("state_plate_reservations", p)
IntentRow(i) == Lock("payment_intents", i)

\* The insertion of a row that refers to u (FOR KEY SHARE).
Reference(u) == [UserRow(u) EXCEPT !.shared = TRUE]

Conflict(l, m) == l.row = m.row /\ ~(l.shared /\ m.shared)

-----------------------------------------------------------------------------
(* MarketplaceService                                                      *)

\* What a user does with a plate: the sales and reservations, set_primary_plate,
\* create of an auction, and an administrator's remove_sale.
Listings == {<<UserRow(u), PlateRow(p), SaleRow(p)>> : u \in User, p \in Plate}

Emissions == {<<UserRow(u), NumberRow(p)>> : u \in User, p \in Plate}

\* complete_telegram_payment of a number, of a plate of the State, of a sale.
Completions ==
  {<<IntentRow(i), UserRow(u), NumberRow(p), PlateRow(p)>> :
     i \in Intent, u \in User, p \in Plate}
  \cup {<<IntentRow(i), UserRow(buyer), PlateRow(p), SaleRow(p), UserRow(seller)>> :
          i \in Intent, buyer \in User, seller \in User, p \in Plate}

Expiries ==
  {<<IntentRow(i), NumberRow(p)>> : i \in Intent, p \in Plate}
  \cup {<<IntentRow(i), PlateRow(p), SaleRow(p)>> : i \in Intent, p \in Plate}

(* AuctionService                                                          *)

\* lock_many has no ORDER BY: the two users are locked in either order.  The
\* seller is told of a bid by a row of notifications.
Bids ==
  {<<AuctionRow(p), UserRow(u), UserRow(v), Reference(seller)>> :
     p \in Plate, u \in User, v \in User, seller \in User}

Cancellations == {<<UserRow(u), AuctionRow(p), PlateRow(p)>> : u \in User, p \in Plate}

\* Mutant: the plate first.
PlateFirst ==
  {<<PlateRow(p), AuctionRow(p), UserRow(u), UserRow(v)>> : p \in Plate, u \in User, v \in User}

Finishes ==
  {<<AuctionRow(p), PlateRow(p), UserRow(u), UserRow(v)>> : p \in Plate, u \in User, v \in User}

(* AdminService                                                            *)

Managements == {<<UserRow(admin), UserRow(u)>> : admin \in User, u \in User}

Ordinary ==
  Listings \cup Emissions \cup Completions \cup Expiries \cup Bids \cup Cancellations
  \cup Finishes \cup Managements

\* _clear_listing, and the primary plate of the owner.
Clearing(p, bidder, owner) ==
  <<SaleRow(p), AuctionRow(p), UserRow(bidder), UserRow(owner)>>

\* force_cancel_auction, force_return_to_state, force_transfer.
Corrections ==
  UNION {{<<UserRow(admin), AuctionRow(p), PlateRow(p)>> \o Clearing(p, bidder, owner),
          <<UserRow(admin), PlateRow(p)>> \o Clearing(p, bidder, owner),
          <<UserRow(admin), PlateRow(p), UserRow(target)>> \o Clearing(p, bidder, owner)} :
           admin \in User, target \in User, bidder \in User, owner \in User, p \in Plate}

\* confiscate_inactive, of a user with one plate or two.
Confiscations ==
  {<<UserRow(u), PlateRow(p), PlateRow(q)>> \o Clearing(p, bidder, u) \o Clearing(q, leader, u) :
     u \in User, bidder \in User, leader \in User, p \in Plate, q \in Plate}

Operations ==
  {[locks |-> o, clears |-> FALSE] : o \in Ordinary}
  \cup {[locks |-> o, clears |-> TRUE] : o \in Corrections \cup Confiscations}
-----------------------------------------------------------------------------
(* Transactions                                                            *)

Idle == [locks |-> <<>>, clears |-> FALSE]

Init == op = [t \in Txn |-> Idle] /\ at = [t \in Txn |-> 1]

Asks(t) == at[t] <= Len(op[t].locks)

Asked(t) == op[t].locks[at[t]]

\* t waits for o.
Waits(t, o) ==
  /\ t # o
  /\ Asks(t)
  /\ \E k \in 1..(at[o] - 1) : Conflict(op[o].locks[k], Asked(t))

Begin(t) ==
  /\ op[t] = Idle
  /\ \E o \in Operations : op' = [op EXCEPT ![t] = o]
  /\ UNCHANGED at

Acquire(t) ==
  /\ Asks(t)
  /\ \A o \in Txn : ~Waits(t, o)
  /\ at' = [at EXCEPT ![t] = @ + 1]
  /\ UNCHANGED op

\* Mutant: an operation that raises leaves its transaction open.
Kept(t) == op' = [op EXCEPT ![t].locks = SubSeq(@, 1, at[t] - 1)] /\ UNCHANGED at

\* The locks go with the transaction.
Released(t) == op' = [op EXCEPT ![t] = Idle] /\ at' = [at EXCEPT ![t] = 1]

\* commit
Commit(t) == op[t] # Idle /\ ~Asks(t) /\ Released(t)

\* An early return, or an exception that rolls back.
EndsEarly(t) ==
  /\ op[t] # Idle
  /\ \A o \in Txn : ~Waits(t, o)
  /\ Released(t)

\* Each waits for another, and none of them could be left out.
Stuck(S) == \A t \in S : \E o \in S : Waits(t, o)

Circle(S) == S # {} /\ Stuck(S) /\ \A R \in SUBSET S : Stuck(R) => R \in {{}, S}

\* The deadlock detector of PostgreSQL.
IsVictim(t) == (\E S \in SUBSET Txn : t \in S /\ Circle(S)) /\ Released(t)

Next == \E t \in Txn : Begin(t) \/ Acquire(t) \/ Commit(t) \/ EndsEarly(t) \/ IsVictim(t)

\* Locks are queued for: who could go on again and again does.  The detector
\* looks at every transaction that has waited for a second.
Fairness == \A t \in Txn : SF_vars(Acquire(t)) /\ WF_vars(Commit(t)) /\ WF_vars(IsVictim(t))

Spec == Init /\ [][Next]_vars /\ Fairness

-----------------------------------------------------------------------------
(* Properties *)

\* Transactions wait for each other in a circle only over rows of users, or when
\* one of them takes a plate off sale and off auction, which locks the auction
\* after the plate; every other lock is taken in one order.
CirclesMeetUsers ==
  \A S \in SUBSET Txn :
    Circle(S) =>
      \E t \in S : op[t].clears \/ Asked(t).row[1] = "users"

\* Every transaction ends.
EveryTransactionEnds == \A t \in Txn : op[t] # Idle ~> op[t] = Idle

=============================================================================
