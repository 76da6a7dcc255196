--------------------------- MODULE RowLocksProofs ---------------------------
(***************************************************************************)
(* Of any number of transactions, users, plates and invoices: transactions *)
(* wait for each other in a circle only over users, or when one of them    *)
(* clears a listing.                                                       *)
(*                                                                         *)
(* The tables other than users have an order in which every ordinary       *)
(* operation locks them.  In a circle, who asks for a row of one table     *)
(* waits for somebody who asks for a row of a later one, and there are     *)
(* only five.                                                              *)
(***************************************************************************)
EXTENDS RowLocks, TLAPS

Rank(table) ==
  CASE table = "payment_intents"          -> 0
    [] table = "state_plate_reservations" -> 1
    [] table = "auctions"                 -> 2
    [] table = "plates"                   -> 3
    [] OTHER                              -> 4

\* Of rows other than users', l is locked before m.
Before(l, m) ==
  l.row[1] # "users" /\ m.row[1] # "users" => Rank(l.row[1]) < Rank(m.row[1])

Ordered(locks) == \A j \in 1..Len(locks) : \A i \in 1..(j - 1) : Before(locks[i], locks[j])

\* The invariant: operations are those of Operations, and a transaction has got
\* some of its locks.
RunsOperations ==
  /\ op \in [Txn -> Operations \cup {Idle}]
  /\ at \in [Txn -> Nat \ {0}]

-----------------------------------------------------------------------------
(* The order of the ordinary operations                                    *)

LEMMA OrderedTwo ==
  ASSUME NEW a, NEW b, Before(a, b)
  PROVE  Ordered(<<a, b>>)
BY DEF Ordered

LEMMA OrderedThree ==
  ASSUME NEW a, NEW b, NEW c, Before(a, b), Before(a, c), Before(b, c)
  PROVE  Ordered(<<a, b, c>>)
BY DEF Ordered

LEMMA OrderedFour ==
  ASSUME NEW a, NEW b, NEW c, NEW d,
         Before(a, b), Before(a, c), Before(b, c), Before(a, d), Before(b, d), Before(c, d)
  PROVE  Ordered(<<a, b, c, d>>)
<1> DEFINE locks == <<a, b, c, d>>
<1>1. \A j \in 1..4 : j = 1 \/ j = 2 \/ j = 3 \/ j = 4
  OBVIOUS
<1>2. Len(locks) = 4 /\ locks[1] = a /\ locks[2] = b /\ locks[3] = c /\ locks[4] = d
  OBVIOUS
<1> HIDE DEF locks
<1>3. Ordered(locks)
  BY <1>1, <1>2 DEF Ordered
<1> QED
  BY <1>3 DEF locks

LEMMA OrderedFive ==
  ASSUME NEW a, NEW b, NEW c, NEW d, NEW e,
         Before(a, b), Before(a, c), Before(b, c), Before(a, d), Before(b, d), Before(c, d),
         Before(a, e), Before(b, e), Before(c, e), Before(d, e)
  PROVE  Ordered(<<a, b, c, d, e>>)
<1> DEFINE locks == <<a, b, c, d, e>>
<1>1. \A j \in 1..5 : j = 1 \/ j = 2 \/ j = 3 \/ j = 4 \/ j = 5
  OBVIOUS
<1>2. Len(locks) = 5 /\ locks[1] = a /\ locks[2] = b /\ locks[3] = c /\ locks[4] = d /\ locks[5] = e
  OBVIOUS
<1> HIDE DEF locks
<1>3. Ordered(locks)
  BY <1>1, <1>2 DEF Ordered
<1> QED
  BY <1>3 DEF locks

\* Users may be locked anywhere.
LEMMA UsersAnywhere ==
  ASSUME NEW u, NEW l
  PROVE  /\ Before(UserRow(u), l) /\ Before(l, UserRow(u))
         /\ Before(Reference(u), l) /\ Before(l, Reference(u))
BY DEF Before, UserRow, Reference, Lock

LEMMA TablesInOrder ==
  ASSUME NEW i, NEW p
  PROVE  /\ Before(IntentRow(i), NumberRow(p)) /\ Before(IntentRow(i), PlateRow(p))
         /\ Before(IntentRow(i), SaleRow(p)) /\ Before(NumberRow(p), PlateRow(p))
         /\ Before(AuctionRow(p), PlateRow(p)) /\ Before(PlateRow(p), SaleRow(p))
BY DEF Before, Rank, IntentRow, NumberRow, PlateRow, SaleRow, AuctionRow, Lock

\* Every operation that clears no listing locks in the order of Rank.
LEMMA OrdinaryOrdered == \A o \in Ordinary : Ordered(o)
<1>1. \A o \in Listings \cup Emissions \cup Managements : Ordered(o)
  <2>1. ASSUME NEW u, NEW p
       PROVE  Ordered(<<UserRow(u), PlateRow(p), SaleRow(p)>>)
    BY UsersAnywhere, TablesInOrder, OrderedThree
  <2>2. ASSUME NEW u, NEW p
       PROVE  Ordered(<<UserRow(u), NumberRow(p)>>)
    BY UsersAnywhere, TablesInOrder, OrderedTwo
  <2>3. ASSUME NEW u, NEW v
       PROVE  Ordered(<<UserRow(u), UserRow(v)>>)
    BY UsersAnywhere, TablesInOrder, OrderedTwo
  <2> QED
    BY <2>1, <2>2, <2>3 DEF Listings, Emissions, Managements
<1>2. \A o \in Completions : Ordered(o)
  <2>1. ASSUME NEW i, NEW u, NEW p
       PROVE  Ordered(<<IntentRow(i), UserRow(u), NumberRow(p), PlateRow(p)>>)
    BY UsersAnywhere, TablesInOrder, OrderedFour
  <2>2. ASSUME NEW i, NEW u, NEW v, NEW p
       PROVE  Ordered(<<IntentRow(i), UserRow(u), PlateRow(p), SaleRow(p), UserRow(v)>>)
    BY UsersAnywhere, TablesInOrder, OrderedFive
  <2> QED
    BY <2>1, <2>2 DEF Completions
<1>3. \A o \in Expiries : Ordered(o)
  <2>1. ASSUME NEW i, NEW p
       PROVE  Ordered(<<IntentRow(i), NumberRow(p)>>)
    BY UsersAnywhere, TablesInOrder, OrderedTwo
  <2>2. ASSUME NEW i, NEW p
       PROVE  Ordered(<<IntentRow(i), PlateRow(p), SaleRow(p)>>)
    BY UsersAnywhere, TablesInOrder, OrderedThree
  <2> QED
    BY <2>1, <2>2 DEF Expiries
<1>4. \A o \in Bids \cup Finishes \cup Cancellations : Ordered(o)
  <2>1. ASSUME NEW p, NEW u, NEW v, NEW s
       PROVE  Ordered(<<AuctionRow(p), UserRow(u), UserRow(v), Reference(s)>>)
    BY UsersAnywhere, TablesInOrder, OrderedFour
  <2>2. ASSUME NEW p, NEW u, NEW v
       PROVE  Ordered(<<AuctionRow(p), PlateRow(p), UserRow(u), UserRow(v)>>)
    BY UsersAnywhere, TablesInOrder, OrderedFour
  <2>3. ASSUME NEW u, NEW p
       PROVE  Ordered(<<UserRow(u), AuctionRow(p), PlateRow(p)>>)
    BY UsersAnywhere, TablesInOrder, OrderedThree
  <2> QED
    BY <2>1, <2>2, <2>3 DEF Bids, Finishes, Cancellations
<1> QED
  BY <1>1, <1>2, <1>3, <1>4 DEF Ordinary

-----------------------------------------------------------------------------
(* The invariant                                                           *)

LEMMA InvariantHoldsFirst == Init => RunsOperations
BY DEF Init, RunsOperations

LEMMA InvariantIsKept == RunsOperations /\ [Next]_vars => RunsOperations'
<1> SUFFICES ASSUME RunsOperations, [Next]_vars
             PROVE  RunsOperations'
  OBVIOUS
<1>1. ASSUME NEW t \in Txn, Begin(t)
      PROVE  RunsOperations'
  BY <1>1 DEF Begin, RunsOperations
<1>2. ASSUME NEW t \in Txn, Acquire(t)
      PROVE  RunsOperations'
  BY <1>2 DEF Acquire, RunsOperations
<1>3. ASSUME NEW t \in Txn, Released(t)
      PROVE  RunsOperations'
  BY <1>3 DEF Released, RunsOperations
<1>4. CASE UNCHANGED vars
  BY <1>4 DEF vars, RunsOperations
<1> QED
  BY <1>1, <1>2, <1>3, <1>4 DEF Next, Commit, EndsEarly, IsVictim

-----------------------------------------------------------------------------
(* Circles                                                                 *)

\* A transaction that clears no listing locks in the order of Rank.
LEMMA LocksInOrder ==
  ASSUME RunsOperations, NEW t \in Txn, ~op[t].clears
  PROVE  Ordered(op[t].locks)
<1>1. CASE op[t] = Idle
  BY <1>1 DEF Idle, Ordered
<1>2. CASE op[t] # Idle
  BY <1>2, OrdinaryOrdered DEF RunsOperations, Operations
<1> QED
  BY <1>1, <1>2

\* Who is waited for asks for a row of a later table.
LEMMA WaitsForLater ==
  ASSUME RunsOperations, NEW t \in Txn, NEW o \in Txn, Waits(t, o), Asks(o),
         ~op[o].clears, Asked(t).row[1] # "users", Asked(o).row[1] # "users"
  PROVE  Rank(Asked(t).row[1]) < Rank(Asked(o).row[1])
<1>1. PICK k \in 1..(at[o] - 1) : op[o].locks[k].row = Asked(t).row
  BY DEF Waits, Conflict
<1>2. Ordered(op[o].locks)
  BY LocksInOrder
<1>3. at[o] \in Nat \ {0}
  BY DEF RunsOperations
<1>4. Before(op[o].locks[k], op[o].locks[at[o]])
  <2>1. Len(op[o].locks) \in Nat
    BY DEF RunsOperations, Asks
  <2>2. at[o] \in 1..Len(op[o].locks)
    BY <1>3, <2>1 DEF Asks
  <2> QED
    BY <1>2, <2>2 DEF Ordered
<1> QED
  BY <1>1, <1>4 DEF Before, Asked

\* In every circle of transactions that clear no listing, somebody waits for a
\* row of users.
LEMMA CircleMeetsUsers ==
  ASSUME RunsOperations
  PROVE  CirclesMeetUsers
<1> SUFFICES ASSUME NEW S \in SUBSET Txn, Circle(S),
                    \A t \in S : ~op[t].clears /\ Asked(t).row[1] # "users"
             PROVE  FALSE
  BY DEF CirclesMeetUsers
<1> DEFINE rank(t) == Rank(Asked(t).row[1])
           Somebody(n) == \E t \in S : rank(t) >= n
<1>1. \A t \in S : rank(t) \in 0..4
  BY DEF Rank
<1>2. \A t \in S : \E o \in S : rank(t) < rank(o)
  <2> TAKE t \in S
  <2>1. PICK o \in S : Waits(t, o)
    BY DEF Circle, Stuck
  <2>2. Asks(o)
    BY DEF Circle, Stuck, Waits
  <2> QED
    BY <2>1, <2>2, WaitsForLater
<1>3. Somebody(0)
  BY <1>1 DEF Circle
<1>4. ASSUME NEW n \in 0..4, Somebody(n)
      PROVE  Somebody(n + 1)
  <2>1. PICK t \in S : rank(t) >= n
    BY <1>4
  <2>2. PICK o \in S : rank(t) < rank(o)
    BY <1>2
  <2> HIDE DEF rank
  <2> QED
    BY <1>1, <2>1, <2>2
<1> HIDE DEF Somebody
<1>5. Somebody(1) /\ Somebody(2) /\ Somebody(3) /\ Somebody(4) /\ Somebody(5)
  BY <1>3, <1>4
<1> HIDE DEF rank
<1> QED
  BY <1>1, <1>5 DEF Somebody

\* No circle of waiting transactions without a row of users or a cleared listing,
\* whatever the number of transactions, users, plates and invoices.
THEOREM WaitingIsOrdered == Spec => []CirclesMeetUsers
<1>1. RunsOperations => CirclesMeetUsers
  BY CircleMeetsUsers
<1> QED
  BY InvariantHoldsFirst, InvariantIsKept, <1>1, PTL DEF Spec

=============================================================================
