---------------------------- MODULE DatabaseProofs ----------------------------
(***************************************************************************)
(* Facts about the operators of Database: BalanceBook, the commission, and *)
(* the inserts into ownership_history and notifications.                   *)
(***************************************************************************)
EXTENDS Database, TLAPS

-----------------------------------------------------------------------------
(* BalanceBook: under its guard an operation leaves a wallet without debt  *)

LEMMA CreditedType ==
  ASSUME NEW wallet \in Wallet, NEW amount \in Int, CanCredit(amount)
  PROVE  Credited(wallet, amount) \in Wallet
BY DEF Credited, CanCredit, Wallet

LEMMA DebitedType ==
  ASSUME NEW wallet \in Wallet, NEW amount \in Int, CanDebit(wallet, amount)
  PROVE  Debited(wallet, amount) \in Wallet
BY DEF Debited, CanDebit, Wallet

LEMMA FrozenType ==
  ASSUME NEW wallet \in Wallet, NEW amount \in Int, CanFreeze(wallet, amount)
  PROVE  Frozen(wallet, amount) \in Wallet
<1>1. wallet.available - amount \in Nat /\ wallet.frozen + amount \in Nat
  BY DEF CanFreeze, Wallet
<1> QED BY <1>1 DEF Frozen, Wallet

LEMMA UnfrozenType ==
  ASSUME NEW wallet \in Wallet, NEW amount \in Int, CanTakeFrozen(wallet, amount)
  PROVE  Unfrozen(wallet, amount) \in Wallet
<1>1. wallet.available + amount \in Nat /\ wallet.frozen - amount \in Nat
  BY DEF CanTakeFrozen, Wallet
<1> QED BY <1>1 DEF Unfrozen, Wallet

LEMMA SettledType ==
  ASSUME NEW wallet \in Wallet, NEW amount \in Int, CanTakeFrozen(wallet, amount)
  PROVE  Settled(wallet, amount) \in Wallet
BY DEF Settled, CanTakeFrozen, Wallet

LEMMA RecordedType ==
  ASSUME NEW totals \in Totals, NEW before \in Wallet, NEW after \in Wallet
  PROVE  Recorded(totals, before, after) \in Totals
BY DEF Recorded, Totals, Wallet

LEMMA QueuedType ==
  ASSUME NEW box \in [User -> [NotificationType -> Nat]], NEW u \in User,
         NEW type \in NotificationType
  PROVE  Queued(box, u, type) \in [User -> [NotificationType -> Nat]]
BY DEF Queued

LEMMA WithTransferType ==
  ASSUME NEW rows \in [Number -> Seq(OwnershipHistory)], NEW n \in Number,
         NEW old \in User \cup {None}, NEW new \in User \cup {None},
         NEW operation \in OwnershipOperation
  PROVE  WithTransfer(rows, n, old, new, operation) \in [Number -> Seq(OwnershipHistory)]
<1> DEFINE row == [old |-> old, new |-> new, operation |-> operation]
<1>1. row \in OwnershipHistory
  BY DEF OwnershipHistory
<1>2. Append(rows[n], row) \in Seq(OwnershipHistory)
  BY <1>1
<1> QED BY <1>2 DEF WithTransfer

\* A transfer from the owner prolongs the chain; the emission begins it.
LEMMA ChainGrows ==
  ASSUME NEW rows \in Seq(OwnershipHistory), NEW old \in User \cup {None},
         NEW new \in User \cup {None}, NEW operation \in OwnershipOperation,
         \/ rows = <<>> /\ old = None /\ operation = "STATE_EMISSION"
         \/ IsChain(rows, old) /\ operation # "STATE_EMISSION"
  PROVE  IsChain(Append(rows, [old |-> old, new |-> new, operation |-> operation]), new)
<1> DEFINE row == [old |-> old, new |-> new, operation |-> operation]
           longer == Append(rows, row)
<1>1. /\ Len(rows) \in Nat /\ Len(longer) = Len(rows) + 1
      /\ longer[Len(rows) + 1] = row
      /\ \A k \in 1..Len(rows) : longer[k] = rows[k]
      /\ row \in OwnershipHistory
  BY DEF OwnershipHistory
<1>2. longer # <<>>
  BY <1>1
<1>3. row.old = old /\ row.new = new /\ row.operation = operation
  OBVIOUS
<1> HIDE DEF longer, row
<1>4. CASE rows = <<>> /\ old = None /\ operation = "STATE_EMISSION"
  <2>1. Len(longer) = 1 /\ longer[1] = row
    BY <1>1, <1>4
  <2> QED
    BY <1>2, <1>3, <1>4, <2>1 DEF IsChain, longer, row
<1>5. CASE IsChain(rows, old) /\ operation # "STATE_EMISSION"
  <2>1. Len(rows) >= 1
    BY <1>5 DEF IsChain
  <2>2. longer[1].old = None /\ longer[1].operation = "STATE_EMISSION"
    BY <1>1, <1>5, <2>1 DEF IsChain
  <2>3. ASSUME NEW k \in 2..Len(longer)
        PROVE  longer[k].old = longer[k - 1].new /\ longer[k].operation # "STATE_EMISSION"
    <3>1. CASE k = Len(rows) + 1
      BY <1>1, <1>3, <1>5, <2>1, <3>1 DEF IsChain
    <3>2. CASE k # Len(rows) + 1
      <4>1. k \in 2..Len(rows) /\ k - 1 \in 1..Len(rows)
        BY <1>1, <2>3, <3>2
      <4> QED
        BY <1>1, <1>5, <4>1 DEF IsChain
    <3> QED
      BY <3>1, <3>2
  <2>4. longer[Len(longer)].new = new
    BY <1>1, <1>3
  <2> QED
    BY <1>2, <2>2, <2>3, <2>4 DEF IsChain, longer, row
<1> QED
  BY <1>4, <1>5

LEMMA WithoutPrimaryType ==
  ASSUME primary \in [User -> Number \cup {None}], NEW n \in Number
  PROVE  WithoutPrimary(n) \in [User -> Number \cup {None}]
BY DEF WithoutPrimary

\* The rounded-down commission is a whole number.
LEMMA CommissionType ==
  ASSUME NEW p \in Policy, NEW price \in Nat
  PROVE  Commission(p, price) \in Nat
<1> DEFINE product == price * p.commission_percent
<1>1. p.commission_percent \in Nat
  BY DEF Policy
<1>2. product \in Nat
  BY <1>1
<1> HIDE DEF product
<1>3. product \div 100 \in Nat
  BY <1>2
<1> QED BY <1>3 DEF Commission, product

\* The commission is the whole price with 100 percent, and less otherwise.
LEMMA CommissionBound ==
  ASSUME NEW p \in Policy, NEW price \in Nat
  PROVE  /\ Commission(p, price) <= price
         /\ price > 0 => (Commission(p, price) < price <=> p.commission_percent < 100)
<1> DEFINE percent == p.commission_percent
           product == price * percent
<1>1. percent \in 0..100
  BY DEF Policy
<1> HIDE DEF percent
<1>2. product \in Nat /\ product <= price * 100
  BY <1>1
<1>3. percent < 100 => product <= price * 99
  BY <1>1
<1>4. ~ percent < 100 => product = price * 100
  BY <1>1
<1> HIDE DEF product
<1>5. product \div 100 <= price
  BY <1>2
<1>6. price > 0 => (product \div 100 < price <=> percent < 100)
  BY <1>1, <1>2, <1>3, <1>4
<1> QED
  BY <1>5, <1>6 DEF Commission, product, percent

=============================================================================
