------------------------------ MODULE Database ------------------------------
(***************************************************************************)
(* The tables of the bot's PostgreSQL database that more than one service  *)
(* of app/application/services writes, as app/infrastructure/db/models.py  *)
(* declares them, and BalanceBook, the only writer of the wallets.         *)
(*                                                                         *)
(* Every service operation runs in one transaction (UnitOfWork) and locks  *)
(* the rows it changes with SELECT ... FOR UPDATE, so an operation is one  *)
(* action, except where the code uses a row that it read without a lock:   *)
(* those operations are split at the read (see Marketplace, Auctions).     *)
(*                                                                         *)
(* A plate row is identified by its number: numbers are unique, never      *)
(* change and plates are never deleted.  A row that does not exist yet is  *)
(* present here with the status "ABSENT".                                  *)
(***************************************************************************)
EXTENDS Integers, Sequences, FiniteSets

CONSTANTS
  User,     \* registered users
  Number,   \* plate numbers (country code and number)
  Intent,   \* ids of payment_intents
  Policies, \* the platform settings considered
  None      \* SQL NULL

ASSUME NoneIsNoRow == None \notin User \cup Number \cup Intent
ASSUME UsersAreFinite == IsFiniteSet(User)

VARIABLES
  plates,   \* plates, by number
  wallets,  \* users.balance_available and users.balance_frozen
  journal,  \* what the rows of transactions add up to, by user
  revenue,  \* what the rows of platform_ledger add up to
  history,  \* ownership_history, by number, in the order of insertion
  primary,  \* users.primary_plate_id
  blocked,  \* the users whose is_blocked is true
  outbox,   \* how many notifications of each type were queued for each user
  policy    \* platform_settings over the defaults of MarketplacePolicy

databaseVars ==
  <<plates, wallets, journal, revenue, history, primary, blocked, outbox, policy>>

-----------------------------------------------------------------------------
(* Rows *)

PlateStatus == {"ABSENT", "STATE_SALE", "OWNED", "FIXED_SALE", "AUCTION", "RESERVED"}

\* reserved_until is always a copy of the expires_at of the invoice that
\* reserved the plate: it is represented by that invoice.
Plate == [status : PlateStatus, owner : User \cup {None},
          reservedBy : User \cup {None}, reservedUntil : Intent \cup {None}]

Wallet == [available : Nat, frozen : Nat]

Totals == [available : Int, frozen : Int]

OwnershipOperation == {"STATE_EMISSION", "SALE", "AUCTION", "CONFISCATION", "ADMIN_TRANSFER"}

OwnershipHistory ==
  [old : User \cup {None}, new : User \cup {None}, operation : OwnershipOperation]

NotificationType ==
  {"AUCTION_BID_PLACED", "AUCTION_WON", "AUCTION_OUTBID", "AUCTION_FINISHED",
   "SALE_COMPLETED", "PLATE_PURCHASED", "BALANCE_TOPUP", "AUCTION_CANCELLED",
   "ACCOUNT_INACTIVE_WARNING"}

Policy == [commission_percent : 0..100, state_plate_price : Nat \ {0},
           auction_min_increment : Nat \ {0}, auction_sniping : Nat,
           max_sale_price : Nat \ {0}]

ASSUME PoliciesAreValid == Policies \subseteq Policy

DatabaseTypeOK ==
  /\ plates \in [Number -> Plate]
  /\ wallets \in [User -> Wallet]
  /\ journal \in [User -> Totals]
  /\ revenue \in Nat
  /\ history \in [Number -> Seq(OwnershipHistory)]
  /\ primary \in [User -> Number \cup {None}]
  /\ blocked \subseteq User
  /\ outbox \in [User -> [NotificationType -> Nat]]
  /\ policy \in Policies

-----------------------------------------------------------------------------
(* AdminService.set_setting stores any value within the bounds of Policy.  *)

SetSetting(p) ==
  /\ policy # p
  /\ policy' = p
  /\ UNCHANGED <<plates, wallets, journal, revenue, history, primary, blocked, outbox>>

-----------------------------------------------------------------------------
(* policies.py *)

ValidSalePrice(p, price) == price \in 1..p.max_sale_price

Commission(p, price) == (price * p.commission_percent) \div 100

-----------------------------------------------------------------------------
(* BalanceBook: the new value of a wallet, and the guard under which the   *)
(* operation does not raise.                                               *)

CanCredit(amount) == amount > 0

\* Mutant: the sign of a debit.
CreditedWrongly(wallet, amount) == [wallet EXCEPT !.available = @ - amount]

Credited(wallet, amount) == [wallet EXCEPT !.available = @ + amount]

\* Mutant: a debit may take more than there is.
CanOverdraw(wallet, amount) == amount > 0

CanDebit(wallet, amount) == amount > 0 /\ wallet.available >= amount

Debited(wallet, amount) == [wallet EXCEPT !.available = @ - amount]

CanFreeze(wallet, amount) == amount > 0 /\ wallet.available >= amount

Frozen(wallet, amount) ==
  [wallet EXCEPT !.available = @ - amount, !.frozen = @ + amount]

CanTakeFrozen(wallet, amount) == amount > 0 /\ wallet.frozen >= amount

Unfrozen(wallet, amount) ==
  [wallet EXCEPT !.available = @ + amount, !.frozen = @ - amount]

Settled(wallet, amount) == [wallet EXCEPT !.frozen = @ - amount]

\* The transactions row written with a change of a wallet from `before' to
\* `after' adds its two differences to the totals of the user's rows.
Recorded(totals, before, after) ==
  [available |-> totals.available + (after.available - before.available),
   frozen    |-> totals.frozen + (after.frozen - before.frozen)]

-----------------------------------------------------------------------------
(* Inserts into ownership_history and notifications *)

WithTransfer(rows, n, old, new, operation) ==
  [rows EXCEPT ![n] = Append(@, [old |-> old, new |-> new, operation |-> operation])]

\* The rows of a plate that now belongs to `owner': no transfer is missing
\* between two rows, none is recorded from a wrong owner, and only the first is
\* the emission.
IsChain(rows, owner) ==
  /\ rows # <<>>
  /\ rows[1].old = None /\ rows[1].operation = "STATE_EMISSION"
  /\ \A k \in 2..Len(rows) :
       rows[k].old = rows[k - 1].new /\ rows[k].operation # "STATE_EMISSION"
  /\ rows[Len(rows)].new = owner

Queued(box, u, type) == [box EXCEPT ![u][type] = @ + 1]

\* UserRepository.clear_primary_plate
WithoutPrimary(n) == [u \in User |-> IF primary[u] = n THEN None ELSE primary[u]]

=============================================================================
