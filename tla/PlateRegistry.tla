---------------------------- MODULE PlateRegistry ----------------------------
(***************************************************************************)
(* What the marketplace promises of plates and payments, without sales,    *)
(* reservations, deadlines or Telegram: a number is issued once and for    *)
(* good; its owner changes only when an invoice is settled; the new owner  *)
(* is the user the invoice was made out to; and an invoice is settled once *)
(* and moves at most one plate.                                            *)
(***************************************************************************)
CONSTANTS User, Number, Intent, None

VARIABLES
  owner,    \* the owner of each number, or None
  issued,   \* the numbers that exist
  payer,    \* whom each invoice was made out to, or None
  settled   \* the invoices paid and fulfilled

registryVars == <<owner, issued, payer, settled>>

Init ==
  /\ owner = [n \in Number |-> None]
  /\ issued \in SUBSET Number
  /\ payer = [i \in Intent |-> None]
  /\ settled = {}

Invoice(i, u) ==
  /\ payer[i] = None
  /\ payer' = [payer EXCEPT ![i] = u]
  /\ UNCHANGED <<owner, issued, settled>>

Settle(i) ==
  /\ payer[i] # None
  /\ i \notin settled
  /\ settled' = settled \cup {i}
  /\ UNCHANGED payer

Deposit(i) == Settle(i) /\ UNCHANGED <<owner, issued>>

Issue(i, n) ==
  /\ Settle(i)
  /\ n \notin issued
  /\ issued' = issued \cup {n}
  /\ owner' = [owner EXCEPT ![n] = payer[i]]

Sell(i, n) ==
  /\ Settle(i)
  /\ n \in issued
  /\ owner[n] # payer[i]
  /\ owner' = [owner EXCEPT ![n] = payer[i]]
  /\ UNCHANGED issued

Next ==
  \E i \in Intent :
    \/ \E u \in User : Invoice(i, u)
    \/ Deposit(i)
    \/ \E n \in Number : Issue(i, n) \/ Sell(i, n)

Spec == Init /\ [][Next]_registryVars

=============================================================================
