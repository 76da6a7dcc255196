----------------------------- MODULE MCAuctions -----------------------------
(* Auctions on small instances. *)
EXTENDS Auctions, TLC

\* The defaults of MarketplacePolicy, with a window of one tick.
DefaultPolicy ==
  [commission_percent |-> 10, state_plate_price |-> 1, auction_min_increment |-> 5,
   auction_sniping |-> 1, max_sale_price |-> 99999]

\* A longer window and the highest commission.
LongWindow == [DefaultPolicy EXCEPT !.auction_sniping = 2, !.commission_percent = 100]

OnePolicy == {DefaultPolicy}
TwoWindows == {DefaultPolicy, LongWindow}

\* Users, numbers and ids are interchangeable in every safety property.
Interchangeable == Permutations(User) \cup Permutations(Number) \cup Permutations(Auction)

=============================================================================
