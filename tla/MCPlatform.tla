----------------------------- MODULE MCPlatform -----------------------------
(* Platform on small instances. *)
EXTENDS Platform, TLC

\* The defaults of MarketplacePolicy, with a window of one tick.
DefaultPolicy ==
  [commission_percent |-> 10, state_plate_price |-> 1, auction_min_increment |-> 5,
   auction_sniping |-> 1, max_sale_price |-> 99999]

OnePolicy == {DefaultPolicy}

\* The administrator changes the least step of a bid.
TwoPolicies == {DefaultPolicy, [DefaultPolicy EXCEPT !.auction_min_increment = 10]}

\* One adjustment down to nothing, one that can be taken back by it.
UpAndDown == {-20, 20}

\* Users, numbers and ids are interchangeable in every safety property.
Interchangeable ==
  Permutations(User) \cup Permutations(Number) \cup Permutations(Intent)
    \cup Permutations(Sale) \cup Permutations(Charge) \cup Permutations(Auction)

=============================================================================
