---------------------------- MODULE MCMarketplace ----------------------------
(* Marketplace on small instances. *)
EXTENDS Marketplace, TLC

\* The defaults of MarketplacePolicy.
DefaultPolicy ==
  [commission_percent |-> 10, state_plate_price |-> 1, auction_min_increment |-> 5,
   auction_sniping |-> 5, max_sale_price |-> 99999]

OnePolicy == {DefaultPolicy}

\* The administrator raises the price of a new plate, and the commission to its
\* largest value.
TwoPolicies ==
  {DefaultPolicy,
   [DefaultPolicy EXCEPT !.state_plate_price = 2, !.commission_percent = 100]}

MCPrice == {25}
MCTopUp == {3}

\* Users, numbers and ids are interchangeable in every safety property.
Interchangeable ==
  Permutations(User) \cup Permutations(Number) \cup Permutations(Intent)
    \cup Permutations(Sale) \cup Permutations(Charge)

=============================================================================
