------------------------- MODULE MCReservationSweep -------------------------
(* The deployed marketplace on small instances. *)
EXTENDS ReservationSweep, TLC

\* The defaults of MarketplacePolicy.
DefaultPolicy ==
  [commission_percent |-> 10, state_plate_price |-> 1, auction_min_increment |-> 5,
   auction_sniping |-> 5, max_sale_price |-> 99999]

OnePolicy == {DefaultPolicy}

=============================================================================
