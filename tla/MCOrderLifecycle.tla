-------------------------- MODULE MCOrderLifecycle --------------------------
(* Bounded instances of OrderLifecycle: an order for two shares at price 1, *)
(* which the platform may shrink to one and reprice, or, where liveness is  *)
(* checked, enlarge to three or reprice.                                    *)
EXTENDS OrderLifecycle

MCPrices == {1, 2}
ShrinkAndReprice == {[qty |-> 1, price |-> 2]}
EnlargeOrReprice == {[qty |-> 3, price |-> 0], [qty |-> 0, price |-> 2]}

(* No intent waits for ever, and every row catches up with a final book. *)
OrdersSettle == IntentsResolve /\ RowSettles
=============================================================================
