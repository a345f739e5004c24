----------------------------- MODULE MCOrderRow -----------------------------
(* Bounded instance of OrderRow: every frame with up to two shares, sizes    *)
(* and prices one or two (or missing) and seconds one or two (or missing).   *)
EXTENDS OrderRow

CONSTANTS b1, b2

MCBrokerIds == {b1, b2}
MCAmendments == [qty : {0, 1, 2}, price : {0, 2}]
MCTimes == 0 .. 2

FramesOf(bid, fills) ==
    [ broker_order_id : {bid},
      status : {"OPEN", "TRIGGER PENDING", "COMPLETE", "CANCELLED", "REJECTED",
                "MODIFY PENDING"},
      filled_qty : fills, qty : 0 .. 2, price : {0, 1, 2}, broker_ts : 0 .. 2 ]

(* Every frame for one id; the other id only shows that ids do not mix. *)
MCFrames == FramesOf(b1, 0 .. 2) \cup {f \in FramesOf(b2, {1}) : f.qty = 2 /\ f.price = 1}
=============================================================================
