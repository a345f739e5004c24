----------------------------- MODULE BrokerBook -----------------------------
(***************************************************************************)
(* What the order management relies on a broker for: the life of ONE order *)
(* in the broker's book.  Kite is this in production, the paper broker in  *)
(* paper trading.                                                          *)
(***************************************************************************)
EXTENDS Integers

CONSTANTS Qtys, Prices      \* positive sizes and limit prices an order may have

VARIABLE book

Closed == {"complete", "cancelled", "rejected"}

NoBook == [status |-> "absent", qty |-> 0, price |-> 0, filled_qty |-> 0]

Init == book = NoBook

Accept ==
    /\ book.status = "absent"
    /\ \E q \in Qtys, p \in Prices :
          book' = [status |-> "open", qty |-> q, price |-> p, filled_qty |-> 0]

(* The broker takes the request, gives it an id, and rejects it. *)
Refuse ==
    /\ book.status = "absent"
    /\ \E q \in Qtys, p \in Prices :
          book' = [status |-> "rejected", qty |-> q, price |-> p, filled_qty |-> 0]

StatusAt(filled, qty) == IF filled = qty THEN "complete" ELSE "open"

Fill ==
    /\ book.status = "open"
    /\ \E n \in book.filled_qty + 1 .. book.qty :
          book' = [book EXCEPT !.filled_qty = n, !.status = StatusAt(n, book.qty)]

(* A modify never leaves an order smaller than what it has already filled. *)
Modify ==
    /\ book.status = "open"
    /\ \E q \in Qtys, p \in Prices :
          /\ q >= book.filled_qty
          /\ book' = [book EXCEPT !.qty = q, !.price = p,
                                  !.status = StatusAt(book.filled_qty, q)]

Close ==
    /\ book.status = "open"
    /\ book' = [book EXCEPT !.status = "cancelled"]

RejectInside ==
    /\ book.status = "open"
    /\ book' = [book EXCEPT !.status = "rejected"]

Next == Accept \/ Refuse \/ Fill \/ Modify \/ Close \/ RejectInside

Spec == Init /\ [][Next]_book
=============================================================================
