------------------------------- MODULE Trade -------------------------------
(***************************************************************************)
(* What the recommendation book promises about one entry recommendation:   *)
(* the owner declines it, lets it lapse, or executes it (even after it     *)
(* lapsed), and an executed one is settled exactly once, at a profit or at *)
(* a loss that nothing rewrites afterwards.                                *)
(***************************************************************************)
CONSTANT Entries
VARIABLE trade

Init == trade = [e \in Entries |-> "absent"]

Moves(e, from, to) == trade[e] \in from /\ trade' = [trade EXCEPT ![e] = to]

Offer(e) == Moves(e, {"absent"}, "offered")
Decline(e) == Moves(e, {"offered"}, "declined")
Execute(e) == Moves(e, {"offered", "lapsed"}, "open")
Settle(e) == Moves(e, {"open"}, "won") \/ Moves(e, {"open"}, "lost")

(* The sweep: any number of offers at once. *)
Lapse ==
    \E stale \in SUBSET {e \in Entries : trade[e] = "offered"} :
        trade' = [e \in Entries |-> IF e \in stale THEN "lapsed" ELSE trade[e]]

Next ==
    \/ Lapse
    \/ \E e \in Entries : Offer(e) \/ Decline(e) \/ Execute(e) \/ Settle(e)

Spec == Init /\ [][Next]_trade
=============================================================================
