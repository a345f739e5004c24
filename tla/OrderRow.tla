------------------------------ MODULE OrderRow ------------------------------
(***************************************************************************)
(* One persisted order row under everything that may be done to it: the    *)
(* platform's own moves (oms/state.py) and ANY broker frame whatever,      *)
(* truthful or not, in any order and any number of times.                  *)
(*                                                                         *)
(* This is what the order state machine promises without any help from the *)
(* broker.  OrderLifecycle adds the broker, the wire and the calls in      *)
(* flight, and implements this specification.                              *)
(***************************************************************************)
EXTENDS OrderMachine

CONSTANTS
    BrokerIds,      \* broker order ids
    Amendments,     \* parameters an amend may carry, a subset of Fields
    Frames,         \* broker frames that may arrive
    Times,          \* seconds at which a change may be stamped
    InitialQty, InitialPrice

ASSUME RowAssumption ==
    /\ NoId \notin BrokerIds
    /\ Amendments \subseteq Fields
    /\ Frames \subseteq BrokerUpdate(BrokerIds)
    /\ Times \subseteq Nat /\ 0 \in Times
    /\ InitialQty \in Nat \ {0} /\ InitialPrice \in Nat \ {0}

VARIABLES
    order,      \* the orders row
    prior       \* prior_fields on the latest amend event of order_events

vars == <<order, prior>>

NewOrder ==
    [ state |-> "DRAFT", broker_order_id |-> NoId, qty |-> InitialQty,
      price |-> InitialPrice, filled_qty |-> 0, modifications |-> 0, updated_at |-> 0 ]

Init == order = NewOrder /\ prior = NoFields

(* A platform-issued edge that carries nothing but the state. *)
Move(to) ==
    /\ CanTransition(order, to)
    /\ \E at \in Times : order' = Transition(order, to, at)
    /\ UNCHANGED prior

Validate == Move("VALIDATED")
Submit == order.state = "VALIDATED" /\ Move("SUBMITTED")
PlaceRefused == order.state = "SUBMITTED" /\ Move("REJECTED")
IssueCancel == Move("CANCEL_PENDING")
Lapse == Move("LAPSED")

Correlated(bid) ==
    /\ CanCorrelate(order, bid)
    /\ order' = Correlate(order, bid)
    /\ UNCHANGED prior

IssueAmend(fields) ==
    /\ CanAmend(order, fields)
    /\ \E at \in Times : order' = Amend(order, fields, at)
    /\ prior' = PriorFields(order, fields)

CancelRefused ==
    /\ CanCancelRejected(order)
    /\ \E at \in Times : order' = CancelRejected(order, at)
    /\ UNCHANGED prior

ModifyRefused ==
    /\ CanModifyRejected(order)
    /\ \E at \in Times : order' = ModifyRejected(order, prior, at)
    /\ UNCHANGED prior

Postback(u) ==
    /\ Routable(order, u)
    /\ \E at \in Times : order' = ApplyUpdate(order, u, at)
    /\ UNCHANGED prior

Next ==
    \/ Validate
    \/ Submit
    \/ PlaceRefused
    \/ IssueCancel
    \/ Lapse
    \/ \E bid \in BrokerIds : Correlated(bid)
    \/ \E fields \in Amendments : IssueAmend(fields)
    \/ CancelRefused
    \/ ModifyRefused
    \/ \E u \in Frames : Postback(u)

Spec == Init /\ [][Next]_vars

-----------------------------------------------------------------------------
TypeOK ==
    /\ order \in PlatformOrder(BrokerIds)
    /\ prior \in Fields

(***************************************************************************)
(* apply_update never raises for a broker frame: whatever row and frame    *)
(* meet, a frame that is not absorbed as a no-op passes the quantity and   *)
(* cap checks of _apply_edge, whose errors nothing catches and which would *)
(* abort the postback loop.                                                *)
(***************************************************************************)
NeverRaises ==
    \A u \in Frames :
        (Routable(order, u) /\ ~IsNoop(order, u)) =>
            QuantityAccepted(order, UpdateTarget(order, u), UpdateFill(order, u), 0)

(***************************************************************************)
(* Applying the same frame twice is the same as applying it once, on every *)
(* row the machine reaches: the socket replays and reconciliation re-reads *)
(* the same order.                                                         *)
(***************************************************************************)
ReplayIsIdempotent ==
    \A u \in Frames : \A at \in Times :
        LET once == ApplyUpdate(order, u, at) IN
        Routable(order, u) => \A later \in Times : ApplyUpdate(once, u, later) = once

(***************************************************************************)
(* A fill that already happened always lands: a frame that reports more    *)
(* shares than the row of a live, submitted order is never absorbed, not   *)
(* by a cancel intent, a modify intent or a status word that says ACKED.   *)
(***************************************************************************)
Live(o) == o.state \notin TERMINAL_ORDER_STATES \cup {"DRAFT", "VALIDATED"}

FillAlwaysLands ==
    \A u \in Frames : \A at \in Times :
        (/\ Live(order)
         /\ Grew(order, u)
         /\ ParsedTarget(u) # NoTarget) =>
            ApplyUpdate(order, u, at).filled_qty = u.filled_qty

(***************************************************************************)
(* What one step may never do: take back a fill or a spent modification,   *)
(* write a terminal row, or re-point the row at another broker order.      *)
(***************************************************************************)
NeverRegresses ==
    [][ /\ order'.filled_qty >= order.filled_qty
        /\ order'.modifications >= order.modifications
        /\ order.broker_order_id # NoId => order'.broker_order_id = order.broker_order_id
        /\ order.state \in TERMINAL_ORDER_STATES => order' = order ]_vars

(***************************************************************************)
(* A cancel intent outlives every re-report: an order leaves               *)
(* CANCEL_PENDING only into a terminal state, by a fill that grew the row, *)
(* or through the explicit refusal door (which never moves the fills).     *)
(***************************************************************************)
CancelIntentHeld ==
    [][ (order.state = "CANCEL_PENDING" /\ order'.state # "CANCEL_PENDING") =>
            \/ order'.state \in TERMINAL_ORDER_STATES
            \/ order'.filled_qty > order.filled_qty
            \/ CancelRefused ]_vars

=============================================================================
