---------------------------- MODULE OrderMachine ----------------------------
(***************************************************************************)
(* The platform order state machine: the transition tables and the pure    *)
(* functions of oms/state.py, and the one broker-postback parser and       *)
(* reducer of oms/updates.py, as operators on order records and frames.    *)
(*                                                                         *)
(* Abstractions.                                                           *)
(*  - One field "price" stands for price and trigger_price, which the code *)
(*    handles alike; provenance columns and raw payloads are left out.     *)
(*  - 0 stands for "not carried" in a fields record, and, in a frame, for  *)
(*    a quantity or price that is missing, garbled or not positive: the    *)
(*    code ignores all of these for the same purposes.                     *)
(*  - Times are whole seconds: updated_at is only ever compared after      *)
(*    truncation to the second.  0 in a frame is "no usable timestamp".    *)
(***************************************************************************)
EXTENDS Integers, FiniteSets

CONSTANTS
    MODIFICATION_CAP,   \* the A2 self-cap on platform modify calls (20)
    NoId                \* broker_order_id is None

ASSUME CapAssumption == MODIFICATION_CAP \in Nat

OrderState ==
    { "DRAFT", "VALIDATED", "SUBMITTED", "ACKED", "PARTIALLY_FILLED", "FILLED",
      "CANCEL_PENDING", "CANCELLED", "MODIFY_PENDING", "LAPSED", "REJECTED" }

TERMINAL_ORDER_STATES == {"FILLED", "CANCELLED", "REJECTED", "LAPSED"}

(***************************************************************************)
(* The tables, each as a set of edges.                                     *)
(***************************************************************************)
DIAGRAM_TRANSITIONS ==
    { <<"DRAFT", "VALIDATED">>, <<"VALIDATED", "SUBMITTED">> }
      \cup ({"SUBMITTED"} \X {"ACKED", "CANCEL_PENDING", "REJECTED"})
      \cup ({"ACKED"} \X
              {"PARTIALLY_FILLED", "CANCEL_PENDING", "MODIFY_PENDING", "LAPSED"})
      \cup ({"PARTIALLY_FILLED"} \X
              {"FILLED", "CANCEL_PENDING", "MODIFY_PENDING", "LAPSED"})
      \cup {<<"CANCEL_PENDING", "CANCELLED">>}
      \cup ({"MODIFY_PENDING"} \X {"ACKED", "PARTIALLY_FILLED"})

(* Mutant of the next table: a fill cannot beat a pending cancel. *)
RealityWithoutFillDuringCancel ==
    ({"SUBMITTED"} \X {"PARTIALLY_FILLED", "FILLED", "CANCELLED"})
      \cup ({"ACKED"} \X {"FILLED", "CANCELLED", "REJECTED"})
      \cup ({"PARTIALLY_FILLED"} \X {"PARTIALLY_FILLED", "CANCELLED", "REJECTED"})
      \cup ({"CANCEL_PENDING"} \X {"REJECTED"})
      \cup ({"MODIFY_PENDING"} \X {"FILLED", "CANCELLED", "REJECTED"})

BROKER_REALITY_TRANSITIONS ==
    ({"SUBMITTED"} \X {"PARTIALLY_FILLED", "FILLED", "CANCELLED"})
      \cup ({"ACKED"} \X {"FILLED", "CANCELLED", "REJECTED"})
      \cup ({"PARTIALLY_FILLED"} \X {"PARTIALLY_FILLED", "CANCELLED", "REJECTED"})
      \cup ({"CANCEL_PENDING"} \X {"PARTIALLY_FILLED", "FILLED", "REJECTED"})
      \cup ({"MODIFY_PENDING"} \X {"FILLED", "CANCELLED", "REJECTED"})

ALLOWED_TRANSITIONS == DIAGRAM_TRANSITIONS \cup BROKER_REALITY_TRANSITIONS

CANCEL_REJECTED_TRANSITIONS == {"CANCEL_PENDING"} \X {"ACKED", "PARTIALLY_FILLED"}

(***************************************************************************)
(* Orders and the parameters an amend or a postback may carry.             *)
(***************************************************************************)
Fields == [qty : Nat, price : Nat]
NoFields == [qty |-> 0, price |-> 0]

PlatformOrder(Ids) ==
    [ state : OrderState, broker_order_id : Ids \cup {NoId},
      qty : Nat \ {0}, price : Nat \ {0}, filled_qty : Nat,
      modifications : 0 .. MODIFICATION_CAP, updated_at : Nat ]

(***************************************************************************)
(* _apply_edge: what it refuses, and what it writes.                       *)
(***************************************************************************)
EdgeExists(o, to, table) ==
    o.state \notin TERMINAL_ORDER_STATES /\ <<o.state, to>> \in table

QuantityAccepted(o, to, filled, delta) ==
    /\ filled >= o.filled_qty
    /\ to = "PARTIALLY_FILLED" => filled > 0
    /\ o.modifications + delta <= MODIFICATION_CAP

EdgeLegal(o, to, table, filled, delta) ==
    EdgeExists(o, to, table) /\ QuantityAccepted(o, to, filled, delta)

Carried(new, old) == IF new = 0 THEN old ELSE new

ApplyEdge(o, to, filled, delta, fields, at) ==
    [o EXCEPT !.state = to,
              !.filled_qty = filled,
              !.modifications = @ + delta,
              !.qty = Carried(fields.qty, @),
              !.price = Carried(fields.price, @),
              !.updated_at = at]

(* transition with filled_qty=None keeps the fill count, so residual cancel, *)
(* lapse and the doors conserve it; only FILLED would complete it to qty.    *)
PreservedFill(o, to) == IF to = "FILLED" THEN o.qty ELSE o.filled_qty

CanTransition(o, to) ==
    EdgeLegal(o, to, ALLOWED_TRANSITIONS, PreservedFill(o, to), 0)
Transition(o, to, at) == ApplyEdge(o, to, PreservedFill(o, to), 0, NoFields, at)

(* The refusal doors return the order to its fill state. *)
FillState(o) == IF o.filled_qty > 0 THEN "PARTIALLY_FILLED" ELSE "ACKED"

CanCancelRejected(o) ==
    /\ o.state = "CANCEL_PENDING"
    /\ EdgeLegal(o, FillState(o), CANCEL_REJECTED_TRANSITIONS, o.filled_qty, 0)
CancelRejected(o, at) == ApplyEdge(o, FillState(o), o.filled_qty, 0, NoFields, at)

CanAmend(o, fields) ==
    /\ fields # NoFields
    /\ fields.qty # 0 => fields.qty >= o.filled_qty
    /\ EdgeLegal(o, "MODIFY_PENDING", ALLOWED_TRANSITIONS, o.filled_qty, 1)
Amend(o, fields, at) == ApplyEdge(o, "MODIFY_PENDING", o.filled_qty, 1, fields, at)

(* What amend records on its own audit row for modify_rejected to restore. *)
PriorFields(o, fields) ==
    [qty   |-> IF fields.qty = 0 THEN 0 ELSE o.qty,
     price |-> IF fields.price = 0 THEN 0 ELSE o.price]

CanModifyRejected(o) ==
    /\ o.state = "MODIFY_PENDING"
    /\ EdgeLegal(o, FillState(o), ALLOWED_TRANSITIONS, o.filled_qty, 0)
ModifyRejected(o, prior, at) == ApplyEdge(o, FillState(o), o.filled_qty, 0, prior, at)

CanCorrelate(o, bid) ==
    /\ o.state \notin TERMINAL_ORDER_STATES
    /\ o.broker_order_id \in {NoId, bid}
Correlate(o, bid) == [o EXCEPT !.broker_order_id = bid]

(***************************************************************************)
(* Broker frames, after parse_postback.                                    *)
(***************************************************************************)
KITE_STATUS_MAP ==
    [w \in {"OPEN", "TRIGGER PENDING", "COMPLETE", "CANCELLED", "REJECTED"} |->
        IF w \in {"OPEN", "TRIGGER PENDING"} THEN "ACKED"
        ELSE IF w = "COMPLETE" THEN "FILLED" ELSE w]

KITE_INTERMEDIATE_STATUSES ==
    {"OPEN PENDING", "MODIFY PENDING", "CANCEL PENDING"}

KiteStatuses == DOMAIN KITE_STATUS_MAP \cup KITE_INTERMEDIATE_STATUSES

BrokerUpdate(Ids) ==
    [ broker_order_id : Ids, status : KiteStatuses, filled_qty : Nat,
      qty : Nat, price : Nat, broker_ts : Nat ]

NoTarget == "NO_STATE_CHANGE"

ParsedTarget(u) ==
    IF u.status \in KITE_INTERMEDIATE_STATUSES THEN NoTarget
    ELSE IF u.status = "OPEN" /\ u.filled_qty > 0 /\ (u.qty = 0 \/ u.filled_qty < u.qty)
         THEN "PARTIALLY_FILLED"
         ELSE KITE_STATUS_MAP[u.status]

(***************************************************************************)
(* apply_update.                                                           *)
(***************************************************************************)
FILL_PROGRESS_TARGETS == {"ACKED", "PARTIALLY_FILLED", "FILLED"}
WORKING_TARGETS == {"ACKED", "PARTIALLY_FILLED"}
PROGRESS_RANK ==
    [s \in FILL_PROGRESS_TARGETS |->
        IF s = "ACKED" THEN 1 ELSE IF s = "PARTIALLY_FILLED" THEN 2 ELSE 3]

(* apply_update raises CorrelationMismatch otherwise. *)
Routable(o, u) == o.broker_order_id # NoId /\ u.broker_order_id = o.broker_order_id

(* Mutant: a frame of the intent's own second does not settle it. *)
PostdatesIntentStrictly(o, u) == u.broker_ts # 0 /\ u.broker_ts > o.updated_at

PostdatesIntent(o, u) == u.broker_ts # 0 /\ u.broker_ts >= o.updated_at

Grew(o, u) == u.filled_qty > o.filled_qty

(* Mutant: any fill of a working order is taken for a complete one. *)
UpdateTargetCompleteOnFill(o, u) ==
    IF ParsedTarget(u) \in WORKING_TARGETS /\ u.filled_qty > 0 THEN "FILLED" ELSE ParsedTarget(u)

(* The status word is overridden by the fill count for a working frame. *)
UpdateTarget(o, u) ==
    LET t == ParsedTarget(u) IN
    IF t \in WORKING_TARGETS /\ u.filled_qty > 0
    THEN IF u.filled_qty >= Carried(u.qty, o.qty) THEN "FILLED" ELSE "PARTIALLY_FILLED"
    ELSE t

FilledQtyRegression(o, u) ==
    ParsedTarget(u) \in FILL_PROGRESS_TARGETS /\ u.filled_qty < o.filled_qty

CancelPendingHeldForAck(o, u) ==
    o.state = "CANCEL_PENDING" /\ UpdateTarget(o, u) = "ACKED" /\ ~Grew(o, u)

CancelPendingHeld(o, u) ==
    o.state = "CANCEL_PENDING" /\ UpdateTarget(o, u) \in WORKING_TARGETS /\ ~Grew(o, u)

ModifyPendingHeld(o, u) ==
    /\ o.state = "MODIFY_PENDING"
    /\ UpdateTarget(o, u) \in WORKING_TARGETS
    /\ ~(Grew(o, u) \/ PostdatesIntent(o, u))

(* Mutant: the accretion edge lets every partial frame through. *)
SameStateUnlessPartial(o, u) ==
    UpdateTarget(o, u) = o.state /\ o.state # "PARTIALLY_FILLED"

SameState(o, u) == UpdateTarget(o, u) = o.state /\ ~Grew(o, u)

BehindOurProgress(o, u) ==
    /\ {o.state, UpdateTarget(o, u)} \subseteq FILL_PROGRESS_TARGETS
    /\ PROGRESS_RANK[UpdateTarget(o, u)] < PROGRESS_RANK[o.state]

(* Mutant: the frame's count is written even when it is behind the row's. *)
UpdateFillVerbatim(o, u) == u.filled_qty

UpdateFill(o, u) == IF u.filled_qty > o.filled_qty THEN u.filled_qty ELSE o.filled_qty

(* Only IllegalTransition is caught and recorded; a quantity error would escape. *)
IllegalUpdate(o, u) == ~EdgeExists(o, UpdateTarget(o, u), ALLOWED_TRANSITIONS)

(* An annotated no-op: NOOP_FLAGS is on the event and the row is unchanged. *)
IsNoop(o, u) ==
    \/ ParsedTarget(u) = NoTarget
    \/ o.state \in TERMINAL_ORDER_STATES
    \/ FilledQtyRegression(o, u)
    \/ CancelPendingHeld(o, u)
    \/ ModifyPendingHeld(o, u)
    \/ SameState(o, u)
    \/ BehindOurProgress(o, u)
    \/ IllegalUpdate(o, u)

(* The broker's parameters are written unless the frame predates a modify. *)
UpdateFields(o, u) ==
    IF o.state = "MODIFY_PENDING" /\ ~PostdatesIntent(o, u)
    THEN NoFields
    ELSE [qty |-> u.qty, price |-> u.price]

ApplyUpdate(o, u, at) ==
    IF IsNoop(o, u)
    THEN o
    ELSE ApplyEdge(o, UpdateTarget(o, u), UpdateFill(o, u), 0, UpdateFields(o, u), at)

=============================================================================
