------------------------- MODULE OrderMachineProofs -------------------------
(***************************************************************************)
(* Lemmas about the pure operators of OrderMachine, for any cap, any ids   *)
(* and any frame: the shape of the tables, and what a frame writes.        *)
(***************************************************************************)
EXTENDS OrderMachine, TLAPS

(* Every edge of the tables leads from a live state to a known one. *)
LEMMA EdgeTyped ==
    \A s, t : <<s, t>> \in ALLOWED_TRANSITIONS \cup CANCEL_REJECTED_TRANSITIONS =>
        s \in OrderState \ TERMINAL_ORDER_STATES /\ t \in OrderState
  BY DEF ALLOWED_TRANSITIONS, DIAGRAM_TRANSITIONS, BROKER_REALITY_TRANSITIONS,
         CANCEL_REJECTED_TRANSITIONS, OrderState, TERMINAL_ORDER_STATES

(* An accepted edge writes a well-formed row. *)
LEMMA EdgeType ==
    ASSUME NEW Ids, NEW o \in PlatformOrder(Ids), NEW to \in OrderState,
           NEW filled \in Nat, NEW delta \in Nat,
           NEW fields \in Fields, NEW at \in Nat,
           o.modifications + delta <= MODIFICATION_CAP
    PROVE  ApplyEdge(o, to, filled, delta, fields, at) \in PlatformOrder(Ids)
<1>1. /\ Carried(fields.qty, o.qty) \in Nat \ {0}
      /\ Carried(fields.price, o.price) \in Nat \ {0}
  BY DEF PlatformOrder, Fields, Carried
<1>2. o.modifications + delta \in 0 .. MODIFICATION_CAP
  BY CapAssumption DEF PlatformOrder
<1> QED BY <1>1, <1>2 DEF ApplyEdge, PlatformOrder

(* A frame leaves the row well-formed, keeps its id and its modification   *)
(* count, and never lowers its fill count.                                 *)
LEMMA UpdateType ==
    ASSUME NEW Ids, NEW o \in PlatformOrder(Ids), NEW u \in BrokerUpdate(Ids),
           NEW at \in Nat
    PROVE  /\ ApplyUpdate(o, u, at) \in PlatformOrder(Ids)
           /\ ApplyUpdate(o, u, at).filled_qty >= o.filled_qty
           /\ ApplyUpdate(o, u, at).modifications = o.modifications
           /\ ApplyUpdate(o, u, at).broker_order_id = o.broker_order_id
<1>1. CASE IsNoop(o, u)
  BY <1>1 DEF ApplyUpdate, PlatformOrder
<1>2. CASE ~IsNoop(o, u)
  <2> DEFINE new == ApplyEdge(o, UpdateTarget(o, u), UpdateFill(o, u), 0,
                              UpdateFields(o, u), at)
  <2>1. UpdateTarget(o, u) \in OrderState
    BY <1>2, EdgeTyped DEF IsNoop, IllegalUpdate, EdgeExists
  <2>2. UpdateFill(o, u) \in Nat /\ UpdateFill(o, u) >= o.filled_qty
    BY DEF UpdateFill, PlatformOrder, BrokerUpdate
  <2>3. UpdateFields(o, u) \in Fields
    BY DEF UpdateFields, Fields, NoFields, BrokerUpdate
  <2>4. o.modifications + 0 <= MODIFICATION_CAP
    BY CapAssumption DEF PlatformOrder
  <2>5. new \in PlatformOrder(Ids)
    BY <2>1, <2>2, <2>3, <2>4, EdgeType
  <2>6. new.filled_qty = UpdateFill(o, u) /\ new.modifications = o.modifications
          /\ new.broker_order_id = o.broker_order_id
    BY CapAssumption DEF ApplyEdge, PlatformOrder
  <2>7. ApplyUpdate(o, u, at) = new
    BY <1>2 DEF ApplyUpdate
  <2> QED BY <2>2, <2>5, <2>6, <2>7
<1> QED BY <1>1, <1>2

(* What a frame that is not absorbed does to the row. *)
LEMMA AppliedFrame ==
    ASSUME NEW Ids, NEW o \in PlatformOrder(Ids), NEW u \in BrokerUpdate(Ids),
           NEW at \in Nat, ~IsNoop(o, u)
    PROVE  /\ ApplyUpdate(o, u, at).state = UpdateTarget(o, u)
           /\ ApplyUpdate(o, u, at).filled_qty = UpdateFill(o, u)
           /\ <<o.state, UpdateTarget(o, u)>> \in ALLOWED_TRANSITIONS
  BY DEF ApplyUpdate, ApplyEdge, PlatformOrder, IsNoop, IllegalUpdate, EdgeExists

(* The target of a frame that changes state is one the parser can report. *)
LEMMA TargetRange ==
    ASSUME NEW Ids, NEW o, NEW u \in BrokerUpdate(Ids), ParsedTarget(u) # NoTarget
    PROVE  UpdateTarget(o, u) \in
              {"ACKED", "PARTIALLY_FILLED", "FILLED", "CANCELLED", "REJECTED"}
<1>1. ParsedTarget(u) \in
          {"ACKED", "PARTIALLY_FILLED", "FILLED", "CANCELLED", "REJECTED"}
  BY DEF ParsedTarget, KITE_STATUS_MAP, KiteStatuses, BrokerUpdate
<1> QED BY <1>1 DEF UpdateTarget

(* A working frame that reports a fill is at least PARTIALLY_FILLED, and a *)
(* PARTIALLY_FILLED one reports a fill.                                    *)
LEMMA TargetOfFill ==
    ASSUME NEW Ids, NEW o, NEW u \in BrokerUpdate(Ids)
    PROVE  /\ UpdateTarget(o, u) = "PARTIALLY_FILLED" => u.filled_qty > 0
           /\ u.filled_qty > 0 => UpdateTarget(o, u) # "ACKED"
<1>1. ParsedTarget(u) = "PARTIALLY_FILLED" => u.filled_qty > 0
  BY DEF ParsedTarget, KITE_STATUS_MAP, KiteStatuses, BrokerUpdate, NoTarget,
         KITE_INTERMEDIATE_STATUSES
<1> QED BY <1>1 DEF UpdateTarget, WORKING_TARGETS, BrokerUpdate

(* A live, submitted row absorbs no frame that reports more than it has. *)
LEMMA GrowthIsApplied ==
    ASSUME NEW Ids, NEW o \in PlatformOrder(Ids), NEW u \in BrokerUpdate(Ids),
           o.state \notin TERMINAL_ORDER_STATES \cup {"DRAFT", "VALIDATED"},
           Grew(o, u), ParsedTarget(u) # NoTarget
    PROVE  ~IsNoop(o, u)
<1>1. u.filled_qty > o.filled_qty /\ u.filled_qty > 0
  BY DEF Grew, PlatformOrder, BrokerUpdate
<1>2. UpdateTarget(o, u) \in {"PARTIALLY_FILLED", "FILLED", "CANCELLED", "REJECTED"}
  BY <1>1, TargetRange, TargetOfFill
<1>3. o.state \in {"SUBMITTED", "ACKED", "PARTIALLY_FILLED", "CANCEL_PENDING", "MODIFY_PENDING"}
  BY DEF PlatformOrder, OrderState, TERMINAL_ORDER_STATES
<1>4. ~IllegalUpdate(o, u)
  BY <1>2, <1>3 DEF IllegalUpdate, EdgeExists, ALLOWED_TRANSITIONS,
        DIAGRAM_TRANSITIONS, BROKER_REALITY_TRANSITIONS, TERMINAL_ORDER_STATES
<1>5. ~BehindOurProgress(o, u)
  BY <1>2, <1>3 DEF BehindOurProgress, PROGRESS_RANK, FILL_PROGRESS_TARGETS
<1> QED
  BY <1>1, <1>4, <1>5
     DEF IsNoop, FilledQtyRegression, CancelPendingHeld, ModifyPendingHeld,
         SameState, Grew, PlatformOrder, BrokerUpdate

(* A closing word that is not behind the row always closes a live row. *)
LEMMA ClosingIsApplied ==
    ASSUME NEW Ids, NEW o \in PlatformOrder(Ids), NEW u \in BrokerUpdate(Ids),
           o.state \notin TERMINAL_ORDER_STATES \cup {"DRAFT", "VALIDATED"},
           u.status \in {"COMPLETE", "CANCELLED", "REJECTED"},
           u.filled_qty >= o.filled_qty
    PROVE  ~IsNoop(o, u) /\ UpdateTarget(o, u) \in {"FILLED", "CANCELLED", "REJECTED"}
<1>1. /\ ParsedTarget(u) \in {"FILLED", "CANCELLED", "REJECTED"}
      /\ ParsedTarget(u) # NoTarget
  BY DEF ParsedTarget, KITE_STATUS_MAP, KITE_INTERMEDIATE_STATUSES, NoTarget
<1>2. UpdateTarget(o, u) = ParsedTarget(u)
  BY <1>1 DEF UpdateTarget, WORKING_TARGETS
<1>3. o.state \in {"SUBMITTED", "ACKED", "PARTIALLY_FILLED", "CANCEL_PENDING", "MODIFY_PENDING"}
  BY DEF PlatformOrder, OrderState, TERMINAL_ORDER_STATES
<1>4. ~IllegalUpdate(o, u) /\ ~BehindOurProgress(o, u)
  BY <1>1, <1>2, <1>3 DEF IllegalUpdate, EdgeExists, ALLOWED_TRANSITIONS,
        DIAGRAM_TRANSITIONS, BROKER_REALITY_TRANSITIONS, TERMINAL_ORDER_STATES,
        BehindOurProgress, PROGRESS_RANK, FILL_PROGRESS_TARGETS
<1> QED
  BY <1>1, <1>2, <1>3, <1>4
     DEF IsNoop, FilledQtyRegression, CancelPendingHeld, ModifyPendingHeld,
         SameState, WORKING_TARGETS, PlatformOrder, BrokerUpdate

(* Each column of the updated row comes from the row or from the frame. *)
LEMMA UpdateSources ==
    ASSUME NEW Ids, NEW o \in PlatformOrder(Ids), NEW u \in BrokerUpdate(Ids),
           NEW at \in Nat
    PROVE  /\ ApplyUpdate(o, u, at).qty \in {o.qty, u.qty}
           /\ ApplyUpdate(o, u, at).price \in {o.price, u.price}
           /\ ApplyUpdate(o, u, at).filled_qty \in {o.filled_qty, u.filled_qty}
           /\ ApplyUpdate(o, u, at).updated_at \in {o.updated_at, at}
<1>1. CASE IsNoop(o, u)
  BY <1>1 DEF ApplyUpdate
<1>2. CASE ~IsNoop(o, u)
  <2> DEFINE new == ApplyEdge(o, UpdateTarget(o, u), UpdateFill(o, u), 0,
                              UpdateFields(o, u), at)
  <2>1. /\ new.qty = Carried(UpdateFields(o, u).qty, o.qty)
        /\ new.price = Carried(UpdateFields(o, u).price, o.price)
        /\ new.filled_qty = UpdateFill(o, u)
        /\ new.updated_at = at
    BY DEF ApplyEdge, PlatformOrder
  <2>2. /\ Carried(UpdateFields(o, u).qty, o.qty) \in {o.qty, u.qty}
        /\ Carried(UpdateFields(o, u).price, o.price) \in {o.price, u.price}
    BY DEF Carried, UpdateFields, NoFields
  <2>3. ApplyUpdate(o, u, at) = new
    BY <1>2 DEF ApplyUpdate
  <2> QED BY <2>1, <2>2, <2>3 DEF UpdateFill
<1> QED BY <1>1, <1>2
=============================================================================
