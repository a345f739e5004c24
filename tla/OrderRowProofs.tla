--------------------------- MODULE OrderRowProofs ---------------------------
(***************************************************************************)
(* What the order state machine guarantees for every cap, every set of     *)
(* frames and every clock: TypeOK is inductive, and the safety properties  *)
(* of OrderRow follow from it together with the shape of the tables.       *)
(***************************************************************************)
EXTENDS OrderRow, OrderMachineProofs

(* The platform's own moves, as far as the type and the counters go. *)
LEMMA MoveType ==
    ASSUME TypeOK, NEW to, Move(to)
    PROVE  /\ TypeOK'
           /\ order'.filled_qty >= order.filled_qty
           /\ order'.modifications = order.modifications
           /\ order'.broker_order_id = order.broker_order_id
           /\ order.state \notin TERMINAL_ORDER_STATES
<1>1. PICK at \in Times : order' = Transition(order, to, at)
  BY DEF Move
<1>2. CanTransition(order, to) /\ prior' = prior
  BY DEF Move
<1>3. to \in OrderState /\ order.state \notin TERMINAL_ORDER_STATES
  BY <1>2, EdgeTyped DEF CanTransition, EdgeLegal, EdgeExists
<1>4. PreservedFill(order, to) \in Nat /\ PreservedFill(order, to) >= order.filled_qty
  BY <1>2 DEF TypeOK, PlatformOrder, PreservedFill, CanTransition, EdgeLegal, QuantityAccepted
<1>5. order.modifications + 0 <= MODIFICATION_CAP /\ at \in Nat /\ NoFields \in Fields
  BY CapAssumption, RowAssumption DEF TypeOK, PlatformOrder, Fields, NoFields
<1>6. order' \in PlatformOrder(BrokerIds)
  BY <1>1, <1>3, <1>4, <1>5, EdgeType DEF Transition, TypeOK
<1>7. /\ order'.filled_qty = PreservedFill(order, to)
      /\ order'.modifications = order.modifications
      /\ order'.broker_order_id = order.broker_order_id
  BY <1>1, CapAssumption DEF Transition, ApplyEdge, TypeOK, PlatformOrder
<1> QED BY <1>2, <1>3, <1>4, <1>6, <1>7 DEF TypeOK

(* The two refusal doors keep the row a row, its fill and its identity. *)
LEMMA DoorType ==
    ASSUME TypeOK, CancelRefused \/ ModifyRefused
    PROVE  /\ TypeOK'
           /\ order'.filled_qty = order.filled_qty
           /\ order'.modifications = order.modifications
           /\ order'.broker_order_id = order.broker_order_id
           /\ order.state \notin TERMINAL_ORDER_STATES
<1>1. PICK at \in Times, fields \in Fields :
          order' = ApplyEdge(order, FillState(order), order.filled_qty, 0, fields, at)
  BY DEF CancelRefused, ModifyRefused, CancelRejected, ModifyRejected, TypeOK, Fields, NoFields
<1>2. prior' = prior /\ order.state \notin TERMINAL_ORDER_STATES
  BY DEF CancelRefused, ModifyRefused, CanCancelRejected, CanModifyRejected, EdgeLegal, EdgeExists
<1>3. FillState(order) \in OrderState
  BY DEF FillState, OrderState
<1>4. order.modifications + 0 <= MODIFICATION_CAP /\ at \in Nat /\ order.filled_qty \in Nat
  BY CapAssumption, RowAssumption DEF TypeOK, PlatformOrder
<1>5. order' \in PlatformOrder(BrokerIds)
  BY <1>1, <1>3, <1>4, EdgeType DEF TypeOK
<1>6. /\ order'.filled_qty = order.filled_qty
      /\ order'.modifications = order.modifications
      /\ order'.broker_order_id = order.broker_order_id
  BY <1>1, CapAssumption DEF ApplyEdge, TypeOK, PlatformOrder
<1> QED BY <1>2, <1>5, <1>6 DEF TypeOK

(* amend keeps the row a row and counts one modification. *)
LEMMA AmendType ==
    ASSUME TypeOK, NEW fields \in Amendments, IssueAmend(fields)
    PROVE  /\ TypeOK'
           /\ order'.filled_qty = order.filled_qty
           /\ order'.modifications = order.modifications + 1
           /\ order'.broker_order_id = order.broker_order_id
           /\ order.state \notin TERMINAL_ORDER_STATES
           /\ order'.state = "MODIFY_PENDING"
<1>1. PICK at \in Times : order' = Amend(order, fields, at)
  BY DEF IssueAmend
<1>2. /\ order.modifications + 1 <= MODIFICATION_CAP
      /\ order.state \notin TERMINAL_ORDER_STATES
      /\ prior' = PriorFields(order, fields)
  BY DEF IssueAmend, CanAmend, EdgeLegal, EdgeExists, QuantityAccepted
<1>3. fields \in Fields /\ at \in Nat /\ "MODIFY_PENDING" \in OrderState
  BY RowAssumption DEF OrderState
<1>4. prior' \in Fields
  BY <1>2, <1>3 DEF PriorFields, Fields, TypeOK, PlatformOrder
<1>5. order' \in PlatformOrder(BrokerIds)
  BY <1>1, <1>2, <1>3, EdgeType DEF Amend, TypeOK, PlatformOrder
<1>6. /\ order'.filled_qty = order.filled_qty
      /\ order'.modifications = order.modifications + 1
      /\ order'.broker_order_id = order.broker_order_id
      /\ order'.state = "MODIFY_PENDING"
  BY <1>1, CapAssumption DEF Amend, ApplyEdge, TypeOK, PlatformOrder
<1> QED BY <1>2, <1>4, <1>5, <1>6 DEF TypeOK

(* apply_update keeps the row a row for every frame, and never lowers the fill. *)
LEMMA PostbackType ==
    ASSUME TypeOK, NEW u \in Frames, Postback(u)
    PROVE  /\ TypeOK'
           /\ order'.filled_qty >= order.filled_qty
           /\ order'.modifications = order.modifications
           /\ order'.broker_order_id = order.broker_order_id
           /\ order.state \in TERMINAL_ORDER_STATES => order' = order
<1>1. PICK at \in Times : order' = ApplyUpdate(order, u, at)
  BY DEF Postback
<1>2. u \in BrokerUpdate(BrokerIds) /\ at \in Nat /\ prior' = prior
  BY RowAssumption DEF Postback
<1>3. order.state \in TERMINAL_ORDER_STATES => order' = order
  BY <1>1 DEF ApplyUpdate, IsNoop
<1> QED BY <1>1, <1>2, <1>3, UpdateType DEF TypeOK

(* correlate keeps the row a row. *)
LEMMA CorrelatedType ==
    ASSUME TypeOK, NEW bid \in BrokerIds, Correlated(bid)
    PROVE  /\ TypeOK'
           /\ order'.filled_qty = order.filled_qty
           /\ order'.modifications = order.modifications
           /\ order'.state = order.state
           /\ order.broker_order_id # NoId => order'.broker_order_id = order.broker_order_id
           /\ order.state \notin TERMINAL_ORDER_STATES
  BY DEF TypeOK, Correlated, CanCorrelate, Correlate, PlatformOrder

(***************************************************************************)
(* The row is well-formed in every reachable state.                        *)
(***************************************************************************)
THEOREM TypeCorrect == Spec => []TypeOK
<1>1. Init => TypeOK
  BY RowAssumption, CapAssumption
     DEF Init, NewOrder, TypeOK, PlatformOrder, Fields, NoFields, OrderState
<1>2. TypeOK /\ [Next]_vars => TypeOK'
  <2> SUFFICES ASSUME TypeOK, [Next]_vars PROVE TypeOK'
    OBVIOUS
  <2>1. CASE Validate \/ Submit \/ PlaceRefused \/ IssueCancel \/ Lapse
    BY <2>1, MoveType DEF Validate, Submit, PlaceRefused, IssueCancel, Lapse
  <2>2. CASE \E bid \in BrokerIds : Correlated(bid)
    BY <2>2, CorrelatedType
  <2>3. CASE \E fields \in Amendments : IssueAmend(fields)
    BY <2>3, AmendType
  <2>4. CASE CancelRefused \/ ModifyRefused
    BY <2>4, DoorType
  <2>5. CASE \E u \in Frames : Postback(u)
    BY <2>5, PostbackType
  <2>6. CASE UNCHANGED vars
    BY <2>6 DEF vars, TypeOK
  <2> QED BY <2>1, <2>2, <2>3, <2>4, <2>5, <2>6 DEF Next
<1> QED BY <1>1, <1>2, PTL DEF Spec

(***************************************************************************)
(* No fill, no spent modification and no broker id is ever taken back, and *)
(* a terminal row is never written again.                                  *)
(***************************************************************************)
THEOREM RowNeverRegresses == Spec => NeverRegresses
<1>1. TypeOK /\ [Next]_vars =>
        [ /\ order'.filled_qty >= order.filled_qty
          /\ order'.modifications >= order.modifications
          /\ order.broker_order_id # NoId =>
                order'.broker_order_id = order.broker_order_id
          /\ order.state \in TERMINAL_ORDER_STATES => order' = order ]_vars
  <2> SUFFICES ASSUME TypeOK, Next
               PROVE  /\ order'.filled_qty >= order.filled_qty
                      /\ order'.modifications >= order.modifications
                      /\ order.broker_order_id # NoId =>
                            order'.broker_order_id = order.broker_order_id
                      /\ order.state \in TERMINAL_ORDER_STATES => order' = order
    OBVIOUS
  <2>0. order.modifications \in Nat /\ order.filled_qty \in Nat
    BY CapAssumption DEF TypeOK, PlatformOrder
  <2>1. CASE Validate \/ Submit \/ PlaceRefused \/ IssueCancel \/ Lapse
    BY <2>0, <2>1, MoveType DEF Validate, Submit, PlaceRefused, IssueCancel, Lapse
  <2>2. CASE \E bid \in BrokerIds : Correlated(bid)
    BY <2>0, <2>2, CorrelatedType
  <2>3. CASE \E fields \in Amendments : IssueAmend(fields)
    BY <2>0, <2>3, AmendType
  <2>4. CASE CancelRefused \/ ModifyRefused
    BY <2>0, <2>4, DoorType
  <2>5. CASE \E u \in Frames : Postback(u)
    BY <2>0, <2>5, PostbackType
  <2> QED BY <2>1, <2>2, <2>3, <2>4, <2>5 DEF Next
<1> QED BY <1>1, TypeCorrect, PTL DEF Spec, NeverRegresses

-----------------------------------------------------------------------------
(***************************************************************************)
(* apply_update never raises for a broker frame.                           *)
(***************************************************************************)
THEOREM FramesNeverRaise == Spec => []NeverRaises
<1>1. TypeOK => NeverRaises
  <2> SUFFICES ASSUME TypeOK, NEW u \in Frames
               PROVE  QuantityAccepted(order, UpdateTarget(order, u),
                                       UpdateFill(order, u), 0)
    BY DEF NeverRaises
  <2>1. u \in BrokerUpdate(BrokerIds)
    BY RowAssumption
  <2>2. /\ UpdateFill(order, u) >= order.filled_qty
        /\ UpdateFill(order, u) >= u.filled_qty
        /\ u.filled_qty \in Nat /\ UpdateFill(order, u) \in Nat
    BY <2>1 DEF UpdateFill, TypeOK, PlatformOrder, BrokerUpdate
  <2>3. order.modifications + 0 <= MODIFICATION_CAP
    BY CapAssumption DEF TypeOK, PlatformOrder
  <2>4. UpdateTarget(order, u) = "PARTIALLY_FILLED" => UpdateFill(order, u) > 0
    BY <2>1, <2>2, TargetOfFill
  <2> QED BY <2>2, <2>3, <2>4 DEF QuantityAccepted
<1> QED BY <1>1, TypeCorrect, PTL

(***************************************************************************)
(* A frame that reports more shares than a live row always lands them.     *)
(***************************************************************************)
THEOREM FillsLand == Spec => []FillAlwaysLands
<1>1. TypeOK => FillAlwaysLands
  <2> SUFFICES ASSUME TypeOK, NEW u \in Frames, NEW at \in Times,
                      Live(order), Grew(order, u), ParsedTarget(u) # NoTarget
               PROVE  ApplyUpdate(order, u, at).filled_qty = u.filled_qty
    BY DEF FillAlwaysLands
  <2>1. /\ order \in PlatformOrder(BrokerIds) /\ u \in BrokerUpdate(BrokerIds)
        /\ at \in Nat
    BY RowAssumption DEF TypeOK
  <2>2. u.filled_qty > order.filled_qty
    BY DEF Grew
  <2>3. ~IsNoop(order, u)
    BY <2>1, GrowthIsApplied DEF Live
  <2> QED BY <2>1, <2>2, <2>3, AppliedFrame DEF UpdateFill
<1> QED BY <1>1, TypeCorrect, PTL

(***************************************************************************)
(* Replaying a frame changes nothing the first application did not.        *)
(***************************************************************************)
THEOREM ReplaysAreHarmless == Spec => []ReplayIsIdempotent
<1>1. TypeOK => ReplayIsIdempotent
  <2> SUFFICES ASSUME TypeOK, NEW u \in Frames, NEW at \in Times, NEW later \in Times
               PROVE  ApplyUpdate(ApplyUpdate(order, u, at), u, later)
                         = ApplyUpdate(order, u, at)
    BY DEF ReplayIsIdempotent
  <2> DEFINE once == ApplyUpdate(order, u, at)
  <2>1. /\ order \in PlatformOrder(BrokerIds) /\ u \in BrokerUpdate(BrokerIds)
        /\ at \in Nat
    BY RowAssumption DEF TypeOK
  <2>2. CASE IsNoop(order, u)
    BY <2>2 DEF ApplyUpdate
  <2>3. CASE ~IsNoop(order, u)
    <3>1. /\ once.state = UpdateTarget(order, u)
          /\ once.filled_qty = UpdateFill(order, u)
          /\ ParsedTarget(u) # NoTarget
      BY <2>1, <2>3, AppliedFrame DEF IsNoop
    <3>2. ~Grew(once, u)
      BY <2>1, <3>1 DEF Grew, UpdateFill, PlatformOrder, BrokerUpdate
    <3>3. once.state \in {"ACKED", "PARTIALLY_FILLED", "FILLED", "CANCELLED", "REJECTED"}
      BY <2>1, <3>1, TargetRange
    <3>4. CASE once.state \in TERMINAL_ORDER_STATES
      BY <3>4 DEF ApplyUpdate, IsNoop
    <3>5. CASE once.state \in WORKING_TARGETS
      <4>1. ParsedTarget(u) \in WORKING_TARGETS
        BY <3>1, <3>5 DEF UpdateTarget, WORKING_TARGETS
      <4>2. CASE u.filled_qty = 0
        (* The word decides, and it decides the same way again. *)
        <5>1. UpdateTarget(order, u) = ParsedTarget(u) /\ UpdateTarget(once, u) = ParsedTarget(u)
          BY <4>2 DEF UpdateTarget
        <5> QED BY <3>1, <3>2, <5>1 DEF ApplyUpdate, IsNoop, SameState
      <4>3. CASE u.filled_qty > 0
        (* The size is the one the first application wrote or confirmed. *)
        <5>1. once.state = "PARTIALLY_FILLED"
          BY <2>1, <3>1, <3>5, <4>3, TargetOfFill DEF WORKING_TARGETS
        <5>2. ~(u.filled_qty >= Carried(u.qty, order.qty))
          BY <3>1, <4>1, <4>3, <5>1 DEF UpdateTarget
        <5>3. once.qty = Carried(UpdateFields(order, u).qty, order.qty)
          BY <2>1, <2>3 DEF ApplyUpdate, ApplyEdge, PlatformOrder
        <5>4. Carried(u.qty, once.qty) = Carried(u.qty, order.qty)
          BY <2>1, <5>3 DEF Carried, UpdateFields, NoFields
        <5>5. UpdateTarget(once, u) = "PARTIALLY_FILLED"
          BY <4>1, <4>3, <5>2, <5>4 DEF UpdateTarget
        <5> QED BY <3>2, <5>1, <5>5 DEF ApplyUpdate, IsNoop, SameState
      <4> QED BY <2>1, <4>2, <4>3 DEF BrokerUpdate
    <3> QED BY <3>3, <3>4, <3>5 DEF TERMINAL_ORDER_STATES, WORKING_TARGETS
  <2> QED BY <2>2, <2>3
<1> QED BY <1>1, TypeCorrect, PTL

(***************************************************************************)
(* A cancel intent is cleared only by a terminal outcome, by a real fill,  *)
(* or through the refusal door.                                            *)
(***************************************************************************)
THEOREM CancelIntentOutlivesReports == Spec => CancelIntentHeld
<1>1. TypeOK /\ [Next]_vars =>
        [ (order.state = "CANCEL_PENDING" /\ order'.state # "CANCEL_PENDING") =>
              \/ order'.state \in TERMINAL_ORDER_STATES
              \/ order'.filled_qty > order.filled_qty
              \/ CancelRefused ]_vars
  <2> SUFFICES ASSUME TypeOK, Next, order.state = "CANCEL_PENDING",
                      order'.state \notin TERMINAL_ORDER_STATES \cup {"CANCEL_PENDING"},
                      ~CancelRefused
               PROVE  order'.filled_qty > order.filled_qty
    OBVIOUS
  <2>1. ASSUME NEW to \in {"VALIDATED", "SUBMITTED", "REJECTED", "CANCEL_PENDING", "LAPSED"},
               Move(to)
        PROVE  FALSE
    BY <2>1 DEF Move, CanTransition, EdgeLegal, EdgeExists, ALLOWED_TRANSITIONS,
         DIAGRAM_TRANSITIONS, BROKER_REALITY_TRANSITIONS, Transition, ApplyEdge,
         TypeOK, PlatformOrder, TERMINAL_ORDER_STATES
  <2>2. ~(Validate \/ Submit \/ PlaceRefused \/ IssueCancel \/ Lapse)
    BY <2>1 DEF Validate, Submit, PlaceRefused, IssueCancel, Lapse
  <2>3. ~ \E bid \in BrokerIds : Correlated(bid)
    BY CorrelatedType
  <2>4. ~ModifyRefused
    BY DEF ModifyRefused, CanModifyRejected
  <2>5. ASSUME NEW fields \in Amendments, IssueAmend(fields)
        PROVE  FALSE
    BY <2>5 DEF IssueAmend, CanAmend, EdgeLegal, EdgeExists, ALLOWED_TRANSITIONS,
         DIAGRAM_TRANSITIONS, BROKER_REALITY_TRANSITIONS
  <2>6. PICK u \in Frames : Postback(u)
    BY <2>2, <2>3, <2>4, <2>5 DEF Next
  <2>7. PICK at \in Times : order' = ApplyUpdate(order, u, at)
    BY <2>6 DEF Postback
  <2>8. /\ order \in PlatformOrder(BrokerIds) /\ u \in BrokerUpdate(BrokerIds)
        /\ at \in Nat
    BY RowAssumption DEF TypeOK
  <2>9. ~IsNoop(order, u)
    BY <2>7 DEF ApplyUpdate
  <2>10. /\ order'.state = UpdateTarget(order, u)
         /\ order'.filled_qty = UpdateFill(order, u)
    BY <2>7, <2>8, <2>9, AppliedFrame
  <2>11. UpdateTarget(order, u) \in WORKING_TARGETS
    BY <2>8, <2>9, <2>10, TargetRange DEF IsNoop, WORKING_TARGETS, TERMINAL_ORDER_STATES
  <2>12. Grew(order, u)
    BY <2>9, <2>11 DEF IsNoop, CancelPendingHeld
  <2> QED BY <2>10, <2>12 DEF Grew, UpdateFill
<1> QED BY <1>1, TypeCorrect, PTL DEF Spec, CancelIntentHeld
=============================================================================
