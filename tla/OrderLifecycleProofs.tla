------------------------ MODULE OrderLifecycleProofs ------------------------
(***************************************************************************)
(* The row never believes more than the broker's book, for every size,     *)
(* every set of prices and amendments, every buffer and every clock skew.  *)
(*                                                                         *)
(* The inductive invariant IInv says why: a frame is an old truth about a  *)
(* book that only moves forward, and the row is a summary of the frames    *)
(* applied to it.                                                          *)
(***************************************************************************)
EXTENDS OrderLifecycle, OrderMachineProofs

(* The prices of the model, and the 0 of no price, are numbers. *)
LEMMA PricesAreNumbers == \A p \in Prices \cup {0} : p \in Nat
<1>1. Prices \subseteq Nat \ {0}
  BY LifecycleAssumption
<1> QED BY <1>1

(* Every frame the broker may send is one the reducer accepts. *)
LEMMA UniverseIsBrokerUpdate == FrameUniverse \subseteq BrokerUpdate({BrokerId})
<1> SUFFICES ASSUME NEW f \in FrameUniverse PROVE f \in BrokerUpdate({BrokerId})
  OBVIOUS
<1>1. 0 .. MaxQty \subseteq Nat /\ Prices \subseteq Nat /\ 0 .. MaxTime \subseteq Nat
  <2>1. MaxQty \in Nat /\ MaxTime \in Nat /\ Prices \subseteq Nat \ {0}
    BY LifecycleAssumption
  <2> QED BY <2>1
<1>w. WordsInUse \subseteq KiteStatuses
  <2>1. WordsInUse \subseteq {"OPEN", "TRIGGER PENDING", "COMPLETE", "CANCELLED", "REJECTED"}
    BY LifecycleAssumption DEF WordsInUse
  <2> QED BY <2>1 DEF KiteStatuses, KITE_STATUS_MAP
<1>2. /\ f.broker_order_id = BrokerId /\ f.status \in KiteStatuses
      /\ f.filled_qty \in Nat /\ f.qty \in Nat /\ f.price \in Nat /\ f.broker_ts \in Nat
  BY <1>1, <1>w DEF FrameUniverse
<1>3. f = [ broker_order_id |-> f.broker_order_id, status |-> f.status,
            filled_qty |-> f.filled_qty, qty |-> f.qty, price |-> f.price,
            broker_ts |-> f.broker_ts ]
  BY DEF FrameUniverse
<1> QED BY <1>2, <1>3 DEF BrokerUpdate

(* What the type invariant says of the row and of a frame, unfolded once. *)
LEMMA RowFacts ==
    ASSUME TypeOK
    PROVE  /\ row \in PlatformOrder({BrokerId})
           /\ row.qty \in 1 .. MaxQty /\ row.price \in Prices
           /\ row.filled_qty \in 0 .. MaxQty /\ row.updated_at \in 0 .. MaxTime
           /\ book.filled_qty \in 0 .. MaxQty /\ book.qty \in 0 .. MaxQty
           /\ sent \subseteq BrokerUpdate({BrokerId})
           /\ now \in 0 .. MaxTime
<1>1. MaxQty \in Nat /\ MaxTime \in Nat
  BY LifecycleAssumption
<1>2. sent \subseteq BrokerUpdate({BrokerId})
  BY UniverseIsBrokerUpdate DEF TypeOK
<1>3. row.qty \in Nat \ {0} /\ row.filled_qty \in Nat /\ row.updated_at \in Nat
  BY DEF TypeOK, PlatformOrder
<1>4. /\ row \in PlatformOrder({BrokerId})
      /\ row.qty <= MaxQty /\ row.price \in Prices
      /\ row.filled_qty <= MaxQty /\ row.updated_at <= MaxTime
  BY DEF TypeOK
<1>5. book.filled_qty \in 0 .. MaxQty /\ book.qty \in 0 .. MaxQty
  BY DEF TypeOK
<1>6. now \in 0 .. MaxTime
  BY <1>1 DEF TypeOK
<1> QED BY <1>1, <1>2, <1>3, <1>4, <1>5, <1>6

-----------------------------------------------------------------------------
(* The row-side half of the invariant, and its stability. *)

RowType(r) ==
    /\ r \in PlatformOrder({BrokerId}) /\ r.qty <= MaxQty /\ r.price \in Prices
    /\ r.filled_qty <= MaxQty /\ r.updated_at <= MaxTime

RowPart ==
    RowType(row) /\ TerminalRowIsFinal /\ RowNeverAheadOfBook
      /\ NoAppliedFillMissing /\ FinalFrameSettles

(* Applying a frame the broker sent, whichever and whenever. *)
LEMMA ApplyFrame ==
    ASSUME IInv, NEW f \in sent, NEW at \in 0 .. MaxTime,
           row.broker_order_id # NoId,
           row' = ApplyUpdate(row, f, at), applied' = applied \cup {f},
           book' = book
    PROVE  /\ RowPart'
           /\ row'.broker_order_id = row.broker_order_id
           /\ row'.state \notin {"DRAFT", "VALIDATED"}
<1>0. /\ row.filled_qty \in Nat /\ f.filled_qty \in Nat /\ book.filled_qty \in Nat
      /\ row.filled_qty <= book.filled_qty /\ f.filled_qty <= book.filled_qty
  <2>1. TypeOK /\ row.filled_qty <= book.filled_qty /\ f.filled_qty <= book.filled_qty
    BY DEF IInv, RowNeverAheadOfBook, FillsNeverAhead, FramesAreOldTruths
  <2>2. f \in BrokerUpdate({BrokerId}) /\ MaxQty \in Nat
    BY <2>1, RowFacts, LifecycleAssumption
  <2> QED BY <2>1, <2>2, RowFacts DEF BrokerUpdate
<1>1. /\ row \in PlatformOrder({BrokerId}) /\ f \in BrokerUpdate({BrokerId})
      /\ f \in FrameUniverse /\ at \in Nat
      /\ row.state \notin {"DRAFT", "VALIDATED"}
  <2>1. f \in FrameUniverse /\ f \in BrokerUpdate({BrokerId}) /\ at \in Nat
    <3>1. sent \subseteq FrameUniverse /\ sent \subseteq BrokerUpdate({BrokerId})
      BY RowFacts DEF IInv, TypeOK
    <3>2. MaxTime \in Nat
      BY LifecycleAssumption
    <3> QED BY <3>1, <3>2
  <2>2. row \in PlatformOrder({BrokerId})
    BY RowFacts DEF IInv
  <2>3. row.state \notin {"DRAFT", "VALIDATED"}
    BY DEF IInv, CallsMatchRow
  <2> QED BY <2>1, <2>2, <2>3
<1>2. /\ row' \in PlatformOrder({BrokerId})
      /\ row'.filled_qty >= row.filled_qty
      /\ row'.broker_order_id = row.broker_order_id
  BY <1>1, UpdateType
<1>3. /\ row'.qty \in {row.qty, f.qty} /\ row'.price \in {row.price, f.price}
      /\ row'.filled_qty \in {row.filled_qty, f.filled_qty}
      /\ row'.updated_at \in {row.updated_at, at}
  BY <1>1, UpdateSources
<1>4. RowType(row')
  <2>1. /\ row.qty <= MaxQty /\ f.qty <= MaxQty /\ row.price \in Prices /\ f.price \in Prices
        /\ row.filled_qty <= MaxQty /\ f.filled_qty <= MaxQty
        /\ row.updated_at <= MaxTime /\ at <= MaxTime
    <3>1. MaxQty \in Nat /\ MaxTime \in Nat
      BY LifecycleAssumption
    <3>2. /\ row.qty <= MaxQty /\ row.price \in Prices
          /\ row.filled_qty <= MaxQty /\ row.updated_at <= MaxTime
      BY DEF IInv, TypeOK
    <3>3. f.qty <= MaxQty /\ f.price \in Prices /\ f.filled_qty <= MaxQty
      BY <1>1, <3>1 DEF FrameUniverse
    <3> QED BY <3>1, <3>2, <3>3
  <2>2. /\ row'.qty <= MaxQty /\ row'.price \in Prices
        /\ row'.filled_qty <= MaxQty /\ row'.updated_at <= MaxTime
    BY <1>3, <2>1
  <2> QED BY <1>2, <2>2 DEF RowType
<1>5. row'.filled_qty \in Nat /\ row'.filled_qty <= book.filled_qty
  BY <1>0, <1>3
<1>6. CASE IsNoop(row, f)
  <2>1. row' = row
    BY <1>6 DEF ApplyUpdate
  <2>2. TerminalRowIsFinal' /\ OutcomeNeverAhead'
    BY <2>1 DEF IInv, TerminalRowIsFinal, RowNeverAheadOfBook, OutcomeNeverAhead
  <2>3. ASSUME ~QtyGarbled, row.state # "LAPSED"
        PROVE  /\ f.filled_qty <= row.filled_qty
               /\ f.status \in FinalWords =>
                     row.state \in TERMINAL_ORDER_STATES /\ row.filled_qty = book.filled_qty
    <3>1. /\ f.filled_qty <= book.filled_qty
          /\ f.status \in FinalWords => f.filled_qty = book.filled_qty
          /\ f.status \in {"OPEN", "TRIGGER PENDING"} \cup FinalWords
      BY <1>0 DEF IInv, FramesAreOldTruths, SaysOver
    <3>2. CASE row.state \in TERMINAL_ORDER_STATES
      <4>1. row.filled_qty = book.filled_qty
        BY <2>3, <3>2 DEF IInv, TerminalRowIsFinal, TERMINAL_ORDER_STATES
      <4> QED BY <1>0, <3>1, <3>2, <4>1
    <3>3. CASE row.state \notin TERMINAL_ORDER_STATES
      <4>1. ParsedTarget(f) # NoTarget
        BY <3>1 DEF ParsedTarget, KITE_INTERMEDIATE_STATUSES, KITE_STATUS_MAP,
              NoTarget, FinalWords
      <4>2. ~Grew(row, f)
        BY <1>1, <1>6, <3>3, <4>1, GrowthIsApplied
      <4>3. f.status \notin FinalWords
        BY <1>0, <1>1, <1>6, <3>1, <3>3, ClosingIsApplied DEF FinalWords
      <4>4. f.filled_qty <= row.filled_qty
        BY <1>0, <4>2 DEF Grew
      <4> QED BY <4>3, <4>4
    <3> QED BY <3>2, <3>3
  <2>4. NoAppliedFillMissing'
    BY <2>1, <2>3 DEF IInv, NoAppliedFillMissing
  <2>5. FinalFrameSettles'
    BY <2>1, <2>3 DEF IInv, FinalFrameSettles, FinalWords
  <2>6. RowNeverAheadOfBook'
    BY <1>5, <2>2 DEF RowNeverAheadOfBook, FillsNeverAhead
  <2> QED BY <1>1, <1>2, <1>4, <2>1, <2>2, <2>4, <2>5, <2>6 DEF RowPart
<1>7. CASE ~IsNoop(row, f)
  <2>1. /\ row'.state = UpdateTarget(row, f)
        /\ row'.filled_qty = UpdateFill(row, f)
        /\ <<row.state, row'.state>> \in ALLOWED_TRANSITIONS
        /\ ParsedTarget(f) # NoTarget
    BY <1>1, <1>7, AppliedFrame DEF IsNoop
  <2>2. row'.state \in {"ACKED", "PARTIALLY_FILLED", "FILLED", "CANCELLED", "REJECTED"}
    BY <1>1, <2>1, TargetRange
  <2>3. /\ f.filled_qty <= book.filled_qty
        /\ SaysOver(f) => f.filled_qty = book.filled_qty /\ book.status \in Broker!Closed
        /\ f.status = "CANCELLED" => book.status = "cancelled"
        /\ f.status = "REJECTED" => book.status = "rejected"
        /\ f.status \notin {"CANCELLED", "REJECTED"} /\ SaysOver(f) => book.status = "complete"
        /\ ~QtyGarbled => f.qty # 0
        /\ f.status \in {"OPEN", "TRIGGER PENDING"} \cup FinalWords
    BY DEF IInv, FramesAreOldTruths
  <2>4. row'.state = "CANCELLED" => f.status = "CANCELLED"
    BY <2>1, <2>3 DEF UpdateTarget, ParsedTarget, KITE_STATUS_MAP,
          KITE_INTERMEDIATE_STATUSES, WORKING_TARGETS, FinalWords
  <2>5. row'.state = "REJECTED" => f.status = "REJECTED"
    BY <2>1, <2>3 DEF UpdateTarget, ParsedTarget, KITE_STATUS_MAP,
          KITE_INTERMEDIATE_STATUSES, WORKING_TARGETS, FinalWords
  <2>6. row'.state = "FILLED" /\ ~QtyGarbled =>
            SaysOver(f) /\ f.status \notin {"CANCELLED", "REJECTED"}
    BY <2>1, <2>3 DEF UpdateTarget, ParsedTarget, KITE_STATUS_MAP, Carried,
          KITE_INTERMEDIATE_STATUSES, WORKING_TARGETS, FinalWords, SaysOver
  <2>7. OutcomeNeverAhead'
    BY <2>3, <2>4, <2>5, <2>6 DEF OutcomeNeverAhead
  <2>8. f.filled_qty <= row'.filled_qty
    BY <1>0, <2>1 DEF UpdateFill
  <2>9. TerminalRowIsFinal'
    <3> SUFFICES ASSUME ~QtyGarbled, row'.state \in {"FILLED", "CANCELLED", "REJECTED"}
                 PROVE  row'.filled_qty = book.filled_qty /\ book.status \in Broker!Closed
      BY DEF TerminalRowIsFinal
    <3>1. SaysOver(f)
      BY <2>4, <2>5, <2>6 DEF SaysOver, FinalWords
    <3>2. f.filled_qty = book.filled_qty /\ book.status \in Broker!Closed
      BY <2>3, <3>1
    <3> QED BY <1>0, <1>5, <2>8, <3>2
  <2>10. row.state # "LAPSED"
    <3>1. <<row.state, row'.state>> \in ALLOWED_TRANSITIONS \cup CANCEL_REJECTED_TRANSITIONS
      BY <2>1
    <3>2. row.state \notin TERMINAL_ORDER_STATES
      BY <3>1, EdgeTyped
    <3> QED BY <3>2 DEF TERMINAL_ORDER_STATES
  <2>11. NoAppliedFillMissing'
    <3> SUFFICES ASSUME ~QtyGarbled, NEW g \in applied \cup {f}
                 PROVE  g.filled_qty <= row'.filled_qty
      BY DEF NoAppliedFillMissing
    <3>1. CASE g = f
      BY <2>8, <3>1
    <3>2. CASE g \in applied
      <4>1. g.filled_qty <= row.filled_qty
        BY <2>10, <3>2 DEF IInv, NoAppliedFillMissing
      <4>2. g.filled_qty \in Nat
        BY <3>2, RowFacts DEF IInv, TypeOK, BrokerUpdate
      <4> QED BY <1>0, <1>2, <1>5, <4>1, <4>2
    <3> QED BY <3>1, <3>2
  <2>12. FinalFrameSettles'
    <3> SUFFICES ASSUME ~QtyGarbled, NEW g \in applied \cup {f}, g.status \in FinalWords
                 PROVE  row'.state \in TERMINAL_ORDER_STATES
                          /\ row'.filled_qty = book.filled_qty
      BY DEF FinalFrameSettles, FinalWords
    <3>1. g = f
      BY <2>10, <2>1, EdgeTyped DEF IInv, FinalFrameSettles, FinalWords
    <3>2. row'.state \in {"FILLED", "CANCELLED", "REJECTED"}
      <4>1. row.state \notin TERMINAL_ORDER_STATES /\ f.status \in {"COMPLETE", "CANCELLED", "REJECTED"}
        BY <1>7, <3>1 DEF IsNoop, FinalWords
      <4>2. f.filled_qty >= row.filled_qty
        BY <1>0, <2>3, <4>1 DEF SaysOver, FinalWords
      <4> QED BY <1>1, <2>1, <4>1, <4>2, ClosingIsApplied
    <3>3. row'.filled_qty = book.filled_qty
      <4>1. f.filled_qty = book.filled_qty
        BY <2>3, <3>1 DEF SaysOver
      <4> QED BY <1>0, <1>5, <2>8, <4>1
    <3> QED BY <3>2, <3>3 DEF TERMINAL_ORDER_STATES
  <2>13. RowNeverAheadOfBook'
    BY <1>5, <2>7 DEF RowNeverAheadOfBook, FillsNeverAhead
  <2>14. row'.state \notin {"DRAFT", "VALIDATED"}
    BY <2>2
  <2> QED BY <1>2, <1>4, <2>9, <2>11, <2>12, <2>13, <2>14 DEF RowPart
<1> QED BY <1>6, <1>7

(* A platform move leaves the fills alone and reaches no outcome of the broker. *)
LEMMA PlatformMove ==
    ASSUME IInv, RowType(row'),
           row'.filled_qty = row.filled_qty,
           row.state \notin TERMINAL_ORDER_STATES,
           row'.state \notin {"FILLED", "CANCELLED", "REJECTED"},
           applied' = applied, book' = book
    PROVE  RowPart'
<1>1. TerminalRowIsFinal'
  BY DEF TerminalRowIsFinal
<1>2. FillsNeverAhead' /\ OutcomeNeverAhead'
  BY DEF IInv, RowNeverAheadOfBook, FillsNeverAhead, OutcomeNeverAhead
<1>3. row.state # "LAPSED"
  BY DEF TERMINAL_ORDER_STATES
<1>4. NoAppliedFillMissing'
  BY <1>3 DEF IInv, NoAppliedFillMissing
<1>5. FinalFrameSettles'
  BY <1>3 DEF IInv, FinalFrameSettles
<1> QED BY <1>1, <1>2, <1>4, <1>5 DEF RowPart, RowNeverAheadOfBook

(* The type of the row after a platform edge. *)
LEMMA PlatformEdge ==
    ASSUME TypeOK, NEW to, NEW table, NEW filled, NEW delta \in Nat,
           NEW fields \in [qty : 0 .. MaxQty, price : Prices \cup {0}],
           table \subseteq ALLOWED_TRANSITIONS \cup CANCEL_REJECTED_TRANSITIONS,
           EdgeLegal(row, to, table, filled, delta), filled = row.filled_qty,
           row' = ApplyEdge(row, to, filled, delta, fields, now)
    PROVE  /\ RowType(row')
           /\ row'.filled_qty = row.filled_qty
           /\ row'.state = to /\ <<row.state, to>> \in table
           /\ row'.broker_order_id = row.broker_order_id
           /\ row.state \notin TERMINAL_ORDER_STATES
<1>1. /\ <<row.state, to>> \in table /\ row.state \notin TERMINAL_ORDER_STATES
      /\ row.modifications + delta <= MODIFICATION_CAP
  BY DEF EdgeLegal, EdgeExists, QuantityAccepted
<1>2. to \in OrderState
  BY <1>1, EdgeTyped
<1>3. MaxQty \in Nat /\ MaxTime \in Nat /\ Prices \subseteq Nat \ {0}
  BY LifecycleAssumption
<1>4. fields \in Fields /\ filled \in Nat /\ now \in Nat
  <2>1. /\ fields = [qty |-> fields.qty, price |-> fields.price]
        /\ fields.qty \in 0 .. MaxQty /\ fields.price \in Prices \cup {0}
    OBVIOUS
  <2>2. row.filled_qty \in 0 .. MaxQty /\ now \in 0 .. MaxTime
    BY RowFacts
  <2>3. fields.price \in Nat
    BY <2>1, PricesAreNumbers, Zenon
  <2>4. fields.qty \in Nat /\ row.filled_qty \in Nat /\ now \in Nat
    BY <1>3, <2>1, <2>2
  <2> QED BY <2>1, <2>3, <2>4 DEF Fields
<1>5. row \in PlatformOrder({BrokerId})
  BY RowFacts
<1>6. row' \in PlatformOrder({BrokerId})
  BY <1>1, <1>2, <1>4, <1>5, EdgeType
<1>7. /\ row'.filled_qty = filled /\ row'.state = to
      /\ row'.broker_order_id = row.broker_order_id
      /\ row'.qty = Carried(fields.qty, row.qty)
      /\ row'.price = Carried(fields.price, row.price)
      /\ row'.updated_at = now
  BY <1>5 DEF ApplyEdge, PlatformOrder
<1>8. /\ Carried(fields.qty, row.qty) <= MaxQty
      /\ Carried(fields.price, row.price) \in Prices
  BY <1>3, RowFacts DEF Carried
<1>9. now <= MaxTime /\ row.filled_qty <= MaxQty
  BY <1>3, RowFacts
<1> QED BY <1>1, <1>6, <1>7, <1>8, <1>9 DEF RowType

(* The book moves forward while it is open (or before it exists), and says so. *)
LEMMA BookForward ==
    ASSUME IInv, BookStep,
           book.status \in {"absent", "open"},
           book.status = "absent" => placeCall \in {"inflight", "lost"},
           book'.status \in {"open", "complete", "cancelled", "rejected"},
           book'.qty \in 1 .. MaxQty, book'.price \in Prices,
           book'.filled_qty \in 0 .. MaxQty,
           book'.filled_qty >= book.filled_qty, book'.filled_qty <= book'.qty,
           book'.status = "open" => book'.filled_qty < book'.qty,
           book'.status = "complete" => book'.filled_qty = book'.qty
    PROVE  /\ RowPart' /\ BookConsistent' /\ FramesAreOldTruths'
           /\ sent' \subseteq FrameUniverse /\ sent \subseteq sent'
<1>1. PICK w, q :
          /\ w \in Words(book')
          /\ q = book'.qty \/ (q = 0 /\ QtyGarbled)
          /\ sent' = sent \cup { [ broker_order_id |-> BrokerId, status |-> w,
                                  filled_qty |-> book'.filled_qty, qty |-> q,
                                  price |-> book'.price, broker_ts |-> bnow ] }
  BY DEF BookStep, Emit, Reports
<1> DEFINE new == [ broker_order_id |-> BrokerId, status |-> w,
                    filled_qty |-> book'.filled_qty, qty |-> q,
                    price |-> book'.price, broker_ts |-> bnow ]
<1>2. MaxQty \in Nat /\ MaxTime \in Nat
  BY LifecycleAssumption
<1>w. /\ WorkingWords \subseteq {"OPEN", "TRIGGER PENDING"}
      /\ CompleteWords \subseteq {"OPEN", "TRIGGER PENDING", "COMPLETE"}
  BY LifecycleAssumption
<1>3. /\ book'.status = "open" => w \in {"OPEN", "TRIGGER PENDING"}
      /\ book'.status = "complete" => w \in {"OPEN", "TRIGGER PENDING", "COMPLETE"}
      /\ book'.status = "cancelled" => w = "CANCELLED"
      /\ book'.status = "rejected" => w = "REJECTED"
  BY <1>1, <1>w DEF Words
<1>4. /\ w \in {"OPEN", "TRIGGER PENDING"} \cup FinalWords
      /\ w = "CANCELLED" => book'.status = "cancelled"
      /\ w = "REJECTED" => book'.status = "rejected"
      /\ w = "COMPLETE" => book'.status = "complete"
  BY <1>3 DEF FinalWords
<1>5. q \in 0 .. MaxQty /\ (q # 0 => q = book'.qty) /\ (~QtyGarbled => q # 0)
  <2>1. book'.qty # 0 /\ book'.qty \in 0 .. MaxQty /\ 0 \in 0 .. MaxQty
    BY <1>2
  <2> QED BY <1>1, <2>1
<1>6. bnow \in 0 .. MaxTime
  <2>1. bnow \in 0 .. now /\ now \in 0 .. MaxTime
    BY RowFacts DEF IInv, TypeOK
  <2> QED BY <1>2, <2>1
<1>7. w \in WordsInUse
  <2>1. book'.status \in {"open", "complete", "cancelled"} \/ w = "REJECTED"
    BY <1>1 DEF Words
  <2> QED BY <1>1, <1>3, <2>1 DEF Words, WordsInUse
<1>8. new \in FrameUniverse
  BY <1>5, <1>6, <1>7 DEF FrameUniverse
<1>9. sent' \subseteq FrameUniverse /\ sent \subseteq sent'
  BY <1>1, <1>8 DEF IInv, TypeOK
<1>10. /\ row' = row /\ applied' = applied
  BY DEF BookStep
<1>11. /\ book.filled_qty \in Nat /\ book'.filled_qty \in Nat /\ row.filled_qty \in Nat
       /\ row.filled_qty <= book.filled_qty /\ book'.qty \in Nat
  <2>1. TypeOK /\ row.filled_qty <= book.filled_qty
    BY DEF IInv, RowNeverAheadOfBook, FillsNeverAhead
  <2>2. book'.filled_qty \in Nat /\ book'.qty \in Nat
    BY <1>2
  <2>3. book.filled_qty \in 0 .. MaxQty /\ row.filled_qty \in 0 .. MaxQty
    BY <2>1, RowFacts
  <2> QED BY <1>2, <2>1, <2>2, <2>3
<1>12. BookConsistent'
  <2>1. book'.status # "absent" /\ book'.price \in Prices
    OBVIOUS
  <2>2. book'.qty > 0
    BY <1>2
  <2> QED BY <2>1, <2>2 DEF BookConsistent
<1>13. \A f \in sent : ~SaysOver(f) /\ f.status \notin FinalWords
  BY DEF IInv, FramesAreOldTruths, BookConsistent, Broker!Closed, SaysOver
<1>14. SaysOver(new) => book'.status \in Broker!Closed
                          /\ (w \notin {"CANCELLED", "REJECTED"} => book'.status = "complete")
  <2>1. CASE w \in FinalWords
    BY <1>4, <2>1 DEF FinalWords, Broker!Closed
  <2>2. CASE w \notin FinalWords
    <3> SUFFICES ASSUME SaysOver(new) PROVE book'.status = "complete"
      BY DEF Broker!Closed
    <3>1. q # 0 /\ book'.filled_qty >= q
      BY <2>2 DEF SaysOver
    <3>2. book'.status # "open"
      BY <1>5, <1>11, <3>1
    <3> QED BY <1>3, <2>2, <3>2 DEF FinalWords
  <2> QED BY <2>1, <2>2
<1>15. FramesAreOldTruths'
  <2> SUFFICES ASSUME NEW f \in sent'
               PROVE  /\ f.status \in {"OPEN", "TRIGGER PENDING"} \cup FinalWords
                      /\ ~QtyGarbled => f.qty # 0
                      /\ f.filled_qty <= book'.filled_qty
                      /\ SaysOver(f) => f.filled_qty = book'.filled_qty
                                          /\ book'.status \in Broker!Closed
                      /\ f.status = "CANCELLED" => book'.status = "cancelled"
                      /\ f.status = "REJECTED" => book'.status = "rejected"
                      /\ f.status \notin {"CANCELLED", "REJECTED"} /\ SaysOver(f) =>
                            book'.status = "complete"
    BY DEF FramesAreOldTruths, SaysOver, Broker!Closed
  <2>1. CASE f = new
    <3>1. /\ new.filled_qty = book'.filled_qty /\ new.status = w /\ new.qty = q
      OBVIOUS
    <3>2. new.filled_qty <= book'.filled_qty
      BY <1>11, <3>1
    <3> QED BY <1>4, <1>5, <1>14, <2>1, <3>1, <3>2
  <2>2. CASE f \in sent
    <3>1. f.filled_qty \in Nat /\ f.filled_qty <= book.filled_qty
      BY <2>2, RowFacts DEF IInv, FramesAreOldTruths, BrokerUpdate
    <3>2. f.filled_qty <= book'.filled_qty
      BY <1>11, <3>1
    <3>3. /\ ~SaysOver(f) /\ f.status \notin FinalWords
          /\ f.status \in {"OPEN", "TRIGGER PENDING"} \cup FinalWords
          /\ ~QtyGarbled => f.qty # 0
      BY <1>13, <2>2 DEF IInv, FramesAreOldTruths
    <3> QED BY <3>2, <3>3 DEF FinalWords
  <2> QED BY <1>1, <2>1, <2>2
<1>16. /\ row.state \notin {"CANCELLED", "REJECTED"}
       /\ row.state = "FILLED" => QtyGarbled
  BY DEF IInv, RowNeverAheadOfBook, OutcomeNeverAhead, CallsMatchRow
<1>17. RowPart'
  <2>1. FillsNeverAhead' /\ OutcomeNeverAhead'
    BY <1>10, <1>11, <1>16 DEF FillsNeverAhead, OutcomeNeverAhead
  <2>2. TerminalRowIsFinal'
    BY <1>10, <1>16 DEF TerminalRowIsFinal
  <2>3. NoAppliedFillMissing'
    BY <1>10 DEF IInv, NoAppliedFillMissing
  <2>4. FinalFrameSettles'
    BY <1>10, <1>13 DEF IInv, TypeOK, FinalFrameSettles, FinalWords
  <2>5. RowType(row)'
    BY <1>10 DEF IInv, TypeOK, RowType
  <2> QED BY <2>1, <2>2, <2>3, <2>4, <2>5 DEF RowPart, RowNeverAheadOfBook
<1> QED BY <1>9, <1>12, <1>15, <1>17

(* Steps that touch neither the row, nor the book, nor what was sent or applied. *)
LEMMA WireStep ==
    ASSUME IInv, UNCHANGED <<row, book, sent, applied, placeCall, prior>>
    PROVE  RowPart' /\ BookConsistent' /\ FramesAreOldTruths'
  BY DEF IInv, RowPart, TypeOK, RowType, BookConsistent, FramesAreOldTruths,
         TerminalRowIsFinal, RowNeverAheadOfBook, FillsNeverAhead, OutcomeNeverAhead,
         NoAppliedFillMissing, FinalFrameSettles

(* The parts of the type invariant that are not about the row. *)
Parameters == [qty : 0 .. MaxQty, price : Prices \cup {0}]

BookType ==
    book \in [ status : {"absent", "open", "complete", "cancelled", "rejected"},
               qty : 0 .. MaxQty, price : Prices \cup {0}, filled_qty : 0 .. MaxQty ]

WireType ==
    /\ sent \subseteq FrameUniverse /\ applied \subseteq sent /\ dropped \subseteq sent
    /\ buffer \in Seq(Entry) /\ drain \in Seq(Entry)

CallType ==
    /\ placeCall \in {"idle", "inflight", "returned", "failed", "lost"}
    /\ cancelCall \in {"idle", "inflight", "refused"}
    /\ modifyCall \in [st : {"idle", "inflight", "refused"}, fields : Parameters]

ClockType == now \in 1 .. MaxTime /\ bnow \in 0 .. now /\ now - bnow <= MaxLag

RestType == prior \in Parameters /\ BookType /\ WireType /\ CallType /\ ClockType

(* The type invariant, split into the row and the rest. *)
LEMMA TypeParts == TypeOK <=> RowType(row) /\ RestType
  BY DEF TypeOK, RowType, RestType, Parameters, BookType, WireType, CallType, ClockType

(* What IInv says, conjunct by conjunct: citing this lemma instead of unfolding
   IInv keeps the leaves small. *)
LEMMA Parts ==
    IInv <=> RestType /\ RowPart /\ BookConsistent /\ FramesAreOldTruths /\ CallsMatchRow
  BY TypeParts DEF IInv, RowPart

(* The same parts, after the step, give IInv after the step. *)
LEMMA PartsNext ==
    ASSUME RestType', RowPart', BookConsistent', FramesAreOldTruths', CallsMatchRow'
    PROVE  IInv'
<1>1. TypeOK'
  BY DEF TypeOK, RowPart, RowType, RestType, Parameters, BookType, WireType, CallType, ClockType
<1> QED BY <1>1 DEF IInv, RowPart

(* A frame that names no new parameters is well typed. *)
LEMMA NoFieldsType ==
    NoFields \in Parameters
<1>1. MaxQty \in Nat
  BY LifecycleAssumption
<1>2. 0 \in 0 .. MaxQty
  BY <1>1
<1> QED BY <1>2 DEF NoFields, Parameters

-----------------------------------------------------------------------------
(* A row just inserted, with nothing sent, satisfies the invariant. *)
LEMMA InitInvariant == Init => IInv
<1> SUFFICES ASSUME Init PROVE IInv
  OBVIOUS
<1>1. /\ MaxQty \in Nat /\ MaxTime \in Nat \ {0} /\ MaxLag \in Nat
      /\ InitialQty \in Nat \ {0} /\ InitialQty <= MaxQty
  BY LifecycleAssumption
<1>2. InitialPrice \in Prices /\ InitialPrice \in Nat \ {0} /\ BrokerId # NoId
  BY LifecycleAssumption
<1>3. row = [ state |-> "DRAFT", broker_order_id |-> NoId, qty |-> InitialQty,
              price |-> InitialPrice, filled_qty |-> 0, modifications |-> 0,
              updated_at |-> 0 ]
  BY DEF Init, Row!NewOrder
<1>4. row \in PlatformOrder({BrokerId})
  <2>1. 0 \in 0 .. MODIFICATION_CAP
    BY CapAssumption
  <2> QED BY <1>1, <1>2, <1>3, <2>1 DEF PlatformOrder, OrderState
<1>5. RowType(row)
  BY <1>1, <1>2, <1>3, <1>4 DEF RowType
<1>6. book = [status |-> "absent", qty |-> 0, price |-> 0, filled_qty |-> 0]
  BY DEF Init, Broker!NoBook
<1>7. RestType
  <2>1. 0 \in 0 .. MaxQty
    BY <1>1
  <2>2. BookType
    BY <1>6, <2>1 DEF BookType
  <2>3. ClockType
    BY <1>1 DEF Init, ClockType
  <2>4. prior \in Parameters /\ CallType
    BY NoFieldsType DEF Init, Idle, CallType
  <2>5. WireType
    BY DEF Init, WireType
  <2> QED BY <2>2, <2>3, <2>4, <2>5 DEF RestType
<1>8. RowPart
  BY <1>3, <1>5, <1>6 DEF Init, RowPart, TerminalRowIsFinal, RowNeverAheadOfBook,
        FillsNeverAhead, OutcomeNeverAhead, NoAppliedFillMissing, FinalFrameSettles
<1>9. BookConsistent /\ FramesAreOldTruths
  BY <1>6 DEF Init, BookConsistent, FramesAreOldTruths
<1>10. CallsMatchRow
  BY <1>3 DEF Init, CallsMatchRow
<1> QED BY <1>7, <1>8, <1>9, <1>10, Parts

-----------------------------------------------------------------------------
(* One lemma per kind of step; the actions below only choose among them. *)

(* Steps that do not concern the broker leave its book. *)
LEMMA BookStays ==
    ASSUME IInv, UNCHANGED <<book, sent>>
    PROVE  BookConsistent' /\ FramesAreOldTruths'
  BY DEF IInv, BookConsistent, FramesAreOldTruths

(* What was sent stays sent: a buffer of sent frames remains one. *)
LEMMA SeqGrows ==
    ASSUME NEW S, NEW T, S \subseteq T, NEW s \in Seq(S)
    PROVE  s \in Seq(T)
  OBVIOUS

(* A platform edge to a state that is no outcome of the broker. *)
LEMMA EdgeStep ==
    ASSUME IInv, NEW to, NEW table, NEW filled, NEW delta \in Nat, NEW fields \in Parameters,
           table \subseteq ALLOWED_TRANSITIONS \cup CANCEL_REJECTED_TRANSITIONS,
           EdgeLegal(row, to, table, filled, delta), filled = row.filled_qty,
           to \notin {"FILLED", "CANCELLED", "REJECTED"},
           row' = ApplyEdge(row, to, filled, delta, fields, now),
           UNCHANGED <<applied, book, sent>>
    PROVE  /\ RowPart' /\ BookConsistent' /\ FramesAreOldTruths'
           /\ row'.state = to /\ <<row.state, to>> \in table
           /\ row'.broker_order_id = row.broker_order_id
           /\ row'.filled_qty = row.filled_qty
<1>1. TypeOK
  BY DEF IInv
<1>2. /\ RowType(row') /\ row'.filled_qty = row.filled_qty
      /\ row'.state = to /\ <<row.state, to>> \in table
      /\ row'.broker_order_id = row.broker_order_id
      /\ row.state \notin TERMINAL_ORDER_STATES
  BY <1>1, PlatformEdge DEF Parameters
<1>3. RowPart'
  BY <1>2, PlatformMove
<1> QED BY <1>2, <1>3, BookStays

(* ... in particular through transition, which carries only the state. *)
LEMMA TransitionStep ==
    ASSUME IInv, NEW to, CanTransition(row, to),
           to \notin {"FILLED", "CANCELLED", "REJECTED"},
           row' = Transition(row, to, now),
           UNCHANGED <<applied, book, sent>>
    PROVE  /\ RowPart' /\ BookConsistent' /\ FramesAreOldTruths'
           /\ row'.state = to /\ <<row.state, to>> \in ALLOWED_TRANSITIONS
           /\ row'.broker_order_id = row.broker_order_id
           /\ row'.filled_qty = row.filled_qty
<1>1. PreservedFill(row, to) = row.filled_qty
  BY DEF PreservedFill
<1>2. EdgeLegal(row, to, ALLOWED_TRANSITIONS, row.filled_qty, 0)
  BY <1>1 DEF CanTransition
<1>3. row' = ApplyEdge(row, to, row.filled_qty, 0, NoFields, now)
  BY <1>1 DEF Transition
<1> QED BY <1>2, <1>3, NoFieldsType, EdgeStep

(* The platform's own variables do not move in a step of the broker's book. *)
LEMMA BrokerStep ==
    ASSUME IInv, BookStep,
           book.status \in {"absent", "open"},
           book.status = "absent" => placeCall \in {"inflight", "lost"},
           BookType',
           book'.status \in {"open", "complete", "cancelled", "rejected"},
           book'.qty \in 1 .. MaxQty, book'.price \in Prices,
           book'.filled_qty >= book.filled_qty, book'.filled_qty <= book'.qty,
           book'.status = "open" => book'.filled_qty < book'.qty,
           book'.status = "complete" => book'.filled_qty = book'.qty,
           CallType'
    PROVE  IInv'
<1>1. book'.filled_qty \in 0 .. MaxQty
  BY DEF BookType
<1>2. /\ RowPart' /\ BookConsistent' /\ FramesAreOldTruths'
      /\ sent' \subseteq FrameUniverse /\ sent \subseteq sent'
  BY <1>1, BookForward
<1>3. UNCHANGED <<row, prior, applied, buffer, drain, dropped, placeCall, now, bnow>>
  BY DEF BookStep, clocks
<1>4. RestType
  BY Parts
<1>5. WireType'
  <2>1. buffer \in Seq(Entry) /\ drain \in Seq(Entry)
    BY <1>4 DEF RestType, WireType
  <2>2. Entry \subseteq Entry'
    BY <1>2 DEF Entry
  <2>3. buffer \in Seq(Entry') /\ drain \in Seq(Entry')
    BY <2>1, <2>2, SeqGrows
  <2>4. FrameUniverse' = FrameUniverse
    BY DEF FrameUniverse
  <2>5. /\ sent' \subseteq FrameUniverse' /\ applied' \subseteq sent' /\ dropped' \subseteq sent'
    BY <1>2, <1>3, <1>4, <2>4 DEF RestType, WireType
  <2> QED BY <1>3, <2>3, <2>5 DEF WireType
<1>6. RestType'
  BY <1>3, <1>4, <1>5 DEF RestType, ClockType, Parameters
<1>7. CallsMatchRow'
  BY <1>3 DEF IInv, CallsMatchRow
<1> QED BY <1>2, <1>6, <1>7, PartsNext

-----------------------------------------------------------------------------
(* The platform's steps. *)

(* A validation moves the row before anything is sent. *)
LEMMA ValidateStep == ASSUME IInv, Validate PROVE IInv'
<1>1. /\ RowPart' /\ BookConsistent' /\ FramesAreOldTruths'
      /\ row'.state = "VALIDATED" /\ <<row.state, "VALIDATED">> \in ALLOWED_TRANSITIONS
      /\ row'.broker_order_id = row.broker_order_id /\ row'.filled_qty = row.filled_qty
  BY TransitionStep DEF Validate, wire
<1>2. row.state = "DRAFT"
  BY <1>1 DEF ALLOWED_TRANSITIONS, DIAGRAM_TRANSITIONS, BROKER_REALITY_TRANSITIONS
<1>3. RestType'
  BY Parts DEF Validate, wire, calls, clocks, RestType, Parameters, BookType,
      WireType, Entry, FrameUniverse, CallType, ClockType
<1>4. CallsMatchRow'
  BY <1>1, <1>2 DEF Validate, wire, calls, IInv, CallsMatchRow
<1> QED BY <1>1, <1>3, <1>4, PartsNext

(* The row is submitted: place_order is in flight. *)
LEMMA SubmitStep == ASSUME IInv, Submit PROVE IInv'
<1>1. TypeOK /\ row.state = "VALIDATED"
  BY DEF IInv, Submit
<1>2. row \in PlatformOrder({BrokerId})
  BY <1>1, RowFacts
<1>3. CanTransition(row, "SUBMITTED")
  <2>1. EdgeExists(row, "SUBMITTED", ALLOWED_TRANSITIONS)
    BY <1>1 DEF EdgeExists, ALLOWED_TRANSITIONS, DIAGRAM_TRANSITIONS, TERMINAL_ORDER_STATES
  <2>2. QuantityAccepted(row, "SUBMITTED", row.filled_qty, 0)
    BY <1>2, CapAssumption DEF PlatformOrder, QuantityAccepted
  <2> QED BY <2>1, <2>2 DEF CanTransition, EdgeLegal, PreservedFill
<1>4. /\ RowPart' /\ BookConsistent' /\ FramesAreOldTruths'
      /\ row'.state = "SUBMITTED"
      /\ row'.broker_order_id = row.broker_order_id /\ row'.filled_qty = row.filled_qty
  BY <1>3, TransitionStep DEF Submit, wire
<1>5. RestType'
  BY Parts DEF Submit, wire, calls, clocks, RestType, Parameters, BookType,
      WireType, Entry, FrameUniverse, CallType, ClockType
<1>6. CallsMatchRow'
  BY <1>1, <1>4 DEF Submit, wire, IInv, CallsMatchRow
<1> QED BY <1>4, <1>5, <1>6, PartsNext

(* The platform records its intent to cancel. *)
LEMMA IssueCancelStep == ASSUME IInv, IssueCancel PROVE IInv'
<1>1. /\ RowPart' /\ BookConsistent' /\ FramesAreOldTruths'
      /\ row'.state = "CANCEL_PENDING"
      /\ row'.broker_order_id = row.broker_order_id /\ row'.filled_qty = row.filled_qty
  BY TransitionStep DEF IssueCancel, wire
<1>2. RestType'
  BY Parts DEF IssueCancel, wire, calls, clocks, RestType, Parameters, BookType,
      WireType, Entry, FrameUniverse, CallType, ClockType
<1>3. placeCall = "returned" /\ row.broker_order_id # NoId
  BY DEF IssueCancel, IInv, CallsMatchRow
<1>4. CallsMatchRow'
  BY <1>1, <1>3 DEF IssueCancel, wire, IInv, CallsMatchRow
<1> QED BY <1>1, <1>2, <1>4, PartsNext

(* The validity of the order ends. *)
LEMMA LapseStep == ASSUME IInv, Lapse PROVE IInv'
<1>1. /\ RowPart' /\ BookConsistent' /\ FramesAreOldTruths'
      /\ row'.state = "LAPSED" /\ <<row.state, "LAPSED">> \in ALLOWED_TRANSITIONS
      /\ row'.broker_order_id = row.broker_order_id /\ row'.filled_qty = row.filled_qty
  BY TransitionStep DEF Lapse, wire
<1>2. row.state \in {"ACKED", "PARTIALLY_FILLED"}
  BY <1>1 DEF ALLOWED_TRANSITIONS, DIAGRAM_TRANSITIONS, BROKER_REALITY_TRANSITIONS
<1>3. RestType'
  BY Parts DEF Lapse, wire, calls, clocks, RestType, Parameters, BookType,
      WireType, Entry, FrameUniverse, CallType, ClockType
<1>4. placeCall \in {"idle", "inflight", "returned", "failed", "lost"}
  BY DEF IInv, TypeOK
<1>5. CallsMatchRow'
  BY <1>1, <1>2, <1>4 DEF Lapse, wire, calls, IInv, CallsMatchRow
<1> QED BY <1>1, <1>3, <1>5, PartsNext

(* The platform amends the row and sends the modify. *)
LEMMA IssueAmendStep ==
    ASSUME IInv, NEW fields \in Amendments, IssueAmend(fields) PROVE IInv'
<1>1. fields \in Parameters
  BY LifecycleAssumption DEF Parameters
<1>2. EdgeLegal(row, "MODIFY_PENDING", ALLOWED_TRANSITIONS, row.filled_qty, 1)
  BY DEF IssueAmend, CanAmend
<1>3. row' = ApplyEdge(row, "MODIFY_PENDING", row.filled_qty, 1, fields, now)
  BY DEF IssueAmend, Amend
<1>4. /\ RowPart' /\ BookConsistent' /\ FramesAreOldTruths'
      /\ row'.state = "MODIFY_PENDING"
      /\ row'.broker_order_id = row.broker_order_id /\ row'.filled_qty = row.filled_qty
  <2>1. UNCHANGED <<applied, book, sent>> /\ 1 \in Nat
    BY DEF IssueAmend, wire
  <2>2. "MODIFY_PENDING" \notin {"FILLED", "CANCELLED", "REJECTED"}
    OBVIOUS
  <2> QED BY <1>1, <1>2, <1>3, <2>1, <2>2, EdgeStep
<1>5. prior' \in Parameters
  <2>1. row.qty \in 0 .. MaxQty /\ 0 \in 0 .. MaxQty
    <3>1. row.qty \in 1 .. MaxQty /\ MaxQty \in Nat
      BY RowFacts, LifecycleAssumption DEF IInv
    <3> QED BY <3>1
  <2>2. row.price \in Prices
    BY RowFacts DEF IInv
  <2> QED BY <2>1, <2>2 DEF IssueAmend, PriorFields, Parameters
<1>6. CallType'
  BY <1>1, Parts DEF IssueAmend, RestType, CallType, Parameters
<1>7. RestType'
  BY <1>5, <1>6, Parts DEF IssueAmend, wire, clocks, RestType, Parameters, BookType,
      WireType, Entry, FrameUniverse, ClockType
<1>8. placeCall = "returned" /\ row.broker_order_id # NoId
  BY DEF IssueAmend, IInv, CallsMatchRow
<1>9. CallsMatchRow'
  BY <1>4, <1>8 DEF IssueAmend, wire, IInv, CallsMatchRow
<1> QED BY <1>4, <1>7, <1>9, PartsNext

(* The refusal of a cancel returns the row to the state its fill implies. *)
LEMMA CancelRefusedStep == ASSUME IInv, CancelRefused PROVE IInv'
<1>1. RestType'
  BY Parts DEF CancelRefused, wire, clocks, RestType, Parameters, BookType,
      WireType, Entry, FrameUniverse, CallType, ClockType
<1>2. /\ RowPart' /\ BookConsistent' /\ FramesAreOldTruths'
      /\ row'.broker_order_id = row.broker_order_id /\ row'.filled_qty = row.filled_qty
      /\ row' = row \/ (row.state = "CANCEL_PENDING"
                         /\ row'.state \in {"ACKED", "PARTIALLY_FILLED"})
  <2>1. UNCHANGED <<applied, book, sent, placeCall, prior>> /\ 0 \in Nat
    BY DEF CancelRefused, wire
  <2>2. CASE CanCancelRejected(row)
    <3>1. /\ EdgeLegal(row, FillState(row), CANCEL_REJECTED_TRANSITIONS, row.filled_qty, 0)
          /\ row.state = "CANCEL_PENDING"
          /\ FillState(row) \in {"ACKED", "PARTIALLY_FILLED"}
      BY <2>2 DEF CanCancelRejected, FillState
    <3>2. row' = ApplyEdge(row, FillState(row), row.filled_qty, 0, NoFields, now)
      BY <2>2 DEF CancelRefused, CancelRejected
    <3>3. FillState(row) \notin {"FILLED", "CANCELLED", "REJECTED"}
      BY <3>1
    <3> QED BY <2>1, <3>1, <3>2, <3>3, NoFieldsType, EdgeStep
  <2>3. CASE ~CanCancelRejected(row)
    <3>1. row' = row
      BY <2>3 DEF CancelRefused
    <3> QED BY <2>1, <3>1, WireStep
  <2> QED BY <2>2, <2>3
<1>3. CallsMatchRow'
  BY <1>2 DEF CancelRefused, wire, IInv, CallsMatchRow
<1> QED BY <1>1, <1>2, <1>3, PartsNext

(* The refusal of a modify restores the parameters of before. *)
LEMMA ModifyRefusedStep == ASSUME IInv, ModifyRefused PROVE IInv'
<1>1. RestType'
  BY NoFieldsType, Parts DEF ModifyRefused, wire, clocks, RestType, Parameters, BookType,
      WireType, Entry, FrameUniverse, CallType, ClockType, Idle
<1>2. /\ RowPart' /\ BookConsistent' /\ FramesAreOldTruths'
      /\ row'.broker_order_id = row.broker_order_id /\ row'.filled_qty = row.filled_qty
      /\ row' = row \/ (row.state = "MODIFY_PENDING"
                         /\ row'.state \in {"ACKED", "PARTIALLY_FILLED"})
  <2>1. UNCHANGED <<applied, book, sent, placeCall, prior>> /\ 0 \in Nat
    BY DEF ModifyRefused, wire
  <2>2. CASE CanModifyRejected(row)
    <3>1. /\ EdgeLegal(row, FillState(row), ALLOWED_TRANSITIONS, row.filled_qty, 0)
          /\ row.state = "MODIFY_PENDING"
          /\ FillState(row) \in {"ACKED", "PARTIALLY_FILLED"}
      BY <2>2 DEF CanModifyRejected, FillState
    <3>2. row' = ApplyEdge(row, FillState(row), row.filled_qty, 0, prior, now)
      BY <2>2 DEF ModifyRefused, ModifyRejected
    <3>3. FillState(row) \notin {"FILLED", "CANCELLED", "REJECTED"}
      BY <3>1
    <3>4. prior \in Parameters
      BY Parts DEF RestType
    <3> QED BY <2>1, <3>1, <3>2, <3>3, <3>4, EdgeStep
  <2>3. CASE ~CanModifyRejected(row)
    <3>1. row' = row
      BY <2>3 DEF ModifyRefused
    <3> QED BY <2>1, <3>1, WireStep
  <2> QED BY <2>2, <2>3
<1>3. CallsMatchRow'
  BY <1>2 DEF ModifyRefused, wire, IInv, CallsMatchRow
<1> QED BY <1>1, <1>2, <1>3, PartsNext

(* The one platform edge to an outcome: the broker never took the order. *)
LEMMA PlaceRefusedStep == ASSUME IInv, PlaceRefused PROVE IInv'
<1>1. /\ row.state = "SUBMITTED" /\ row.broker_order_id = NoId /\ row.filled_qty = 0
      /\ drain = <<>> /\ applied = {} /\ book.status = "absent" /\ placeCall = "inflight"
  BY DEF IInv, CallsMatchRow, PlaceRefused
<1>2. TypeOK /\ row \in PlatformOrder({BrokerId})
  BY RowFacts DEF IInv
<1>3. EdgeLegal(row, "REJECTED", ALLOWED_TRANSITIONS, row.filled_qty, 0)
  <2>1. EdgeExists(row, "REJECTED", ALLOWED_TRANSITIONS)
    BY <1>1 DEF EdgeExists, ALLOWED_TRANSITIONS, DIAGRAM_TRANSITIONS, TERMINAL_ORDER_STATES
  <2>2. QuantityAccepted(row, "REJECTED", row.filled_qty, 0)
    BY <1>2, CapAssumption DEF PlatformOrder, QuantityAccepted
  <2> QED BY <2>1, <2>2 DEF EdgeLegal
<1>4. row' = ApplyEdge(row, "REJECTED", row.filled_qty, 0, NoFields, now)
  BY DEF PlaceRefused, Transition, PreservedFill
<1>5. /\ RowType(row') /\ row'.filled_qty = row.filled_qty
      /\ row'.state = "REJECTED" /\ row'.broker_order_id = row.broker_order_id
  BY <1>2, <1>3, <1>4, NoFieldsType, PlatformEdge DEF Parameters
<1>6. UNCHANGED <<book, sent, applied, drain>>
  BY DEF PlaceRefused, wire
<1>7. RowPart'
  <2>1. TerminalRowIsFinal' /\ OutcomeNeverAhead'
    BY <1>1, <1>5, <1>6 DEF TerminalRowIsFinal, OutcomeNeverAhead
  <2>2. FillsNeverAhead'
    BY <1>5, <1>6 DEF IInv, RowNeverAheadOfBook, FillsNeverAhead
  <2>3. NoAppliedFillMissing' /\ FinalFrameSettles'
    BY <1>1, <1>6 DEF NoAppliedFillMissing, FinalFrameSettles
  <2> QED BY <1>5, <2>1, <2>2, <2>3 DEF RowPart, RowNeverAheadOfBook
<1>8. RestType'
  BY Parts DEF PlaceRefused, wire, clocks, RestType, Parameters, BookType,
      WireType, Entry, FrameUniverse, CallType, ClockType
<1>9. CallsMatchRow'
  BY <1>1, <1>5, <1>6 DEF PlaceRefused, CallsMatchRow
<1> QED BY <1>6, <1>7, <1>8, <1>9, BookStays, PartsNext

(* place_order answers: the row is correlated, the buffer drained. *)
LEMMA PlaceReturnsStep == ASSUME IInv, PlaceReturns PROVE IInv'
<1>1. /\ row.state = "SUBMITTED" /\ row.filled_qty = 0 /\ applied = {}
  BY DEF IInv, CallsMatchRow, PlaceReturns
<1>2. row \in PlatformOrder({BrokerId}) /\ BrokerId # NoId
  BY RowFacts, LifecycleAssumption DEF IInv
<1>3. /\ row' \in PlatformOrder({BrokerId}) /\ row'.broker_order_id = BrokerId
      /\ row'.state = "SUBMITTED" /\ row'.filled_qty = row.filled_qty
      /\ row'.qty = row.qty /\ row'.price = row.price /\ row'.updated_at = row.updated_at
  BY <1>1, <1>2 DEF PlaceReturns, Correlate, PlatformOrder
<1>4. UNCHANGED <<book, sent, applied>>
  BY DEF PlaceReturns
<1>5. RowType(row')
  BY <1>3 DEF IInv, TypeOK, RowType
<1>6. RowPart'
  <2>1. TerminalRowIsFinal' /\ OutcomeNeverAhead'
    BY <1>3 DEF TerminalRowIsFinal, OutcomeNeverAhead
  <2>2. FillsNeverAhead'
    BY <1>3, <1>4 DEF IInv, RowNeverAheadOfBook, FillsNeverAhead
  <2>3. NoAppliedFillMissing' /\ FinalFrameSettles'
    BY <1>1, <1>4 DEF NoAppliedFillMissing, FinalFrameSettles
  <2> QED BY <1>5, <2>1, <2>2, <2>3 DEF RowPart, RowNeverAheadOfBook
<1>7. RestType'
  BY Parts DEF PlaceReturns, clocks, RestType, Parameters, BookType,
      WireType, Entry, FrameUniverse, CallType, ClockType
<1>8. CallsMatchRow'
  BY <1>2, <1>3 DEF PlaceReturns, CallsMatchRow
<1> QED BY <1>4, <1>6, <1>7, <1>8, BookStays, PartsNext

(* The answer of place_order is lost: the row stays uncorrelated. *)
LEMMA PlaceLostStep == ASSUME IInv, PlaceLost PROVE IInv'
<1>1. RestType'
  BY Parts DEF PlaceLost, wire, clocks, RestType, Parameters, BookType,
      WireType, Entry, FrameUniverse, CallType, ClockType
<1>2. CallsMatchRow'
  BY DEF PlaceLost, wire, IInv, CallsMatchRow
<1>3. RowPart' /\ BookConsistent' /\ FramesAreOldTruths'
  BY DEF PlaceLost, wire, IInv, RowPart, TypeOK, RowType, BookConsistent, FramesAreOldTruths,
         TerminalRowIsFinal, RowNeverAheadOfBook, FillsNeverAhead, OutcomeNeverAhead,
         NoAppliedFillMissing, FinalFrameSettles
<1> QED BY <1>1, <1>2, <1>3, PartsNext

-----------------------------------------------------------------------------
(* The postback loop. *)

(* A frame held for correlation is still a past truth of the book. *)
LEMMA HoldStep == ASSUME IInv, NEW f \in sent, Hold(f) PROVE IInv'
<1> DEFINE held == Append(buffer, [frame |-> f, at |-> now])
<1>1. buffer \in Seq(Entry) /\ dropped \subseteq sent
  BY Parts DEF RestType, WireType
<1>2. [frame |-> f, at |-> now] \in Entry
  BY RowFacts DEF IInv, Entry
<1>3. held \in Seq(Entry) /\ held # <<>>
  <2>1. held \in Seq(Entry) /\ Len(held) = Len(buffer) + 1 /\ Len(buffer) \in Nat
    BY <1>1, <1>2
  <2> HIDE DEF held
  <2>2. Len(held) # 0
    BY <2>1
  <2> QED BY <2>1, <2>2
<1>4. Tail(held) \in Seq(Entry) /\ Head(held) \in Entry
  BY <1>3
<1>5. buffer' \in {held, Tail(held)} /\ dropped' \in {dropped, dropped \cup {Head(held).frame}}
  BY DEF Hold
<1>6. Head(held).frame \in sent
  BY <1>4 DEF Entry
<1>7. buffer' \in Seq(Entry) /\ dropped' \subseteq sent
  BY <1>1, <1>3, <1>4, <1>5, <1>6
<1>8. UNCHANGED <<row, prior, book, sent, applied, drain, placeCall, cancelCall, modifyCall, now, bnow>>
  BY DEF Hold, calls, clocks
<1>9. RestType'
  BY <1>7, <1>8, Parts DEF RestType, Parameters, BookType, WireType, Entry,
      FrameUniverse, CallType, ClockType
<1>10. CallsMatchRow'
  BY <1>8 DEF IInv, CallsMatchRow
<1>11. RowPart' /\ BookConsistent' /\ FramesAreOldTruths'
  BY <1>8, WireStep
<1> QED BY <1>9, <1>10, <1>11, PartsNext

(* The buffer expires what nobody claimed. *)
LEMMA SweepStep == ASSUME IInv, Sweep PROVE IInv'
<1>1. PICK k \in 1 .. Len(buffer) :
          /\ dropped' = dropped \cup {buffer[i].frame : i \in 1 .. k}
          /\ buffer' = SubSeq(buffer, k + 1, Len(buffer))
          /\ UNCHANGED <<row, prior, book, sent, applied, drain, calls, clocks>>
  BY DEF Sweep
<1>2. buffer \in Seq(Entry) /\ dropped \subseteq sent
  BY Parts DEF RestType, WireType
<1>3. buffer' \in Seq(Entry)
  BY <1>1, <1>2
<1>4. \A i \in 1 .. k : buffer[i].frame \in sent
  <2>1. \A i \in 1 .. k : buffer[i] \in Entry
    BY <1>1, <1>2
  <2> QED BY <2>1 DEF Entry
<1>5. dropped' \subseteq sent
  BY <1>1, <1>2, <1>4
<1>6. UNCHANGED <<row, prior, book, sent, applied, drain, placeCall, cancelCall, modifyCall, now, bnow>>
  BY <1>1 DEF calls, clocks
<1>7. RestType'
  BY <1>3, <1>5, <1>6, Parts DEF RestType, Parameters, BookType, WireType, Entry,
      FrameUniverse, CallType, ClockType
<1>8. CallsMatchRow'
  BY <1>6 DEF IInv, CallsMatchRow
<1>9. RowPart' /\ BookConsistent' /\ FramesAreOldTruths'
  BY <1>6, WireStep
<1> QED BY <1>7, <1>8, <1>9, PartsNext

(* What the row looks like once any frame has been applied to it. *)
LEMMA AppliedRow ==
    ASSUME IInv, NEW f \in sent, NEW at \in 0 .. MaxTime, row.broker_order_id # NoId,
           row' = ApplyUpdate(row, f, at), applied' = applied \cup {f},
           drain' \in Seq(Entry),
           UNCHANGED <<prior, book, sent, buffer, dropped, calls, clocks>>
    PROVE  IInv'
<1>1. /\ RowPart' /\ row'.broker_order_id = row.broker_order_id
      /\ row'.state \notin {"DRAFT", "VALIDATED"}
  BY ApplyFrame
<1>2. BookConsistent' /\ FramesAreOldTruths'
  BY BookStays
<1>3. RestType'
  BY Parts DEF calls, clocks, RestType, Parameters, BookType, WireType, Entry,
      FrameUniverse, CallType, ClockType
<1>4. placeCall = "returned"
  BY DEF IInv, CallsMatchRow
<1>5. CallsMatchRow'
  BY <1>1, <1>4 DEF calls, CallsMatchRow
<1> QED BY <1>1, <1>2, <1>3, <1>5, PartsNext

(* A postback arrives: applied if the row is correlated, held otherwise. *)
LEMMA DeliverStep == ASSUME IInv, NEW f \in sent, Deliver(f) PROVE IInv'
<1>1. now \in 0 .. MaxTime
  BY RowFacts DEF IInv
<1>2. drain \in Seq(Entry)
  BY Parts DEF RestType, WireType
<1> QED BY <1>1, <1>2, AppliedRow DEF Deliver

(* A held frame is applied after the correlation. *)
LEMMA DrainOneStep == ASSUME IInv, DrainOne PROVE IInv'
<1>1. drain \in Seq(Entry) /\ drain # <<>>
  BY Parts DEF RestType, WireType, DrainOne
<1>2. Head(drain) \in Entry /\ Tail(drain) \in Seq(Entry)
  BY <1>1
<1>3. Head(drain).frame \in sent /\ Head(drain).at \in 0 .. MaxTime
  BY <1>2 DEF Entry
<1>4. row.broker_order_id # NoId
  BY <1>1 DEF IInv, CallsMatchRow
<1> QED BY <1>2, <1>3, <1>4, AppliedRow DEF DrainOne

-----------------------------------------------------------------------------
(* The broker's steps. *)

(* What the invariant says of the book, in the terms of the abstract       *)
(* broker.                                                                 *)
LEMMA BookFacts ==
    ASSUME IInv
    PROVE  /\ BookType /\ CallType /\ MaxQty \in Nat
           /\ book.status # "absent" =>
                 /\ book.qty \in 1 .. MaxQty /\ book.price \in Prices
                 /\ book.filled_qty \in 0 .. MaxQty
           /\ book.status = "open" => book.filled_qty < book.qty
           /\ book.status = "absent" => book.filled_qty = 0
<1>1. BookType /\ CallType /\ MaxQty \in Nat
  BY Parts, LifecycleAssumption DEF RestType
<1>2. book.qty \in 0 .. MaxQty /\ book.filled_qty \in 0 .. MaxQty
  BY <1>1 DEF BookType
<1> QED BY <1>1, <1>2 DEF IInv, BookConsistent

(* The broker accepts the order: its book begins. *)
LEMMA BrokerAcceptsStep == ASSUME IInv, BrokerAccepts PROVE IInv'
<1>1. PICK s \in {"open", "rejected"} :
          book' = [Broker!NoBook EXCEPT !.status = s, !.qty = row.qty, !.price = row.price]
  BY DEF BrokerAccepts
<1>2. book' = [status |-> s, qty |-> row.qty, price |-> row.price, filled_qty |-> 0]
  BY <1>1 DEF Broker!NoBook
<1>3. row.qty \in 1 .. MaxQty /\ row.price \in Prices
  BY RowFacts DEF IInv
<1>4. MaxQty \in Nat /\ book.filled_qty = 0 /\ book.status = "absent" /\ placeCall \in {"inflight", "lost"}
  BY BookFacts DEF BrokerAccepts
<1>5. 0 \in 0 .. MaxQty /\ row.qty \in 0 .. MaxQty /\ 0 < row.qty
  BY <1>3, <1>4
<1>6. BookType'
  BY <1>2, <1>3, <1>5 DEF BookType
<1>7. /\ book'.status \in {"open", "rejected"} /\ book'.qty = row.qty
      /\ book'.price = row.price /\ book'.filled_qty = 0
  BY <1>2
<1>8. /\ book'.qty \in 1 .. MaxQty /\ book'.filled_qty >= book.filled_qty
      /\ book'.filled_qty <= book'.qty /\ book'.filled_qty < book'.qty
  BY <1>3, <1>4, <1>5, <1>7
<1>9. CallType'
  BY BookFacts DEF BrokerAccepts, BookStep, CallType, Parameters
<1>10. BookStep /\ book'.price \in Prices
  BY <1>3, <1>7 DEF BrokerAccepts
<1> QED BY <1>4, <1>6, <1>7, <1>8, <1>9, <1>10, BrokerStep

(* A step of an order open in the book that keeps its size and price. *)
LEMMA OpenOrderStep ==
    ASSUME IInv, BookStep, book.status = "open", CallType',
           NEW n \in 0 .. MaxQty, NEW s \in {"open", "complete", "cancelled", "rejected"},
           book' = [book EXCEPT !.filled_qty = n, !.status = s],
           n >= book.filled_qty, n <= book.qty,
           s = "open" => n < book.qty, s = "complete" => n = book.qty
    PROVE  IInv'
<1>1. /\ BookType /\ book.qty \in 1 .. MaxQty /\ book.price \in Prices
  BY BookFacts
<1>2. /\ BookType' /\ book'.qty = book.qty /\ book'.price = book.price
      /\ book'.filled_qty = n /\ book'.status = s
  BY <1>1 DEF BookType
<1> QED BY <1>1, <1>2, BrokerStep

(* The exchange fills part of the order. *)
LEMMA BrokerFillsStep == ASSUME IInv, BrokerFills PROVE IInv'
<1>1. PICK n \in book.filled_qty + 1 .. book.qty :
          book' = [book EXCEPT !.filled_qty = n,
                               !.status = Broker!StatusAt(n, book.qty)]
  BY DEF BrokerFills, Broker!Fill
<1>2. /\ book.status = "open" /\ BookStep
  BY DEF BrokerFills, Broker!Fill
<1>3. /\ MaxQty \in Nat /\ book.qty \in 1 .. MaxQty /\ book.filled_qty \in 0 .. MaxQty
  BY <1>2, BookFacts
<1>4. n \in 0 .. MaxQty /\ n >= book.filled_qty /\ n <= book.qty
  BY <1>3
<1>5. CallType'
  BY BookFacts DEF BrokerFills, BookStep, CallType, Parameters
<1>6. CASE n = book.qty
  BY <1>1, <1>2, <1>4, <1>5, <1>6, OpenOrderStep DEF Broker!StatusAt
<1>7. CASE n # book.qty
  <2>1. n < book.qty
    BY <1>3, <1>4, <1>7
  <2> QED BY <1>1, <1>2, <1>4, <1>5, <1>7, <2>1, OpenOrderStep DEF Broker!StatusAt
<1> QED BY <1>6, <1>7

(* The broker ends the order with whatever it has filled. *)
LEMMA ClosingStep ==
    ASSUME IInv, BookStep, Broker!Close \/ Broker!RejectInside, CallType'
    PROVE  IInv'
<1>1. PICK s \in {"cancelled", "rejected"} : book' = [book EXCEPT !.status = s]
  BY DEF Broker!Close, Broker!RejectInside
<1>2. book.status = "open"
  BY DEF Broker!Close, Broker!RejectInside
<1>3. BookType /\ book.filled_qty \in 0 .. MaxQty /\ book.filled_qty < book.qty
      /\ book.qty \in 1 .. MaxQty /\ MaxQty \in Nat
  BY <1>2, BookFacts
<1>4. book' = [book EXCEPT !.filled_qty = book.filled_qty, !.status = s]
  BY <1>1, <1>3 DEF BookType
<1>5. book.filled_qty >= book.filled_qty /\ book.filled_qty <= book.qty
  BY <1>3
<1> QED BY <1>2, <1>3, <1>4, <1>5, OpenOrderStep

(* The exchange ends the order by itself. *)
LEMMA BrokerClosesStep == ASSUME IInv, BrokerCloses PROVE IInv'
<1>1. CallType'
  BY BookFacts DEF BrokerCloses, BookStep, CallType, Parameters
<1> QED BY <1>1, ClosingStep DEF BrokerCloses

(* The broker carries out the cancel. *)
LEMMA BrokerCancelsStep == ASSUME IInv, BrokerCancels PROVE IInv'
<1>1. CallType'
  BY BookFacts DEF BrokerCancels, BookStep, CallType, Parameters
<1> QED BY <1>1, ClosingStep DEF BrokerCancels

(* The broker carries out the modify. *)
LEMMA BrokerModifiesStep == ASSUME IInv, BrokerModifies PROVE IInv'
<1>1. /\ book.status = "open" /\ Asked.qty >= book.filled_qty /\ BookStep
      /\ book' = [book EXCEPT !.qty = Asked.qty, !.price = Asked.price,
                              !.status = Broker!StatusAt(book.filled_qty, Asked.qty)]
  BY DEF BrokerModifies
<1>2. /\ BookType /\ MaxQty \in Nat /\ book.qty \in 1 .. MaxQty /\ book.price \in Prices
      /\ book.filled_qty \in 0 .. MaxQty
  BY <1>1, BookFacts
<1>3. modifyCall.fields \in Parameters
  BY Parts DEF RestType, CallType
<1>4. modifyCall.fields.qty \in 0 .. MaxQty /\ modifyCall.fields.price \in Prices \cup {0}
  BY <1>3 DEF Parameters
<1>5. Asked.qty \in 1 .. MaxQty
  BY <1>2, <1>4 DEF Asked, Carried
<1>6. Asked.price \in Prices
  BY <1>2, <1>4 DEF Asked, Carried
<1>7. /\ book'.qty = Asked.qty /\ book'.price = Asked.price
      /\ book'.filled_qty = book.filled_qty
      /\ book'.status = Broker!StatusAt(book.filled_qty, Asked.qty)
  BY <1>1, <1>2 DEF BookType
<1>8. /\ book'.status \in {"open", "complete"}
      /\ book'.status = "complete" => book.filled_qty = Asked.qty
      /\ book'.status = "open" => book.filled_qty # Asked.qty
  BY <1>7 DEF Broker!StatusAt
<1>9. /\ book'.status = "open" => book'.filled_qty < book'.qty
      /\ book'.filled_qty <= book'.qty /\ book'.filled_qty >= book.filled_qty
  BY <1>1, <1>2, <1>5, <1>7, <1>8
<1>10. Asked.qty \in 0 .. MaxQty
  BY <1>2, <1>5
<1>11. BookType'
  BY <1>1, <1>2, <1>6, <1>8, <1>10 DEF BookType
<1>12. CallType'
  BY BookFacts, NoFieldsType DEF BrokerModifies, BookStep, CallType, Parameters, Idle
<1>13. /\ book'.status \in {"open", "complete", "cancelled", "rejected"}
       /\ book'.status = "complete" => book'.filled_qty = book'.qty
  BY <1>7, <1>8
<1> QED BY <1>1, <1>5, <1>6, <1>7, <1>9, <1>11, <1>12, <1>13, BrokerStep

(* A restart forgets what was only in memory. *)
LEMMA RestartStep == ASSUME IInv, Restart PROVE IInv'
<1>1. UNCHANGED <<row, prior, book, sent, applied, dropped, now, bnow>>
  BY DEF Restart, clocks
<1>2. RestType'
  BY <1>1, NoFieldsType, Parts DEF Restart, RestType, Parameters, BookType, WireType,
      Entry, FrameUniverse, CallType, ClockType, Idle
<1>3. BookConsistent' /\ FramesAreOldTruths'
  BY <1>1, BookStays
<1>4. RowPart'
  BY <1>1 DEF IInv, RowPart, TypeOK, RowType, TerminalRowIsFinal, RowNeverAheadOfBook,
      FillsNeverAhead, OutcomeNeverAhead, NoAppliedFillMissing, FinalFrameSettles
<1>5. CallsMatchRow'
  BY <1>1 DEF Restart, IInv, CallsMatchRow
<1> QED BY <1>2, <1>3, <1>4, <1>5, PartsNext

(* Answers and clocks touch neither the row nor the book nor the wire. *)
LEMMA AnswerStep ==
    ASSUME IInv, UNCHANGED <<row, prior, book, wire, placeCall>>, CallType', ClockType'
    PROVE  IInv'
<1>1. RowPart' /\ BookConsistent' /\ FramesAreOldTruths'
  BY WireStep DEF wire
<1>2. RestType'
  BY Parts DEF wire, RestType, Parameters, BookType, WireType, Entry, FrameUniverse
<1>3. CallsMatchRow'
  BY DEF wire, IInv, CallsMatchRow
<1> QED BY <1>1, <1>2, <1>3, PartsNext

(* The broker refuses a cancel or a modify: only the call changes. *)
LEMMA RefusalStep ==
    ASSUME IInv, BrokerRefusesCancel \/ BrokerRefusesModify PROVE IInv'
<1>1. CallType /\ ClockType
  BY Parts DEF RestType
<1>2. CallType' /\ ClockType' /\ UNCHANGED <<row, prior, book, wire, placeCall>>
  BY <1>1 DEF BrokerRefusesCancel, BrokerRefusesModify, CallType, ClockType, clocks, Parameters
<1> QED BY <1>2, AnswerStep

(* Either clock ticks. *)
LEMMA ClockStep == ASSUME IInv, Tick \/ BrokerTick PROVE IInv'
<1>1. CallType /\ ClockType
  BY Parts DEF RestType
<1>2. CallType'
  BY <1>1 DEF Tick, BrokerTick, calls, CallType, Parameters
<1>3. MaxTime \in Nat /\ MaxLag \in Nat
  BY LifecycleAssumption
<1>4. ClockType'
  <2>1. CASE Tick
    <3>1. /\ now' = now + 1 /\ now < MaxTime
          /\ bnow' = bnow \/ bnow' = bnow + 1
          /\ now' - bnow' <= MaxLag
      BY <2>1 DEF Tick
    <3>2. now \in 1 .. MaxTime /\ bnow \in 0 .. now
      BY <1>1 DEF ClockType
    <3>3. now' \in 1 .. MaxTime /\ bnow' \in 0 .. now'
      BY <1>3, <3>1, <3>2
    <3> QED BY <3>1, <3>3 DEF ClockType
  <2>2. CASE BrokerTick
    BY <1>1, <1>3, <2>2 DEF BrokerTick, ClockType
  <2> QED BY <2>1, <2>2
<1>5. UNCHANGED <<row, prior, book, wire, placeCall>>
  BY DEF Tick, BrokerTick, calls
<1> QED BY <1>2, <1>4, <1>5, AnswerStep

-----------------------------------------------------------------------------
(* Every step of Next, and a stuttering step, keeps the invariant. *)
LEMMA StepInvariant == IInv /\ [Next]_vars => IInv'
<1> SUFFICES ASSUME IInv, [Next]_vars PROVE IInv'
  OBVIOUS
<1>1. CASE Validate
  BY <1>1, ValidateStep
<1>2. CASE Submit
  BY <1>2, SubmitStep
<1>3. CASE PlaceRefused
  BY <1>3, PlaceRefusedStep
<1>4. CASE PlaceReturns
  BY <1>4, PlaceReturnsStep
<1>5. CASE PlaceLost
  BY <1>5, PlaceLostStep
<1>6. CASE IssueCancel
  BY <1>6, IssueCancelStep
<1>7. CASE CancelRefused
  BY <1>7, CancelRefusedStep
<1>8. CASE ModifyRefused
  BY <1>8, ModifyRefusedStep
<1>9. CASE Lapse
  BY <1>9, LapseStep
<1>10. ASSUME NEW fields \in Amendments, IssueAmend(fields) PROVE IInv'
  BY <1>10, IssueAmendStep
<1>11. ASSUME NEW f \in sent, Hold(f) PROVE IInv'
  BY <1>11, HoldStep
<1>12. ASSUME NEW f \in sent, Deliver(f) PROVE IInv'
  BY <1>12, DeliverStep
<1>13. CASE DrainOne
  BY <1>13, DrainOneStep
<1>14. CASE Sweep
  BY <1>14, SweepStep
<1>15. CASE BrokerAccepts
  BY <1>15, BrokerAcceptsStep
<1>16. CASE BrokerFills
  BY <1>16, BrokerFillsStep
<1>17. CASE BrokerCloses
  BY <1>17, BrokerClosesStep
<1>18. CASE BrokerCancels
  BY <1>18, BrokerCancelsStep
<1>19. CASE BrokerModifies
  BY <1>19, BrokerModifiesStep
<1>20. CASE BrokerRefusesCancel \/ BrokerRefusesModify
  BY <1>20, RefusalStep
<1>21. CASE Tick \/ BrokerTick
  BY <1>21, ClockStep
<1>23. CASE Restart
  BY <1>23, RestartStep
<1>22. CASE UNCHANGED vars
  <2>1. CallType' /\ ClockType'
    BY <1>22, Parts DEF vars, calls, clocks, RestType, CallType, ClockType, Parameters
  <2> QED BY <1>22, <2>1, AnswerStep DEF vars, calls
<1> QED
  BY <1>1, <1>2, <1>3, <1>4, <1>5, <1>6, <1>7, <1>8, <1>9, <1>10, <1>11, <1>12,
     <1>13, <1>14, <1>15, <1>16, <1>17, <1>18, <1>19, <1>20, <1>21, <1>22, <1>23 DEF Next

(***************************************************************************)
(* The inductive invariant holds of every behaviour: frames are old truths *)
(* about a book that only moves forward, the buffer holds only what was    *)
(* sent, and the row summarises the frames applied to it.                  *)
(***************************************************************************)
THEOREM Invariant == Spec => []IInv
<1>1. Init => IInv
  BY InitInvariant
<1>2. IInv /\ [Next]_vars => IInv'
  BY StepInvariant
<1> QED BY <1>1, <1>2, PTL DEF Spec

(* The row, the book, the wire, the calls and the clocks keep their types. *)
THEOREM TypeCorrect == Spec => []TypeOK
<1>1. IInv => TypeOK
  BY DEF IInv
<1> QED BY <1>1, Invariant, PTL

(***************************************************************************)
(* The row never carries a share, or an outcome, that the broker's book    *)
(* does not: whatever is delivered late, twice, out of order or never.     *)
(***************************************************************************)
THEOREM RowStaysBehindBook == Spec => []RowNeverAheadOfBook
<1>1. IInv => RowNeverAheadOfBook
  BY DEF IInv
<1> QED BY <1>1, Invariant, PTL

(* No fill that reached apply_update is ever missing from the row. *)
THEOREM AppliedFillsStay == Spec => []NoAppliedFillMissing
<1>1. IInv => NoAppliedFillMissing
  BY DEF IInv
<1> QED BY <1>1, Invariant, PTL

(***************************************************************************)
(* The frame that closed the order in the book settles the row, with       *)
(* exactly the shares filled, at whatever point it is applied.             *)
(***************************************************************************)
THEOREM FinalWordSettles == Spec => []FinalFrameSettles
<1>1. IInv => FinalFrameSettles
  BY DEF IInv
<1> QED BY <1>1, Invariant, PTL

-----------------------------------------------------------------------------
(* Every step of the lifecycle is a step of one row, or leaves it alone.   *)
(* The instance Row brings its own copy of the order machine; the copies   *)
(* agree.                                                                  *)

LEMMA SameTables ==
    /\ Row!TERMINAL_ORDER_STATES = TERMINAL_ORDER_STATES
    /\ Row!ALLOWED_TRANSITIONS = ALLOWED_TRANSITIONS
    /\ Row!CANCEL_REJECTED_TRANSITIONS = CANCEL_REJECTED_TRANSITIONS
    /\ Row!NoFields = NoFields
    /\ Row!KITE_STATUS_MAP = KITE_STATUS_MAP
    /\ Row!KITE_INTERMEDIATE_STATUSES = KITE_INTERMEDIATE_STATUSES
    /\ Row!NoTarget = NoTarget
    /\ Row!FILL_PROGRESS_TARGETS = FILL_PROGRESS_TARGETS
    /\ Row!WORKING_TARGETS = WORKING_TARGETS
    /\ Row!PROGRESS_RANK = PROGRESS_RANK
  BY DEF Row!TERMINAL_ORDER_STATES, TERMINAL_ORDER_STATES, Row!ALLOWED_TRANSITIONS,
     ALLOWED_TRANSITIONS, Row!DIAGRAM_TRANSITIONS, DIAGRAM_TRANSITIONS,
     Row!BROKER_REALITY_TRANSITIONS, BROKER_REALITY_TRANSITIONS,
     Row!CANCEL_REJECTED_TRANSITIONS, CANCEL_REJECTED_TRANSITIONS,
     Row!NoFields, NoFields, Row!KITE_STATUS_MAP, KITE_STATUS_MAP,
     Row!KITE_INTERMEDIATE_STATUSES, KITE_INTERMEDIATE_STATUSES, Row!NoTarget, NoTarget,
     Row!FILL_PROGRESS_TARGETS, FILL_PROGRESS_TARGETS,
     Row!WORKING_TARGETS, WORKING_TARGETS, Row!PROGRESS_RANK, PROGRESS_RANK

(* The row module instantiated by the refinement has the same diagram. *)
LEMMA SameEdges ==
    ASSUME NEW o, NEW to, NEW table, NEW filled, NEW delta, NEW fields, NEW at
    PROVE  /\ Row!Carried(filled, delta) = Carried(filled, delta)
           /\ Row!EdgeLegal(o, to, table, filled, delta) <=> EdgeLegal(o, to, table, filled, delta)
           /\ Row!ApplyEdge(o, to, filled, delta, fields, at) = ApplyEdge(o, to, filled, delta, fields, at)
           /\ Row!PreservedFill(o, to) = PreservedFill(o, to)
           /\ Row!FillState(o) = FillState(o)
  BY SameTables DEF Row!Carried, Carried, Row!EdgeLegal, EdgeLegal, Row!EdgeExists, EdgeExists,
     Row!QuantityAccepted, QuantityAccepted, Row!ApplyEdge, ApplyEdge,
     Row!PreservedFill, PreservedFill, Row!FillState, FillState

(* ... the same doors for the platform's own moves, *)
LEMMA SameMoves ==
    ASSUME NEW o, NEW to, NEW fields, NEW at, NEW bid
    PROVE  /\ Row!CanTransition(o, to) <=> CanTransition(o, to)
           /\ Row!Transition(o, to, at) = Transition(o, to, at)
           /\ Row!CanAmend(o, fields) <=> CanAmend(o, fields)
           /\ Row!Amend(o, fields, at) = Amend(o, fields, at)
           /\ Row!PriorFields(o, fields) = PriorFields(o, fields)
           /\ Row!CanCancelRejected(o) <=> CanCancelRejected(o)
           /\ Row!CancelRejected(o, at) = CancelRejected(o, at)
           /\ Row!CanModifyRejected(o) <=> CanModifyRejected(o)
           /\ Row!ModifyRejected(o, fields, at) = ModifyRejected(o, fields, at)
           /\ Row!CanCorrelate(o, bid) <=> CanCorrelate(o, bid)
           /\ Row!Correlate(o, bid) = Correlate(o, bid)
  BY SameTables, SameEdges
     DEF Row!CanTransition, CanTransition, Row!Transition, Transition, Row!CanAmend, CanAmend,
     Row!Amend, Amend, Row!PriorFields, PriorFields, Row!CanCancelRejected, CanCancelRejected,
     Row!CancelRejected, CancelRejected, Row!CanModifyRejected, CanModifyRejected,
     Row!ModifyRejected, ModifyRejected, Row!CanCorrelate, CanCorrelate,
     Row!Correlate, Correlate

(* ... and the same reducer. *)
LEMMA SameUpdates ==
    ASSUME NEW o, NEW u, NEW at
    PROVE  /\ Row!Routable(o, u) <=> Routable(o, u)
           /\ Row!ApplyUpdate(o, u, at) = ApplyUpdate(o, u, at)
<1>1. /\ Row!ParsedTarget(u) = ParsedTarget(u)
      /\ Row!PostdatesIntent(o, u) <=> PostdatesIntent(o, u)
      /\ Row!Grew(o, u) <=> Grew(o, u)
      /\ Row!UpdateFill(o, u) = UpdateFill(o, u)
  BY SameTables DEF Row!ParsedTarget, ParsedTarget, Row!PostdatesIntent, PostdatesIntent,
     Row!Grew, Grew, Row!UpdateFill, UpdateFill
<1>2. /\ Row!UpdateTarget(o, u) = UpdateTarget(o, u)
      /\ Row!UpdateFields(o, u) = UpdateFields(o, u)
  BY <1>1, SameTables, SameEdges DEF Row!UpdateTarget, UpdateTarget, Row!UpdateFields, UpdateFields
<1>3. Row!IsNoop(o, u) <=> IsNoop(o, u)
  BY <1>1, <1>2, SameTables DEF Row!IsNoop, IsNoop, Row!FilledQtyRegression, FilledQtyRegression,
     Row!CancelPendingHeld, CancelPendingHeld, Row!ModifyPendingHeld, ModifyPendingHeld,
     Row!SameState, SameState, Row!BehindOurProgress, BehindOurProgress,
     Row!IllegalUpdate, IllegalUpdate, Row!EdgeExists, EdgeExists
<1>4. Row!Routable(o, u) <=> Routable(o, u)
  BY DEF Row!Routable, Routable
<1> QED BY <1>1, <1>2, <1>3, <1>4, SameEdges DEF Row!ApplyUpdate, ApplyUpdate

(* A move of the platform maps to that move of the row. *)
LEMMA MoveMaps ==
    ASSUME NEW to, CanTransition(row, to), row' = Transition(row, to, now),
           now \in 0 .. MaxTime, prior' = prior
    PROVE  Row!Move(to)
  BY SameMoves DEF Row!Move

(* A frame of the broker maps to a postback of the row. *)
LEMMA PostbackMaps ==
    ASSUME IInv, NEW f \in sent, NEW at \in 0 .. MaxTime, row.broker_order_id # NoId,
           row' = ApplyUpdate(row, f, at), prior' = prior
    PROVE  Row!Postback(f) /\ f \in FrameUniverse
<1>1. f \in FrameUniverse /\ row \in PlatformOrder({BrokerId})
  BY RowFacts DEF IInv, TypeOK
<1>2. Routable(row, f)
  BY <1>1 DEF FrameUniverse, PlatformOrder, Routable
<1> QED BY <1>1, <1>2, SameUpdates DEF Row!Postback

(* Submit and PlaceRefused record an edge whose guards the row already meets. *)
LEMMA SubmittedEdges ==
    ASSUME row \in PlatformOrder({BrokerId}), NEW to,
           <<row.state, to>> \in {<<"VALIDATED", "SUBMITTED">>, <<"SUBMITTED", "REJECTED">>}
    PROVE  CanTransition(row, to)
<1>1. EdgeExists(row, to, ALLOWED_TRANSITIONS)
  BY DEF EdgeExists, ALLOWED_TRANSITIONS, DIAGRAM_TRANSITIONS, TERMINAL_ORDER_STATES
<1>2. QuantityAccepted(row, to, row.filled_qty, 0)
  BY CapAssumption DEF PlatformOrder, QuantityAccepted
<1> QED BY <1>1, <1>2 DEF CanTransition, EdgeLegal, PreservedFill

(* Under the invariant, every step of the lifecycle is a step of the row or leaves
   it alone. *)
LEMMA RowStep == IInv /\ [Next]_vars => [Row!Next]_(Row!vars)
<1> SUFFICES ASSUME IInv, [Next]_vars
             PROVE  Row!Next \/ UNCHANGED <<row, prior>>
  BY DEF Row!vars
<1>0. row \in PlatformOrder({BrokerId}) /\ now \in 0 .. MaxTime
  BY RowFacts DEF IInv
<1>1. CASE Validate
  BY <1>0, <1>1, MoveMaps DEF Validate, Row!Next, Row!Validate
<1>2. CASE Submit
  BY <1>0, <1>2, MoveMaps, SubmittedEdges DEF Submit, Row!Next, Row!Submit
<1>3. CASE PlaceRefused
  <2>1. row.state = "SUBMITTED"
    BY <1>3 DEF PlaceRefused, IInv, CallsMatchRow
  <2> QED BY <1>0, <1>3, <2>1, MoveMaps, SubmittedEdges DEF PlaceRefused, Row!Next, Row!PlaceRefused
<1>4. CASE PlaceReturns
  BY <1>4, SameMoves DEF PlaceReturns, Row!Next, Row!Correlated
<1>5. CASE PlaceLost
  BY <1>5 DEF PlaceLost
<1>6. CASE IssueCancel
  BY <1>0, <1>6, MoveMaps DEF IssueCancel, Row!Next, Row!IssueCancel
<1>7. CASE CancelRefused
  BY <1>0, <1>7, SameMoves DEF CancelRefused, Row!Next, Row!CancelRefused
<1>8. CASE ModifyRefused
  BY <1>0, <1>8, SameMoves DEF ModifyRefused, Row!Next, Row!ModifyRefused
<1>9. CASE Lapse
  BY <1>0, <1>9, MoveMaps DEF Lapse, Row!Next, Row!Lapse
<1>10. ASSUME NEW fields \in Amendments, IssueAmend(fields)
       PROVE  Row!Next \/ UNCHANGED <<row, prior>>
  <2>1. Row!IssueAmend(fields)
    BY <1>0, <1>10, SameMoves DEF IssueAmend, Row!IssueAmend
  <2> QED BY <2>1 DEF Row!Next
<1>11. ASSUME NEW f \in sent, Hold(f) PROVE  Row!Next \/ UNCHANGED <<row, prior>>
  BY <1>11 DEF Hold
<1>12. ASSUME NEW f \in sent, Deliver(f) PROVE  Row!Next \/ UNCHANGED <<row, prior>>
  BY <1>0, <1>12, PostbackMaps DEF Deliver, Row!Next
<1>13. CASE DrainOne
  <2>1. drain \in Seq(Entry) /\ drain # <<>>
    BY <1>13, Parts DEF RestType, WireType, DrainOne
  <2>2. Head(drain) \in Entry
    BY <2>1
  <2>3. Head(drain).frame \in sent /\ Head(drain).at \in 0 .. MaxTime
    BY <2>2 DEF Entry
  <2>4. row.broker_order_id # NoId
    BY <2>1 DEF IInv, CallsMatchRow
  <2> QED BY <1>13, <2>3, <2>4, PostbackMaps DEF DrainOne, Row!Next
<1>14. CASE Sweep \/ Restart
  BY <1>14 DEF Sweep, Restart
<1>15. CASE BrokerAccepts \/ BrokerFills \/ BrokerCloses \/ BrokerCancels \/ BrokerModifies
  BY <1>15 DEF BrokerAccepts, BrokerFills, BrokerCloses, BrokerCancels, BrokerModifies, BookStep
<1>16. CASE BrokerRefusesCancel \/ BrokerRefusesModify \/ Tick \/ BrokerTick
  BY <1>16 DEF BrokerRefusesCancel, BrokerRefusesModify, Tick, BrokerTick
<1>17. CASE UNCHANGED vars
  BY <1>17 DEF vars
<1> QED
  BY <1>1, <1>2, <1>3, <1>4, <1>5, <1>6, <1>7, <1>8, <1>9, <1>10, <1>11, <1>12,
     <1>13, <1>14, <1>15, <1>16, <1>17 DEF Next

(***************************************************************************)
(* The lifecycle implements OrderRow: with the broker, the wire, the       *)
(* buffer and the calls in flight hidden, all that ever happens to the row *)
(* is what the order state machine allows.                                 *)
(***************************************************************************)
THEOREM LifecycleImplementsRow == Spec => ImplementsOrderRow
<1>1. Init => Row!Init
  BY SameTables DEF Init, Row!Init
<1>2. IInv /\ [Next]_vars => [Row!Next]_(Row!vars)
  BY RowStep
<1> QED BY <1>1, <1>2, Invariant, PTL DEF Spec, ImplementsOrderRow, Row!Spec

-----------------------------------------------------------------------------
(* ... and every step is a step of one order in the broker's book, or none. *)

(* Every step moves the book as the broker does, or not at all. *)
LEMMA BookMaps == IInv /\ [Next]_vars => [Broker!Next]_book
<1> SUFFICES ASSUME IInv, [Next]_vars
             PROVE  Broker!Next \/ UNCHANGED book
  OBVIOUS
<1>1. CASE BrokerAccepts
  <2>1. PICK s \in {"open", "rejected"} :
            book' = [Broker!NoBook EXCEPT !.status = s, !.qty = row.qty, !.price = row.price]
    BY <1>1 DEF BrokerAccepts
  <2>2. book' = [status |-> s, qty |-> row.qty, price |-> row.price, filled_qty |-> 0]
    BY <2>1 DEF Broker!NoBook
  <2>3. row.qty \in 1 .. MaxQty /\ row.price \in Prices
    BY RowFacts DEF IInv
  <2>4. book.status = "absent"
    BY <1>1 DEF BrokerAccepts
  <2> QED BY <2>2, <2>3, <2>4 DEF Broker!Next, Broker!Accept, Broker!Refuse
<1>2. CASE BrokerModifies
  <2>1. /\ MaxQty \in Nat /\ book.status = "open" /\ book.qty \in 1 .. MaxQty /\ book.price \in Prices
    BY <1>2, BookFacts DEF BrokerModifies
  <2>2. modifyCall.fields.qty \in 0 .. MaxQty /\ modifyCall.fields.price \in Prices \cup {0}
    BY Parts DEF RestType, CallType, Parameters
  <2>3. Asked.qty \in 1 .. MaxQty
    BY <2>1, <2>2 DEF Asked, Carried
  <2>4. Asked.price \in Prices
    BY <2>1, <2>2 DEF Asked, Carried
  <2> QED BY <1>2, <2>1, <2>3, <2>4 DEF BrokerModifies, Broker!Next, Broker!Modify
<1>3. CASE BrokerFills \/ BrokerCloses \/ BrokerCancels
  BY <1>3 DEF BrokerFills, BrokerCloses, BrokerCancels, Broker!Next
<1>4. ASSUME NEW f \in sent, Hold(f) \/ Deliver(f) PROVE UNCHANGED book
  BY <1>4 DEF Hold, Deliver
<1>5. ASSUME NEW fields \in Amendments, IssueAmend(fields) PROVE UNCHANGED book
  BY <1>5 DEF IssueAmend
<1>6. CASE Validate \/ Submit \/ PlaceRefused \/ PlaceReturns \/ PlaceLost \/ IssueCancel
             \/ CancelRefused \/ ModifyRefused \/ Lapse \/ DrainOne
  BY <1>6 DEF Validate, Submit, PlaceRefused, PlaceReturns, PlaceLost, IssueCancel,
     CancelRefused, ModifyRefused, Lapse, DrainOne
<1>7. CASE Sweep \/ Restart \/ BrokerRefusesCancel \/ BrokerRefusesModify \/ Tick \/ BrokerTick
             \/ UNCHANGED vars
  BY <1>7 DEF Sweep, Restart, BrokerRefusesCancel, BrokerRefusesModify, Tick, BrokerTick, vars
<1> QED BY <1>1, <1>2, <1>3, <1>4, <1>5, <1>6, <1>7 DEF Next

(***************************************************************************)
(* What happens in the broker's book is the life of one order: accepted or *)
(* refused once, filled forward, amended to what was asked, closed once.   *)
(***************************************************************************)
THEOREM LifecycleImplementsBook == Spec => ImplementsBrokerBook
<1>1. Init => Broker!Init
  BY DEF Init, Broker!Init
<1>2. IInv /\ [Next]_vars => [Broker!Next]_book
  BY BookMaps
<1> QED BY <1>1, <1>2, Invariant, PTL DEF Spec, ImplementsBrokerBook, Broker!Spec
=============================================================================
