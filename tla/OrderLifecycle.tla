--------------------------- MODULE OrderLifecycle ---------------------------
(***************************************************************************)
(* One order from the platform's draft to a terminal row, with everything  *)
(* that runs beside the row: the place, cancel and modify calls in flight, *)
(* the broker's book, the frames the broker has sent (delivered late, out  *)
(* of order, more than once or never), the pending-correlation buffer that *)
(* holds frames arriving before the place call returns the broker id, and  *)
(* two clocks that agree only to a bound.                                  *)
(*                                                                         *)
(* Every platform step is persisted before its call goes out (record       *)
(* commits, then the caller acts), so recording and calling are one action *)
(* and everything that happens after the call is sent is another.          *)
(***************************************************************************)
EXTENDS OrderMachine, Sequences

CONSTANTS
    BrokerId,           \* the id the broker gives this order
    InitialQty, InitialPrice,
    MaxQty,             \* largest size of an order or of a fill count
    Prices,             \* prices in use
    Amendments,         \* parameters the platform may ask for
    WorkingWords,       \* status words an open order is reported with
    CompleteWords,      \* status words a completed order is reported with
    QtyGarbled,         \* may a frame arrive without a usable quantity?
    MaxEntries,         \* PendingCorrelation._max_entries
    MaxAge,             \* max_age_s given to sweep
    MaxLag,             \* seconds the broker's clock may be behind ours
    MaxTime,            \* bound on the platform clock
    LapseAllowed,       \* does the platform lapse orders in this instance?
    ModifyMayBeRefused, \* may the broker refuse a modify of an open order?
    ResponseMayBeLost,  \* may the place call never return?
    CrashAllowed        \* may the platform stop and start again?

ASSUME LifecycleAssumption ==
    /\ BrokerId # NoId
    /\ InitialQty \in Nat \ {0} /\ MaxQty \in Nat /\ InitialQty <= MaxQty
    /\ InitialPrice \in Prices /\ Prices \subseteq Nat \ {0}
    /\ Amendments \subseteq [qty : 0 .. MaxQty, price : Prices \cup {0}]
    /\ WorkingWords \subseteq {"OPEN", "TRIGGER PENDING"}
    /\ CompleteWords \subseteq {"OPEN", "TRIGGER PENDING", "COMPLETE"}
    /\ {QtyGarbled, LapseAllowed, ModifyMayBeRefused, ResponseMayBeLost, CrashAllowed}
          \subseteq BOOLEAN
    /\ MaxEntries \in Nat \ {0} /\ MaxAge \in Nat
    /\ MaxLag \in Nat /\ MaxTime \in Nat \ {0}

VARIABLES
    row,        \* the persisted orders row
    prior,      \* prior_fields of the latest amend event
    book,       \* the order in the broker's book
    sent,       \* every frame the broker has sent; any may arrive (again)
    applied,    \* frames given to apply_update so far
    buffer,     \* PendingCorrelation: frames held until the id is known
    drain,      \* entries handed back by resolve, still to be applied
    dropped,    \* frames the buffer evicted or expired, handed to the caller's log
    placeCall, cancelCall, modifyCall,
    now,        \* the platform's second
    bnow        \* the broker's second

calls == <<placeCall, cancelCall, modifyCall>>
clocks == <<now, bnow>>
wire == <<sent, applied, buffer, drain, dropped>>
vars == <<row, prior, book, wire, calls, clocks>>

Broker == INSTANCE BrokerBook WITH Qtys <- 1 .. MaxQty

WordsInUse == WorkingWords \cup CompleteWords \cup {"CANCELLED", "REJECTED"}

FrameUniverse ==
    [ broker_order_id : {BrokerId}, status : WordsInUse, filled_qty : 0 .. MaxQty,
      qty : 0 .. MaxQty, price : Prices, broker_ts : 0 .. MaxTime ]

Row == INSTANCE OrderRow WITH
           order <- row, BrokerIds <- {BrokerId}, Frames <- FrameUniverse,
           Times <- 0 .. MaxTime

Idle == [st |-> "idle", fields |-> NoFields]

Init ==
    /\ row = Row!NewOrder
    /\ prior = NoFields
    /\ book = Broker!NoBook
    /\ sent = {} /\ applied = {} /\ dropped = {}
    /\ buffer = <<>> /\ drain = <<>>
    /\ placeCall = "idle" /\ cancelCall = "idle" /\ modifyCall = Idle
    /\ now = 1
    /\ bnow \in {b \in 0 .. 1 : 1 - b <= MaxLag}

-----------------------------------------------------------------------------
(* The platform: record the intent, then call the broker. *)

Validate ==
    /\ CanTransition(row, "VALIDATED")
    /\ row' = Transition(row, "VALIDATED", now)
    /\ UNCHANGED <<prior, book, wire, calls, clocks>>

Submit ==
    /\ row.state = "VALIDATED"
    /\ row' = Transition(row, "SUBMITTED", now)
    /\ placeCall' = "inflight"
    /\ UNCHANGED <<prior, book, wire, cancelCall, modifyCall, clocks>>

(* place_order raises: the broker never took the order. *)
PlaceRefused ==
    /\ placeCall = "inflight" /\ book.status = "absent"
    /\ row' = Transition(row, "REJECTED", now)
    /\ placeCall' = "failed"
    /\ UNCHANGED <<prior, book, wire, cancelCall, modifyCall, clocks>>

(* place_order returns the id: correlate, record, and take over the buffer. *)
PlaceReturns ==
    /\ placeCall = "inflight" /\ book.status # "absent"
    /\ CanCorrelate(row, BrokerId)
    /\ row' = Correlate(row, BrokerId)
    /\ drain' = buffer /\ buffer' = <<>>
    /\ placeCall' = "returned"
    /\ UNCHANGED <<prior, book, sent, applied, dropped, cancelCall, modifyCall, clocks>>

(* The response never comes; the request itself may still reach the broker. *)
PlaceLost ==
    /\ ResponseMayBeLost
    /\ placeCall = "inflight"
    /\ placeCall' = "lost"
    /\ UNCHANGED <<row, prior, book, wire, cancelCall, modifyCall, clocks>>

IssueCancel ==
    /\ row.broker_order_id # NoId /\ drain = <<>> /\ cancelCall = "idle"
    /\ CanTransition(row, "CANCEL_PENDING")
    /\ row' = Transition(row, "CANCEL_PENDING", now)
    /\ cancelCall' = "inflight"
    /\ UNCHANGED <<prior, book, wire, placeCall, modifyCall, clocks>>

IssueAmend(fields) ==
    /\ row.broker_order_id # NoId /\ drain = <<>> /\ modifyCall = Idle
    /\ CanAmend(row, fields)
    /\ row' = Amend(row, fields, now)
    /\ prior' = PriorFields(row, fields)
    /\ modifyCall' = [st |-> "inflight", fields |-> fields]
    /\ UNCHANGED <<book, wire, placeCall, cancelCall, clocks>>

(* The refusal reaches its door; on a row that has left the pending state *)
(* the door raises and nothing is recorded.                               *)
CancelRefused ==
    /\ cancelCall = "refused"
    /\ cancelCall' = "idle"
    /\ row' = IF CanCancelRejected(row) THEN CancelRejected(row, now) ELSE row
    /\ UNCHANGED <<prior, book, wire, placeCall, modifyCall, clocks>>

ModifyRefused ==
    /\ modifyCall.st = "refused"
    /\ modifyCall' = Idle
    /\ row' = IF CanModifyRejected(row) THEN ModifyRejected(row, prior, now) ELSE row
    /\ UNCHANGED <<prior, book, wire, placeCall, cancelCall, clocks>>

Lapse ==
    /\ LapseAllowed /\ drain = <<>>
    /\ CanTransition(row, "LAPSED")
    /\ row' = Transition(row, "LAPSED", now)
    /\ UNCHANGED <<prior, book, wire, calls, clocks>>

-----------------------------------------------------------------------------
(* The postback loop. *)

(* by_broker_id finds no row yet: hold, evicting the oldest past the cap. *)
Hold(f) ==
    /\ f \in sent /\ row.broker_order_id = NoId
    /\ LET held == Append(buffer, [frame |-> f, at |-> now]) IN
       IF Len(held) > MaxEntries
       THEN buffer' = Tail(held) /\ dropped' = dropped \cup {Head(held).frame}
       ELSE buffer' = held /\ UNCHANGED dropped
    /\ UNCHANGED <<row, prior, book, sent, applied, drain, calls, clocks>>

(* Mutant: an order without a broker id joins any frame (a NULL join). *)
DeliverUnrouted(f) ==
    /\ f \in sent /\ drain = <<>>
    /\ row' = ApplyUpdate(row, f, now)
    /\ applied' = applied \cup {f}
    /\ UNCHANGED <<prior, book, sent, buffer, drain, dropped, calls, clocks>>

Deliver(f) ==
    /\ f \in sent /\ row.broker_order_id # NoId /\ drain = <<>>
    /\ row' = ApplyUpdate(row, f, now)
    /\ applied' = applied \cup {f}
    /\ UNCHANGED <<prior, book, sent, buffer, drain, dropped, calls, clocks>>

(* A resolved entry is applied in arrival order with its own arrival time. *)
DrainOne ==
    /\ drain # <<>>
    /\ row' = ApplyUpdate(row, Head(drain).frame, Head(drain).at)
    /\ applied' = applied \cup {Head(drain).frame}
    /\ drain' = Tail(drain)
    /\ UNCHANGED <<prior, book, sent, buffer, dropped, calls, clocks>>

(* Entries are in arrival order, so the expired ones are a prefix. *)
Expired(k) ==
    /\ \A i \in 1 .. k : now - buffer[i].at > MaxAge
    /\ k < Len(buffer) => now - buffer[k + 1].at <= MaxAge

Sweep ==
    \E k \in 1 .. Len(buffer) :
        /\ Expired(k)
        /\ dropped' = dropped \cup {buffer[i].frame : i \in 1 .. k}
        /\ buffer' = SubSeq(buffer, k + 1, Len(buffer))
        /\ UNCHANGED <<row, prior, book, sent, applied, drain, calls, clocks>>

(* The orders row and its events are on disk; the buffer, what was being    *)
(* drained and every answer still to come are not.  Requests that have left *)
(* may still reach the broker.                                              *)
Restart ==
    /\ CrashAllowed
    /\ buffer' = <<>> /\ drain' = <<>>
    /\ placeCall' = IF placeCall = "inflight" THEN "lost" ELSE placeCall
    /\ cancelCall' = IF cancelCall = "refused" THEN "idle" ELSE cancelCall
    /\ modifyCall' = IF modifyCall.st = "refused" THEN Idle ELSE modifyCall
    /\ UNCHANGED <<row, prior, book, sent, applied, dropped, clocks>>

-----------------------------------------------------------------------------
(* The broker: each change of its book is reported by one frame. *)

Words(b) ==
    CASE b.status = "open" -> WorkingWords
      [] b.status = "complete" -> CompleteWords
      [] b.status = "cancelled" -> {"CANCELLED"}
      [] OTHER -> {"REJECTED"}

Reports(b) ==
    { [ broker_order_id |-> BrokerId, status |-> w, filled_qty |-> b.filled_qty,
        qty |-> q, price |-> b.price, broker_ts |-> bnow ] :
          w \in Words(b), q \in {b.qty} \cup (IF QtyGarbled THEN {0} ELSE {}) }

Emit == \E f \in Reports(book') : sent' = sent \cup {f}

BookStep ==
    /\ Emit
    /\ UNCHANGED <<row, prior, applied, buffer, drain, dropped, placeCall, clocks>>

BrokerAccepts ==
    /\ placeCall \in {"inflight", "lost"} /\ book.status = "absent"
    /\ book' \in {[Broker!NoBook EXCEPT !.status = s, !.qty = row.qty, !.price = row.price] :
                    s \in {"open", "rejected"}}
    /\ BookStep /\ UNCHANGED <<cancelCall, modifyCall>>

BrokerFills == Broker!Fill /\ BookStep /\ UNCHANGED <<cancelCall, modifyCall>>

BrokerCloses ==
    /\ Broker!Close \/ Broker!RejectInside
    /\ BookStep /\ UNCHANGED <<cancelCall, modifyCall>>

BrokerCancels ==
    /\ cancelCall = "inflight"
    /\ Broker!Close
    /\ cancelCall' = "idle"
    /\ BookStep /\ UNCHANGED modifyCall

BrokerRefusesCancel ==
    /\ cancelCall = "inflight"
    /\ cancelCall' = "refused"
    /\ UNCHANGED <<row, prior, book, wire, placeCall, modifyCall, clocks>>

Asked == [qty   |-> Carried(modifyCall.fields.qty, book.qty),
          price |-> Carried(modifyCall.fields.price, book.price)]

BrokerModifies ==
    /\ modifyCall.st = "inflight"
    /\ book.status = "open" /\ Asked.qty >= book.filled_qty
    /\ book' = [book EXCEPT !.qty = Asked.qty, !.price = Asked.price,
                            !.status = Broker!StatusAt(book.filled_qty, Asked.qty)]
    /\ modifyCall' = Idle
    /\ BookStep /\ UNCHANGED cancelCall

BrokerRefusesModify ==
    /\ modifyCall.st = "inflight"
    /\ ModifyMayBeRefused \/ book.status # "open" \/ Asked.qty < book.filled_qty
    /\ modifyCall' = [modifyCall EXCEPT !.st = "refused"]
    /\ UNCHANGED <<row, prior, book, wire, placeCall, cancelCall, clocks>>

-----------------------------------------------------------------------------
Tick ==
    /\ now < MaxTime
    /\ now' = now + 1
    /\ bnow' \in {b \in {bnow, bnow + 1} : now' - b <= MaxLag}
    /\ UNCHANGED <<row, prior, book, wire, calls>>

BrokerTick ==
    /\ bnow < now
    /\ bnow' = bnow + 1
    /\ UNCHANGED <<row, prior, book, wire, calls, now>>

Next ==
    \/ Validate \/ Submit \/ PlaceRefused \/ PlaceReturns \/ PlaceLost
    \/ IssueCancel \/ CancelRefused \/ ModifyRefused \/ Lapse
    \/ \E fields \in Amendments : IssueAmend(fields)
    \/ \E f \in sent : Hold(f) \/ Deliver(f)
    \/ DrainOne \/ Sweep \/ Restart
    \/ BrokerAccepts \/ BrokerFills \/ BrokerCloses
    \/ BrokerCancels \/ BrokerRefusesCancel
    \/ BrokerModifies \/ BrokerRefusesModify
    \/ Tick \/ BrokerTick

Spec == Init /\ [][Next]_vars

-----------------------------------------------------------------------------
(* A held frame is one the broker sent, with the second it arrived in. *)
Entry == [frame : sent, at : 0 .. MaxTime]

TypeOK ==
    /\ row \in PlatformOrder({BrokerId}) /\ row.qty <= MaxQty /\ row.price \in Prices
    /\ row.filled_qty <= MaxQty /\ row.updated_at <= MaxTime
    /\ prior \in [qty : 0 .. MaxQty, price : Prices \cup {0}]
    /\ book \in [ status : {"absent", "open", "complete", "cancelled", "rejected"},
                  qty : 0 .. MaxQty, price : Prices \cup {0}, filled_qty : 0 .. MaxQty ]
    /\ sent \subseteq FrameUniverse /\ applied \subseteq sent /\ dropped \subseteq sent
    /\ buffer \in Seq(Entry) /\ drain \in Seq(Entry)
    /\ placeCall \in {"idle", "inflight", "returned", "failed", "lost"}
    /\ cancelCall \in {"idle", "inflight", "refused"}
    /\ modifyCall \in [ st : {"idle", "inflight", "refused"},
                        fields : [qty : 0 .. MaxQty, price : Prices \cup {0}] ]
    /\ now \in 1 .. MaxTime /\ bnow \in 0 .. now /\ now - bnow <= MaxLag

(***************************************************************************)
(* The row never believes more than the broker's book: no share the book   *)
(* has not filled, and no outcome the book has not reached.  A row that    *)
(* says CANCELLED while the order still rests is the double exit the       *)
(* cancel rules exist for; it takes reordered frames and a call in flight  *)
(* to get there.  (With garbled quantities only the fills stay honest.)    *)
(***************************************************************************)
FillsNeverAhead == row.filled_qty <= book.filled_qty

OutcomeNeverAhead ==
    /\ row.state = "FILLED" => QtyGarbled \/ book.status = "complete"
    /\ row.state = "CANCELLED" => book.status = "cancelled"
    /\ row.state = "REJECTED" => book.status \in {"rejected", "absent"}

RowNeverAheadOfBook == FillsNeverAhead /\ OutcomeNeverAhead

(***************************************************************************)
(* No fill that reached apply_update is missing from the row, in whatever  *)
(* order the frames came: cumulative counts survive reordering, held       *)
(* intents and terminal rows.  Only a row the platform itself lapsed may   *)
(* be behind, or one completed against a size no frame confirmed.          *)
(***************************************************************************)
NoAppliedFillMissing ==
    (~QtyGarbled /\ row.state # "LAPSED") => \A f \in applied : f.filled_qty <= row.filled_qty

(***************************************************************************)
(* The broker's final word settles the row: once the frame that closed the *)
(* book has been applied, at whatever point among the others, the row is   *)
(* terminal and carries exactly the shares the book filled.                *)
(***************************************************************************)
FinalFrameSettles ==
    (/\ ~QtyGarbled /\ row.state # "LAPSED"
     /\ \E f \in applied : f.status \in {"COMPLETE", "CANCELLED", "REJECTED"}) =>
        row.state \in TERMINAL_ORDER_STATES /\ row.filled_qty = book.filled_qty

(***************************************************************************)
(* Why those hold.  Frames are old truths about a book that only moves     *)
(* forward: none reports more than the book has filled, and one that says  *)
(* the order is over, by its word or by its counts, reports the final      *)
(* count.  The row is no more than the best of the frames applied to it.   *)
(***************************************************************************)
FinalWords == {"COMPLETE", "CANCELLED", "REJECTED"}

SaysOver(f) ==
    f.status \in FinalWords \/ (f.qty # 0 /\ f.filled_qty >= f.qty)

BookConsistent ==
    /\ book.status = "absent" => book.filled_qty = 0 /\ sent = {}
    /\ book.status # "absent" => book.qty > 0 /\ book.price \in Prices
    /\ book.status = "open" => book.filled_qty < book.qty
    /\ book.filled_qty <= book.qty

FramesAreOldTruths ==
    \A f \in sent :
        /\ f.status \in {"OPEN", "TRIGGER PENDING"} \cup FinalWords
        /\ ~QtyGarbled => f.qty # 0
        /\ f.filled_qty <= book.filled_qty
        /\ SaysOver(f) => f.filled_qty = book.filled_qty /\ book.status \in Broker!Closed
        /\ f.status = "CANCELLED" => book.status = "cancelled"
        /\ f.status = "REJECTED" => book.status = "rejected"
        /\ f.status \notin {"CANCELLED", "REJECTED"} /\ SaysOver(f) => book.status = "complete"

CallsMatchRow ==
    /\ placeCall = "idle" => row.state \in {"DRAFT", "VALIDATED"}
    /\ placeCall \in {"inflight", "lost"} => row.state = "SUBMITTED"
    /\ placeCall = "failed" => row.state = "REJECTED" /\ book.status = "absent"
    /\ placeCall = "returned" <=> row.broker_order_id # NoId
    /\ row.broker_order_id # NoId => row.state \notin {"DRAFT", "VALIDATED"}
    /\ row.broker_order_id = NoId =>
          row.filled_qty = 0 /\ drain = <<>> /\ applied = {}

TerminalRowIsFinal ==
    (/\ ~QtyGarbled
     /\ row.state \in {"FILLED", "CANCELLED", "REJECTED"}
     /\ row.broker_order_id # NoId) => row.filled_qty = book.filled_qty
                                      /\ book.status \in Broker!Closed

IInv ==
    /\ TypeOK /\ BookConsistent /\ FramesAreOldTruths /\ CallsMatchRow
    /\ TerminalRowIsFinal
    /\ RowNeverAheadOfBook /\ NoAppliedFillMissing /\ FinalFrameSettles

(***************************************************************************)
(* A cancel or modify intent ends without a fill only when the broker has  *)
(* spoken: a working row that drops a cancel intent unfilled means the     *)
(* broker refused that cancel, and one that drops a modify intent unfilled *)
(* means a frame of the same second or later, or the refusal.              *)
(***************************************************************************)
IntentsEndForCause ==
    [][ (/\ row'.state \in WORKING_TARGETS
         /\ row'.filled_qty = row.filled_qty) =>
            /\ row.state = "CANCEL_PENDING" => cancelCall = "refused"
            /\ row.state = "MODIFY_PENDING" =>
                  \/ modifyCall.st = "refused"
                  \/ \E f \in sent : f.broker_ts >= row.updated_at ]_vars

(***************************************************************************)
(* The parameters of a row never come from nowhere: a step changes qty or  *)
(* price only to what the platform asks for, to what the refusal restores, *)
(* or to what a frame reports that does not predate the pending modify.    *)
(***************************************************************************)
ParametersHaveASource ==
    [][ <<row'.qty, row'.price>> # <<row.qty, row.price>> =>
            \/ row'.state = "MODIFY_PENDING" /\ modifyCall'.st = "inflight"
            \/ modifyCall.st = "refused" /\ row.state = "MODIFY_PENDING"
            \/ \E f \in applied' :
                  /\ row'.qty \in {row.qty, f.qty}
                  /\ row'.price = f.price
                  /\ row.state = "MODIFY_PENDING" => f.broker_ts >= row.updated_at ]_vars

(***************************************************************************)
(* The whole lifecycle only ever does to the row what OrderRow allows.     *)
(***************************************************************************)
ImplementsOrderRow == Row!Spec

(***************************************************************************)
(* ... and what happens in the broker's book is the life of one order.     *)
(***************************************************************************)
ImplementsBrokerBook == Broker!Spec

-----------------------------------------------------------------------------
(***************************************************************************)
(* Fairness: calls return, the broker answers what it was asked, refusals  *)
(* reach their door, and every frame is delivered at least once (a frame   *)
(* the buffer gave up on comes again with the next re-read).  Nothing is   *)
(* assumed about fills, about the platform's own decisions, or the clock.  *)
(***************************************************************************)
DeliverNew == \E f \in sent \ applied : Deliver(f)

Fairness ==
    /\ WF_vars(BrokerAccepts \/ PlaceRefused)
    /\ WF_vars(PlaceReturns)
    /\ WF_vars(DrainOne)
    /\ WF_vars(DeliverNew)
    /\ WF_vars(BrokerCancels \/ BrokerRefusesCancel)
    /\ WF_vars(BrokerModifies \/ BrokerRefusesModify)
    /\ WF_vars(CancelRefused)
    /\ WF_vars(ModifyRefused)

FairSpec == Spec /\ Fairness

(***************************************************************************)
(* No intent is left hanging: a row waiting on a cancel or a modify leaves *)
(* that state, whatever the order in which answers, fills and refusals     *)
(* arrive.  A row stranded in MODIFY_PENDING can be neither cancelled nor  *)
(* modified again.                                                         *)
(***************************************************************************)
IntentsResolve ==
    /\ (row.state = "CANCEL_PENDING") ~> (row.state # "CANCEL_PENDING")
    /\ (row.state = "MODIFY_PENDING") ~> (row.state # "MODIFY_PENDING")

(***************************************************************************)
(* Every submitted order that the broker closes ends in a terminal row.    *)
(***************************************************************************)
RowSettles ==
    (book.status \in Broker!Closed) ~> (row.state \in TERMINAL_ORDER_STATES)

-----------------------------------------------------------------------------
(* Everything the broker said has been applied and no call is outstanding. *)
Quiet ==
    /\ sent \subseteq applied /\ buffer = <<>> /\ drain = <<>>
    /\ cancelCall = "idle" /\ modifyCall = Idle

(***************************************************************************)
(* "The postback's own quantity/price/trigger_price are carried onto the   *)
(* row when they differ (the broker is authoritative about the live        *)
(* order's parameters)" (apply_update): once every frame is applied, a     *)
(* working row shows the parameters of the live order.                     *)
(***************************************************************************)
ParametersAgreeWhenQuiet ==
    (Quiet /\ row.state \in WORKING_TARGETS /\ book.status = "open") =>
        row.qty = book.qty /\ row.price = book.price

(***************************************************************************)
(* "A refused modify must not leave the amended parameters on the row"     *)
(* (the property test of the state machine): when the refusal has been     *)
(* handled, a row that is still live has the parameters the broker holds.  *)
(***************************************************************************)
RefusedModifyIsUndone ==
    [][ (/\ modifyCall.st = "refused" /\ modifyCall' = Idle
         /\ row'.state \notin TERMINAL_ORDER_STATES) =>
            row'.qty = book.qty /\ row'.price = book.price ]_vars
=============================================================================
