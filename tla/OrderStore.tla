----------------------------- MODULE OrderStore -----------------------------
(***************************************************************************)
(* oms/store.py under several callers.  A caller reads the persisted row,  *)
(* computes a step of the order machine from that snapshot, and offers the *)
(* result to record, which checks and writes inside one transaction.       *)
(* Between the two it may await a broker call, so any number of other      *)
(* callers' records may land in between.                                   *)
(***************************************************************************)
EXTENDS OrderMachine

CONSTANTS
    Writers,                    \* callers of the store
    NoSnapshot,                 \* a caller that holds no row
    BrokerIds, Frames, Amendments,
    InitialQty, InitialPrice,
    MaxTime                     \* bound on the clock the callers stamp with

ASSUME StoreAssumption ==
    /\ NoId \notin BrokerIds
    /\ Frames \subseteq BrokerUpdate(BrokerIds) /\ Amendments \subseteq Fields
    /\ InitialQty \in Nat \ {0} /\ InitialPrice \in Nat \ {0} /\ MaxTime \in Nat
    /\ NoSnapshot \notin PlatformOrder(BrokerIds)

VARIABLES
    row,        \* the orders row
    event,      \* the latest order_events row
    prior,      \* prior_fields of the latest amend event
    snapshot,   \* what each caller read
    now

vars == <<row, event, prior, snapshot, now>>

NoEvent == [from |-> "DRAFT", to |-> "DRAFT", noop |-> TRUE]

(* insert, and the row that submission has reached. *)
Init ==
    /\ row = [ state |-> "SUBMITTED", broker_order_id |-> NoId, qty |-> InitialQty,
               price |-> InitialPrice, filled_qty |-> 0, modifications |-> 0,
               updated_at |-> 0 ]
    /\ event = NoEvent
    /\ prior = NoFields
    /\ snapshot = [w \in Writers |-> NoSnapshot]
    /\ now = 0

Read(w) ==
    /\ snapshot' = [snapshot EXCEPT ![w] = row]
    /\ UNCHANGED <<row, event, prior, now>>

(* Mutant of the next guard: the state is not compared. *)
RefusedIfTerminal(persisted, before) == persisted.state \in TERMINAL_ORDER_STATES

(* TerminalOrderWrite or StaleOrderWrite, decided inside the transaction. *)
Refused(persisted, before) ==
    \/ persisted.state \in TERMINAL_ORDER_STATES
    \/ persisted.state # before.state

(* The caller of a refused write has nothing to go on and must read again. *)
Record(w, after) ==
    /\ snapshot' = [snapshot EXCEPT ![w] = NoSnapshot]
    /\ IF Refused(row, snapshot[w])
       THEN UNCHANGED <<row, event>>
       ELSE /\ row' = after
            /\ event' = [from |-> snapshot[w].state, to |-> after.state, noop |-> FALSE]
    /\ UNCHANGED now

RecordNoop(w) ==
    /\ snapshot' = [snapshot EXCEPT ![w] = NoSnapshot]
    /\ event' = [from |-> snapshot[w].state, to |-> snapshot[w].state, noop |-> TRUE]
    /\ UNCHANGED <<row, now>>

Holds(w) == snapshot[w] # NoSnapshot

Correlates(w, bid) ==
    /\ Holds(w) /\ CanCorrelate(snapshot[w], bid)
    /\ Record(w, Correlate(snapshot[w], bid))
    /\ UNCHANGED prior

Moves(w, to) ==
    /\ Holds(w) /\ CanTransition(snapshot[w], to)
    /\ Record(w, Transition(snapshot[w], to, now))
    /\ UNCHANGED prior

Amends(w, fields) ==
    /\ Holds(w) /\ CanAmend(snapshot[w], fields)
    /\ Record(w, Amend(snapshot[w], fields, now))
    /\ prior' = IF Refused(row, snapshot[w]) THEN prior ELSE PriorFields(snapshot[w], fields)

CancelRefused(w) ==
    /\ Holds(w) /\ CanCancelRejected(snapshot[w])
    /\ Record(w, CancelRejected(snapshot[w], now))
    /\ UNCHANGED prior

ModifyRefused(w) ==
    /\ Holds(w) /\ CanModifyRejected(snapshot[w])
    /\ Record(w, ModifyRejected(snapshot[w], prior, now))
    /\ UNCHANGED prior

Applies(w, u) ==
    /\ Holds(w) /\ Routable(snapshot[w], u)
    /\ IF IsNoop(snapshot[w], u)
       THEN RecordNoop(w)
       ELSE Record(w, ApplyUpdate(snapshot[w], u, now))
    /\ UNCHANGED prior

Tick == now < MaxTime /\ now' = now + 1 /\ UNCHANGED <<row, event, prior, snapshot>>

Next ==
    \/ \E w \in Writers :
          \/ Read(w)
          \/ \E bid \in BrokerIds : Correlates(w, bid)
          \/ \E to \in {"CANCEL_PENDING", "LAPSED"} : Moves(w, to)
          \/ \E fields \in Amendments : Amends(w, fields)
          \/ CancelRefused(w) \/ ModifyRefused(w)
          \/ \E u \in Frames : Applies(w, u)
    \/ Tick

Spec == Init /\ [][Next]_vars

-----------------------------------------------------------------------------
TypeOK ==
    /\ row \in PlatformOrder(BrokerIds)
    /\ event \in [from : OrderState, to : OrderState, noop : BOOLEAN]
    /\ prior \in Fields
    /\ snapshot \in [Writers -> PlatformOrder(BrokerIds) \cup {NoSnapshot}]
    /\ now \in 0 .. MaxTime

(***************************************************************************)
(* The audit chain is unbroken whoever writes: every change of the row     *)
(* comes with an event that starts where the persisted row stood, ends     *)
(* where it now stands, and is an edge of the machine (or keeps the state, *)
(* for a correlation).  Two callers that act on the same state from old    *)
(* snapshots cannot both be recorded.                                      *)
(***************************************************************************)
EdgesOfMachine == ALLOWED_TRANSITIONS \cup CANCEL_REJECTED_TRANSITIONS

AuditChain ==
    [][ row' # row =>
            /\ event'.noop = FALSE
            /\ event'.from = row.state /\ event'.to = row'.state
            /\ \/ <<row.state, row'.state>> \in EdgesOfMachine
               \/ row'.state = row.state /\ row.state \notin TERMINAL_ORDER_STATES ]_vars

(***************************************************************************)
(* "A compare-and-swap, so a caller holding a stale snapshot cannot roll   *)
(* the row backwards over a concurrent write" (store.py): no record takes  *)
(* back a fill, a spent modification or a correlation.                     *)
(***************************************************************************)
NoRollBack ==
    [][ /\ row'.filled_qty >= row.filled_qty
        /\ row'.modifications >= row.modifications
        /\ row.broker_order_id # NoId => row'.broker_order_id = row.broker_order_id ]_vars
=============================================================================
