------------------------- MODULE RecommendationBook -------------------------
(***************************************************************************)
(* A recommendation from its delivery to its outcome: RecommendationBook   *)
(* (deliver, take, close, veto, expire_stale), the position events and the *)
(* max-holding sweep that recommend exits of the open positions, and the   *)
(* consecutive-loss count the risk gate reads off the same ledger          *)
(* (ops/pipeline.py, core/recommendations.py, risk/exposure.py).           *)
(*                                                                         *)
(* A position is named by the entry it was opened for.  A row of           *)
(* positions keeps its stop and quantity, so an exit of a position always  *)
(* "describes it"; the owner answers by rec_id, which is what every ticker *)
(* the bot resolves comes down to.  A scratch counts as a win.             *)
(***************************************************************************)
EXTENDS Naturals, FiniteSets

CONSTANTS
    Entries,        \* the entry recommendations
    Manages         \* the exit and adjust recommendations

ASSUME BookAssumption ==
    IsFiniteSet(Entries \cup Manages) /\ Entries \cap Manages = {} /\ "none" \notin Entries

Recs == Entries \cup Manages

VARIABLES
    rec,            \* recommendations: kind, human_action, still valid, rank among today's exits
    ledger,         \* learning_ledger: position_id, outcome_label, rank of today's close
    position,       \* positions: "none", "OPEN", "CLOSED"
    event,          \* a position event: "idle", "calling" the analyst, at the gate "known" or "unknown"
    debounced,      \* _last_position_event: seen within the hour
    todo, aged,     \* the sweep: positions to look at, and the one at the gate
    closes          \* closes of today

vars == <<rec, ledger, position, event, debounced, todo, aged, closes>>

Unsent == [kind |-> "unsent", source |-> "none", human |-> "none", live |-> FALSE, sent |-> 0]
Nobody == [position |-> "none", known |-> FALSE]

Init ==
    /\ rec = [r \in Recs |-> Unsent]
    /\ ledger = [r \in Recs |-> [position |-> "none", label |-> "none", closed |-> 0]]
    /\ position = [e \in Entries |-> "none"]
    /\ event = [e \in Entries |-> "idle"] /\ debounced = {}
    /\ todo = {} /\ aged = Nobody /\ closes = 0

-----------------------------------------------------------------------------
Latest == Cardinality({m \in Manages : rec[m].sent > 0})

(* deliver: the recommendation and its open ledger row, one transaction.   *)
Deliver(r, kind, source, of, live) ==
    /\ rec[r].kind = "unsent"
    /\ rec' = [rec EXCEPT ![r] = [kind |-> kind, source |-> source, human |-> "none", live |-> live,
                                  sent |-> IF r \in Manages THEN Latest + 1 ELSE 0]]
    /\ ledger' = [ledger EXCEPT ![r].position = of]

DeliverEntry(e) ==
    /\ Deliver(e, "entry", "none", "none", TRUE)
    /\ UNCHANGED <<position, event, debounced, todo, aged, closes>>

(* /taken: an open entry, or one that expired while the owner executed it. *)
Take(e) ==
    /\ rec[e].kind = "entry" /\ rec[e].human \in {"none", "expired"}
    /\ rec' = [rec EXCEPT ![e].human = "taken"]
    /\ position' = [position EXCEPT ![e] = "OPEN"]
    /\ ledger' = [ledger EXCEPT ![e] = [position |-> e, label |-> "none", closed |-> 0]]
    /\ UNCHANGED <<event, debounced, todo, aged, closes>>

(* Mutant of the next definition: only the row that was named is labelled. *)
NamedRow(r) == {q \in Recs : q = r /\ ledger[q].label = "none"}

(* The rows a close completes: every unlabelled one of its position. *)
CompletedRows(r) ==
    {q \in Recs : ledger[q].position = ledger[r].position /\ ledger[q].label = "none"}

(* /closed, by the entry's id or by that of any exit or adjust of it. *)
Close(r) ==
    /\ ledger[r].position # "none" /\ position[ledger[r].position] = "OPEN"
    /\ position' = [position EXCEPT ![ledger[r].position] = "CLOSED"]
    /\ closes' = closes + 1
    /\ \E outcome \in {"win", "loss"} :
          ledger' = [q \in Recs |-> IF q \in CompletedRows(r)
                                    THEN [ledger[q] EXCEPT !.label = outcome, !.closed = closes + 1]
                                    ELSE ledger[q]]
    /\ rec' = [rec EXCEPT ![r].human = "closed"]
    /\ UNCHANGED <<event, debounced, todo, aged>>

NoAction(rows, gone) ==
    [r \in Recs |-> IF r \in gone THEN [rows[r] EXCEPT !.label = "no_action", !.closed = 0] ELSE rows[r]]

(* /veto *)
Veto(r) ==
    /\ rec[r].kind # "unsent" /\ rec[r].human = "none"
    /\ rec' = [rec EXCEPT ![r].human = "dismissed"]
    /\ ledger' = NoAction(ledger, {r})
    /\ UNCHANGED <<position, event, debounced, todo, aged, closes>>

-----------------------------------------------------------------------------
(* recommendation_expired, for a recommendation nobody answered. *)
Stale(r) == rec[r].kind # "unsent" /\ rec[r].human = "none" /\ ~rec[r].live

(* Mutant of the next definition: the ledger rows are left as they are. *)
SweptOnlyRecs(rows, stale) == rows

(* expire_stale, on the ledger *)
SweptRows(rows, stale) == NoAction(rows, stale)

(* job_reco_expire: expire_stale, then check_aged_positions reads the open *)
(* positions; which of them have outlived their style's limit is left open.*)
RecoExpire ==
    /\ todo = {} /\ aged = Nobody
    /\ LET stale == {r \in Recs : Stale(r)}
       IN /\ rec' = [r \in Recs |-> IF r \in stale THEN [rec[r] EXCEPT !.human = "expired"] ELSE rec[r]]
          /\ ledger' = SweptRows(ledger, stale)
    /\ todo' \in SUBSET {e \in Entries : position[e] = "OPEN"}
    /\ UNCHANGED <<position, event, debounced, aged, closes>>

(* ... the gate reads the open positions of its context, and awaits more. *)
AgedPosition ==
    /\ aged = Nobody
    /\ \E e \in todo :
          /\ todo' = todo \ {e}
          /\ aged' = [position |-> e, known |-> position[e] = "OPEN"]
    /\ UNCHANGED <<rec, ledger, position, event, debounced, closes>>

(* ... and times out, refuses an unknown position, or lets the exit go out. *)
AgedExit ==
    /\ aged # Nobody /\ aged' = Nobody
    /\ \/ UNCHANGED <<rec, ledger>>
       \/ aged.known /\ \E m \in Manages : Deliver(m, "exit", "sweep", aged.position, TRUE)
    /\ UNCHANGED <<position, event, debounced, todo, closes>>

-----------------------------------------------------------------------------
ExitsToday(e) ==
    {m \in Manages : rec[m].kind = "exit" /\ rec[m].sent > 0 /\ ledger[m].position = e}

(* Mutant of the next definition: no exit of the day is thought to stand.  *)
NeverRepeats(e) == FALSE

(* _delivered_exit_today: the latest exit of the day still stands. *)
Repeats(e) ==
    \E m \in ExitsToday(e) :
        /\ \A q \in ExitsToday(e) : rec[q].sent <= rec[m].sent
        /\ rec[m].human # "expired" /\ ~Stale(m)

(* on_bar, near the stop, and _run_position_event up to the analyst: the   *)
(* event may be skipped as sold outside the ledger, or by the governor.    *)
OnBar(e) ==
    /\ position[e] = "OPEN" /\ event[e] = "idle" /\ e \notin debounced
    /\ debounced' = debounced \cup {e}
    /\ \/ UNCHANGED event
       \/ ~Repeats(e) /\ event' = [event EXCEPT ![e] = "calling"]
    /\ UNCHANGED <<rec, ledger, position, todo, aged, closes>>

(* The analyst fails, has nothing to say or breaks R3, or asks for an exit *)
(* or a tighter stop, for which the gate reads the open positions.         *)
AnalystAnswers(e) ==
    /\ event[e] = "calling"
    /\ event' \in { [event EXCEPT ![e] = "idle"],
                    [event EXCEPT ![e] = IF position[e] = "OPEN" THEN "known" ELSE "unknown"] }
    /\ UNCHANGED <<rec, ledger, position, debounced, todo, aged, closes>>

(* The time to live was stamped before the analyst was called. *)
GateAnswers(e) ==
    /\ event[e] \in {"known", "unknown"}
    /\ event' = [event EXCEPT ![e] = "idle"]
    /\ \/ UNCHANGED <<rec, ledger>>
       \/ /\ event[e] = "known"
          /\ \E m \in Manages, kind \in {"exit", "adjust"}, live \in BOOLEAN :
                Deliver(m, kind, "event", e, live)
    /\ UNCHANGED <<position, debounced, todo, aged, closes>>

-----------------------------------------------------------------------------
(* A time to live runs out (_ttl grows with the time of the stamp: of the  *)
(* exits of a position the one delivered first dies first), an hour passes *)
(* since an event, a day ends, the engine restarts.                        *)
Lapse(r) ==
    /\ rec[r].live
    /\ \A q \in Manages : rec[q].live /\ ledger[q].position = ledger[r].position => rec[q].sent >= rec[r].sent
    /\ rec' = [rec EXCEPT ![r].live = FALSE]
    /\ UNCHANGED <<ledger, position, event, debounced, todo, aged, closes>>

HourPasses(e) ==
    /\ e \in debounced /\ event[e] = "idle" /\ debounced' = debounced \ {e}
    /\ UNCHANGED <<rec, ledger, position, event, todo, aged, closes>>

NextDay ==
    /\ \A e \in Entries : event[e] = "idle"
    /\ todo = {} /\ aged = Nobody
    /\ \E r \in Recs : rec[r].live \/ rec[r].sent > 0 \/ ledger[r].closed > 0
    /\ rec' = [r \in Recs |-> [rec[r] EXCEPT !.live = FALSE, !.sent = 0]]
    /\ ledger' = [r \in Recs |-> [ledger[r] EXCEPT !.closed = 0]]
    /\ closes' = 0 /\ debounced' = {}
    /\ UNCHANGED <<position, event, todo, aged>>

Restart ==
    /\ debounced # {} \/ todo # {} \/ aged # Nobody
    /\ event' = [e \in Entries |-> "idle"] /\ debounced' = {} /\ todo' = {} /\ aged' = Nobody
    /\ UNCHANGED <<rec, ledger, position, closes>>

Next ==
    \/ \E e \in Entries :
          \/ DeliverEntry(e) \/ Take(e)
          \/ OnBar(e) \/ AnalystAnswers(e) \/ GateAnswers(e) \/ HourPasses(e)
    \/ \E r \in Recs : Close(r) \/ Veto(r) \/ Lapse(r)
    \/ RecoExpire \/ AgedPosition \/ AgedExit \/ NextDay \/ Restart

Spec == Init /\ [][Next]_vars

-----------------------------------------------------------------------------
(* What became of an entry, read off its three rows; "torn" if they do not *)
(* agree.                                                                  *)
Told(kind, told) ==
    IF kind = "unsent" THEN "absent"
    ELSE CASE told = <<"none", "none", "none">>           -> "offered"
           [] told = <<"dismissed", "none", "no_action">> -> "declined"
           [] told = <<"expired", "none", "no_action">>   -> "lapsed"
           [] told = <<"taken", "OPEN", "none">>          -> "open"
           [] told \in {"taken", "closed"} \X {"CLOSED"} \X {"win"}  -> "won"
           [] told \in {"taken", "closed"} \X {"CLOSED"} \X {"loss"} -> "lost"
           [] OTHER                                       -> "torn"

TradeOf(e) == Told(rec[e].kind, <<rec[e].human, position[e], ledger[e].label>>)

T == INSTANCE Trade WITH trade <- [e \in Entries |-> TradeOf(e)]

(* Whatever the owner, the sweep and the exits do, and in whatever order,  *)
(* the rows of an entry agree, and it is settled once with the outcome of  *)
(* its close (take, close, veto, expire_stale).                            *)
ImplementsTrade == T!Spec

(* A ledger row is unlabelled only while its recommendation awaits an      *)
(* answer or its entry's position is open: every non-fill, decline and     *)
(* close ends as a labelled training row (expire_stale, veto, close).      *)
AnsweredIsLabelled ==
    \A r \in Recs : rec[r].kind # "unsent" /\ ledger[r].label = "none" =>
        rec[r].human = "none" \/ (r \in Entries /\ position[r] = "OPEN")

(* The owner never has two live, unanswered exits of one position from     *)
(* position events, however calls, restarts, sweeps and answers interleave *)
(* (_skip_position_event reads before the analyst's await, deliver writes  *)
(* after it).                                                              *)
Standing(m) == rec[m].source = "event" /\ rec[m].kind = "exit" /\ rec[m].human = "none" /\ rec[m].live
OneStandingExit ==
    \A m, n \in Manages :
        Standing(m) /\ Standing(n) /\ ledger[m].position = ledger[n].position => m = n

-----------------------------------------------------------------------------
(* consecutive_losses of risk/exposure.py: count the rows closed today     *)
(* back from the latest until a non-loss.                                  *)
ConsecutiveLosses ==
    Cardinality({r \in Recs :
        /\ ledger[r].closed > 0 /\ ledger[r].label = "loss"
        /\ \A q \in Recs : ledger[q].label = "win" => ledger[q].closed < ledger[r].closed})

(* What its docstring says it counts, "losing closes at the tail of        *)
(* today's ledger": never more losses than positions closed today.  False: *)
(* a close also labels the rows of the position's exits.                   *)
LossesAreCloses == ConsecutiveLosses <= closes

(* The bot's word for what /closed may act on: a recommendation that is    *)
(* "taken and not yet closed" has an open position.  False: a close named  *)
(* by an exit's id leaves the entry taken.                                 *)
TakenIsOpen == \A e \in Entries : rec[e].human = "taken" => position[e] = "OPEN"

(* A row that close completed with an outcome keeps it.  False: the sweep  *)
(* relabels the rows of the exits that nobody answered.                    *)
OutcomeStands ==
    [][\A r \in Recs : ledger[r].label \in {"win", "loss"} => ledger'[r].label = ledger[r].label]_vars
=============================================================================
