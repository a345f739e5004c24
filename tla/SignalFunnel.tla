---------------------------- MODULE SignalFunnel ----------------------------
(***************************************************************************)
(* From a scan to the analyst, over one trading day: the pre-screen's      *)
(* admission slots (PreScreen), the publications on their way to the       *)
(* pipeline, its queue of pending forwards, the paced drain that spends    *)
(* one analyst call at a time, the evaluation with its awaits, and         *)
(* prescreen_day_slots, the journal a restart is rebuilt from              *)
(* (ops/pipeline.py, and _hydrate_prescreen of ops/main.py).               *)
(*                                                                         *)
(* Scans run in worker threads, handlers on the loop: a displacement is    *)
(* decided there and acted upon here, any number of scans later.  Which    *)
(* pending forward ranks best is left open, but for the front entries.     *)
(***************************************************************************)
EXTENDS PreScreen

CONSTANTS
    ForwardCap,         \* prescreen_forward_cap
    MaxPending,         \* MAX_PENDING_FORWARDS
    MaxBatch,           \* bound on the candidates of a scan
    MaxPublished,       \* bound on the publications
    MaxStops,           \* bound on the stops of the engine
    RaisesIn            \* the phases of an evaluation in which an exception is raised

Nobody == [pair |-> "none", id |-> 0]

ASSUME FunnelAssumption ==
    /\ {ForwardCap, MaxPending, MaxBatch, MaxPublished, MaxStops} \subseteq Nat
    /\ RaisesIn \subseteq {"calling", "gating", "sending"}
    /\ Nobody.pair \notin Pairs

VARIABLES
    up,
    rolled,         \* _forwarded_day is today
    pre,            \* the pre-screen
    bus,            \* published, not yet handled
    queue,          \* _pending_forwards
    count,          \* _forwarded_count
    requeued,       \* _requeued_forwards
    refunded,       \* _refunded_forwards
    tick,           \* the drain's: "idle", "sweeping", or the phase of its evaluation
    chosen,         \* ... and what it evaluates
    flushed,        \* _window_close_flushed_at is the end of the window
    window,         \* "open" or "closed"
    journal,        \* prescreen_day_slots
    verdicts,       \* the analyst's answers for a pair (history)
    policy,         \* the pairs last dropped at arrival by a governor block (history)
    published, stops

memory == <<rolled, queue, count, requeued, refunded, flushed>>
drain == <<tick, chosen>>
history == <<verdicts, policy>>
vars == <<up, memory, pre, bus, drain, window, journal, history, published, stops>>

NoRow == [row |-> FALSE, evaluated |-> FALSE, forwarded |-> 0, unsizeable |-> FALSE]

Init ==
    /\ up = FALSE /\ rolled = FALSE /\ pre = Empty
    /\ bus = {} /\ queue = {} /\ count = 0 /\ requeued = {} /\ refunded = {}
    /\ tick = "idle" /\ chosen = Nobody /\ flushed = FALSE /\ window = "open"
    /\ journal = [pair \in Pairs |-> NoRow]
    /\ verdicts = [pair \in Pairs |-> 0] /\ policy = {}
    /\ published = 0 /\ stops = 0

PairsOf(entries) == {e.pair : e \in entries}
Forwarded(rows) == FoldSet(LAMBDA pair, sum : sum + rows[pair].forwarded, 0, Pairs)

-----------------------------------------------------------------------------
(* _hydrate_prescreen, in a fresh process. *)
Boot ==
    /\ ~up /\ up' = TRUE
    /\ pre' = Hydrated({pair \in Pairs : journal[pair].evaluated}, {pair \in Pairs : journal[pair].row})
    /\ UNCHANGED <<memory, bus, drain, window, journal, history, published, stops>>

(* _scan, or admit for a sweep, and the publication of what was admitted. *)
Scan ==
    /\ up /\ window = "open"
    /\ \E cands \in SeqOf([pair : Pairs, score : Scores], MaxBatch) :
          /\ cands # <<>> /\ \A i, k \in DOMAIN cands : i < k =>
                cands[i].pair # cands[k].pair /\ cands[i].score >= cands[k].score
          /\ LET result == AdmitBatch(pre, cands)
                 accepted == SetToSeq({c.pair : c \in result.published})
             IN /\ accepted # <<>> /\ published + Len(accepted) <= MaxPublished
                /\ pre' = result.p
                /\ bus' = bus \cup {[pair |-> accepted[i], id |-> published + i] : i \in DOMAIN accepted}
                /\ published' = published + Len(accepted)
    /\ UNCHANGED <<up, memory, drain, window, journal, history, stops>>

-----------------------------------------------------------------------------
(* _rearm_slot: the journal says that nobody evaluated them, and the       *)
(* pre-screen may publish them again.                                      *)
Unspent(rows, pairs) ==
    [pair \in Pairs |-> IF pair \in pairs THEN [rows[pair] EXCEPT !.evaluated = FALSE] ELSE rows[pair]]

(* The state the loop's handlers work on, one record for what they share. *)
Loop == [pre |-> pre, queue |-> queue, journal |-> journal, count |-> count, rolled |-> rolled]

RearmSlots(s, pairs) ==
    [s EXCEPT !.pre = RearmAll(@, pairs), !.journal = Unspent(@, pairs)]

(* _apply_displacements: the victims leave the queue, but for a front entry. *)
Displaced(s) ==
    LET victims == s.pre.notices
        gone == {e \in s.queue : e.pair \in victims /\ ~e.front}
        retained == PairsOf({e \in s.queue : e.pair \in victims /\ e.front})
    IN RearmSlots([s EXCEPT !.pre.notices = {}, !.queue = @ \ gone], victims \ retained)

(* Published, and neither forwarded nor refused for good. *)
Orphans(rows) ==
    {pair \in Pairs : rows[pair].evaluated /\ rows[pair].forwarded = 0 /\ ~rows[pair].unsizeable}

(* Mutant of the next definition: the roll sweeps no orphans. *)
RolledOnly(s, in_flight) ==
    IF s.rolled THEN s ELSE [s EXCEPT !.rolled = TRUE, !.queue = {}, !.count = Forwarded(s.journal)]

(* _roll_forward_day, and _rearm_forward_orphans *)
Rolled(s, in_flight) ==
    IF s.rolled THEN s
    ELSE RearmSlots([s EXCEPT !.rolled = TRUE, !.queue = {}, !.count = Forwarded(s.journal)],
                    Orphans(s.journal) \ in_flight)

(* _journal_slot *)
JournalSlot(s, pair, stopless) ==
    [s EXCEPT !.journal[pair] = [@ EXCEPT !.row = TRUE, !.evaluated = TRUE, !.unsizeable = stopless]]

(* What an overflow may evict: a front entry last. *)
Evictable(entries) ==
    IF Cardinality(entries) <= MaxPending THEN {{}}
    ELSE LET plain == {e \in entries : ~e.front}
         IN {{e} : e \in IF plain = {} THEN entries ELSE plain}

(* _enqueue_forward, as the set of its outcomes: one entry a pair. *)
Enqueued(s, cand, front) ==
    LET entries == {e \in s.queue : e.pair # cand.pair}
                   \cup {[pair |-> cand.pair, id |-> cand.id, front |-> front]}
    IN { RearmSlots([s EXCEPT !.queue = entries \ out], PairsOf(out)) : out \in Evictable(entries) }

Becomes(s) ==
    /\ pre' = s.pre /\ queue' = s.queue /\ journal' = s.journal /\ count' = s.count /\ rolled' = s.rolled

(* on_signal_candidate: refused and re-armed (mode, risk state, kill,      *)
(* warm-up, window), unsizeable, blocked by the governor, or queued.       *)
Arrive(cand) ==
    /\ up /\ cand \in bus
    /\ bus' = bus \ {cand}
    /\ LET settled == JournalSlot(Displaced(Loop), cand.pair, FALSE)
           today == Rolled(settled, {cand.pair})
       IN \/ Becomes(RearmSlots(settled, {cand.pair})) /\ policy' = policy \ {cand.pair}
          \/ /\ window = "open"
             /\ Becomes(JournalSlot(settled, cand.pair, TRUE)) /\ policy' = policy \ {cand.pair}
          \/ window = "open" /\ Becomes(today) /\ policy' = policy \cup {cand.pair}
          \/ /\ window = "open"
             /\ \E s \in Enqueued(today, cand, FALSE) : Becomes(s)
             /\ policy' = policy \ {cand.pair}
    /\ UNCHANGED <<up, requeued, refunded, flushed, drain, window, verdicts, published, stops>>

-----------------------------------------------------------------------------
(* drain_forward_queue, up to the await of the orphaned-proposal sweep. *)
DrainTick ==
    /\ up /\ tick = "idle" /\ tick' = "sweeping"
    /\ Becomes(Displaced(Rolled(Loop, {})))
    /\ UNCHANGED <<up, requeued, refunded, chosen, flushed, bus, window, history, published, stops>>

(* The pacing interval, the mode, the risk state, the kill switch or the   *)
(* governor say no: the queue is kept.                                     *)
DrainRefused ==
    /\ tick = "sweeping" /\ tick' = "idle"
    /\ UNCHANGED <<up, memory, pre, bus, chosen, window, journal, history, published, stops>>

(* Mutant of the next definition: a front entry is taken for a spent forward. *)
FlushFresh ==
    /\ tick = "sweeping" /\ tick' = "idle" /\ window = "closed"
    /\ IF queue = {} \/ flushed THEN UNCHANGED <<rolled, queue, count, pre, journal, flushed>>
       ELSE /\ flushed' = TRUE
            /\ LET fresh == {e \in queue : ~e.front}
               IN Becomes(RearmSlots([Loop EXCEPT !.queue = @ \ fresh], PairsOf(fresh)))
    /\ UNCHANGED <<up, requeued, refunded, bus, chosen, window, history, published, stops>>

(* _flush_forwards_at_window_close *)
Flush ==
    /\ tick = "sweeping" /\ tick' = "idle" /\ window = "closed"
    /\ IF queue = {} \/ flushed THEN UNCHANGED <<rolled, queue, count, pre, journal, flushed>>
       ELSE /\ flushed' = TRUE
            /\ Becomes(RearmSlots([Loop EXCEPT !.queue = {}], PairsOf(queue)))
    /\ UNCHANGED <<up, requeued, refunded, bus, chosen, window, history, published, stops>>

(* _expire_forwards, for the entries past their TTL. *)
Expired(s, stale) == RearmSlots([s EXCEPT !.queue = @ \ stale], PairsOf(stale))

(* _take_forward_slot: the entries whose claim was refused are re-armed,   *)
(* the next one is charged for.                                            *)
Paid(slot) == [slot EXCEPT !.row = TRUE, !.forwarded = @ + 1]
TakeSlot(s, refused, e) ==
    LET kept == RearmSlots([s EXCEPT !.queue = @ \ (refused \cup {e})], PairsOf(refused))
    IN [kept EXCEPT !.pre = Claim(@, e.pair), !.count = @ + 1,
                    !.journal[e.pair] = Paid(@)]

(* _drain_one_forward: of the entries that are not deferred (entry band,   *)
(* warm-up) the best that can be claimed, front entries first.             *)
Drain ==
    /\ tick = "sweeping" /\ window = "open" /\ queue # {}
    /\ \E stale \in SUBSET queue :
          LET live == Expired(Rolled(Loop, {}), stale)
          IN \/ /\ live.count >= ForwardCap
                /\ Becomes(live) /\ tick' = "idle" /\ UNCHANGED <<chosen, refunded>>
             \/ /\ live.count < ForwardCap
                /\ \E deferred \in SUBSET live.queue :
                      LET offered == live.queue \ deferred
                          losers == {e \in offered : ClaimRefused(live.pre, e.pair)}
                          able == offered \ losers
                      IN \/ /\ able = {}
                            /\ Becomes(RearmSlots([live EXCEPT !.queue = @ \ losers], PairsOf(losers)))
                            /\ tick' = "idle" /\ UNCHANGED <<chosen, refunded>>
                         \/ \E e \in able, refused \in SUBSET losers :
                               /\ e.front \/ \A other \in able : ~other.front
                               /\ Becomes(TakeSlot(live, refused, e))
                               /\ tick' = "calling" /\ chosen' = [pair |-> e.pair, id |-> e.id]
                               /\ refunded' = refunded \ {e.id}
    /\ UNCHANGED <<up, requeued, flushed, bus, window, history, published, stops>>

-----------------------------------------------------------------------------
(* _refund_forward: once per charge. *)
Less(n) == IF n = 0 THEN 0 ELSE n - 1
Refund(s, cand) ==
    IF cand.id \in refunded THEN s
    ELSE [s EXCEPT !.count = Less(@), !.journal[cand.pair].forwarded = Less(@)]

EvaluationEnds ==
    /\ tick' = "idle" /\ chosen' = Nobody
    /\ UNCHANGED <<up, flushed, bus, window, policy, published, stops>>

Answered == verdicts' = [verdicts EXCEPT ![chosen.pair] = @ + 1]

(* The analyst could not be reached: nothing was evaluated. *)
AnalystFails ==
    /\ tick = "calling"
    /\ Becomes(Refund(RearmSlots(Loop, {chosen.pair}), chosen))
    /\ refunded' = refunded \cup {chosen.id}
    /\ EvaluationEnds /\ UNCHANGED <<requeued, verdicts>>

(* A governor block inside the harness refunds nothing. *)
AnalystBlocked ==
    /\ tick = "calling"
    /\ EvaluationEnds /\ UNCHANGED <<memory, pre, journal, verdicts>>

AnalystDeclines ==
    /\ tick = "calling" /\ Answered
    /\ Becomes([Loop EXCEPT !.pre = Decline(@, chosen.pair)])
    /\ EvaluationEnds /\ UNCHANGED <<requeued, refunded>>

(* An answer for another instrument is dropped. *)
AnalystIncoherent ==
    /\ tick = "calling" /\ Answered
    /\ EvaluationEnds /\ UNCHANGED <<memory, pre, journal>>

AnalystProposes ==
    /\ tick = "calling" /\ Answered /\ tick' = "gating"
    /\ UNCHANGED <<up, memory, pre, bus, chosen, window, journal, policy, published, stops>>

(* _handle_gate_context_timeout *)
GateTimesOut ==
    /\ tick = "gating"
    /\ Becomes(RearmSlots(Loop, {chosen.pair}))
    /\ EvaluationEnds /\ UNCHANGED <<requeued, refunded, verdicts>>

(* A rejection, or a request for the owner's approval. *)
GateRejects ==
    /\ tick = "gating"
    /\ EvaluationEnds /\ UNCHANGED <<memory, pre, journal, verdicts>>

(* The recommendation is in the book before its message is sent. *)
GateApproves ==
    /\ tick = "gating" /\ tick' = "sending"
    /\ UNCHANGED <<up, memory, pre, bus, chosen, window, journal, history, published, stops>>

Sent ==
    /\ tick = "sending"
    /\ EvaluationEnds /\ UNCHANGED <<memory, pre, journal, verdicts>>

(* _handle_forward_failure: the outcomes of the first failure of a signal, *)
(* and the loss of it at the second.                                       *)
Failed(s, cand) ==
    IF cand.id \in requeued THEN {s} ELSE Enqueued(Refund(s, cand), cand, TRUE)

(* An exception, from wherever the evaluation was. *)
EvaluationRaises ==
    /\ tick \in RaisesIn
    /\ \E s \in Failed(Loop, chosen) : Becomes(s)
    /\ refunded' = IF chosen.id \in requeued THEN refunded ELSE refunded \cup {chosen.id}
    /\ requeued' = requeued \cup {chosen.id}
    /\ EvaluationEnds /\ UNCHANGED verdicts

-----------------------------------------------------------------------------
WindowCloses ==
    /\ window = "open" /\ window' = "closed"
    /\ UNCHANGED <<up, memory, pre, bus, drain, journal, history, published, stops>>

(* A crash, or a clean stop, which cancels the evaluation in flight. *)
Stop ==
    /\ up /\ stops < MaxStops
    /\ \/ journal' = journal
       \/ /\ tick \in RaisesIn
          /\ \E s \in Failed(Loop, chosen) : journal' = s.journal
    /\ up' = FALSE /\ rolled' = FALSE /\ pre' = Empty
    /\ bus' = {} /\ queue' = {} /\ count' = 0 /\ requeued' = {} /\ refunded' = {}
    /\ tick' = "idle" /\ chosen' = Nobody /\ flushed' = FALSE
    /\ stops' = stops + 1
    /\ UNCHANGED <<window, history, published>>

Evaluation ==
    \/ AnalystFails \/ AnalystBlocked \/ AnalystDeclines \/ AnalystIncoherent \/ AnalystProposes
    \/ GateTimesOut \/ GateRejects \/ GateApproves \/ Sent \/ EvaluationRaises

SomeArrival == \E cand \in bus : Arrive(cand)

Next ==
    \/ Boot \/ Scan \/ SomeArrival
    \/ DrainTick \/ DrainRefused \/ Flush \/ Drain \/ Evaluation
    \/ WindowCloses \/ Stop

Spec == Init /\ [][Next]_vars

(* The tick is pulsed every minute, an evaluation ends, a stopped engine is *)
(* started again, the window closes, and what refuses a drain is lifted     *)
(* again and again.                                                         *)
Fairness ==
    /\ WF_vars(Boot \/ DrainTick \/ DrainRefused \/ Flush \/ Evaluation)
    /\ WF_vars(SomeArrival) /\ WF_vars(WindowCloses) /\ SF_vars(Flush)

LiveSpec == Spec /\ Fairness

-----------------------------------------------------------------------------
(* The candidates are pairs with a slot, and counters stay in their bounds. *)
TypeOK ==
    /\ pre.seen \subseteq pre.charged /\ Range(pre.admitted) \subseteq pre.charged
    /\ PairsOf(queue) \subseteq Pairs /\ Cardinality(queue) <= MaxPending
    /\ \A e, f \in queue : e.pair = f.pair => e = f
    /\ tick \in {"idle", "sweeping", "calling", "gating", "sending"}
    /\ count \in 0 .. MaxPublished + MaxStops /\ published \in 0 .. MaxPublished

(* max_per_strategy_day and max_candidates_per_day bound the pairs that     *)
(* hold a slot through every displacement and re-publication of a process.  *)
CapsHold ==
    stops = 0 => /\ Cardinality(pre.charged) <= MaxDay
                 /\ \A s \in Strategies : Cardinality(OfStrategy(pre.charged, s)) <= StrategyCap[s]

(* The forward cap bounds the answers the analyst gave, over failures,      *)
(* retries, refunds and restarts: a charge is journaled before its call and *)
(* given back once, when nothing was answered.                              *)
Answers == FoldSet(LAMBDA pair, sum : sum + verdicts[pair], 0, Pairs)
AnswersWithinCap ==
    /\ Answers <= ForwardCap
    /\ (up /\ rolled) => count = Forwarded(journal)

(* The orphans D1 is about: a slot the journal calls spent, without a       *)
(* forward, is on its way, queued, being evaluated or refused by policy.    *)
NoStrandedSlot ==
    (up /\ rolled) =>
        Orphans(journal) \subseteq PairsOf(bus) \cup PairsOf(queue) \cup policy \cup {chosen.pair}

(* An analyst call is never spent on a pair that lost its slot, however the *)
(* scans interleave with the tick (claim_slot).                             *)
CallsSpendHeldSlots ==
    [][tick = "sweeping" /\ tick' = "calling" => chosen'.pair \in pre'.charged]_vars

(* The paid slots and the analyst's calls belong together: neither is had   *)
(* without the other.                                                      *)
SlotsPayForCalls == []NoStrandedSlot /\ CallsSpendHeldSlots

(* No candidate waits for ever: it is forwarded, expires, is displaced, or  *)
(* the closed window hands its slot back.                                   *)
QueueEmpties == []<>(queue = {})

(* Not so (claim_slot, invariant #1): a pair that is being evaluated stays  *)
(* marked, and so cannot be displaced.                                     *)
EvaluatedKeepsItsSlot ==
    tick \in {"calling", "gating", "sending"} => chosen.pair \in pre.evaluated
=============================================================================
