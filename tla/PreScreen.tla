----------------------------- MODULE PreScreen -----------------------------
(***************************************************************************)
(* The admission slots of SignalPreScreen (strategy/prescreen.py): one     *)
(* publication per (symbol, strategy) pair and day, a cap on the pairs of  *)
(* each strategy and of the day, and the displacement of a pair nobody has *)
(* looked at by a materially better one.  Every operator is one critical   *)
(* section of _lock, from the state p to the next one.                     *)
(***************************************************************************)
EXTENDS Integers, FiniteSets, Sequences, SequencesExt

CONSTANTS
    Pairs,
    StrategyOf,     \* the strategy of each pair
    StrategyCap,    \* max_per_strategy_day
    MaxDay,         \* max_candidates_per_day
    Scores,
    Margin          \* displacement_margin

Strategies == DOMAIN StrategyCap

ASSUME PreScreenAssumption ==
    /\ StrategyOf \in [Pairs -> Strategies] /\ StrategyCap \in [Strategies -> Nat]
    /\ MaxDay \in Nat /\ Scores \subseteq Nat \ {0} /\ Margin \in Nat \ {0}

(* _count_day and _count_by_strategy count the pairs of charged.  admitted *)
(* is in the order of the sequence numbers.                                *)
Empty ==
    [ seen |-> {}, charged |-> {}, evaluated |-> {}, declined |-> {}, displaced |-> {},
      admitted |-> <<>>, score |-> [pair \in Pairs |-> 0], notices |-> {},
      displacements |-> [s \in Strategies |-> 0], day_displacements |-> 0 ]

OfStrategy(pairs, s) == {pair \in pairs : StrategyOf[pair] = s}

DayFull(p) == Cardinality(p.charged) >= MaxDay
StrategyFull(p, s) == Cardinality(OfStrategy(p.charged, s)) >= StrategyCap[s]

-----------------------------------------------------------------------------
(* _displacement_scan_locked: who may be evicted for a candidate, outside   *)
(* of the batch that is being admitted.                                     *)
Displaceable(p, cand, batch) ==
    { pair \in OfStrategy(Range(p.admitted), StrategyOf[cand.pair]) \ batch :
        /\ pair \notin p.evaluated \/ pair \in p.declined
        /\ p.day_displacements < MaxDay
        /\ \/ pair \in p.declined
           \/ p.displacements[StrategyOf[pair]] < StrategyCap[StrategyOf[pair]]
        /\ cand.score - p.score[pair] >= Margin }

(* The worst of them, and of equals the one admitted first. *)
Worst(p, pairs) ==
    CHOOSE pair \in pairs : \A other \in pairs \ {pair} :
        \/ p.score[pair] < p.score[other]
        \/ p.score[pair] = p.score[other]
           /\ \E i, k \in DOMAIN p.admitted : p.admitted[i] = pair /\ p.admitted[k] = other /\ i < k

(* Mutant of the next definition: the victim keeps its charge. *)
DisplaceUncharged(p, victim) ==
    [ p EXCEPT !.seen = @ \ {victim}, !.admitted = RemoveFirst(@, victim),
               !.displaced = @ \cup {victim}, !.notices = @ \cup {victim} ]

(* _commit_displacement_locked.  A pair is admitted at most once, so its    *)
(* first entry is its only one.                                            *)
Displace(p, victim) ==
    [ p EXCEPT !.seen = @ \ {victim}, !.charged = @ \ {victim},
               !.evaluated = @ \ {victim}, !.declined = @ \ {victim},
               !.admitted = RemoveFirst(@, victim),
               !.displacements[StrategyOf[victim]] = IF victim \in p.declined THEN @ ELSE @ + 1,
               !.day_displacements = @ + 1,
               !.displaced = @ \cup {victim}, !.notices = @ \cup {victim} ]

(* A pair that is charged for the first time, or comes back within its quota. *)
Charge(p, cand) ==
    [ p EXCEPT !.seen = @ \cup {cand.pair}, !.charged = @ \cup {cand.pair},
               !.admitted = Append(RemoveFirst(@, cand.pair), cand.pair),
               !.score[cand.pair] = cand.score ]

Republish(p, cand) ==
    IF cand.pair \in Range(p.admitted) THEN Charge(p, cand)
    ELSE [p EXCEPT !.seen = @ \cup {cand.pair}]

(* _admit_one_locked, as the set of the next states: empty is a refusal. *)
Admitted(p, cand, batch) ==
    LET victims == Displaceable(p, cand, batch)
        full == DayFull(p) \/ StrategyFull(p, StrategyOf[cand.pair])
    IN CASE cand.pair \in p.seen -> {}
         [] cand.pair \notin p.seen /\ cand.pair \in p.charged -> {Republish(p, cand)}
         [] cand.pair \notin p.seen \cup p.charged /\ ~full -> {Charge(p, cand)}
         [] OTHER -> {Charge(Displace(p, Worst(p, v)), cand) : v \in {victims} \ {{}}}

(* _admit_batch_locked: the next of a batch, and the batch in the order of *)
(* its rank.                                                               *)
AdmitNext(acc, cand) ==
    LET next == Admitted(acc.p, cand, {c.pair : c \in acc.published})
    IN IF next = {} THEN acc
       ELSE [p |-> CHOOSE q \in next : TRUE, published |-> acc.published \cup {cand}]

AdmitBatch(p, cands) ==
    LET after[n \in 0 .. Len(cands)] ==
            IF n = 0 THEN [p |-> p, published |-> {}] ELSE AdmitNext(after[n - 1], cands[n])
    IN after[Len(cands)]

-----------------------------------------------------------------------------
(* rearm: the publication is given back, the charge is not. *)
RearmAll(p, pairs) ==
    [p EXCEPT !.seen = @ \ pairs, !.evaluated = @ \ (pairs \cap p.seen)]

(* Mutant of the next definition: every claim is granted. *)
NeverRefused(p, pair) == FALSE

(* claim_slot *)
ClaimRefused(p, pair) == pair \in p.displaced /\ pair \notin p.charged
Claim(p, pair) == [p EXCEPT !.evaluated = @ \cup {pair}]

(* decline *)
Decline(p, pair) == IF pair \in Range(p.admitted) THEN [p EXCEPT !.declined = @ \cup {pair}] ELSE p

(* hydrate: after a restart every pair that was published is undisplaceable. *)
Hydrated(seen, charged) ==
    [Empty EXCEPT !.seen = seen, !.charged = charged \cup seen, !.evaluated = charged \cup seen]
=============================================================================
