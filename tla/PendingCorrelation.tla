------------------------- MODULE PendingCorrelation -------------------------
(***************************************************************************)
(* oms/correlation.py: the bounded buffer of updates whose broker id the   *)
(* platform has not recorded yet, for any number of ids.  hold, resolve    *)
(* and sweep hand back what they remove; the caller stamps the times, from *)
(* a wall clock that may be set back, so ages need not follow arrival.     *)
(***************************************************************************)
EXTENDS Integers, Sequences, FiniteSets, SequencesExt

CONSTANTS
    Ids,            \* broker order ids
    MaxEntries,     \* _max_entries
    MaxAge,         \* max_age_s
    Times,          \* readings of the caller's clock
    MaxHeld         \* bound on the updates offered to hold

BufferAssumption ==
    /\ MaxEntries \in Nat \ {0} /\ MaxAge \in Nat /\ MaxHeld \in Nat /\ Times \subseteq Nat

VARIABLES
    entries,        \* _entries
    held,           \* _held, which is also _seq
    resolved, evicted, expired,     \* the other counters of the ledger
    delivered,      \* entries resolve has handed back, in the order handed back
    discarded       \* entries hold and sweep have handed back, for the log

ledger == <<held, resolved, evicted, expired>>
vars == <<entries, ledger, delivered, discarded>>

Init ==
    /\ entries = <<>> /\ delivered = <<>> /\ discarded = {}
    /\ held = 0 /\ resolved = 0 /\ evicted = 0 /\ expired = 0

(* What is popped from the front until the buffer fits. *)
Overflow(es) == SubSeq(es, 1, Len(es) - MaxEntries)
Rest(es) == SubSeq(es, Len(Overflow(es)) + 1, Len(es))

(* The entries that are in keep, in their order. *)
Among(es, keep) ==
    LET upto[n \in 0 .. Len(es)] ==
            IF n = 0 THEN <<>>
            ELSE IF es[n] \in keep THEN Append(upto[n - 1], es[n]) ELSE upto[n - 1]
    IN upto[Len(es)]

hold(bid, at) ==
    /\ held < MaxHeld
    /\ LET all == Append(entries, [broker_order_id |-> bid, at |-> at, seq |-> held + 1]) IN
       /\ entries' = Rest(all)
       /\ evicted' = evicted + Len(Overflow(all))
       /\ discarded' = discarded \cup ToSet(Overflow(all))
    /\ held' = held + 1
    /\ UNCHANGED <<resolved, expired, delivered>>

Of(bid) == {e \in ToSet(entries) : e.broker_order_id = bid}

(* Mutant of the next definition: the newest entry comes first. *)
TakenNewestFirst(bid) == Reverse(Among(entries, Of(bid)))

Taken(bid) == Among(entries, Of(bid))

resolve(bid) ==
    /\ entries' = Among(entries, ToSet(entries) \ Of(bid))
    /\ delivered' = delivered \o Taken(bid)
    /\ resolved' = resolved + Len(Taken(bid))
    /\ UNCHANGED <<held, evicted, expired, discarded>>

sweep(now) ==
    LET stale == {e \in ToSet(entries) : now - e.at > MaxAge} IN
    /\ entries' = Among(entries, ToSet(entries) \ stale)
    /\ expired' = expired + Cardinality(stale)
    /\ discarded' = discarded \cup stale
    /\ UNCHANGED <<held, resolved, evicted, delivered>>

Next ==
    \/ \E bid \in Ids, at \in Times : hold(bid, at)
    \/ \E bid \in Ids : resolve(bid)
    \/ \E now \in Times : sweep(now)

Spec == Init /\ [][Next]_vars

-----------------------------------------------------------------------------
HeldUpdate == [broker_order_id : Ids, at : Times, seq : Nat]

TypeOK ==
    /\ entries \in Seq(HeldUpdate) /\ delivered \in Seq(HeldUpdate) /\ discarded \subseteq HeldUpdate
    /\ Len(entries) <= MaxEntries
    /\ {held, resolved, evicted, expired} \subseteq Nat

(***************************************************************************)
(* The ledger of accounting(), and what it stands for: every update ever   *)
(* offered is in exactly one place, waiting, delivered or handed back for  *)
(* the log; none is dropped and none is delivered twice.                   *)
(***************************************************************************)
Seqs(es) == {e.seq : e \in es}

Conserved ==
    /\ held = Len(entries) + resolved + evicted + expired
    /\ 1 .. held = Seqs(ToSet(entries)) \cup Seqs(ToSet(delivered)) \cup Seqs(discarded)
    /\ held = Len(entries) + Len(delivered) + Cardinality(discarded)

(***************************************************************************)
(* Updates of one order are delivered in the order they arrived, across    *)
(* evictions, sweeps and repeated resolves: "applying them out of order    *)
(* would let a stale ACK overwrite a fill".                                *)
(***************************************************************************)
DeliveredInOrder ==
    \A i, j \in 1 .. Len(delivered) :
        (i < j /\ delivered[i].broker_order_id = delivered[j].broker_order_id) =>
            delivered[i].seq < delivered[j].seq

=============================================================================
