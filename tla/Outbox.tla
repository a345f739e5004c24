------------------------------- MODULE Outbox -------------------------------
(***************************************************************************)
(* Messages to the owner (notify/telegram.py): each is journalled in       *)
(* notifications, sent live, and re-sent by a drainer that picks due rows  *)
(* of the journal, critical ones first, and gives up on old ones.  Several *)
(* live sends and one drain pass are in flight at a time, each across an   *)
(* await of up to 95 s.                                                    *)
(*                                                                         *)
(* Messages are numbered in the order they are raised.  Time is counted in *)
(* drain passes (30 s); a send may end in an error although the owner got  *)
(* the message (a read timeout).  The split into parts is left out: a      *)
(* message is received when its last part is.                              *)
(***************************************************************************)
EXTENDS Integers, FiniteSets, Sequences, SequencesExt

CONSTANTS
    LastMessage,
    Critical,       \* CRITICAL_KINDS, or severity critical
    Unsendable,     \* what Telegram will always refuse
    DrainBatch, DrainScan, MaxBackoff,  \* _DRAIN_BATCH, _DRAIN_SCAN, _BACKOFF_MAX_S in passes
    MaxFaults       \* bound on outages, failing journal writes, crashes

Messages == 1 .. LastMessage

OutboxAssumption ==
    /\ {LastMessage, MaxFaults} \subseteq Nat /\ {DrainBatch, DrainScan} \subseteq Nat \ {0}
    /\ MaxBackoff \in Nat \ {0, 1}
    /\ Critical \subseteq Messages /\ Unsendable \subseteq Messages

VARIABLES
    raised,         \* how many messages the engine has raised
    row,            \* notifications
    polling,        \* _app: the transport has started
    disabled,       \* ... or its start has failed, for this process
    link,           \* the network
    sending,        \* live sends in flight, with or without a row
    pass,           \* the rest of _due_rows; the first is in flight
    old,            \* the messages that are older than _EXPIRY_H: 1 .. old
    received,       \* the owner has it (environment)
    faults

vars == <<raised, row, polling, disabled, link, sending, pass, old, received, faults>>

NoRow == [status |-> "none", attempts |-> 0, wait |-> 0]

Init ==
    /\ raised = 0 /\ row = [m \in Messages |-> NoRow]
    /\ polling = FALSE /\ disabled = FALSE /\ link \in BOOLEAN
    /\ sending = {} /\ pass = <<>> /\ old = 0 /\ received = {}
    /\ faults = 0

Pending == {m \in Messages : row[m].status = "pending"}

-----------------------------------------------------------------------------
(* _backoff_elapsed: the delay after so many failed attempts.  Attempts    *)
(* count only as far as it grows.                                          *)
Delay(attempts) == IF 2 ^ (attempts - 1) < MaxBackoff THEN 2 ^ (attempts - 1) ELSE MaxBackoff

(* ... in passes: more of them when the attempt ended within an interval,  *)
(* fewer when passes are slow, but no pass outlasts the longest backoff.   *)
Waits(attempts) ==
    {w \in 1 .. Delay(attempts) + 1 : Delay(attempts) = MaxBackoff => w > 1}

Attempted(n, w) ==
    [status |-> "pending", attempts |-> IF n < MaxBackoff THEN n + 1 ELSE n, wait |-> w]

(* _journal_attempt_failed: only a pending row counts. *)
AttemptFailed(m) ==
    IF row[m].status = "pending"
    THEN \E w \in Waits(row[m].attempts + 1) :
            row' = [row EXCEPT ![m] = Attempted(@.attempts, w)]
    ELSE UNCHANGED row

(* _journal_delivered: whatever the row says, if there is one. *)
Delivered(m) ==
    row' = IF row[m].status = "none" THEN row ELSE [row EXCEPT ![m].status = "delivered"]

Journals(write) ==
    \/ write /\ UNCHANGED faults
    \/ faults < MaxFaults /\ faults' = faults + 1 /\ UNCHANGED row

(* How _deliver ends for a message on the wire. *)
Outcome(m) ==
    \/ /\ link /\ m \notin Unsendable
       /\ received' = received \cup {m} /\ Journals(Delivered(m))
    \/ /\ ~link \/ m \in Unsendable
       /\ \/ UNCHANGED received
          \/ m \notin Unsendable /\ received' = received \cup {m}
       /\ Journals(AttemptFailed(m))

(* send: journal first, then the wire; without a transport the attempt has *)
(* failed at once.                                                         *)
Send ==
    LET m == raised + 1
        journalled == [row EXCEPT ![m].status = "pending"]
    IN  /\ raised < LastMessage /\ raised' = m
        /\ \/ /\ polling /\ sending' = sending \cup {m}
              /\ Journals(row' = journalled)
           \/ /\ ~polling /\ UNCHANGED sending
              /\ \/ Journals(\E w \in Waits(1) : row' = [journalled EXCEPT ![m] = Attempted(0, w)])
                 \/ faults < MaxFaults /\ faults' = faults + 1 /\ row' = journalled
        /\ UNCHANGED <<polling, disabled, link, pass, old, received>>

SendEnds(m) ==
    /\ m \in sending /\ sending' = sending \ {m}
    /\ Outcome(m)
    /\ UNCHANGED <<raised, polling, disabled, link, pass, old>>

-----------------------------------------------------------------------------
(* The drainer *)

Scanned == {m \in Pending : Cardinality({n \in Pending : n < m}) < DrainScan}

(* _expire_if_due, of the rows scanned. *)
Expiring == (Scanned \cap 1 .. old) \ Critical

Due(m) == row[m].wait <= 1      \* one interval has passed since it was last counted down

InOrder(set) == SetToSortSeq(set, LAMBDA m, n : m < n)
First(seq, n) == SubSeq(seq, 1, IF Len(seq) < n THEN Len(seq) ELSE n)

(* Mutant of DueRows: the oldest rows take the slots, due or not. *)
OldestRows(rows) ==
    SelectSeq(First(InOrder(rows), DrainBatch), Due)

(* Those out of their backoff, critical ones first, each class in order. *)
DueRows(rows) ==
    LET due == {m \in rows : Due(m)}
    IN  First(InOrder(due \cap Critical) \o InOrder(due \ Critical), DrainBatch)

(* _drain_outbox_once up to its first send.  One pass per interval.  A row *)
(* whose expiry cannot be written is pending still, and may be due.        *)
DrainPass ==
    /\ polling /\ pass = <<>>
    /\ \E kept \in SUBSET Expiring :
          LET expired == Expiring \ kept
          IN  /\ faults' = faults + Cardinality(kept) /\ faults' <= MaxFaults
              /\ pass' = DueRows(Scanned \ expired)
              /\ row' = [m \in Messages |->
                    CASE m \in expired -> [row[m] EXCEPT !.status = "failed"]
                      [] m \in Pending \ expired /\ row[m].wait > 0 -> [row[m] EXCEPT !.wait = @ - 1]
                      [] OTHER -> row[m]]
    /\ UNCHANGED <<raised, polling, disabled, link, sending, old, received>>

DrainSends ==
    /\ pass # <<>> /\ pass' = Tail(pass)
    /\ Outcome(Head(pass))
    /\ UNCHANGED <<raised, polling, disabled, link, sending, old>>

-----------------------------------------------------------------------------
(* The world *)

(* start: bounded, and disabled for good when it fails. *)
Start ==
    /\ ~polling /\ ~disabled
    /\ \/ link /\ polling' = TRUE /\ UNCHANGED disabled
       \/ ~link /\ disabled' = TRUE /\ UNCHANGED polling
    /\ UNCHANGED <<raised, row, link, sending, pass, old, received, faults>>

Outage ==
    /\ link /\ faults < MaxFaults
    /\ link' = FALSE /\ faults' = faults + 1
    /\ UNCHANGED <<raised, row, polling, disabled, sending, pass, old, received>>

LinkBack ==
    /\ ~link /\ link' = TRUE
    /\ UNCHANGED <<raised, row, polling, disabled, sending, pass, old, received, faults>>

(* A send lasts seconds, the time to live is hours. *)
Ages ==
    /\ old < raised /\ sending \cap 1 .. old + 1 = {} /\ ~\E i \in DOMAIN pass : pass[i] = old + 1
    /\ old' = old + 1
    /\ UNCHANGED <<raised, row, polling, disabled, link, sending, pass, received, faults>>

(* A crash, or a stop, and the next process; what was on the wire may have *)
(* arrived.  Only the stops of a bot that works are bounded.               *)
Restart ==
    /\ \/ disabled /\ UNCHANGED faults
       \/ faults < MaxFaults /\ faults' = faults + 1
    /\ polling' = FALSE /\ disabled' = FALSE /\ sending' = {} /\ pass' = <<>>
    /\ LET wire == (sending \cup (IF pass = <<>> THEN {} ELSE {Head(pass)})) \ Unsendable
       IN  \E arrived \in SUBSET wire : received' = received \cup arrived
    /\ UNCHANGED <<raised, row, link, old>>

Next ==
    \/ Send \/ \E m \in Messages : SendEnds(m)
    \/ DrainPass \/ DrainSends
    \/ Start \/ Outage \/ LinkBack \/ Restart \/ Ages

Spec == Init /\ [][Next]_vars

(* The loops run, sends are bounded by their timeout, outages end. *)
Fairness ==
    /\ WF_vars(DrainPass) /\ WF_vars(DrainSends) /\ WF_vars(LinkBack)
    /\ \A m \in Messages : WF_vars(SendEnds(m))

LiveSpec == Spec /\ Fairness

-----------------------------------------------------------------------------
(* Properties *)

TypeOK ==
    /\ raised \in 0 .. LastMessage
    /\ row \in [Messages -> [status : {"none", "pending", "delivered", "failed"},
                             attempts : 0 .. MaxBackoff, wait : 0 .. MaxBackoff + 1]]
    /\ sending \subseteq 1 .. raised /\ old \in 0 .. raised /\ received \subseteq 1 .. raised

(* A row says delivered only of what the owner has, and only a message     *)
(* that is not critical is ever given up, however live sends, retries,     *)
(* expiry and restarts overlap (CRITICAL_KINDS, _journal_delivered).       *)
NothingLost ==
    \A m \in Messages :
        /\ row[m].status = "delivered" => m \in received
        /\ row[m].status = "failed" => m \notin Critical

(* Once the transport is up for good, a journalled critical message that   *)
(* Telegram accepts reaches the owner, behind whatever is stuck in the     *)
(* queue (_due_rows' head-of-line fix).                                    *)
CriticalArrives ==
    <>[]polling =>
        \A m \in Critical \ Unsendable : (row[m].status = "pending") ~> (m \in received)

(* The backlog is replayed in the order in which it was raised: a sentence *)
(* of _DRAIN_BATCH's comment that backoff does not let the code keep.      *)
BacklogInOrder ==
    \A m \in Pending : pass # <<>> /\ m < Head(pass) => (m \in Critical <=> Head(pass) \notin Critical)
=============================================================================
