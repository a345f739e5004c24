---------------------------- MODULE MCOrderParts ----------------------------
(***************************************************************************)
(* Four small parts around the order path that share no state, checked in  *)
(* one run: a behaviour is of the order store, of the correlation buffer,  *)
(* of the rate limiter or of the messages to the owner.                    *)
(***************************************************************************)
EXTENDS OrderStore

CONSTANTS
    b1, w1, w2,                                     \* of the store
    Ids, MaxEntries, MaxAge, Times, MaxHeld,        \* of the buffer
    Entry, Reducing, Cap, Burst, Second, MaxStep, MaxSteps, MaxNewDays,     \* of the limiter
    LastMessage, Critical, Unsendable, DrainBatch, DrainScan, MaxBackoff, MaxFaults

VARIABLES
    part,
    entries, held, resolved, evicted, expired, delivered, discarded,
    tokens, lag, caller, left, entry_calls, stale_day, recent, steps, newDays,
    raised, journal, polling, disabled, link, sending, pass, old, received, faults

bufferVars == <<entries, held, resolved, evicted, expired, delivered, discarded>>
limiterVars == <<tokens, lag, caller, left, entry_calls, stale_day, recent, steps, newDays>>
messageVars ==
    <<raised, journal, polling, disabled, link, sending, pass, old, received, faults>>
allVars == <<part, vars, bufferVars, limiterVars, messageVars>>

Buffer == INSTANCE PendingCorrelation
Limiter == INSTANCE RateLimiter
Messages == INSTANCE Outbox WITH row <- journal

ASSUME PartsAssumption ==
    /\ Buffer!BufferAssumption /\ Limiter!LimiterAssumption
    /\ Messages!OutboxAssumption

MCBrokerIds == {b1}
MCWriters == {w1, w2}
MCAmendments == {[qty |-> 0, price |-> 2]}

Frame(word, filled, price) ==
    [ broker_order_id |-> b1, status |-> word, filled_qty |-> filled, qty |-> 2,
      price |-> price, broker_ts |-> 1 ]

MCFrames ==
    { Frame("OPEN", 0, 1), Frame("OPEN", 0, 2), Frame("OPEN", 1, 1),
      Frame("COMPLETE", 2, 1), Frame("CANCELLED", 1, 1), Frame("REJECTED", 0, 1),
      Frame("CANCEL PENDING", 0, 1) }

(* A part that does not move has one initial state. *)
PartsInit ==
    /\ part \in {"store", "buffer", "limiter", "messages"}
    /\ Init /\ Buffer!Init /\ Limiter!Init /\ Messages!Init
    /\ part # "messages" => link

Paces(A) == part = "limiter" /\ A /\ UNCHANGED <<part, vars, bufferVars, messageVars>>
Sends(A) == part = "messages" /\ A /\ UNCHANGED <<part, vars, bufferVars, limiterVars>>

PartsNext ==
    \/ /\ part = "store" /\ Next
       /\ UNCHANGED <<part, bufferVars, limiterVars, messageVars>>
    \/ /\ part = "buffer" /\ Buffer!Next
       /\ UNCHANGED <<part, vars, limiterVars, messageVars>>
    \/ Paces(Limiter!Next)
    \/ Sends(Messages!Next)

(* A behaviour is of one part: a condition on a disjunction of several     *)
(* parts' actions says the same as one on each of them.                    *)
PartsSpec ==
    /\ PartsInit /\ [][PartsNext]_allVars
    /\ WF_allVars(Paces(Limiter!Tick) \/ Sends(Messages!DrainPass))
    /\ WF_allVars(Sends(Messages!DrainSends)) /\ WF_allVars(Sends(Messages!LinkBack))
    /\ \A m \in 1 .. LastMessage : WF_allVars(Sends(Messages!SendEnds(m)))
    /\ \A c \in Entry \cup Reducing : WF_allVars(Paces(Limiter!Retry(c)))

(* Every update offered to the buffer is in exactly one place, and those   *)
(* of one order are handed over in the order they arrived.                 *)
BufferKeepsUpdates == Buffer!Conserved /\ Buffer!DeliveredInOrder

(* At most Burst order calls in any second, and the entry budget is        *)
(* overshot by one call per further caller at most.                        *)
PacedWithinBudget == Limiter!Paced /\ Limiter!EntryOvershootBounded

(* A risk-reducing call that waits for a token gets one. *)
FlattenSent == Limiter!FlattenSent

(* A message said to be delivered is, no critical one is given up, and it  *)
(* reaches the owner once the link holds.                                  *)
OwnerIsTold == []Messages!NothingLost /\ Messages!CriticalArrives
=============================================================================
