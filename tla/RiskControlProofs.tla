-------------------------- MODULE RiskControlProofs --------------------------
(***************************************************************************)
(* What the sticky risk controls guarantee for every set of causes and of  *)
(* ladder evaluations, every number of days and any bound on the bridge;   *)
(* what they guarantee besides while the process lives; what the row of    *)
(* the engine's lifecycle and the watchdog make of its end; and what the   *)
(* catch-up passes owe before they lift the safety freeze.                 *)
(***************************************************************************)
EXTENDS MCRiskControl, CatchUp, WellFoundedInduction, TLAPS

(* The four states are ordered by their ranks. *)
LEMMA Ranks ==
    ASSUME NEW s \in RiskState
    PROVE  /\ RISK_RANK(s) \in 0 .. 3
           /\ RISK_RANK(s) = 0 <=> s = "NORMAL"
           /\ RISK_RANK(s) = 1 <=> s = "FROZEN"
           /\ RISK_RANK(s) = 2 <=> s = "CLOSE_ONLY"
           /\ RISK_RANK(s) = 3 <=> s = "KILLED"
  BY DEF RiskState, RISK_RANK

(* resolved_state returns a state that some cause latches, or NORMAL, and   *)
(* no cause latches a more restrictive one.                                *)
LEMMA LedgerResolves ==
    ASSUME NEW D, NEW l \in Ledger(D)
    PROVE  /\ resolved_state(l) \in RiskState
           /\ resolved_state(l) = "NORMAL" \/ \E c \in Causes : l.active[c] = resolved_state(l)
           /\ \A c \in Causes : RISK_RANK(l.active[c]) <= RISK_RANK(resolved_state(l))
<1> DEFINE Highest(s) == /\ s = "NORMAL" \/ \E c \in Causes : l.active[c] = s
                     /\ \A c \in Causes : RISK_RANK(l.active[c]) <= RISK_RANK(s)
<1>1. \A c \in Causes : l.active[c] \in RiskState
  BY DEF Ledger
<1>2. \E s \in RiskState : Highest(s)
  <2>1. CASE \E c \in Causes : l.active[c] = "KILLED"
    <3>1. "KILLED" \in RiskState /\ Highest("KILLED")
      BY <1>1, <2>1, Ranks DEF RiskState
    <3> QED BY <3>1
  <2>2. CASE /\ ~\E c \in Causes : l.active[c] = "KILLED"
             /\ \E c \in Causes : l.active[c] = "CLOSE_ONLY"
    <3>1. "CLOSE_ONLY" \in RiskState /\ Highest("CLOSE_ONLY")
      BY <1>1, <2>2, Ranks DEF RiskState
    <3> QED BY <3>1
  <2>3. CASE /\ ~\E c \in Causes : l.active[c] \in {"KILLED", "CLOSE_ONLY"}
             /\ \E c \in Causes : l.active[c] = "FROZEN"
    <3>1. "FROZEN" \in RiskState /\ Highest("FROZEN")
      BY <1>1, <2>3, Ranks DEF RiskState
    <3> QED BY <3>1
  <2>4. CASE ~\E c \in Causes : l.active[c] \in {"KILLED", "CLOSE_ONLY", "FROZEN"}
    <3>1. "NORMAL" \in RiskState /\ Highest("NORMAL")
      BY <1>1, <2>4, Ranks DEF RiskState
    <3> QED BY <3>1
  <2> QED BY <2>1, <2>2, <2>3, <2>4
<1>3. resolved_state(l) \in RiskState /\ Highest(resolved_state(l))
  BY <1>2 DEF resolved_state
<1> QED BY <1>3

(* Re-deriving the state makes it dominate the ledger it is derived from. *)
LEMMA Projected ==
    ASSUME NEW D, NEW l \in Ledger(D)
    PROVE  /\ Project(l) \in Ledger(D)
           /\ Dominates(Project(l))
           /\ Project(l).active = l.active
           /\ Project(l).set_at = l.set_at
           /\ Project(l).risk_state = resolved_state(l)
  BY LedgerResolves DEF Project, Ledger, Dominates

(* set_cause, or its first transaction alone: only the row of c changes. *)
LEMMA SetCause ==
    ASSUME NEW D, NEW l \in Ledger(D), NEW c \in Causes, NEW s \in LATCHING_STATES,
           NEW day \in D
    PROVE  /\ LatchOnly(l, c, s, day) \in Ledger(D)
           /\ LatchOnly(l, c, s, day).risk_state = l.risk_state
           /\ set_cause(l, c, s, day) \in Ledger(D)
           /\ Dominates(set_cause(l, c, s, day))
           /\ set_cause(l, c, s, day).risk_state # "NORMAL"
           /\ \A k \in Causes \ {c} :
                  /\ LatchOnly(l, c, s, day).active[k] = l.active[k]
                  /\ LatchOnly(l, c, s, day).set_at[k] = l.set_at[k]
           /\ LatchOnly(l, c, s, day).active[c] = s
           /\ Active(l, c) => LatchOnly(l, c, s, day).set_at[c] = l.set_at[c]
           /\ set_cause(l, c, s, day).active = LatchOnly(l, c, s, day).active
           /\ set_cause(l, c, s, day).set_at = LatchOnly(l, c, s, day).set_at
<1> DEFINE m == LatchOnly(l, c, s, day)
<1>1. m \in Ledger(D) /\ m.risk_state = l.risk_state /\ m.active[c] = s
  BY DEF LatchOnly, Ledger, LATCHING_STATES
<1>2. /\ \A k \in Causes \ {c} : m.active[k] = l.active[k] /\ m.set_at[k] = l.set_at[k]
      /\ Active(l, c) => m.set_at[c] = l.set_at[c]
  BY DEF LatchOnly, Ledger
<1>3. set_cause(l, c, s, day) = Project(m)
  BY DEF set_cause
<1>4. resolved_state(m) # "NORMAL"
  BY <1>1, LedgerResolves, Ranks DEF LATCHING_STATES, RiskState
<1> HIDE DEF m
<1>5. /\ Project(m) \in Ledger(D) /\ Dominates(Project(m)) /\ Project(m).risk_state # "NORMAL"
      /\ Project(m).active = m.active /\ Project(m).set_at = m.set_at
  BY <1>1, <1>4, Projected
<1> QED BY <1>1, <1>2, <1>3, <1>5 DEF m

(* clear_cause, or its first transaction alone: only the row of c changes,  *)
(* and the state only relaxes to NORMAL when c was active.                 *)
LEMMA ClearCause ==
    ASSUME NEW D, NEW l \in Ledger(D), NEW c \in Causes
    PROVE  /\ UnlatchOnly(l, c) \in Ledger(D)
           /\ UnlatchOnly(l, c).risk_state = l.risk_state
           /\ clear_cause(l, c) \in Ledger(D)
           /\ Dominates(clear_cause(l, c))
           /\ \A k \in Causes \ {c} :
                  /\ UnlatchOnly(l, c).active[k] = l.active[k]
                  /\ clear_cause(l, c).active[k] = l.active[k]
           /\ UnlatchOnly(l, c).set_at = l.set_at
           /\ clear_cause(l, c).set_at = l.set_at
           /\ clear_cause(l, c).active[c] = "NORMAL"
           /\ (l.risk_state # "NORMAL" /\ clear_cause(l, c).risk_state = "NORMAL")
                  => Active(l, c)
<1> DEFINE m == UnlatchOnly(l, c)
<1>1. /\ m \in Ledger(D) /\ m.risk_state = l.risk_state /\ m.active[c] = "NORMAL"
      /\ m.set_at = l.set_at /\ \A k \in Causes \ {c} : m.active[k] = l.active[k]
      /\ ~Active(l, c) => m = l
  BY DEF UnlatchOnly, Ledger, RiskState, Active
<1> HIDE DEF m
<1>2. CASE Preserves(l, c)
  <2>1. clear_cause(l, c) = l
    BY <1>2 DEF clear_cause
  <2>2. l.active[c] = "NORMAL" /\ RISK_RANK(l.risk_state) > RISK_RANK(resolved_state(l))
    BY <1>2 DEF Preserves, Active
  <2>3. ASSUME NEW k \in Causes
        PROVE  RISK_RANK(l.active[k]) <= RISK_RANK(l.risk_state)
    <3>1. l.active[k] \in RiskState /\ l.risk_state \in RiskState
      BY DEF Ledger
    <3>2. RISK_RANK(l.active[k]) <= RISK_RANK(resolved_state(l))
      BY LedgerResolves
    <3>3. /\ RISK_RANK(l.active[k]) \in 0 .. 3 /\ RISK_RANK(l.risk_state) \in 0 .. 3
          /\ RISK_RANK(resolved_state(l)) \in 0 .. 3
      BY <3>1, Ranks, LedgerResolves
    <3> QED BY <2>2, <3>2, <3>3
  <2> QED BY <1>1, <2>1, <2>2, <2>3 DEF m, Dominates
<1>3. CASE ~Preserves(l, c)
  <2>1. clear_cause(l, c) = Project(m)
    BY <1>3 DEF clear_cause, m
  <2>2. /\ Project(m) \in Ledger(D) /\ Dominates(Project(m))
        /\ Project(m).active = m.active /\ Project(m).set_at = m.set_at
        /\ Project(m).risk_state = resolved_state(m)
    BY <1>1, Projected
  <2>3. (l.risk_state # "NORMAL" /\ resolved_state(m) = "NORMAL") => Active(l, c)
    <3>1. SUFFICES ASSUME l.risk_state # "NORMAL", resolved_state(l) = "NORMAL", ~Active(l, c)
                   PROVE  FALSE
      BY <1>1
    <3>2. l.risk_state \in RiskState /\ resolved_state(l) \in RiskState
      BY LedgerResolves DEF Ledger
    <3>3. RISK_RANK(l.risk_state) \in 1 .. 3 /\ RISK_RANK(resolved_state(l)) = 0
      BY <3>1, <3>2, Ranks
    <3> QED BY <1>3, <3>1, <3>3 DEF Preserves
  <2> QED BY <1>1, <2>1, <2>2, <2>3 DEF m
<1> QED BY <1>2, <1>3

-----------------------------------------------------------------------------
(***************************************************************************)
(* LedgerDominates is not inductive: the boot must have passed step 5 with *)
(* the ledger healed or the switch engaged.  And a daily cause in the list *)
(* of stale ones must still be the one that was judged stale.              *)
(***************************************************************************)
PastStepFive == proc.boot \in {"warmup", "up"}

Healed == (PastStepFive /\ ~killed /\ ~ResetPending) => Dominates(ledger)

StaleIsStale ==
    \A c \in proc.stale : c \in DayScoped /\ Active(ledger, c) /\ ledger.set_at[c] < today

IInv == TypeOK /\ Healed /\ StaleIsStale

(* What a write of the row of c leaves behind. *)
Wrote(c, next) ==
    /\ c \in Causes
    /\ ledger' \in Ledger(Dates)
    /\ \A k \in Causes \ {c} :
           ledger'.active[k] = ledger.active[k] /\ ledger'.set_at[k] = ledger.set_at[k]
    /\ \/ proc' = next /\ Dominates(ledger')
       \/ proc' = Down

(* Latching writes one row, leaves the day of an active episode alone, and  *)
(* never relaxes the state.                                                *)
LEMMA LatchWrites ==
    ASSUME TypeOK, NEW c, NEW s \in LATCHING_STATES, NEW STATE next, Latch(c, s, next)
    PROVE  /\ Wrote(c, next)
           /\ ledger'.active[c] = s
           /\ Active(ledger, c) => ledger'.set_at[c] = ledger.set_at[c]
           /\ ledger'.risk_state = "NORMAL" => ledger.risk_state = "NORMAL"
<1>1. c \in Causes /\ ledger \in Ledger(Dates) /\ today \in Dates
  BY DEF Latch, TypeOK
<1>2. CASE ledger' = set_cause(ledger, c, s, today) /\ proc' = next
  BY <1>1, <1>2, SetCause DEF Wrote
<1>3. CASE ledger' = LatchOnly(ledger, c, s, today) /\ proc' = Down
  BY <1>1, <1>3, SetCause DEF Wrote
<1> QED BY <1>2, <1>3 DEF Latch

(* Clearing writes one row, and relaxes to NORMAL only an active cause. *)
LEMMA ClearWrites ==
    ASSUME TypeOK, NEW c, NEW STATE next, Clear(c, next)
    PROVE  /\ Wrote(c, next)
           /\ (ledger.risk_state # "NORMAL" /\ ledger'.risk_state = "NORMAL")
                  => Active(ledger, c) /\ ~Active(ledger', c)
<1>1. c \in Causes /\ ledger \in Ledger(Dates)
  BY DEF Clear, TypeOK
<1>2. CASE ledger' = clear_cause(ledger, c) /\ proc' = next
  <2>1. Wrote(c, next) /\ ledger'.active[c] = "NORMAL"
    BY <1>1, <1>2, ClearCause DEF Wrote
  <2>2. (ledger.risk_state # "NORMAL" /\ ledger'.risk_state = "NORMAL") => Active(ledger, c)
    BY <1>1, <1>2, ClearCause
  <2> QED BY <2>1, <2>2 DEF Active
<1>3. CASE ledger' = UnlatchOnly(ledger, c) /\ proc' = Down
  BY <1>1, <1>3, ClearCause DEF Wrote
<1> QED BY <1>2, <1>3 DEF Clear

(* Every evaluation of the ladder is a sequence of rungs. *)
LEMMA EvaluationsTyped == \A e \in AnyEvaluation : e \in Seq(Rung)
<1>1. \A f, d \in Seq(Rung) : f \o d \in Seq(Rung)
  OBVIOUS
<1>2. KillRung \in Seq(Rung) /\ CloseRung \in Seq(Rung)
  BY DEF KillRung, CloseRung, Rung
<1>3. HardRung \in Seq(Rung) /\ SoftRung \in Seq(Rung) /\ <<>> \in Seq(Rung)
  BY DEF HardRung, SoftRung, Rung
<1>4. evaluate_floors \subseteq Seq(Rung) /\ evaluate_day_loss \subseteq Seq(Rung)
  BY <1>1, <1>2, <1>3 DEF evaluate_floors, evaluate_day_loss
<1>5. TAKE e \in AnyEvaluation
<1>6. PICK f \in evaluate_floors, d \in evaluate_day_loss : e = f \o d
  BY <1>5 DEF AnyEvaluation
<1>7. f \in Seq(Rung) /\ d \in Seq(Rung)
  BY <1>4, <1>6
<1> QED BY <1>1, <1>6, <1>7

(***************************************************************************)
(* The three ways an action changes the process and the ledger: a write of *)
(* one row, no write at all, or a change of the switch with its event.     *)
(***************************************************************************)

(* A write of a row that is not a daily cause, by a coroutine that leaves   *)
(* the list of stale causes alone, keeps the invariant.                    *)
LEMMA RowWritten ==
    ASSUME IInv, NEW c \in Causes \ DayScoped, NEW STATE next, next \in Process,
           next.stale = proc.stale, Wrote(c, next), UNCHANGED <<mode, routing, killed, past>>
    PROVE  IInv'
<1>1. proc' = next \/ proc' = Down
  BY DEF Wrote
<1>2. Down \in Process /\ Down.boot = "down" /\ Down.stale = {}
  BY ControlAssumption DEF Down, Process, BootStep
<1>3. TypeOK'
  BY <1>1, <1>2 DEF IInv, TypeOK, Wrote, past, Process, Dates
<1>4. Healed'
  BY <1>1, <1>2 DEF Wrote, Healed, PastStepFive
<1>5. StaleIsStale'
  <2>1. CASE proc' = Down
    BY <1>2, <2>1 DEF StaleIsStale
  <2>2. CASE proc' = next
    <3>1. SUFFICES ASSUME NEW k \in proc.stale
                   PROVE  k \in DayScoped /\ Active(ledger, k)' /\ ledger'.set_at[k] < today'
      BY <2>2 DEF StaleIsStale
    <3>2. k \in DayScoped /\ ledger.active[k] # "NORMAL" /\ ledger.set_at[k] < today
      BY <3>1 DEF IInv, StaleIsStale, Active
    <3>3. k \in Causes \ {c}
      BY <3>1, <3>2 DEF IInv, TypeOK, Process
    <3>4. ledger'.active[k] = ledger.active[k] /\ ledger'.set_at[k] = ledger.set_at[k]
      BY <3>3 DEF Wrote
    <3> QED BY <3>2, <3>4 DEF Active, past
  <2> QED BY <1>1, <2>1, <2>2
<1> QED BY <1>3, <1>4, <1>5 DEF IInv

(* A step that writes no row keeps it, if it only enters the healed part of *)
(* the boot with the switch engaged or from within.                        *)
LEMMA NothingWritten ==
    ASSUME IInv, NEW STATE next, next \in Process,
           next.stale = proc.stale \/ next.stale = Stale,
           Skip(next), UNCHANGED <<mode, routing, killed, past>>,
           next.bridge = proc.bridge,
           next.boot \in {"warmup", "up"} => (PastStepFive \/ killed)
    PROVE  IInv'
<1>1. TypeOK'
  BY DEF IInv, TypeOK, past, Dates, Skip
<1>2. Healed'
  BY DEF IInv, Healed, PastStepFive, ResetPending, Dominates, Skip
<1>3. StaleIsStale'
  BY DEF IInv, StaleIsStale, past, Active, Skip, Stale
<1> QED BY <1>1, <1>2, <1>3 DEF IInv

(* The switch and its event together keep it: an engaged switch excuses an  *)
(* unhealed ledger, and so does a release the bridge has not handled.      *)
LEMMA Published ==
    ASSUME IInv, NEW event \in {"engaged", "released"}, NEW STATE next, next \in Process,
           next.stale = proc.stale, next.bridge = proc.bridge, Publish(event, next),
           UNCHANGED <<ledger, mode, routing, past>>
    PROVE  IInv'
<1>1. /\ proc' \in Process /\ proc'.stale = proc.stale
      /\ proc'.bridge = Append(next.bridge, event)
  <2>1. Append(next.bridge, event) \in Seq({"engaged", "released"})
    BY DEF Process
  <2>2. proc' = [next EXCEPT !.bridge = Append(next.bridge, event)]
    BY DEF Publish
  <2> QED BY <2>1, <2>2 DEF Process
<1>2. killed' = (event = "engaged") /\ killed' \in BOOLEAN
  BY DEF Publish
<1>3. TypeOK'
  BY <1>1, <1>2 DEF IInv, TypeOK, past, Process, Dates
<1>4. Healed'
  <2>1. CASE event = "engaged"
    BY <1>2, <2>1 DEF Healed
  <2>2. CASE event = "released"
    <3>1. next.bridge \in Seq({"engaged", "released"})
      BY DEF Process
    <3>2. ResetPending'
      BY <1>1, <2>2, <3>1 DEF ResetPending
    <3> QED BY <3>2 DEF Healed
  <2> QED BY <2>1, <2>2
<1>5. StaleIsStale'
  BY <1>1 DEF IInv, StaleIsStale, past, Active
<1> QED BY <1>3, <1>4, <1>5 DEF IInv

(* The writes as the coroutines make them. *)
LEMMA LatchKeeps ==
    ASSUME IInv, NEW c \in Causes \ DayScoped, NEW s \in LATCHING_STATES, NEW STATE next,
           next \in Process, next.stale = proc.stale, Latch(c, s, next),
           UNCHANGED <<mode, routing, killed, past>>
    PROVE  IInv'
<1>1. Wrote(c, next)
  BY LatchWrites DEF IInv
<1> QED BY <1>1, RowWritten

(* A clear of a cause that is not daily, whole or torn by a crash, keeps IInv. *)
LEMMA ClearKeeps ==
    ASSUME IInv, NEW c \in Causes \ DayScoped, NEW STATE next,
           next \in Process, next.stale = proc.stale, Clear(c, next),
           UNCHANGED <<mode, routing, killed, past>>
    PROVE  IInv'
<1>1. Wrote(c, next)
  BY ClearWrites DEF IInv
<1> QED BY <1>1, RowWritten

(* A freeze that is skipped while killed keeps IInv. *)
LEMMA LatchUnlessKilledKeeps ==
    ASSUME IInv, NEW c, c \notin DayScoped, NEW STATE next, next \in Process,
           next.stale = proc.stale, next.bridge = proc.bridge,
           LatchUnlessKilled(c, "FROZEN", next), UNCHANGED <<mode, routing, killed, past>>
    PROVE  IInv'
<1>1. CASE killed
  BY <1>1, NothingWritten DEF LatchUnlessKilled
<1>2. CASE ~killed
  <2>1. Latch(c, "FROZEN", next) /\ c \in Causes
    BY <1>2 DEF LatchUnlessKilled, Latch
  <2>2. "FROZEN" \in LATCHING_STATES
    BY DEF LATCHING_STATES, RiskState
  <2> QED BY <2>1, <2>2, LatchKeeps
<1> QED BY <1>1, <1>2

(* A coroutine of the ladder moves to its next rung. *)
LEMMA ClimbedTyped ==
    ASSUME IInv, proc.ladder # <<>>
    PROVE  /\ Climbed \in Process /\ Climbed.stale = proc.stale
           /\ Climbed.bridge = proc.bridge /\ Climbed.boot = proc.boot
<1>1. proc \in Process /\ proc.ladder \in Seq(Rung)
  BY DEF IInv, TypeOK, Process
<1>2. Tail(proc.ladder) \in Seq(Rung)
  BY <1>1
<1> QED BY <1>1, <1>2 DEF Climbed, Process

(* The daily-loss rungs: an episode that is in the stale list keeps its day *)
(* when the ladder raises it again.                                        *)
LEMMA DailyRungKeeps ==
    ASSUME IInv, NEW c \in DayScoped, NEW s \in LATCHING_STATES, Latch(c, s, Climbed),
           proc.ladder # <<>>, UNCHANGED <<mode, routing, killed, today>>,
           breached' = [breached EXCEPT ![c] = today], rearmed' \in BOOLEAN
    PROVE  IInv'
<1>1. /\ Wrote(c, Climbed) /\ ledger'.active[c] = s
      /\ Active(ledger, c) => ledger'.set_at[c] = ledger.set_at[c]
  BY LatchWrites DEF IInv
<1>2. Climbed \in Process /\ Climbed.stale = proc.stale
  BY ClimbedTyped
<1>3. proc' = Climbed \/ proc' = Down
  BY <1>1 DEF Wrote
<1>4. Down \in Process /\ Down.boot = "down" /\ Down.stale = {}
  BY ControlAssumption DEF Down, Process, BootStep
<1>5. TypeOK'
  <2>1. breached' \in [DayScoped -> 0 .. (Today + 1)]
    BY ControlAssumption DEF IInv, TypeOK, Dates
  <2> QED BY <1>1, <1>2, <1>3, <1>4, <2>1 DEF IInv, TypeOK, Wrote, Dates
<1>6. Healed'
  BY <1>1, <1>3, <1>4 DEF Wrote, Healed, PastStepFive
<1>7. StaleIsStale'
  <2>1. SUFFICES ASSUME NEW k \in proc.stale, proc' = Climbed
                 PROVE  k \in DayScoped /\ Active(ledger, k)' /\ ledger'.set_at[k] < today'
    BY <1>2, <1>3, <1>4 DEF StaleIsStale
  <2>2. k \in DayScoped /\ ledger.active[k] # "NORMAL" /\ ledger.set_at[k] < today
    BY <2>1 DEF IInv, StaleIsStale, Active
  <2>3. k \in Causes
    BY <2>1 DEF IInv, TypeOK, Process
  <2>4. CASE k = c
    BY <1>1, <2>2, <2>4 DEF Active, LATCHING_STATES
  <2>5. CASE k # c
    BY <1>1, <2>2, <2>3, <2>5 DEF Active, Wrote
  <2> QED BY <2>4, <2>5
<1> QED BY <1>5, <1>6, <1>7 DEF IInv

(* The invariant holds when the system is first installed. *)
LEMMA Initially == Init => IInv
<1> SUFFICES ASSUME Init PROVE IInv
  OBVIOUS
<1>1. ledger \in Ledger(Dates) /\ today \in Dates
  BY ControlAssumption DEF Init, Ledger, RiskState, Dates
<1>2. proc \in Process /\ proc.stale = {} /\ proc.boot = "down"
  BY ControlAssumption DEF Init, Down, Process, BootStep
<1>3. breached \in [DayScoped -> 0 .. (Today + 1)]
  BY ControlAssumption DEF Init
<1>4. TypeOK
  BY <1>1, <1>2, <1>3 DEF Init, TypeOK, Mode
<1> QED BY <1>2, <1>4 DEF IInv, Healed, PastStepFive, StaleIsStale

(* What the owner does. *)
LEMMA OwnerKeeps == ASSUME IInv, Owner PROVE IInv'
<1> USE DEF LATCHING_STATES, RiskState, DayScoped
<1>1. proc \in Process
  BY DEF IInv, TypeOK
<1>2. CASE Trigger
  BY <1>1, <1>2, Published DEF Trigger
<1>3. CASE OwnerReset
  BY <1>1, <1>3, Published DEF OwnerReset
<1>4. CASE PauseEntries
  <2>1. "owner_pause" \in Causes
    BY <1>4 DEF PauseEntries, Latch
  <2> QED BY <1>1, <1>4, <2>1, LatchKeeps DEF PauseEntries
<1>5. CASE ResumeEntries
  <2> DEFINE next == [proc EXCEPT !.resuming = TRUE]
  <2>1. next \in Process /\ next.stale = proc.stale
    BY <1>1 DEF Process
  <2>2. "owner_pause" \in Causes /\ Clear("owner_pause", next)
    BY <1>5 DEF ResumeEntries, Clear
  <2> HIDE DEF next
  <2> QED BY <1>5, <2>1, <2>2, ClearKeeps DEF ResumeEntries
<1>6. CASE ResumeStorm
  <2> DEFINE next == [proc EXCEPT !.resuming = FALSE]
  <2>1. next \in Process /\ next.stale = proc.stale
    BY <1>1 DEF Process
  <2>2. "rejection_storm" \in Causes /\ Clear("rejection_storm", next)
    BY <1>6 DEF ResumeStorm, Clear
  <2> HIDE DEF next
  <2> QED BY <1>6, <2>1, <2>2, ClearKeeps DEF ResumeStorm
<1>7. ASSUME NEW to \in Mode, RequestTransition(to)
      PROVE  IInv'
  <2>1. TypeOK'
    BY <1>7 DEF RequestTransition, IInv, TypeOK, Mode, Dates
  <2>2. Healed'
    BY <1>7 DEF RequestTransition, IInv, Healed, PastStepFive, ResetPending, Dominates
  <2>3. StaleIsStale'
    BY <1>7 DEF RequestTransition, IInv, StaleIsStale, Active
  <2> QED BY <2>1, <2>2, <2>3 DEF IInv
<1> QED BY <1>2, <1>3, <1>4, <1>5, <1>6, <1>7 DEF Owner

(* The equity ladder, rung by rung. *)
LEMMA LadderKeeps == ASSUME IInv, Ladder PROVE IInv'
<1> USE DEF LATCHING_STATES, RiskState
<1>1. proc \in Process
  BY DEF IInv, TypeOK
<1>2. CASE EquityTick
  <2>1. PICK rungs \in Evaluations : proc' = [proc EXCEPT !.ladder = rungs]
    BY <1>2 DEF EquityTick
  <2> DEFINE next == [proc EXCEPT !.ladder = rungs]
  <2>2. rungs \in Seq(Rung)
    BY <2>1, ControlAssumption, EvaluationsTyped
  <2>3. /\ next \in Process /\ next.stale = proc.stale /\ next.bridge = proc.bridge
        /\ next.boot = proc.boot
    BY <1>1, <2>2 DEF Process
  <2>4. Skip(next) /\ UNCHANGED <<mode, routing, killed, past>>
    BY <1>2, <2>1 DEF EquityTick, Skip, disk
  <2> HIDE DEF next
  <2> QED BY <2>3, <2>4, NothingWritten DEF PastStepFive
<1>3. CASE LadderKills
  <2>1. proc.ladder # <<>> /\ Publish("engaged", Climbed)
    BY <1>3 DEF LadderKills, Climbs
  <2> QED BY <1>3, <2>1, ClimbedTyped, Published DEF LadderKills
<1>4. CASE LadderLatchesKilled
  <2>1. /\ proc.ladder # <<>> /\ Latch("floor_cumulative_floor", "KILLED", Climbed)
        /\ "floor_cumulative_floor" \in Causes \ DayScoped
    BY <1>4 DEF LadderLatchesKilled, Climbs, Latch, DayScoped
  <2> QED BY <1>4, <2>1, ClimbedTyped, LatchKeeps DEF LadderLatchesKilled
<1>5. CASE LadderLatchesFloor
  <2>1. /\ proc.ladder # <<>> /\ Latch("floor_equity_floor_rung", "CLOSE_ONLY", Climbed)
        /\ "floor_equity_floor_rung" \in Causes \ DayScoped
    BY <1>5 DEF LadderLatchesFloor, Climbs, Latch, DayScoped
  <2> QED BY <1>5, <2>1, ClimbedTyped, LatchKeeps DEF LadderLatchesFloor
<1>6. CASE LadderLatchesHard
  <2>1. /\ proc.ladder # <<>> /\ Latch("daily_loss_hard", "CLOSE_ONLY", Climbed)
        /\ "daily_loss_hard" \in DayScoped /\ rearmed' \in BOOLEAN
    BY <1>6 DEF LadderLatchesHard, Climbs, DayScoped
  <2> QED BY <1>6, <2>1, DailyRungKeeps DEF LadderLatchesHard
<1>7. CASE LadderLatchesSoft
  <2>1. /\ proc.ladder # <<>> /\ Latch("daily_loss_soft", "FROZEN", Climbed)
        /\ "daily_loss_soft" \in DayScoped /\ rearmed' \in BOOLEAN
    BY <1>7 DEF LadderLatchesSoft, Climbs, DayScoped, IInv, TypeOK
  <2> QED BY <1>7, <2>1, DailyRungKeeps DEF LadderLatchesSoft
<1>8. CASE LadderDowngrades
  <2>1. /\ proc.ladder # <<>> /\ proc' = Climbed /\ UNCHANGED <<ledger, killed, past>>
        /\ ForceDowngrade("OFF") \/ ForceDowngrade("RECOMMEND")
    BY <1>8 DEF LadderDowngrades, Climbs
  <2>2. /\ mode' \in Mode /\ routing' \in {"PAPER", "none"}
        /\ routing' = "PAPER" <=> mode' = "AUTO"
    BY <2>1 DEF ForceDowngrade, MODE_RANK, IInv, TypeOK, Mode
  <2>3. TypeOK'
    BY <2>1, <2>2, ClimbedTyped DEF IInv, TypeOK, past, Dates
  <2>4. Healed'
    BY <2>1, ClimbedTyped DEF IInv, Healed, PastStepFive, ResetPending, Dominates
  <2>5. StaleIsStale'
    BY <2>1, ClimbedTyped DEF IInv, StaleIsStale, Active, past
  <2> QED BY <2>3, <2>4, <2>5 DEF IInv
<1> QED BY <1>2, <1>3, <1>4, <1>5, <1>6, <1>7, <1>8 DEF Ladder

(* The list of stale causes is a list of daily ones the ledger latches. *)
LEMMA StaleTyped == Stale \subseteq Causes
  BY DEF Stale

(* One clear of clear_stale_daily: the row it clears leaves the list. *)
LEMMA StaleCleared ==
    ASSUME IInv, NEW c \in Causes, ClearStaleDaily(c)
    PROVE  IInv'
<1> DEFINE next == [proc EXCEPT !.stale = @ \ {c}]
<1>1. Wrote(c, next) /\ c \in proc.stale /\ UNCHANGED <<mode, routing, killed, past>>
  BY ClearWrites DEF ClearStaleDaily, IInv
<1>2. next \in Process /\ next.stale = proc.stale \ {c}
  BY DEF IInv, TypeOK, Process
<1>3. Down \in Process /\ Down.boot = "down" /\ Down.stale = {}
  BY ControlAssumption DEF Down, Process, BootStep
<1> HIDE DEF next
<1>4. TypeOK'
  BY <1>1, <1>2, <1>3 DEF IInv, TypeOK, Wrote, past, Dates
<1>5. Healed'
  BY <1>1, <1>3 DEF Wrote, Healed, PastStepFive
<1>6. StaleIsStale'
  <2>1. SUFFICES ASSUME NEW k \in proc.stale \ {c}, proc' = next
                 PROVE  k \in DayScoped /\ Active(ledger, k)' /\ ledger'.set_at[k] < today'
    BY <1>1, <1>2, <1>3 DEF StaleIsStale, Wrote
  <2>2. k \in DayScoped /\ ledger.active[k] # "NORMAL" /\ ledger.set_at[k] < today
    BY <2>1 DEF IInv, StaleIsStale, Active
  <2>3. k \in Causes \ {c}
    BY <2>1 DEF IInv, TypeOK, Process
  <2> QED BY <1>1, <2>2, <2>3 DEF Active, Wrote, past
<1> QED BY <1>4, <1>5, <1>6 DEF IInv

(* A step of the boot as a change of the process record alone. *)
LEMMA BootMove ==
    ASSUME IInv, NEW step \in BootStep
    PROVE  /\ Goes(step) \in Process /\ Goes(step).stale = proc.stale
           /\ Goes(step).bridge = proc.bridge /\ Goes(step).boot = step
  BY DEF IInv, TypeOK, Process, Goes

(* The steps of the boot up to the safety jobs: what they find does not yet *)
(* have to be healed.                                                      *)
LEMMA SelfTestKeeps ==
    ASSUME IInv,
           \/ ProcessStarts \/ SelfTestBegins \/ SelfTestLadder \/ IntegrityFailsFlat
           \/ IntegrityFailsLive \/ SelfTestPasses \/ SelfTestFreezes
    PROVE  IInv'
<1> USE DEF LATCHING_STATES, RiskState, BootStep
<1>1. proc \in Process
  BY DEF IInv, TypeOK
<1>2. CASE ProcessStarts
  BY <1>2, BootMove, NothingWritten DEF ProcessStarts
<1>3. CASE SelfTestBegins
  <2> DEFINE next == [Goes("selftest") EXCEPT !.stale = Stale]
  <2>1. /\ next \in Process /\ next.stale = Stale /\ next.bridge = proc.bridge
        /\ next.boot = "selftest"
    BY <1>1, BootMove, StaleTyped DEF Process
  <2>2. Skip(next) /\ UNCHANGED <<mode, routing, killed, past>>
    BY <1>3 DEF SelfTestBegins
  <2> HIDE DEF next
  <2> QED BY <2>1, <2>2, NothingWritten
<1>4. CASE SelfTestLadder
  <2>1. PICK rungs \in Evaluations : Skip([Goes("verdict") EXCEPT !.ladder = rungs])
    BY <1>4 DEF SelfTestLadder
  <2> DEFINE next == [Goes("verdict") EXCEPT !.ladder = rungs]
  <2>2. rungs \in Seq(Rung)
    BY <2>1, ControlAssumption, EvaluationsTyped
  <2>3. /\ next \in Process /\ next.stale = proc.stale /\ next.bridge = proc.bridge
        /\ next.boot = "verdict"
    BY <1>1, <2>2, BootMove DEF Process
  <2>4. Skip(next) /\ UNCHANGED <<mode, routing, killed, past>>
    BY <1>4, <2>1 DEF SelfTestLadder
  <2> HIDE DEF next
  <2> QED BY <2>3, <2>4, NothingWritten
<1>5. CASE IntegrityFailsFlat
  <2>1. /\ Latch("protected_store_integrity", "FROZEN", Goes("frozen_reasons"))
        /\ "protected_store_integrity" \in Causes \ DayScoped
    BY <1>5 DEF IntegrityFailsFlat, Latch, DayScoped
  <2> QED BY <1>5, <2>1, BootMove, LatchKeeps DEF IntegrityFailsFlat
<1>6. CASE IntegrityFailsLive
  <2>1. Publish("engaged", Goes("frozen_reasons"))
    BY <1>6 DEF IntegrityFailsLive
  <2> QED BY <1>6, <2>1, BootMove, Published DEF IntegrityFailsLive
<1>7. CASE SelfTestPasses
  <2>1. PICK step \in {"frozen_reasons", "catchup"} : Skip(Goes(step))
    BY <1>7 DEF SelfTestPasses
  <2> QED BY <1>7, <2>1, BootMove, NothingWritten DEF SelfTestPasses
<1>8. CASE SelfTestFreezes
  <2>1. /\ LatchUnlessKilled("startup_selftest", "FROZEN", Goes("catchup"))
        /\ "startup_selftest" \notin DayScoped
    BY <1>8 DEF SelfTestFreezes, DayScoped
  <2> QED BY <1>8, <2>1, BootMove, LatchUnlessKilledKeeps DEF SelfTestFreezes
<1> QED BY <1>2, <1>3, <1>4, <1>5, <1>6, <1>7, <1>8

(* Step 5 and the warm-up gate: the clear of step 5 heals the ledger, or it *)
(* is skipped because the switch is engaged.                               *)
LEMMA SafetyJobsKeep ==
    ASSUME IInv, CatchUpFails \/ CatchUpClean \/ WarmupShortAtBoot \/ WarmupReadyAtBoot
    PROVE  IInv'
<1> USE DEF BootStep
<1>1. CASE CatchUpFails
  <2>1. "catchup_safety_jobs" \notin DayScoped
    BY DEF DayScoped
  <2> QED BY <1>1, <2>1, BootMove, LatchUnlessKilledKeeps DEF CatchUpFails
<1>2. CASE CatchUpClean
  <2>1. CASE killed
    BY <1>2, <2>1, BootMove, NothingWritten DEF CatchUpClean
  <2>2. CASE ~killed
    <3>1. /\ Clear("catchup_safety_jobs", Goes("warmup"))
          /\ "catchup_safety_jobs" \in Causes \ DayScoped
      BY <1>2, <2>2 DEF CatchUpClean, Clear, DayScoped
    <3> QED BY <1>2, <3>1, BootMove, ClearKeeps DEF CatchUpClean
  <2> QED BY <2>1, <2>2
<1>3. CASE WarmupShortAtBoot
  <2>1. "warmup_ready" \notin DayScoped
    BY DEF DayScoped
  <2> QED BY <1>3, <2>1, BootMove, LatchUnlessKilledKeeps DEF WarmupShortAtBoot
<1>4. CASE WarmupReadyAtBoot
  <2>1. PastStepFive
    BY <1>4 DEF WarmupReadyAtBoot, At, PastStepFive
  <2> QED BY <1>4, <2>1, BootMove, NothingWritten DEF WarmupReadyAtBoot
<1> QED BY <1>1, <1>2, <1>3, <1>4

(* The bridge: either way it handles an event, it re-derives the state. *)
LEMMA BridgeKeeps == ASSUME IInv, KillToLatch PROVE IInv'
<1> DEFINE next == [proc EXCEPT !.bridge = Tail(@)]
<1>1. proc \in Process /\ proc.bridge \in Seq({"engaged", "released"}) /\ proc.bridge # <<>>
  BY DEF KillToLatch, IInv, TypeOK, Process
<1>2. Tail(proc.bridge) \in Seq({"engaged", "released"})
  BY <1>1
<1>3. next \in Process /\ next.stale = proc.stale
  BY <1>1, <1>2 DEF Process
<1>4. Latch("kill", "KILLED", next) \/ Clear("kill", next)
  BY DEF KillToLatch
<1> HIDE DEF next
<1>5. "kill" \in Causes \ DayScoped /\ "KILLED" \in LATCHING_STATES
  BY <1>4 DEF Latch, Clear, DayScoped, LATCHING_STATES, RiskState
<1> QED BY <1>3, <1>4, <1>5, LatchKeeps, ClearKeeps DEF KillToLatch

(* The sweep and the warm-up gate of the running engine. *)
LEMMA UpkeepKeeps == ASSUME IInv, Upkeep PROVE IInv'
<1> USE DEF LATCHING_STATES, RiskState
<1>1. proc \in Process
  BY DEF IInv, TypeOK
<1>2. CASE SweepFails
  <2>1. "catchup_safety_jobs" \in Causes \ DayScoped
    BY <1>2 DEF SweepFails, Latch, DayScoped
  <2> QED BY <1>1, <1>2, <2>1, LatchKeeps DEF SweepFails
<1>3. CASE SweepClean
  <2>1. "catchup_safety_jobs" \in Causes \ DayScoped
    BY <1>3 DEF SweepClean, Clear, DayScoped
  <2> QED BY <1>1, <1>3, <2>1, ClearKeeps DEF SweepClean
<1>4. CASE WarmupFreezes
  <2> DEFINE next == [proc EXCEPT !.refrozen = (@ \/ (~killed /\ proc.lift = "testing"))]
  <2>1. proc.refrozen \/ (~killed /\ proc.lift = "testing") \in BOOLEAN
    OBVIOUS
  <2>2. next \in Process /\ next.stale = proc.stale /\ next.bridge = proc.bridge
    BY <1>1 DEF Process
  <2>3. LatchUnlessKilled("warmup_ready", "FROZEN", next) /\ "warmup_ready" \notin DayScoped
    BY <1>4 DEF WarmupFreezes, DayScoped
  <2> HIDE DEF next
  <2> QED BY <1>4, <2>2, <2>3, LatchUnlessKilledKeeps DEF WarmupFreezes
<1>5. CASE LiftBegins
  <2> DEFINE next == [proc EXCEPT !.lift = "testing", !.stale = Stale, !.refrozen = FALSE]
  <2>1. /\ next \in Process /\ next.stale = Stale /\ next.bridge = proc.bridge
        /\ next.boot = proc.boot
    BY <1>1, StaleTyped DEF Process
  <2>2. Skip(next)
    BY <1>5 DEF LiftBegins
  <2> HIDE DEF next
  <2> QED BY <1>5, <2>1, <2>2, NothingWritten DEF LiftBegins, PastStepFive
<1>6. CASE LiftHeld
  <2> DEFINE next == [proc EXCEPT !.lift = "no", !.refrozen = FALSE]
  <2>1. /\ next \in Process /\ next.stale = proc.stale /\ next.bridge = proc.bridge
        /\ next.boot = proc.boot
    BY <1>1 DEF Process
  <2>2. Skip(next)
    BY <1>6 DEF LiftHeld
  <2> HIDE DEF next
  <2> QED BY <1>6, <2>1, <2>2, NothingWritten DEF LiftHeld, PastStepFive
<1>7. CASE LiftClearsWarmup
  <2> DEFINE next == [proc EXCEPT !.lift = "clearing", !.refrozen = FALSE]
  <2>1. next \in Process /\ next.stale = proc.stale
    BY <1>1 DEF Process
  <2>2. Clear("warmup_ready", next) /\ "warmup_ready" \in Causes \ DayScoped
    BY <1>7 DEF LiftClearsWarmup, Clear, DayScoped
  <2> HIDE DEF next
  <2> QED BY <1>7, <2>1, <2>2, ClearKeeps DEF LiftClearsWarmup
<1>8. CASE LiftClearsSelfTest
  <2> DEFINE next == [proc EXCEPT !.lift = "no"]
  <2>1. next \in Process /\ next.stale = proc.stale
    BY <1>1 DEF Process
  <2>2. Clear("startup_selftest", next) /\ "startup_selftest" \in Causes \ DayScoped
    BY <1>8 DEF LiftClearsSelfTest, Clear, DayScoped
  <2> HIDE DEF next
  <2> QED BY <1>8, <2>1, <2>2, ClearKeeps DEF LiftClearsSelfTest
<1> QED BY <1>2, <1>3, <1>4, <1>5, <1>6, <1>7, <1>8, BridgeKeeps DEF Upkeep

(* Order calls, a crash and midnight leave the ledger alone. *)
LEMMA RestKeeps == ASSUME IInv, OrderGuard \/ OrderSent \/ Crash \/ NewDay PROVE IInv'
<1>1. proc \in Process /\ Down \in Process /\ Down.boot = "down" /\ Down.stale = {}
  BY ControlAssumption DEF IInv, TypeOK, Down, Process, BootStep
<1>2. ASSUME NEW n \in 0 .. MaxAdmitted, proc' = [proc EXCEPT !.admitted = n],
             UNCHANGED <<disk, past>>
      PROVE  IInv'
  <2> DEFINE next == [proc EXCEPT !.admitted = n]
  <2>1. /\ next \in Process /\ next.stale = proc.stale /\ next.bridge = proc.bridge
        /\ next.boot = proc.boot
    BY <1>1 DEF Process
  <2>2. Skip(next) /\ UNCHANGED <<mode, routing, killed, past>>
    BY <1>2 DEF Skip, disk
  <2> HIDE DEF next
  <2> QED BY <2>1, <2>2, NothingWritten DEF PastStepFive
<1>3. CASE OrderGuard
  <2>1. proc.admitted + 1 \in 0 .. MaxAdmitted
    BY <1>1, <1>3, ControlAssumption DEF OrderGuard, Process
  <2> QED BY <1>2, <1>3, <2>1 DEF OrderGuard
<1>4. CASE OrderSent
  <2>1. proc.admitted - 1 \in 0 .. MaxAdmitted
    BY <1>1, <1>4, ControlAssumption DEF OrderSent, Process
  <2> QED BY <1>2, <1>4, <2>1 DEF OrderSent
<1>5. CASE Crash
  <2>1. TypeOK'
    BY <1>1, <1>5 DEF Crash, IInv, TypeOK, disk, past, Dates
  <2> QED BY <1>1, <1>5, <2>1 DEF Crash, IInv, Healed, PastStepFive, StaleIsStale
<1>6. CASE NewDay
  <2>1. TypeOK'
    BY <1>6, ControlAssumption DEF NewDay, IInv, TypeOK, disk, Dates
  <2>2. Healed'
    BY <1>6 DEF NewDay, IInv, Healed, PastStepFive, ResetPending, Dominates, disk
  <2>3. StaleIsStale'
    <3>1. SUFFICES ASSUME NEW c \in proc.stale
                   PROVE  c \in DayScoped /\ Active(ledger, c) /\ ledger.set_at[c] < today + 1
      BY <1>6 DEF NewDay, StaleIsStale, Active, disk
    <3>2. c \in DayScoped /\ Active(ledger, c) /\ ledger.set_at[c] < today
      BY <3>1 DEF IInv, StaleIsStale
    <3>3. ledger.set_at[c] \in Nat /\ today \in Nat
      BY <3>1 DEF IInv, TypeOK, Process, Ledger, Dates
    <3> QED BY <3>2, <3>3
  <2> QED BY <2>1, <2>2, <2>3 DEF IInv
<1> QED BY <1>3, <1>4, <1>5, <1>6

(* Every action keeps the invariant. *)
LEMMA InvariantStep == IInv /\ Next => IInv'
  BY OwnerKeeps, LadderKeeps, StaleCleared, SelfTestKeeps, SafetyJobsKeep, UpkeepKeeps, RestKeeps
     DEF Next, Boot

(* A stuttering step keeps it. *)
LEMMA InvariantStutters == IInv /\ UNCHANGED vars => IInv'
<1> SUFFICES ASSUME IInv, UNCHANGED vars PROVE IInv'
  OBVIOUS
<1>1. TypeOK'
  BY DEF vars, IInv, TypeOK, Dates
<1>2. Healed' /\ StaleIsStale'
  BY DEF vars, IInv, Healed, PastStepFive, ResetPending, Dominates, StaleIsStale, Active
<1> QED BY <1>1, <1>2 DEF IInv

(***************************************************************************)
(* The invariant of the sticky risk controls, whatever the constants.      *)
(***************************************************************************)
THEOREM Invariant == Spec => []IInv
<1>1. IInv /\ [Next]_vars => IInv'
  BY InvariantStep, InvariantStutters
<1> QED BY <1>1, Initially, PTL DEF Spec

(* The risk controls are type correct; in particular a routing exists just  *)
(* in AUTO, whatever downgrades and requests interleave.                   *)
THEOREM TypeCorrect == Spec => []TypeOK
<1>1. IInv => TypeOK
  BY DEF IInv
<1> QED BY <1>1, Invariant, PTL

(* For any causes and after any number of crashes, an engine that is up     *)
(* with the switch off is at least as restricted as its ledger says.       *)
THEOREM BootHealsLedger == Spec => []LedgerDominates
<1>1. IInv => LedgerDominates
  BY DEF IInv, Healed, PastStepFive, LedgerDominates, Up
<1> QED BY <1>1, Invariant, PTL

-----------------------------------------------------------------------------
LatchesRow(c, s) ==
    ledger' = set_cause(ledger, c, s, today) \/ ledger' = LatchOnly(ledger, c, s, today)

ClearsRow(c) == ledger' = clear_cause(ledger, c) \/ ledger' = UnlatchOnly(ledger, c)

(* All an action can do to the ledger: latch one cause, or clear one, which *)
(* for a daily cause takes its being in the list of stale ones.            *)
LEMMA LedgerSteps ==
    ASSUME Next
    PROVE  \/ UNCHANGED ledger
           \/ \E c \in Causes, s \in LATCHING_STATES : LatchesRow(c, s)
           \/ \E c \in Causes : ClearsRow(c) /\ (c \in DayScoped => c \in proc.stale)
<1> DEFINE Shape ==
       \/ UNCHANGED ledger
       \/ \E c \in Causes, s \in LATCHING_STATES : LatchesRow(c, s)
       \/ \E c \in Causes : ClearsRow(c) /\ (c \in DayScoped => c \in proc.stale)
<1> SUFFICES Shape
  OBVIOUS
<1>1. ASSUME NEW c, NEW s \in LATCHING_STATES, NEW STATE next, Latch(c, s, next)
      PROVE  Shape
  BY <1>1 DEF Latch, LatchesRow
<1>2. ASSUME NEW c, NEW STATE next, Clear(c, next), c \notin DayScoped \/ c \in proc.stale
      PROVE  Shape
  BY <1>2 DEF Clear, ClearsRow
<1>3. ASSUME NEW c, NEW s \in LATCHING_STATES, NEW STATE next, LatchUnlessKilled(c, s, next)
      PROVE  Shape
  BY <1>1, <1>3 DEF LatchUnlessKilled, Skip
<1>4. {"FROZEN", "CLOSE_ONLY", "KILLED"} \subseteq LATCHING_STATES
  BY DEF LATCHING_STATES, RiskState
<1> HIDE DEF Shape
<1>5. CASE Owner
  <2>1. CASE Trigger \/ OwnerReset \/ \E to \in Mode : RequestTransition(to)
    BY <2>1 DEF Trigger, OwnerReset, RequestTransition, Shape
  <2>2. CASE PauseEntries
    BY <1>1, <1>4, <2>2 DEF PauseEntries
  <2>3. CASE ResumeEntries
    BY <1>2, <2>3 DEF ResumeEntries, DayScoped
  <2>4. CASE ResumeStorm
    BY <1>2, <2>4 DEF ResumeStorm, DayScoped
  <2> QED BY <1>5, <2>1, <2>2, <2>3, <2>4 DEF Owner
<1>6. CASE Ladder
  <2>1. CASE EquityTick \/ LadderKills \/ LadderDowngrades
    BY <2>1 DEF EquityTick, LadderKills, LadderDowngrades, disk, Shape
  <2>2. CASE LadderLatchesKilled
    BY <1>1, <1>4, <2>2 DEF LadderLatchesKilled
  <2>3. CASE LadderLatchesFloor
    BY <1>1, <1>4, <2>3 DEF LadderLatchesFloor
  <2>4. CASE LadderLatchesHard
    BY <1>1, <1>4, <2>4 DEF LadderLatchesHard
  <2>5. CASE LadderLatchesSoft
    BY <1>1, <1>4, <2>5 DEF LadderLatchesSoft
  <2> QED BY <1>6, <2>1, <2>2, <2>3, <2>4, <2>5 DEF Ladder
<1>7. CASE Boot
  <2>1. CASE ProcessStarts \/ SelfTestBegins \/ SelfTestLadder \/ IntegrityFailsLive
             \/ SelfTestPasses \/ WarmupReadyAtBoot
    BY <2>1 DEF ProcessStarts, SelfTestBegins, SelfTestLadder, IntegrityFailsLive,
                SelfTestPasses, WarmupReadyAtBoot, Skip, Shape
  <2>2. CASE \E c \in Causes : ClearStaleDaily(c)
    BY <1>2, <2>2 DEF ClearStaleDaily
  <2>3. CASE IntegrityFailsFlat
    BY <1>1, <1>4, <2>3 DEF IntegrityFailsFlat
  <2>4. CASE SelfTestFreezes
    BY <1>3, <1>4, <2>4 DEF SelfTestFreezes
  <2>5. CASE CatchUpFails
    BY <1>3, <1>4, <2>5 DEF CatchUpFails
  <2>6. CASE CatchUpClean
    <3>1. "catchup_safety_jobs" \notin DayScoped
      BY DEF DayScoped
    <3>2. UNCHANGED ledger \/ Clear("catchup_safety_jobs", Goes("warmup"))
      BY <2>6 DEF CatchUpClean, Skip
    <3> QED BY <1>2, <3>1, <3>2 DEF Shape
  <2>7. CASE WarmupShortAtBoot
    BY <1>3, <1>4, <2>7 DEF WarmupShortAtBoot
  <2> QED BY <1>7, <2>1, <2>2, <2>3, <2>4, <2>5, <2>6, <2>7 DEF Boot
<1>8. CASE Upkeep
  <2>1. CASE LiftBegins \/ LiftHeld
    BY <2>1 DEF LiftBegins, LiftHeld, Skip, Shape
  <2>2. CASE KillToLatch
    <3> DEFINE next == [proc EXCEPT !.bridge = Tail(@)]
    <3>1. (Latch("kill", "KILLED", next) \/ Clear("kill", next)) /\ "kill" \notin DayScoped
      BY <2>2 DEF KillToLatch, DayScoped
    <3> HIDE DEF next
    <3> QED BY <1>1, <1>2, <1>4, <3>1
  <2>3. CASE SweepFails
    BY <1>1, <1>4, <2>3 DEF SweepFails
  <2>4. CASE SweepClean
    BY <1>2, <2>4 DEF SweepClean, DayScoped
  <2>5. CASE WarmupFreezes
    BY <1>3, <1>4, <2>5 DEF WarmupFreezes
  <2>6. CASE LiftClearsWarmup
    BY <1>2, <2>6 DEF LiftClearsWarmup, DayScoped
  <2>7. CASE LiftClearsSelfTest
    BY <1>2, <2>7 DEF LiftClearsSelfTest, DayScoped
  <2> QED BY <1>8, <2>1, <2>2, <2>3, <2>4, <2>5, <2>6, <2>7 DEF Upkeep
<1>9. CASE OrderGuard \/ OrderSent \/ Crash \/ NewDay
  BY <1>9 DEF OrderGuard, OrderSent, Crash, NewDay, disk, Shape
<1> QED BY <1>5, <1>6, <1>7, <1>8, <1>9 DEF Next

(***************************************************************************)
(* For any causes, the risk state returns to NORMAL only by clearing an    *)
(* active cause: never by clearing one that was not active, and never by   *)
(* latching.                                                               *)
(***************************************************************************)
THEOREM OnlyClearingRearms == Spec => RearmOnlyByClearing
<1>1. TypeOK /\ [Next]_vars =>
        [ (ledger.risk_state # "NORMAL" /\ ledger'.risk_state = "NORMAL") =>
              \E c \in Causes : Active(ledger, c) /\ ~Active(ledger', c) ]_vars
  <2> SUFFICES ASSUME TypeOK, Next, ledger.risk_state # "NORMAL", ledger'.risk_state = "NORMAL"
               PROVE  \E c \in Causes : Active(ledger, c) /\ ~Active(ledger', c)
    OBVIOUS
  <2>1. ledger \in Ledger(Dates) /\ today \in Dates
    BY DEF TypeOK
  <2>2. ASSUME NEW c \in Causes, NEW s \in LATCHING_STATES
        PROVE  ~LatchesRow(c, s)
    BY <2>1, SetCause DEF LatchesRow
  <2>3. PICK c \in Causes : ClearsRow(c)
    BY <2>2, LedgerSteps
  <2>4. ledger' = clear_cause(ledger, c)
    BY <2>1, <2>3, ClearCause DEF ClearsRow
  <2>5. Active(ledger, c) /\ ledger'.active[c] = "NORMAL"
    BY <2>1, <2>4, ClearCause
  <2> QED BY <2>5 DEF Active
<1> QED BY <1>1, TypeCorrect, PTL DEF Spec, RearmOnlyByClearing

(***************************************************************************)
(* For any causes and any number of days, a daily-loss cause is cleared    *)
(* only when its episode began on an earlier day.                          *)
(***************************************************************************)
THEOREM DailyCausesOutliveTheirDay == Spec => DailyCauseOutlivesItsDay
<1>1. IInv /\ [Next]_vars =>
        [ \A c \in Causes \cap DayScoped :
            (Active(ledger, c) /\ ~Active(ledger', c)) => ledger.set_at[c] < today ]_vars
  <2> SUFFICES ASSUME IInv, Next, NEW k \in Causes \cap DayScoped,
                      Active(ledger, k), ~Active(ledger', k)
               PROVE  ledger.set_at[k] < today
    OBVIOUS
  <2>1. ledger \in Ledger(Dates) /\ today \in Dates
    BY DEF IInv, TypeOK
  <2>2. ledger.active[k] # "NORMAL" /\ ledger'.active[k] = "NORMAL"
    BY DEF Active
  <2>3. ASSUME NEW c \in Causes, NEW s \in LATCHING_STATES
        PROVE  ~LatchesRow(c, s)
    <3>1. "NORMAL" \notin LATCHING_STATES
      BY DEF LATCHING_STATES
    <3> QED BY <2>1, <2>2, <3>1, SetCause DEF LatchesRow
  <2>4. PICK c \in Causes : ClearsRow(c) /\ (c \in DayScoped => c \in proc.stale)
    BY <2>2, <2>3, LedgerSteps
  <2>5. c = k
    <3>1. k \in Causes
      OBVIOUS
    <3>2. c # k => ledger'.active[k] = ledger.active[k]
      <4>1. CASE ledger' = clear_cause(ledger, c)
        <5>1. \A j \in Causes \ {c} : clear_cause(ledger, c).active[j] = ledger.active[j]
          BY <2>1, ClearCause
        <5> QED BY <3>1, <4>1, <5>1
      <4>2. CASE ledger' = UnlatchOnly(ledger, c)
        <5>1. \A j \in Causes \ {c} : UnlatchOnly(ledger, c).active[j] = ledger.active[j]
          BY <2>1, ClearCause
        <5> QED BY <3>1, <4>2, <5>1
      <4> QED BY <2>4, <4>1, <4>2 DEF ClearsRow
    <3> QED BY <2>2, <3>2
  <2> QED BY <2>4, <2>5 DEF IInv, StaleIsStale
<1> QED BY <1>1, Invariant, PTL DEF Spec, DailyCauseOutlivesItsDay

-----------------------------------------------------------------------------
(***************************************************************************)
(* The engine that does not crash: what LedgerDominates needs a healing    *)
(* for holds throughout, and the switch, its events and the ledger, as     *)
(* well as the breach and its downgrade, stay together.                    *)
(***************************************************************************)

(* The rung that is next. *)
Awaits(rung) == proc.ladder # <<>> /\ Head(proc.ladder) = rung

(* Before the boot nothing runs. *)
NothingBeforeBoot == proc.boot = "down" => proc = Down

(* The event of the bridge that came last says how the switch is; when all *)
(* have been handled, the ledger does.                                     *)
BridgeFollowsSwitch ==
    IF proc.bridge = <<>> THEN killed <=> Active(ledger, "kill")
    ELSE killed <=> proc.bridge[Len(proc.bridge)] = "engaged"

(* The kill row latches KILLED, and nothing less. *)
KillLatchesKilled == ledger.active["kill"] \in {"NORMAL", "KILLED"}

(* A hard breach is followed by its downgrade, which is still to come      *)
(* while AUTO is left from before the breach.                              *)
DowngradeFollows ==
    /\ \A i \in 1 .. Len(proc.ladder) : proc.ladder[i] = "hard" =>
            i < Len(proc.ladder) /\ proc.ladder[i + 1] = "recommend"
    /\ Active(ledger, "daily_loss_hard") /\ mode = "AUTO" /\ ~rearmed => Awaits("recommend")

Uncrashed ==
    /\ NothingBeforeBoot /\ BridgeFollowsSwitch /\ KillLatchesKilled
    /\ Dominates(ledger) /\ DowngradeFollows

(* What one step without a crash may do. *)
Climbing ==
    \/ proc'.ladder = proc.ladder
    \/ proc.ladder = <<>> /\ proc'.ladder \in Evaluations
    \/ /\ proc.ladder # <<>> /\ Head(proc.ladder) \notin {"hard", "recommend"}
       /\ proc'.ladder = Tail(proc.ladder)

Writes ==
    /\ UNCHANGED <<mode, killed, rearmed>> /\ proc'.bridge = proc.bridge /\ Climbing
    /\ \/ ledger' = ledger
       \/ \E c \in Causes \ {"kill", "daily_loss_hard"}, s \in LATCHING_STATES :
              ledger' = set_cause(ledger, c, s, today)
       \/ \E c \in Causes \ {"kill"} : ledger' = clear_cause(ledger, c)

Publishes ==
    /\ UNCHANGED <<ledger, mode, rearmed>> /\ Climbing
    /\ \E event \in {"engaged", "released"} :
           killed' = (event = "engaged") /\ proc'.bridge = Append(proc.bridge, event)

Bridges ==
    /\ UNCHANGED <<mode, killed, rearmed>> /\ proc'.ladder = proc.ladder
    /\ proc.bridge # <<>> /\ proc'.bridge = Tail(proc.bridge)
    /\ ledger' = IF Head(proc.bridge) = "engaged"
                 THEN set_cause(ledger, "kill", "KILLED", today) ELSE clear_cause(ledger, "kill")

Requests ==
    /\ UNCHANGED <<ledger, killed, proc>>
    /\ mode' = "AUTO" => rearmed'

Breaches ==
    /\ UNCHANGED <<mode, killed>> /\ proc'.bridge = proc.bridge
    /\ Awaits("hard") /\ proc'.ladder = Tail(proc.ladder)
    /\ ledger' = set_cause(ledger, "daily_loss_hard", "CLOSE_ONLY", today)

Downgrades ==
    /\ UNCHANGED <<ledger, killed, rearmed>> /\ proc'.bridge = proc.bridge
    /\ Awaits("off") \/ Awaits("recommend")
    /\ proc'.ladder = Tail(proc.ladder) /\ mode' # "AUTO"

(* A process that is down does nothing but start. *)
LEMMA OnlyABootStarts ==
    ASSUME proc = Down, Next
    PROVE  ProcessStarts \/ NewDay
<1>1. /\ proc.boot = "down" /\ proc.bridge = <<>> /\ proc.ladder = <<>> /\ proc.stale = {}
      /\ ~proc.resuming /\ proc.lift = "no" /\ proc.admitted = 0
  BY DEF Down
<1>2. ~Owner
  BY <1>1 DEF Owner, Trigger, OwnerReset, PauseEntries, ResumeEntries, ResumeStorm,
              RequestTransition, Running
<1>3. ~Ladder
  BY <1>1 DEF Ladder, EquityTick, LadderKills, LadderLatchesKilled, LadderLatchesFloor,
              LadderLatchesHard, LadderLatchesSoft, LadderDowngrades, Climbs, Up
<1>4. ~Upkeep
  BY <1>1 DEF Upkeep, KillToLatch, SweepFails, SweepClean, WarmupFreezes, LiftBegins, LiftHeld,
              LiftClearsWarmup, LiftClearsSelfTest, Running, Up
<1>5. Boot => ProcessStarts
  BY <1>1 DEF Boot, SelfTestBegins, ClearStaleDaily, SelfTestLadder, IntegrityFailsFlat,
              IntegrityFailsLive, SelfTestPasses, SelfTestFreezes, CatchUpFails, CatchUpClean,
              WarmupShortAtBoot, WarmupReadyAtBoot, At, Judged
<1>6. ~OrderGuard /\ ~OrderSent /\ ~Crash
  BY <1>1 DEF OrderGuard, OrderSent, Crash, Running
<1> QED BY <1>2, <1>3, <1>4, <1>5, <1>6 DEF Next

(* What the owner does is a write that is neither the kill nor the hard-   *)
(* loss row, an event of the switch, or a request for a mode.              *)
LEMMA OwnerShape ==
    ASSUME IInv, Owner, proc'.boot # "down"
    PROVE  Writes \/ Publishes \/ Requests
<1> USE DEF past, LATCHING_STATES, RiskState
<1>1. proc \in Process /\ Down.boot = "down"
  BY DEF IInv, TypeOK, Down
<1>2. CASE Trigger \/ OwnerReset
  BY <1>1, <1>2 DEF Trigger, OwnerReset, Publish, Publishes, Climbing, Process
<1>3. CASE PauseEntries
  BY <1>1, <1>3 DEF PauseEntries, Latch, Writes, Climbing
<1>4. CASE ResumeEntries
  <2>1. "owner_pause" \in Causes /\ ledger' = clear_cause(ledger, "owner_pause")
        /\ proc' = [proc EXCEPT !.resuming = TRUE]
    BY <1>1, <1>4 DEF ResumeEntries, Clear
  <2> QED BY <1>1, <1>4, <2>1 DEF ResumeEntries, Writes, Climbing, Process
<1>5. CASE ResumeStorm
  <2>1. "rejection_storm" \in Causes /\ ledger' = clear_cause(ledger, "rejection_storm")
        /\ proc' = [proc EXCEPT !.resuming = FALSE]
    BY <1>1, <1>5 DEF ResumeStorm, Clear
  <2> QED BY <1>1, <1>5, <2>1 DEF ResumeStorm, Writes, Climbing, Process
<1>6. ASSUME NEW to \in Mode, RequestTransition(to)
      PROVE  Requests
  BY <1>6 DEF RequestTransition, Requests
<1> QED BY <1>2, <1>3, <1>4, <1>5, <1>6 DEF Owner

(* A rung is a write, an event of the switch, the breach itself, or a      *)
(* downgrade, and the rung leaves the ladder.                              *)
LEMMA LadderShape ==
    ASSUME IInv, Ladder, proc'.boot # "down"
    PROVE  Writes \/ Publishes \/ Breaches \/ Downgrades
<1> USE DEF past, LATCHING_STATES, RiskState
<1>1. proc \in Process /\ Down.boot = "down"
  BY DEF IInv, TypeOK, Down
<1>2. CASE EquityTick
  BY <1>1, <1>2 DEF EquityTick, disk, Writes, Climbing, Process
<1>3. Climbed.bridge = proc.bridge /\ Climbed.ladder = Tail(proc.ladder)
  BY <1>1 DEF Climbed, Process
<1>4. CASE LadderKills
  <2>1. proc'.bridge = Append(Climbed.bridge, "engaged") /\ proc'.ladder = Climbed.ladder
        /\ killed' = ("engaged" = "engaged")
    BY <1>1, <1>4 DEF LadderKills, Publish, Climbed, Process
  <2> QED BY <1>3, <1>4, <2>1 DEF LadderKills, Climbs, Publishes, Climbing
<1>5. CASE LadderLatchesKilled
  BY <1>1, <1>3, <1>5 DEF LadderLatchesKilled, Climbs, Latch, Writes, Climbing
<1>6. CASE LadderLatchesFloor
  BY <1>1, <1>3, <1>6 DEF LadderLatchesFloor, Climbs, Latch, Writes, Climbing
<1>7. CASE LadderLatchesHard
  BY <1>1, <1>3, <1>7 DEF LadderLatchesHard, Climbs, Latch, Breaches, Awaits
<1>8. CASE LadderLatchesSoft
  BY <1>1, <1>3, <1>8 DEF LadderLatchesSoft, Climbs, Latch, Writes, Climbing
<1>9. CASE LadderDowngrades
  <2>1. mode' # "AUTO"
    BY <1>9 DEF LadderDowngrades, ForceDowngrade, MODE_RANK, IInv, TypeOK, Mode
  <2> QED BY <1>3, <1>9, <2>1 DEF LadderDowngrades, Climbs, Downgrades, Awaits
<1> QED BY <1>2, <1>4, <1>5, <1>6, <1>7, <1>8, <1>9 DEF Ladder

(* A step of the boot is a write or an event of the switch. *)
LEMMA BootShape ==
    ASSUME IInv, Boot, proc'.boot # "down"
    PROVE  Writes \/ Publishes
<1> USE DEF past, LATCHING_STATES, RiskState, DayScoped
<1>1. proc \in Process /\ Down.boot = "down"
  BY DEF IInv, TypeOK, Down
<1>2. ASSUME NEW step
      PROVE  Goes(step).bridge = proc.bridge /\ Goes(step).ladder = proc.ladder
  BY <1>1 DEF Goes, Process
<1>3. CASE ProcessStarts \/ SelfTestPasses \/ WarmupReadyAtBoot
  BY <1>2, <1>3 DEF ProcessStarts, SelfTestPasses, WarmupReadyAtBoot, Skip, Writes, Climbing
<1>4. CASE SelfTestBegins
  <2>1. proc'.bridge = proc.bridge /\ proc'.ladder = proc.ladder
    BY <1>1, <1>4 DEF SelfTestBegins, Skip, Goes, Process
  <2> QED BY <1>4, <2>1 DEF SelfTestBegins, Skip, Writes, Climbing
<1>5. ASSUME NEW c \in Causes, ClearStaleDaily(c)
      PROVE  Writes
  <2>1. ledger' = clear_cause(ledger, c) /\ proc' = [proc EXCEPT !.stale = @ \ {c}]
    BY <1>1, <1>5 DEF ClearStaleDaily, Clear
  <2>2. c # "kill"
    BY <1>5 DEF ClearStaleDaily, IInv, StaleIsStale
  <2>3. proc'.bridge = proc.bridge /\ proc'.ladder = proc.ladder
    BY <1>1, <2>1 DEF Process
  <2> QED BY <1>5, <2>1, <2>2, <2>3 DEF ClearStaleDaily, Writes, Climbing
<1>6. CASE SelfTestLadder
  <2>1. PICK rungs \in Evaluations : proc' = [Goes("verdict") EXCEPT !.ladder = rungs]
    BY <1>6 DEF SelfTestLadder, Skip
  <2>2. proc'.bridge = proc.bridge /\ proc'.ladder = rungs
    BY <1>1, <2>1 DEF Goes, Process
  <2> QED BY <1>6, <2>2 DEF SelfTestLadder, Skip, Writes, Climbing
<1>7. CASE IntegrityFailsFlat
  BY <1>1, <1>2, <1>7 DEF IntegrityFailsFlat, Latch, Writes, Climbing
<1>8. CASE IntegrityFailsLive
  <2>1. proc'.bridge = Append(proc.bridge, "engaged") /\ proc'.ladder = proc.ladder
        /\ killed' = ("engaged" = "engaged")
    BY <1>1, <1>8 DEF IntegrityFailsLive, Publish, Goes, Process
  <2> QED BY <1>8, <2>1 DEF IntegrityFailsLive, Publishes, Climbing
<1>9. CASE SelfTestFreezes
  BY <1>1, <1>2, <1>9 DEF SelfTestFreezes, LatchUnlessKilled, Latch, Skip, Writes, Climbing
<1>10. CASE CatchUpFails
  BY <1>1, <1>2, <1>10 DEF CatchUpFails, LatchUnlessKilled, Latch, Skip, Writes, Climbing
<1>11. CASE CatchUpClean
  BY <1>1, <1>2, <1>11 DEF CatchUpClean, Clear, Skip, Writes, Climbing
<1>12. CASE WarmupShortAtBoot
  BY <1>1, <1>2, <1>12 DEF WarmupShortAtBoot, LatchUnlessKilled, Latch, Skip, Writes, Climbing
<1> QED BY <1>3, <1>4, <1>5, <1>6, <1>7, <1>8, <1>9, <1>10, <1>11, <1>12 DEF Boot

(* The sweep and the warm-up gate write rows; the bridge handles its oldest*)
(* event.                                                                  *)
LEMMA UpkeepShape ==
    ASSUME IInv, Upkeep, proc'.boot # "down"
    PROVE  Writes \/ Bridges
<1> USE DEF past, LATCHING_STATES, RiskState
<1>1. proc \in Process /\ Down.boot = "down"
  BY DEF IInv, TypeOK, Down
<1>2. CASE KillToLatch
  <2>1. proc' = [proc EXCEPT !.bridge = Tail(@)]
    BY <1>1, <1>2 DEF KillToLatch, Latch, Clear
  <2>2. proc'.bridge = Tail(proc.bridge) /\ proc'.ladder = proc.ladder
    BY <1>1, <2>1 DEF Process
  <2> QED BY <1>1, <1>2, <2>2 DEF KillToLatch, Latch, Clear, Bridges
<1>3. CASE SweepFails
  BY <1>1, <1>3 DEF SweepFails, Latch, Writes, Climbing
<1>4. CASE SweepClean
  BY <1>1, <1>4 DEF SweepClean, Clear, Writes, Climbing
<1>5. CASE WarmupFreezes
  <2>1. proc' = [proc EXCEPT !.refrozen = (@ \/ (~killed /\ proc.lift = "testing"))]
    BY <1>1, <1>5 DEF WarmupFreezes, LatchUnlessKilled, Latch, Skip
  <2>2. proc'.bridge = proc.bridge /\ proc'.ladder = proc.ladder
    BY <1>1, <2>1 DEF Process
  <2> QED BY <1>1, <1>5, <2>2 DEF WarmupFreezes, LatchUnlessKilled, Latch, Skip, Writes, Climbing
<1>6. CASE LiftBegins \/ LiftHeld
  <2>1. proc'.bridge = proc.bridge /\ proc'.ladder = proc.ladder /\ UNCHANGED ledger
    BY <1>1, <1>6 DEF LiftBegins, LiftHeld, Skip, Process
  <2> QED BY <1>6, <2>1 DEF LiftBegins, LiftHeld, Writes, Climbing
<1>7. CASE LiftClearsWarmup
  <2>1. /\ "warmup_ready" \in Causes /\ ledger' = clear_cause(ledger, "warmup_ready")
        /\ proc' = [proc EXCEPT !.lift = "clearing", !.refrozen = FALSE]
    BY <1>1, <1>7 DEF LiftClearsWarmup, Clear
  <2> QED BY <1>1, <1>7, <2>1 DEF LiftClearsWarmup, Writes, Climbing, Process
<1>8. CASE LiftClearsSelfTest
  <2>1. /\ "startup_selftest" \in Causes /\ ledger' = clear_cause(ledger, "startup_selftest")
        /\ proc' = [proc EXCEPT !.lift = "no"]
    BY <1>1, <1>8 DEF LiftClearsSelfTest, Clear
  <2> QED BY <1>1, <1>8, <2>1 DEF LiftClearsSelfTest, Writes, Climbing, Process
<1> QED BY <1>2, <1>3, <1>4, <1>5, <1>6, <1>7, <1>8 DEF Upkeep

(* So every step that does not end the process is one of six kinds. *)
LEMMA StepShape ==
    ASSUME IInv, Next, NothingBeforeBoot, proc'.boot = "down" => proc.boot = "down"
    PROVE  /\ NothingBeforeBoot'
           /\ Writes \/ Publishes \/ Bridges \/ Requests \/ Breaches \/ Downgrades
<1>1. CASE proc'.boot # "down"
  <2>1. CASE OrderGuard \/ OrderSent \/ NewDay
    <3>1. proc'.bridge = proc.bridge /\ proc'.ladder = proc.ladder
      BY <2>1 DEF OrderGuard, OrderSent, NewDay, IInv, TypeOK, Process
    <3> QED BY <1>1, <2>1, <3>1 DEF OrderGuard, OrderSent, NewDay, disk, past, Writes, Climbing,
                                   NothingBeforeBoot
  <2>2. ~Crash
    BY <1>1 DEF Crash, Down
  <2> QED BY <1>1, <2>1, <2>2, OwnerShape, LadderShape, BootShape, UpkeepShape
          DEF Next, NothingBeforeBoot
<1>2. CASE proc'.boot = "down"
  <2>1. proc = Down
    BY <1>2 DEF NothingBeforeBoot
  <2>2. NewDay
    BY <1>2, <2>1, OnlyABootStarts DEF ProcessStarts, Skip, Goes, Down
  <2>3. UNCHANGED <<ledger, mode, killed, rearmed, proc>>
    BY <2>2 DEF NewDay, disk
  <2> QED BY <2>1, <2>3 DEF Writes, Climbing, NothingBeforeBoot
<1> QED BY <1>1, <1>2

(* The rungs still to climb: no breach without its downgrade. *)
HardFollowed(rungs) ==
    \A i \in 1 .. Len(rungs) : rungs[i] = "hard" => i < Len(rungs) /\ rungs[i + 1] = "recommend"

(* Whatever an evaluation trips, the hard rung is followed by its          *)
(* downgrade.                                                              *)
LEMMA EvaluationsFollow == \A e \in Evaluations : HardFollowed(e)
<1>1. TAKE e \in Evaluations
<1>2. PICK f \in evaluate_floors, d \in evaluate_day_loss : e = f \o d
  BY <1>1, ControlAssumption DEF AnyEvaluation
<1>3. HardFollowed(d) /\ d \in Seq(Rung)
  <2>1. CASE d = <<>>
    BY <2>1 DEF HardFollowed
  <2>2. CASE d = SoftRung
    BY <2>2 DEF HardFollowed, SoftRung, Rung
  <2>3. CASE d = HardRung
    BY <2>3 DEF HardFollowed, HardRung, Rung
  <2> QED BY <1>2, <2>1, <2>2, <2>3 DEF evaluate_day_loss
<1>4. CloseRung \in Seq(Rung \ {"hard"}) /\ KillRung \in Seq(Rung \ {"hard"})
  BY DEF CloseRung, KillRung, Rung
<1>5. f \in Seq(Rung) /\ \A i \in 1 .. Len(f) : f[i] # "hard"
  <2>1. \A p, q \in Seq(Rung \ {"hard"}) : p \o q \in Seq(Rung \ {"hard"})
    OBVIOUS
  <2>2. KillRung \o CloseRung \in Seq(Rung \ {"hard"}) /\ <<>> \in Seq(Rung \ {"hard"})
    BY <1>4, <2>1
  <2>3. f \in Seq(Rung \ {"hard"})
    BY <1>2, <1>4, <2>2 DEF evaluate_floors
  <2> QED BY <2>3
<1>6. /\ Len(e) = Len(f) + Len(d)
      /\ \A i \in 1 .. Len(e) : e[i] = IF i <= Len(f) THEN f[i] ELSE d[i - Len(f)]
  BY <1>2, <1>3, <1>5
<1>7. ASSUME NEW i \in 1 .. Len(e), e[i] = "hard"
      PROVE  i < Len(e) /\ e[i + 1] = "recommend"
  <2>1. i - Len(f) \in 1 .. Len(d) /\ d[i - Len(f)] = "hard"
    BY <1>3, <1>5, <1>6, <1>7
  <2>2. i - Len(f) < Len(d) /\ d[(i - Len(f)) + 1] = "recommend"
    BY <1>3, <2>1 DEF HardFollowed
  <2>3. i + 1 \in 1 .. Len(e) /\ ~(i + 1 <= Len(f)) /\ (i + 1) - Len(f) = (i - Len(f)) + 1
    BY <1>3, <1>5, <1>6, <2>1, <2>2
  <2> QED BY <1>6, <2>2, <2>3
<1> QED BY <1>7 DEF HardFollowed

(* ... also when the rungs before it have been climbed. *)
LEMMA TailFollows ==
    ASSUME NEW rungs \in Seq(Rung), rungs # <<>>, HardFollowed(rungs)
    PROVE  /\ HardFollowed(Tail(rungs))
           /\ Head(rungs) = "hard" => Tail(rungs) # <<>> /\ Head(Tail(rungs)) = "recommend"
<1>1. /\ Tail(rungs) \in Seq(Rung) /\ Len(Tail(rungs)) = Len(rungs) - 1 /\ Len(rungs) > 0
      /\ \A i \in 1 .. Len(rungs) - 1 : Tail(rungs)[i] = rungs[i + 1]
      /\ Head(rungs) = rungs[1]
  OBVIOUS
<1>2. ASSUME NEW i \in 1 .. Len(Tail(rungs)), Tail(rungs)[i] = "hard"
      PROVE  i < Len(Tail(rungs)) /\ Tail(rungs)[i + 1] = "recommend"
  <2>1. i + 1 \in 1 .. Len(rungs) /\ rungs[i + 1] = "hard"
    BY <1>1, <1>2
  <2>2. i + 1 < Len(rungs) /\ rungs[(i + 1) + 1] = "recommend"
    BY <2>1 DEF HardFollowed
  <2> QED BY <1>1, <2>2
<1>3. ASSUME Head(rungs) = "hard"
      PROVE  Tail(rungs) # <<>> /\ Head(Tail(rungs)) = "recommend"
  <2>1. 1 \in 1 .. Len(rungs) /\ 1 < Len(rungs) /\ rungs[1 + 1] = "recommend"
    BY <1>1, <1>3 DEF HardFollowed
  <2>2. Len(Tail(rungs)) > 0 /\ Tail(rungs)[1] = "recommend"
    BY <1>1, <2>1
  <2>3. \A q \in Seq(Rung) : Len(q) > 0 => q # <<>> /\ Head(q) = q[1]
    OBVIOUS
  <2> QED BY <1>1, <2>2, <2>3
<1> QED BY <1>2, <1>3 DEF HardFollowed

(* A step that climbs past neither the breach nor the downgrade keeps both *)
(* ahead.                                                                  *)
LEMMA ClimbingKeeps ==
    ASSUME IInv, DowngradeFollows, Climbing
    PROVE  HardFollowed(proc'.ladder) /\ (Awaits("recommend") => Awaits("recommend")')
<1>1. proc.ladder \in Seq(Rung) /\ HardFollowed(proc.ladder)
  BY DEF IInv, TypeOK, Process, DowngradeFollows, HardFollowed
<1>2. HardFollowed(proc'.ladder)
  BY <1>1, EvaluationsFollow, TailFollows DEF Climbing
<1>3. Awaits("recommend") => proc'.ladder = proc.ladder
  BY DEF Climbing, Awaits
<1> QED BY <1>2, <1>3 DEF Awaits

(* An event that is appended is the last one. *)
LEMMA BridgeAppended ==
    ASSUME NEW S, NEW q \in Seq(S), NEW e \in S
    PROVE  Append(q, e) # <<>> /\ Append(q, e)[Len(Append(q, e))] = e
  OBVIOUS

(* Handling the oldest event leaves the last one, unless it was the last. *)
LEMMA BridgeTaken ==
    ASSUME NEW S, NEW q \in Seq(S), q # <<>>
    PROVE  /\ Tail(q) = <<>> => Head(q) = q[Len(q)]
           /\ Tail(q) # <<>> => Tail(q)[Len(Tail(q))] = q[Len(q)]
<1> DEFINE t == Tail(q)
<1>1. /\ Len(q) \in Nat \ {0} /\ Head(q) = q[1] /\ t \in Seq(S)
      /\ Len(t) = Len(q) - 1 /\ \A i \in 1 .. Len(q) - 1 : t[i] = q[i + 1]
  OBVIOUS
<1> HIDE DEF t
<1>2. t = <<>> => Len(t) = 0
  OBVIOUS
<1>3. t # <<>> => Len(t) # 0
  BY <1>1
<1>4. t = <<>> => Head(q) = q[Len(q)]
  BY <1>1, <1>2
<1>5. ASSUME t # <<>> PROVE t[Len(t)] = q[Len(q)]
  <2>1. Len(q) - 1 \in 1 .. Len(q) - 1 /\ (Len(q) - 1) + 1 = Len(q)
    BY <1>1, <1>3, <1>5
  <2> QED BY <1>1, <2>1
<1> QED BY <1>4, <1>5 DEF t

(* While the process lives, the bridge follows the switch, the ledger      *)
(* dominates without a healing, and AUTO does not outlive a breach by more *)
(* than the rung that is next.                                             *)
LEMMA UncrashedStep ==
    ASSUME IInv, Uncrashed, Next, proc'.boot = "down" => proc.boot = "down"
    PROVE  Uncrashed'
<1>1. /\ {"kill", "daily_loss_hard"} \subseteq Causes
      /\ ledger \in Ledger(Dates) /\ today \in Dates
  BY ScenarioAssumption DEF MCCauses, BootCauses, LadderCauses, IInv, TypeOK
<1>2. /\ NothingBeforeBoot'
      /\ Writes \/ Publishes \/ Bridges \/ Requests \/ Breaches \/ Downgrades
  BY StepShape DEF Uncrashed
<1>3. proc.ladder \in Seq(Rung) /\ HardFollowed(proc.ladder) /\ proc.bridge \in Seq({"engaged", "released"})
  BY DEF IInv, TypeOK, Process, Uncrashed, DowngradeFollows, HardFollowed
<1>4. CASE Writes
  <2>1. /\ Dominates(ledger') /\ ledger'.active["kill"] = ledger.active["kill"]
        /\ Active(ledger', "daily_loss_hard") => Active(ledger, "daily_loss_hard")
    <3>1. CASE ledger' = ledger
      BY <3>1 DEF Uncrashed
    <3>2. ASSUME NEW c \in Causes \ {"kill", "daily_loss_hard"}, NEW s \in LATCHING_STATES,
                 ledger' = set_cause(ledger, c, s, today)
          PROVE  /\ Dominates(ledger') /\ ledger'.active["kill"] = ledger.active["kill"]
                 /\ Active(ledger', "daily_loss_hard") => Active(ledger, "daily_loss_hard")
      BY <1>1, <3>2, SetCause DEF Active
    <3>3. ASSUME NEW c \in Causes \ {"kill"}, ledger' = clear_cause(ledger, c)
          PROVE  /\ Dominates(ledger') /\ ledger'.active["kill"] = ledger.active["kill"]
                 /\ Active(ledger', "daily_loss_hard") => Active(ledger, "daily_loss_hard")
      <4>1. /\ Dominates(clear_cause(ledger, c))
            /\ \A k \in Causes \ {c} : clear_cause(ledger, c).active[k] = ledger.active[k]
            /\ clear_cause(ledger, c).active[c] = "NORMAL"
        BY <1>1, ClearCause
      <4> QED BY <1>1, <3>3, <4>1 DEF Active
    <3> QED BY <1>4, <3>1, <3>2, <3>3 DEF Writes
  <2>2. BridgeFollowsSwitch' /\ KillLatchesKilled'
    BY <1>4, <2>1 DEF Writes, Uncrashed, BridgeFollowsSwitch, KillLatchesKilled, Active
  <2>3. DowngradeFollows'
    BY <1>4, <2>1, ClimbingKeeps DEF Writes, Uncrashed, DowngradeFollows, HardFollowed
  <2> QED BY <1>2, <2>1, <2>2, <2>3 DEF Uncrashed, Dominates
<1>5. CASE Publishes
  <2>1. PICK event \in {"engaged", "released"} :
            killed' = (event = "engaged") /\ proc'.bridge = Append(proc.bridge, event)
    BY <1>5 DEF Publishes
  <2>2. proc'.bridge # <<>> /\ proc'.bridge[Len(proc'.bridge)] = event
    BY <1>3, <2>1, BridgeAppended
  <2>3. BridgeFollowsSwitch'
    BY <2>1, <2>2 DEF BridgeFollowsSwitch
  <2>4. KillLatchesKilled' /\ Dominates(ledger)'
    BY <1>5 DEF Publishes, Uncrashed, KillLatchesKilled, Dominates
  <2>5. DowngradeFollows'
    BY <1>5, ClimbingKeeps DEF Publishes, Uncrashed, DowngradeFollows, HardFollowed, Active
  <2> QED BY <1>2, <2>3, <2>4, <2>5 DEF Uncrashed
<1>6. CASE Bridges
  <2>1. /\ Dominates(ledger') /\ ledger'.active["daily_loss_hard"] = ledger.active["daily_loss_hard"]
        /\ ledger'.active["kill"] = IF Head(proc.bridge) = "engaged" THEN "KILLED" ELSE "NORMAL"
    <3>1. "KILLED" \in LATCHING_STATES
      BY DEF LATCHING_STATES, RiskState
    <3>2. CASE Head(proc.bridge) = "engaged"
      BY <1>1, <1>6, <3>1, <3>2, SetCause DEF Bridges
    <3>3. CASE Head(proc.bridge) # "engaged"
      <4>1. /\ Dominates(clear_cause(ledger, "kill"))
            /\ \A k \in Causes \ {"kill"} :
                    clear_cause(ledger, "kill").active[k] = ledger.active[k]
            /\ clear_cause(ledger, "kill").active["kill"] = "NORMAL"
        BY <1>1, ClearCause
      <4> QED BY <1>1, <1>6, <3>3, <4>1 DEF Bridges
    <3> QED BY <3>2, <3>3
  <2>2. BridgeFollowsSwitch'
    <3>1. /\ proc.bridge # <<>> /\ proc'.bridge = Tail(proc.bridge) /\ killed' = killed
          /\ killed <=> proc.bridge[Len(proc.bridge)] = "engaged"
      BY <1>6 DEF Bridges, Uncrashed, BridgeFollowsSwitch
    <3>2. CASE proc'.bridge = <<>>
      <4>1. Head(proc.bridge) = proc.bridge[Len(proc.bridge)]
        BY <1>3, <3>1, <3>2, BridgeTaken
      <4> QED BY <2>1, <3>1, <3>2, <4>1 DEF BridgeFollowsSwitch, Active
    <3>3. CASE proc'.bridge # <<>>
      <4>1. proc'.bridge[Len(proc'.bridge)] = proc.bridge[Len(proc.bridge)]
        BY <1>3, <3>1, <3>3, BridgeTaken
      <4> QED BY <3>1, <3>3, <4>1 DEF BridgeFollowsSwitch
    <3> QED BY <3>2, <3>3
  <2>3. KillLatchesKilled' /\ Dominates(ledger)'
    BY <2>1 DEF KillLatchesKilled, Dominates
  <2>4. DowngradeFollows'
    BY <1>6, <2>1 DEF Bridges, Uncrashed, DowngradeFollows, Awaits, Active
  <2> QED BY <1>2, <2>2, <2>3, <2>4 DEF Uncrashed
<1>7. CASE Requests
  BY <1>2, <1>7 DEF Requests, Uncrashed, BridgeFollowsSwitch, KillLatchesKilled, Dominates,
                    DowngradeFollows, Awaits, Active
<1>8. CASE Breaches
  <2>1. "CLOSE_ONLY" \in LATCHING_STATES
    BY DEF LATCHING_STATES, RiskState
  <2>2. Dominates(ledger') /\ ledger'.active["kill"] = ledger.active["kill"]
    BY <1>1, <1>8, <2>1, SetCause DEF Breaches
  <2>3. BridgeFollowsSwitch' /\ KillLatchesKilled' /\ Dominates(ledger)'
    BY <1>8, <2>2 DEF Breaches, Uncrashed, BridgeFollowsSwitch, KillLatchesKilled, Active, Dominates
  <2>4. HardFollowed(proc'.ladder) /\ Awaits("recommend")'
    BY <1>3, <1>8, TailFollows DEF Breaches, Awaits
  <2> QED BY <1>2, <2>3, <2>4 DEF Uncrashed, DowngradeFollows, HardFollowed
<1>9. CASE Downgrades
  <2>1. HardFollowed(proc'.ladder)
    BY <1>3, <1>9, TailFollows DEF Downgrades, Awaits
  <2>2. DowngradeFollows'
    BY <1>9, <2>1 DEF Downgrades, DowngradeFollows, HardFollowed
  <2> QED BY <1>2, <1>9, <2>2 DEF Downgrades, Uncrashed, BridgeFollowsSwitch, KillLatchesKilled,
                                  Dominates, Active
<1> QED BY <1>2, <1>4, <1>5, <1>6, <1>7, <1>8, <1>9

(* The two promises of the uncrashed engine follow. *)
LEMMA UncrashedHolds ==
    ASSUME IInv, Uncrashed
    PROVE  HardLossDisarms /\ KillMirrored
<1>1. HardLossDisarms
  BY DEF Uncrashed, DowngradeFollows, HardLossDisarms, Awaits
<1>2. ASSUME killed, Active(ledger, "kill")
      PROVE  ledger.risk_state = "KILLED"
  <2>1. "kill" \in Causes /\ ledger.active["kill"] = "KILLED" /\ ledger.risk_state \in RiskState
    BY <1>2, ScenarioAssumption DEF MCCauses, BootCauses, Uncrashed, KillLatchesKilled, Active,
                                    IInv, TypeOK, Ledger
  <2>2. RISK_RANK("KILLED") <= RISK_RANK(ledger.risk_state)
    BY <2>1 DEF Uncrashed, Dominates
  <2> QED BY <2>1, <2>2, Ranks DEF RiskState
<1>3. KillMirrored
  BY <1>2 DEF Uncrashed, BridgeFollowsSwitch, KillMirrored
<1> QED BY <1>1, <1>3

(* Only the scenario without a crash promises more than IInv. *)
ScenarioInv == IInv /\ (scenario = "ladder" => Uncrashed)

(***************************************************************************)
(* For any causes, evaluations, days and bounds: while the process has not *)
(* died, AUTO after a hard daily loss is the owner's own request           *)
(* (apply_day_loss), and once every kill event has been handled the ledger *)
(* mirrors the switch and shows KILLED (_kill_to_latch).                   *)
(***************************************************************************)
THEOREM UncrashedControls == ScenarioSpec => []UncrashedControlsHold
<1>1. ScenarioInit => ScenarioInv
  <2> SUFFICES ASSUME Init PROVE Uncrashed
    BY Initially DEF ScenarioInit, ScenarioInv
  <2>1. "kill" \in Causes /\ "daily_loss_hard" \in Causes
    BY ScenarioAssumption DEF MCCauses, BootCauses, LadderCauses
  <2>2. /\ \A c \in Causes : ledger.active[c] = "NORMAL"
        /\ ledger.risk_state = "NORMAL" /\ ~killed
        /\ proc = Down /\ proc.bridge = <<>> /\ proc.ladder = <<>>
    BY DEF Init, Down
  <2>3. NothingBeforeBoot /\ BridgeFollowsSwitch /\ KillLatchesKilled
    BY <2>1, <2>2 DEF NothingBeforeBoot, BridgeFollowsSwitch, KillLatchesKilled, Active
  <2>4. Dominates(ledger)
    <3>1. "NORMAL" \in RiskState
      BY DEF RiskState
    <3>2. RISK_RANK("NORMAL") \in 0 .. 3
      BY <3>1, Ranks
    <3>3. RISK_RANK("NORMAL") <= RISK_RANK("NORMAL")
      BY <3>2
    <3> QED BY <2>2, <3>3 DEF Dominates
  <2>5. DowngradeFollows
    BY <2>1, <2>2 DEF DowngradeFollows, Active
  <2> QED BY <2>3, <2>4, <2>5 DEF Uncrashed
<1>2. ScenarioInv /\ [ScenarioNext]_<<vars, scenario, watchVars>> => ScenarioInv'
  <2> SUFFICES ASSUME ScenarioInv, [ScenarioNext]_<<vars, scenario, watchVars>> PROVE ScenarioInv'
    OBVIOUS
  <2>1. CASE UNCHANGED <<vars, scenario>>
    <3>1. Uncrashed => Uncrashed'
      BY <2>1 DEF vars, Uncrashed, NothingBeforeBoot, BridgeFollowsSwitch, KillLatchesKilled,
                  Dominates, DowngradeFollows, Awaits, Active
    <3> QED BY <2>1, <3>1, InvariantStutters DEF ScenarioInv
  <2>2. CASE Next /\ scenario' = scenario /\ (scenario = "ladder" => LadderBounds)
    <3>1. IInv'
      BY <2>2, InvariantStep DEF ScenarioInv
    <3>2. scenario = "ladder" => Uncrashed'
      BY <2>2, UncrashedStep DEF ScenarioInv, LadderBounds
    <3> QED BY <2>2, <3>1, <3>2 DEF ScenarioInv
  <2>3. ScenarioNext => (Next /\ scenario' = scenario /\ (scenario = "ladder" => LadderBounds))
                        \/ UNCHANGED <<vars, scenario>>
    <3>1. CASE scenario = "watch"
      BY <3>1 DEF ScenarioNext
    <3>2. CASE scenario # "watch"
      BY <3>2 DEF ScenarioNext
    <3> QED BY <3>1, <3>2
  <2> QED BY <2>1, <2>2, <2>3
<1>3. ScenarioInv => UncrashedControlsHold
  BY UncrashedHolds DEF ScenarioInv, UncrashedControlsHold
<1> QED BY <1>1, <1>2, <1>3, PTL DEF ScenarioSpec

-----------------------------------------------------------------------------
(***************************************************************************)
(* The watch on the engine: its processes and the watchdog's ticks.        *)
(***************************************************************************)
Engines == {"booting", "checked", "up", "stopping", "stopped"}

(* The lock is with the one engine there is, the row is of the run that    *)
(* began last, and an outage is over while an engine works.                *)
EngineInv ==
    /\ engines \in [Pids -> Engines \cup {"free", "stranger"}]
    /\ row \in [state : {"none", "RUNNING", "STOPPING", "STOPPED"}, pid : Pids \cup {NoPid}]
    /\ outage \in BOOLEAN
    /\ \A p \in Pids : engines[p] \in Engines => lock = p
    /\ \A p \in Pids : engines[p] \in {"up", "stopping"} => ~outage
    /\ Watch!RowTellsOutage

(* What a tick carries. *)
Answers ==
    [ at : {"idle", "read", "alarm", "kill", "missed", "save"},
      seen : [state : {"none", "RUNNING", "STOPPING", "STOPPED"}, pid : Pids \cup {NoPid}],
      wedged : BOOLEAN, armed : BOOLEAN, missed : BOOLEAN, newer : BOOLEAN,
      stamp : BOOLEAN, mark : BOOLEAN ]

(* A page that was sent is paid for by a stamp, by one the tick is about   *)
(* to write, or by a tick that died.                                       *)
PagesPaid ==
    /\ alarms.down <= deaths + (IF stamped \/ (tick.stamp /\ ~tick.newer) THEN 1 ELSE 0)
    /\ alarms.missed <= deaths + (IF told \/ tick.mark THEN 1 ELSE 0)

(* What a tick holds on its way: it pages what was not stamped when it     *)
(* looked, and a beat in between makes the count start anew.               *)
TickHolds ==
    /\ tick.newer => alarms.down = 0
    /\ tick.at \in {"idle", "read", "alarm"} => ~tick.stamp
    /\ tick.at \in {"read", "alarm"} /\ tick.armed => ~stamped
    /\ tick.at = "alarm" => tick.armed
    /\ tick.at # "save" => ~tick.mark
    /\ tick.at \in {"read", "alarm", "kill"} /\ tick.missed => ~told
    /\ tick.at = "missed" => ~told

PageInv ==
    /\ stamped \in BOOLEAN /\ told \in BOOLEAN /\ deaths \in Nat
    /\ tick \in Answers /\ alarms \in [down : Nat, missed : Nat]
    /\ PagesPaid /\ TickHolds

(* What the constants of the watch are. *)
LEMMA WatchNumbers == MaxDeaths \in Nat /\ NoPid \notin Pids
  BY PartsAssumption DEF Watch!WatchAssumption

(* The end of a process. *)
LEMMA EndKeeps ==
    ASSUME EngineInv, NEW p \in Pids, engines[p] # "free", Watch!Ends(p), row' = row
    PROVE  EngineInv'
<1>1. /\ engines' = [engines EXCEPT ![p] = "free"]
      /\ lock' = IF lock = p THEN NoPid ELSE lock
      /\ outage' = (outage \/ engines[p] \in {"up", "stopping"})
  BY DEF Watch!Ends, Watch!Becomes, Watch!Working
<1>2. engines' \in [Pids -> Engines \cup {"free", "stranger"}] /\ outage' \in BOOLEAN
  BY <1>1 DEF EngineInv
<1>3. \A q \in Pids : engines'[q] = IF q = p THEN "free" ELSE engines[q]
  BY <1>1 DEF EngineInv
<1>4. ASSUME NEW q \in Pids, engines'[q] \in Engines
      PROVE  lock' = q /\ engines'[q] = engines[q] /\ engines[p] \notin Engines
  BY <1>1, <1>3, <1>4 DEF EngineInv, Engines
<1>5. \A q \in Pids : engines'[q] \in {"up", "stopping"} => ~outage'
  BY <1>1, <1>4 DEF EngineInv, Engines
<1>6. ASSUME NEW q \in Pids, engines'[q] \in {"up", "stopping", "stopped"}
      PROVE  row' = [state |-> Watch!StateOf(engines'[q]), pid |-> q]
  BY <1>4, <1>6 DEF EngineInv, Engines, Watch!RowTellsOutage, Watch!Working
<1>7. ASSUME \A q \in Pids : engines'[q] \notin {"up", "stopping"}
      PROVE  outage' <=> row'.state \in {"RUNNING", "STOPPING"}
  <2>1. CASE engines[p] \in {"up", "stopping"}
    <3>1. row = [state |-> Watch!StateOf(engines[p]), pid |-> p]
      BY <2>1 DEF EngineInv, Watch!RowTellsOutage, Watch!Working
    <3> QED BY <1>1, <2>1, <3>1 DEF Watch!StateOf
  <2>2. CASE engines[p] \notin {"up", "stopping"}
    <3>1. \A q \in Pids : engines[q] \notin {"up", "stopping"}
      BY <1>3, <1>7, <2>2
    <3> QED BY <1>1, <2>2, <3>1 DEF EngineInv, Watch!RowTellsOutage, Watch!Working, Watch!Live
  <2> QED BY <2>1, <2>2
<1> QED BY <1>2, <1>4, <1>5, <1>6, <1>7 DEF EngineInv, Watch!RowTellsOutage, Watch!Working, Watch!Live

(* A process goes on, without the row and with its lock. *)
LEMMA BeginKeeps ==
    ASSUME EngineInv, NEW p \in Pids, NEW phase \in {"booting", "checked", "stranger"},
           engines[p] \in {"free", "booting"}, engines' = [engines EXCEPT ![p] = phase],
           UNCHANGED <<row, outage>>,
           \/ lock = NoPid /\ lock' = p
           \/ lock' = lock /\ (phase = "stranger" \/ engines[p] = "booting")
    PROVE  EngineInv'
<1>1. \A q \in Pids : engines'[q] = IF q = p THEN phase ELSE engines[q]
  BY DEF EngineInv
<1>2. engines' \in [Pids -> Engines \cup {"free", "stranger"}]
  BY DEF EngineInv, Engines
<1>3. \A q \in Pids : engines'[q] \in Engines => lock' = q
  BY <1>1, WatchNumbers DEF EngineInv, Engines
<1>4. \A q \in Pids : engines'[q] \in {"up", "stopping", "stopped"} <=> engines[q] \in {"up", "stopping", "stopped"}
  BY <1>1
<1>5. \A q \in Pids : engines[q] \in {"up", "stopping", "stopped"} => engines'[q] = engines[q]
  BY <1>1
<1>6. Watch!RowTellsOutage'
  BY <1>4, <1>5 DEF EngineInv, Watch!RowTellsOutage, Watch!Working, Watch!StateOf
<1> QED BY <1>2, <1>3, <1>4, <1>5, <1>6 DEF EngineInv

(* The one engine goes on, and its row with it. *)
LEMMA PhaseKeeps ==
    ASSUME EngineInv, NEW p \in Pids, NEW phase \in {"up", "stopping", "stopped"},
           engines[p] \in Engines, engines' = [engines EXCEPT ![p] = phase], lock' = lock,
           row' = [state |-> Watch!StateOf(phase), pid |-> p],
           outage' = FALSE
    PROVE  EngineInv'
<1>1. \A q \in Pids : engines'[q] = IF q = p THEN phase ELSE engines[q]
  BY DEF EngineInv
<1>2. engines' \in [Pids -> Engines \cup {"free", "stranger"}]
  BY DEF EngineInv, Engines
<1>3. \A q \in Pids : q # p => engines'[q] \notin Engines
  BY <1>1 DEF EngineInv
<1>4. engines'[p] = phase /\ lock' = p
  BY <1>1 DEF EngineInv
<1>5. row'.state = Watch!StateOf(phase) /\ row'.pid = p
  OBVIOUS
<1>6. /\ phase = "up" => Watch!StateOf(phase) = "RUNNING"
      /\ phase = "stopping" => Watch!StateOf(phase) = "STOPPING"
      /\ phase = "stopped" => Watch!StateOf(phase) = "STOPPED"
  BY DEF Watch!StateOf
<1>7. row' \in [state : {"none", "RUNNING", "STOPPING", "STOPPED"}, pid : Pids \cup {NoPid}]
  BY <1>6
<1>8. \A q \in Pids : engines'[q] \in {"up", "stopping", "stopped"} => q = p
  BY <1>3 DEF Engines
<1>9. \A q \in Pids : engines'[q] \in {"up", "stopping", "stopped"} =>
          row' = [state |-> Watch!StateOf(engines'[q]), pid |-> q]
  BY <1>4, <1>8
<1>10. (\A q \in Pids : engines'[q] \notin {"up", "stopping"}) => row'.state = "STOPPED"
  BY <1>4, <1>5, <1>6
<1>11. Watch!RowTellsOutage'
  BY <1>9, <1>10 DEF Watch!RowTellsOutage, Watch!Working, Watch!Live, Watch!StateOf
<1> QED BY <1>2, <1>3, <1>4, <1>7, <1>11 DEF EngineInv

(* Whatever processes and the watchdog do, the row tells whether the last  *)
(* run stopped or died.                                                    *)
LEMMA EngineStep ==
    ASSUME EngineInv, tick \in Answers, Watch!Next
    PROVE  EngineInv'
<1> USE DEF Watch!Becomes
<1>1. ASSUME UNCHANGED <<engines, lock, row, outage>>
      PROVE  EngineInv'
  BY <1>1 DEF EngineInv, Watch!RowTellsOutage, Watch!StateOf
<1>2. ASSUME NEW p \in Pids, Watch!Start(p)
      PROVE  EngineInv'
  BY <1>2, BeginKeeps DEF Watch!Start, Watch!MayLock
<1>3. ASSUME NEW p \in Pids, Watch!ReadPrior(p)
      PROVE  EngineInv'
  <2>1. CASE Watch!Ends(p)
    BY <1>3, <2>1, EndKeeps DEF Watch!ReadPrior
  <2>2. CASE ~Watch!Ends(p)
    BY <1>3, <2>2, BeginKeeps DEF Watch!ReadPrior
  <2> QED BY <2>1, <2>2
<1>4. ASSUME NEW p \in Pids, Watch!CommitRunning(p)
      PROVE  EngineInv'
  <2>1. "RUNNING" = Watch!StateOf("up")
    BY DEF Watch!StateOf
  <2> QED BY <1>4, <2>1, PhaseKeeps DEF Watch!CommitRunning, Engines
<1>5. ASSUME NEW p \in Pids, Watch!MarkStopping(p)
      PROVE  EngineInv'
  <2>1. /\ engines[p] = "up" /\ row = [state |-> Watch!StateOf("up"), pid |-> p] /\ ~outage
        /\ engines' = [engines EXCEPT ![p] = "stopping"] /\ UNCHANGED <<lock, outage>>
        /\ row' = [row EXCEPT !.state = "STOPPING"]
    BY <1>5 DEF Watch!MarkStopping, EngineInv, Watch!RowTellsOutage, Watch!Working
  <2>2. row' = [state |-> Watch!StateOf("stopping"), pid |-> p]
    BY <2>1 DEF Watch!StateOf
  <2> QED BY <2>1, <2>2, PhaseKeeps DEF Engines, EngineInv
<1>6. ASSUME NEW p \in Pids, Watch!MarkStopped(p)
      PROVE  EngineInv'
  <2>1. /\ engines[p] = "stopping" /\ row = [state |-> Watch!StateOf("stopping"), pid |-> p] /\ ~outage
        /\ engines' = [engines EXCEPT ![p] = "stopped"] /\ UNCHANGED <<lock, outage>>
        /\ row' = [row EXCEPT !.state = "STOPPED"]
    BY <1>6 DEF Watch!MarkStopped, EngineInv, Watch!RowTellsOutage, Watch!Working
  <2>2. row' = [state |-> Watch!StateOf("stopped"), pid |-> p]
    BY <2>1 DEF Watch!StateOf
  <2> QED BY <2>1, <2>2, PhaseKeeps DEF Engines, EngineInv
<1>7. ASSUME NEW p \in Pids, Watch!Exit(p)
      PROVE  EngineInv'
  BY <1>7, EndKeeps DEF Watch!Exit
<1>8. ASSUME NEW p \in Pids, Watch!Stranger(p)
      PROVE  EngineInv'
  BY <1>8, BeginKeeps DEF Watch!Stranger
<1>9. CASE Watch!Kill
  <2>1. CASE UNCHANGED Watch!engine
    BY <1>1, <2>1 DEF Watch!engine
  <2>2. CASE Watch!pid_alive(tick.seen.pid) /\ Watch!Ends(tick.seen.pid) /\ UNCHANGED row
    <3>1. PICK p \in Pids : p = tick.seen.pid
      BY <2>2 DEF Watch!pid_alive, Answers
    <3> QED BY <2>2, <3>1, EndKeeps DEF Watch!pid_alive
  <2> QED BY <1>9, <2>1, <2>2 DEF Watch!Kill
<1>10. CASE Watch!Beat \/ Watch!Stick \/ Watch!TimePasses \/ Watch!StartDue \/ Watch!TickDies
            \/ Watch!Read \/ Watch!Decide \/ Watch!Sends \/ Watch!Save
  <2>1. UNCHANGED <<engines, lock, row, outage>>
    BY <1>10 DEF Watch!Beat, Watch!Stick, Watch!TimePasses, Watch!StartDue, Watch!TickDies,
                 Watch!Read, Watch!Decide, Watch!Sends, Watch!SendDown, Watch!SendMissed,
                 Watch!Save, Watch!engine
  <2> QED BY <1>1, <2>1
<1> QED BY <1>2, <1>3, <1>4, <1>5, <1>6, <1>7, <1>8, <1>9, <1>10 DEF Watch!Next, Watch!Watches

(* A beat is written: nothing is stamped any more, and nothing is paged. *)
LEMMA AliveKeeps ==
    ASSUME PageInv, Watch!Alive, UNCHANGED <<told, deaths>>
    PROVE  PageInv'
<1>1. /\ stamped' = FALSE /\ alarms' = [alarms EXCEPT !.down = 0]
      /\ tick' = IF tick.at = "idle" THEN tick ELSE [tick EXCEPT !.newer = TRUE]
  BY DEF Watch!Alive
<1>2. alarms' \in [down : Nat, missed : Nat] /\ alarms'.down = 0 /\ alarms'.missed = alarms.missed
  BY <1>1 DEF PageInv
<1>3. tick' \in Answers
  BY <1>1 DEF PageInv, Answers
<1>4. /\ tick'.at = tick.at /\ tick'.stamp = tick.stamp /\ tick'.mark = tick.mark
      /\ tick'.armed = tick.armed /\ tick'.missed = tick.missed
  BY <1>1 DEF PageInv, Answers
<1>5. TickHolds'
  BY <1>1, <1>2, <1>4 DEF PageInv, TickHolds
<1>6. PagesPaid'
  BY <1>2, <1>4 DEF PageInv, PagesPaid
<1> QED BY <1>1, <1>2, <1>3, <1>5, <1>6 DEF PageInv

(* The next tick, or the same one a step on: what it does not page. *)
LEMMA TickReads ==
    ASSUME PageInv, row \in [state : {"none", "RUNNING", "STOPPING", "STOPPED"},
                             pid : Pids \cup {NoPid}],
           Watch!Read
    PROVE  PageInv'
<1>1. /\ tick.at = "idle" /\ UNCHANGED <<stamped, told, alarms, deaths>>
      /\ tick'.at = "read" /\ tick'.armed = ~stamped /\ tick'.newer = FALSE /\ tick'.stamp = FALSE
      /\ tick'.mark = FALSE /\ tick'.missed = (due /\ ~covered /\ ~told) /\ tick' \in Answers
  BY DEF Watch!Read, Watch!NoTick, Watch!At, Answers
<1>2. ~tick.stamp /\ ~tick.mark
  BY <1>1 DEF PageInv, TickHolds
<1>3. PagesPaid'
  BY <1>1, <1>2 DEF PageInv, PagesPaid
<1>4. TickHolds'
  BY <1>1 DEF PageInv, TickHolds
<1> QED BY <1>1, <1>3, <1>4 DEF PageInv

(* A tick that found something goes on to page it, with what it saw; any   *)
(* other forgets it.                                                       *)
LEMMA TickDecides ==
    ASSUME PageInv, Watch!Decide
    PROVE  PageInv'
<1> DEFINE alive == Watch!pid_alive(tick.seen.pid)
           down == tick.seen.state \in Watch!Live /\ (~alive \/ tick.wedged)
           missed == tick.missed /\ ~(tick.seen.state \in Watch!Live /\ alive)
<1>1. /\ tick.at = "read" /\ UNCHANGED <<stamped, told, alarms, deaths>>
      /\ tick' = CASE down /\ tick.armed ->
                      [tick EXCEPT !.at = "alarm", !.wedged = @ /\ alive, !.missed = missed]
                   [] ~(down /\ tick.armed) /\ missed -> [Watch!NoTick EXCEPT !.at = "missed"]
                   [] OTHER -> Watch!NoTick
  BY DEF Watch!Decide, Watch!At
<1>2. alive \in BOOLEAN /\ missed \in BOOLEAN /\ (missed => tick.missed)
  BY DEF Watch!pid_alive, PageInv, Answers
<1> HIDE DEF alive, missed, down
<1>3. Watch!NoTick \in Answers /\ [Watch!NoTick EXCEPT !.at = "missed"] \in Answers
  BY DEF Watch!NoTick, Watch!NoRow, Answers
<1>4. CASE down /\ tick.armed
  <2>1. tick' = [tick EXCEPT !.at = "alarm", !.wedged = @ /\ alive, !.missed = missed]
    BY <1>1, <1>4
  <2>2. /\ tick' \in Answers /\ tick'.at = "alarm" /\ tick'.armed = tick.armed
        /\ tick'.newer = tick.newer /\ tick'.stamp = tick.stamp /\ tick'.mark = tick.mark
        /\ tick'.missed = missed
    BY <1>2, <2>1 DEF PageInv, Answers
  <2> QED BY <1>1, <1>2, <1>4, <2>2 DEF PageInv, PagesPaid, TickHolds
<1>5. CASE ~(down /\ tick.armed)
  <2>1. tick' = IF missed THEN [Watch!NoTick EXCEPT !.at = "missed"] ELSE Watch!NoTick
    BY <1>1, <1>5
  <2>2. /\ tick' \in Answers /\ ~tick'.newer /\ ~tick'.stamp /\ ~tick'.mark /\ ~tick'.missed
        /\ ~tick'.armed
        /\ tick'.at = IF missed THEN "missed" ELSE "idle"
    BY <1>3, <2>1 DEF Watch!NoTick
  <2>3. ~tick.stamp /\ ~tick.mark /\ (missed => ~told)
    BY <1>1, <1>2 DEF PageInv, TickHolds
  <2> QED BY <1>1, <2>2, <2>3 DEF PageInv, PagesPaid, TickHolds
<1> QED BY <1>4, <1>5

(* A page is sent: it was not stamped, and now is, unless it was lost. *)
LEMMA TickSendsDown ==
    ASSUME PageInv, NEW ok \in BOOLEAN, Watch!SendDown(ok)
    PROVE  PageInv'
<1>1. /\ tick.at = "alarm" /\ UNCHANGED <<stamped, told, deaths>>
      /\ tick'.at \in {"kill", "missed", "save"} /\ tick'.stamp = ok
      /\ (tick'.at = "missed" => tick.missed) /\ tick' \in Answers
      /\ tick'.newer = tick.newer /\ tick'.missed = tick.missed /\ tick'.mark = tick.mark
      /\ tick'.armed = tick.armed
  BY DEF Watch!SendDown, Watch!At, Watch!Stamped, Watch!Onwards, PageInv, Answers
<1>2. /\ alarms' \in [down : Nat, missed : Nat] /\ alarms'.missed = alarms.missed
      /\ alarms'.down <= IF ok /\ ~tick.newer THEN alarms.down + 1 ELSE alarms.down
      /\ tick.newer => alarms'.down = alarms.down
  BY WatchNumbers DEF Watch!SendDown, Watch!Count, PageInv
<1>3. ~stamped /\ ~tick.stamp /\ ~tick.mark /\ (tick.missed => ~told)
  BY <1>1 DEF PageInv, TickHolds
<1>4. PagesPaid'
  BY <1>1, <1>2, <1>3 DEF PageInv, PagesPaid
<1>5. TickHolds'
  BY <1>1, <1>2, <1>3 DEF PageInv, TickHolds
<1> QED BY <1>1, <1>2, <1>4, <1>5 DEF PageInv

(* The page for the missed start, likewise. *)
LEMMA TickSendsMissed ==
    ASSUME PageInv, NEW ok \in BOOLEAN, Watch!SendMissed(ok)
    PROVE  PageInv'
<1>1. /\ tick.at = "missed" /\ UNCHANGED <<stamped, told, deaths>>
      /\ tick'.at = "save" /\ tick'.mark = ok /\ tick' \in Answers
      /\ tick'.newer = tick.newer /\ tick'.stamp = tick.stamp
  BY DEF Watch!SendMissed, Watch!At, PageInv, Answers
<1>2. /\ alarms' \in [down : Nat, missed : Nat] /\ alarms'.down = alarms.down
      /\ alarms'.missed <= IF ok THEN alarms.missed + 1 ELSE alarms.missed
  BY WatchNumbers DEF Watch!SendMissed, Watch!Count, PageInv
<1>3. ~told /\ ~tick.mark
  BY <1>1 DEF PageInv, TickHolds
<1>4. PagesPaid'
  BY <1>1, <1>2, <1>3 DEF PageInv, PagesPaid
<1>5. TickHolds'
  BY <1>1, <1>2 DEF PageInv, TickHolds
<1> QED BY <1>1, <1>2, <1>4, <1>5 DEF PageInv

(* Between two ticks nothing is held. *)
LEMMA NoTickIsIdle ==
    /\ Watch!NoTick \in Answers /\ Watch!NoTick.at = "idle"
    /\ ~Watch!NoTick.newer /\ ~Watch!NoTick.stamp /\ ~Watch!NoTick.mark
  BY DEF Watch!NoTick, Watch!NoRow, Answers

(* The tick ends: what it sent is stamped, or its death is on record. *)
LEMMA TickEnds ==
    ASSUME PageInv, Watch!Save \/ Watch!TickDies
    PROVE  PageInv'
<1>1. /\ alarms' = alarms /\ tick' \in Answers /\ tick'.at = "idle"
      /\ ~tick'.newer /\ ~tick'.stamp /\ ~tick'.mark
  <2>1. alarms' = alarms /\ tick' = Watch!NoTick
    BY DEF Watch!Save, Watch!TickDies
  <2> QED BY <2>1, NoTickIsIdle
<1>2. TickHolds'
  BY <1>1 DEF TickHolds
<1>3. CASE Watch!Save
  <2>1. /\ stamped' = (IF tick.stamp THEN ~tick.newer ELSE stamped) /\ deaths' = deaths
        /\ told' = (told \/ tick.mark)
    BY <1>3 DEF Watch!Save
  <2>2. stamped' \in BOOLEAN /\ told' \in BOOLEAN
    BY <2>1 DEF PageInv
  <2>3. alarms.down <= deaths + (IF stamped' THEN 1 ELSE 0)
    <3>1. CASE tick.stamp /\ tick.newer
      BY <3>1 DEF PageInv, TickHolds, Answers
    <3>2. CASE tick.stamp /\ ~tick.newer
      <4>1. stamped'
        BY <2>1, <3>2
      <4>2. alarms.down <= deaths + 1
        BY DEF PageInv, PagesPaid
      <4> QED BY <4>1, <4>2
    <3>3. CASE ~tick.stamp
      <4>1. stamped' = stamped
        BY <2>1, <3>3
      <4> QED BY <3>3, <4>1 DEF PageInv, PagesPaid
    <3> QED BY <3>1, <3>2, <3>3
  <2>4. alarms.missed <= deaths + (IF told' THEN 1 ELSE 0)
    BY <2>1 DEF PageInv, PagesPaid
  <2> QED BY <1>1, <1>2, <2>1, <2>2, <2>3, <2>4 DEF PageInv, PagesPaid
<1>4. CASE Watch!TickDies
  <2>1. deaths' = deaths + 1 /\ UNCHANGED <<stamped, told>>
    BY <1>4 DEF Watch!TickDies
  <2>2. PagesPaid'
    BY <1>1, <2>1 DEF PageInv, PagesPaid
  <2> QED BY <1>1, <1>2, <2>1, <2>2 DEF PageInv
<1> QED BY <1>3, <1>4

(* Every step pays for the pages it sends. *)
LEMMA PageStep ==
    ASSUME PageInv, EngineInv, Watch!Next
    PROVE  PageInv'
<1>1. ASSUME UNCHANGED <<stamped, told, tick, alarms, deaths>>
      PROVE  PageInv'
  BY <1>1 DEF PageInv, PagesPaid, TickHolds
<1>2. ASSUME NEW p \in Pids, Watch!CommitRunning(p)
      PROVE  PageInv'
  BY <1>2, AliveKeeps DEF Watch!CommitRunning
<1>3. ASSUME NEW p \in Pids,
             \/ Watch!Start(p) \/ Watch!ReadPrior(p) \/ Watch!MarkStopping(p)
             \/ Watch!MarkStopped(p) \/ Watch!Exit(p) \/ Watch!Stranger(p)
      PROVE  PageInv'
  <2>1. UNCHANGED Watch!watchdog
    BY <1>3 DEF Watch!Start, Watch!ReadPrior, Watch!MarkStopping, Watch!MarkStopped, Watch!Exit,
                Watch!Stranger
  <2> QED BY <1>1, <2>1 DEF Watch!watchdog
<1>4. CASE Watch!Beat
  BY <1>4, AliveKeeps DEF Watch!Beat
<1>5. CASE Watch!Stick \/ Watch!TimePasses \/ Watch!StartDue
  <2>1. UNCHANGED Watch!watchdog
    BY <1>5 DEF Watch!Stick, Watch!TimePasses, Watch!StartDue
  <2> QED BY <1>1, <2>1 DEF Watch!watchdog
<1>6. CASE Watch!Read
  BY <1>6, TickReads DEF EngineInv
<1>7. CASE Watch!Sends
  BY <1>7, TickSendsDown, TickSendsMissed DEF Watch!Sends
<1>8. CASE Watch!Kill
  <2>1. /\ tick.at = "kill" /\ tick' = [tick EXCEPT !.at = Watch!Onwards]
        /\ UNCHANGED <<stamped, told, alarms, deaths>>
    BY <1>8 DEF Watch!Kill, Watch!At
  <2>2. /\ tick' \in Answers /\ tick'.at = IF tick.missed THEN "missed" ELSE "save"
        /\ tick'.newer = tick.newer /\ tick'.stamp = tick.stamp /\ tick'.mark = tick.mark
        /\ tick'.missed = tick.missed
    BY <2>1 DEF Watch!Onwards, PageInv, Answers
  <2> QED BY <2>1, <2>2 DEF PageInv, PagesPaid, TickHolds
<1>9. CASE Watch!Decide
  BY <1>9, TickDecides
<1>10. CASE Watch!Save \/ Watch!TickDies
  BY <1>10, TickEnds
<1> QED BY <1>2, <1>3, <1>4, <1>5, <1>6, <1>7, <1>8, <1>9, <1>10 DEF Watch!Next, Watch!Watches

WatchInv == EngineInv /\ PageInv

(***************************************************************************)
(* For any number of processes, ticks and reused pids: the stored row says *)
(* whether the last engine stopped or died (crash_recovered, the watchdog's*)
(* decide), and no outage and no missed start is paged twice, save once for*)
(* each tick that died after it had sent.                                  *)
(***************************************************************************)
THEOREM OutageIsKnownOnce == ScenarioSpec => []OutageKnownOnce
<1>1. ScenarioInit => WatchInv
  <2> SUFFICES ASSUME Watch!Init PROVE WatchInv
    BY DEF ScenarioInit
  <2>1. EngineInv
    BY DEF Watch!Init, EngineInv, Engines, Watch!NoRow, Watch!RowTellsOutage, Watch!Working,
           Watch!Live
  <2>2. PageInv
    <3>1. /\ tick \in Answers /\ tick.at = "idle" /\ ~tick.newer /\ ~tick.stamp /\ ~tick.mark
          /\ alarms = [down |-> 0, missed |-> 0] /\ deaths = 0 /\ stamped = FALSE /\ told = FALSE
      BY NoTickIsIdle DEF Watch!Init
    <3>2. alarms \in [down : Nat, missed : Nat] /\ alarms.down = 0 /\ alarms.missed = 0
      BY <3>1
    <3>3. PagesPaid
      BY <3>1, <3>2 DEF PagesPaid
    <3>4. TickHolds
      BY <3>1, <3>2 DEF TickHolds
    <3> QED BY <3>1, <3>2, <3>3, <3>4 DEF PageInv
  <2> QED BY <2>1, <2>2 DEF WatchInv
<1>2. WatchInv /\ [ScenarioNext]_<<vars, scenario, watchVars>> => WatchInv'
  <2> SUFFICES ASSUME WatchInv, [ScenarioNext]_<<vars, scenario, watchVars>> PROVE WatchInv'
    OBVIOUS
  <2>1. CASE UNCHANGED watchVars
    <3>1. EngineInv'
      BY <2>1 DEF watchVars, WatchInv, EngineInv, Watch!RowTellsOutage, Watch!StateOf
    <3>2. PageInv'
      BY <2>1 DEF watchVars, WatchInv, PageInv, PagesPaid, TickHolds
    <3> QED BY <3>1, <3>2 DEF WatchInv
  <2>2. CASE Watch!Next
    BY <2>2, EngineStep, PageStep DEF WatchInv, PageInv
  <2>3. Watch!Next \/ UNCHANGED watchVars
    <3>1. CASE ScenarioNext
      BY <3>1 DEF ScenarioNext
    <3> QED BY <3>1
  <2> QED BY <2>1, <2>2, <2>3
<1>3. WatchInv => OutageKnownOnce
  <2> SUFFICES ASSUME WatchInv PROVE Watch!RowTellsOutage /\ Watch!OneAlarmPerOutage
    BY DEF OutageKnownOnce
  <2>1. alarms.down <= 1 + deaths /\ alarms.missed <= 1 + deaths
    BY DEF WatchInv, PageInv, PagesPaid
  <2> QED BY <2>1 DEF WatchInv, EngineInv, Watch!OneAlarmPerOutage
<1> QED BY <1>1, <1>2, <1>3, PTL DEF ScenarioSpec

-----------------------------------------------------------------------------

PassShape(p) == DOMAIN p = {"kind", "now", "off_since", "todo", "job", "day", "rest", "frozen"}

(* A safety job that is due: the pass must see it run or find it fresh.    *)
Answerable(i, at) == registry[i] \in Safety /\ GoverningDay(registry[i], at) # NoDay

(* What a pass that may lift the latch still owes: each safety job that is *)
(* due is to come, is running or has been found fresh.                     *)
PassOwes ==
    /\ registry \in Seq(Jobs) /\ PassShape(pass) /\ pass.todo \subseteq DOMAIN registry
    /\ pass.kind \in {"none", "boot", "deferred", "sweep", "hydrate"}
    /\ pass.kind \in {"boot", "sweep"} /\ ~pass.frozen =>
          \A i \in DOMAIN registry : Answerable(i, pass.now) =>
              i \in pass.todo \/ registry[i] \in verified \/ registry[i] = pass.job

(* The first of some places in the registry is one of them. *)
LEMMA FirstOf ==
    ASSUME NEW B \in SUBSET Nat, B # {}
    PROVE  Min(B) \in B
<1>1. PICK n \in B : \A k \in B : ~(<<k, n>> \in OpToRel(<, Nat))
  BY NatLessThanWellFounded, WFMin
<1>2. \A k \in B : ~(k < n)
  BY <1>1 DEF OpToRel
<1>3. \A k \in B : n <= k
  BY <1>2
<1> QED BY <1>3 DEF Min

(* On to the next day of a job or out of it. *)
LEMMA OnToFields ==
    ASSUME NEW p, PassShape(p), NEW j, NEW days
    PROVE  LET q == OnTo(p, j, days)
           IN  /\ PassShape(q) /\ q.kind = p.kind /\ q.now = p.now /\ q.todo = p.todo /\ q.frozen = p.frozen
               /\ q.job = IF days = {} THEN NoJob ELSE j
BY DEF OnTo, PassShape

(* A pass begins: what is out of scope is no safety job. *)
LEMMA PassBegins ==
    ASSUME registry \in Seq(Jobs), NEW kind \in {"boot", "deferred", "sweep", "hydrate"}, NEW since, NEW off_since
    PROVE  LET p == Pass(kind, since, off_since)
           IN  /\ PassShape(p) /\ p.todo \subseteq DOMAIN registry /\ p.kind = kind
               /\ kind \in {"boot", "sweep"} =>
                      \A i \in DOMAIN registry : registry[i] \in Safety => i \in p.todo
<1> DEFINE p == Pass(kind, since, off_since)
<1>1. /\ PassShape(p) /\ p.kind = kind /\ p.todo = {i \in DOMAIN registry : InScope(kind, registry[i])}
  BY DEF Pass, NoPass, PassShape
<1> HIDE DEF p
<1>2. ASSUME kind \in {"boot", "sweep"}, NEW j \in Safety
      PROVE  InScope(kind, j)
  BY <1>2, CatchUpAssumption DEF InScope
<1> QED BY <1>1, <1>2 DEF p

(* Nothing is owed before the first pass. *)
LEMMA OwesInitially ==
    ASSUME CatchUpInit
    PROVE  PassOwes
BY CatchUpAssumption DEF CatchUpInit, PassOwes, NoPass, PassShape

(* The steps between two jobs and those that leave the pass alone. *)
LEMMA PassKeeps ==
    ASSUME PassOwes, registry' = registry,
           \/ pass' = pass /\ verified' = verified
           \/ pass' = NoPass
           \/ \E kind \in {"boot", "deferred", "sweep", "hydrate"} : \E since, off_since : pass' = Pass(kind, since, off_since)
    PROVE  PassOwes'
<1>1. CASE pass' = pass /\ verified' = verified
  BY <1>1 DEF PassOwes, Answerable
<1>2. CASE pass' = NoPass
  BY <1>2 DEF PassOwes, NoPass, PassShape
<1>3. CASE \E kind \in {"boot", "deferred", "sweep", "hydrate"} : \E since, off_since : pass' = Pass(kind, since, off_since)
  <2>1. PICK kind \in {"boot", "deferred", "sweep", "hydrate"} : \E since, off_since : pass' = Pass(kind, since, off_since)
    BY <1>3
  <2>2. PICK since, off_since : pass' = Pass(kind, since, off_since)
    BY <2>1
  <2>3. /\ PassShape(pass') /\ pass'.todo \subseteq DOMAIN registry /\ pass'.kind = kind
        /\ kind \in {"boot", "sweep"} => \A i \in DOMAIN registry : registry[i] \in Safety => i \in pass'.todo
    BY <2>2, PassBegins DEF PassOwes
  <2> QED BY <2>3 DEF PassOwes, Answerable
<1> QED BY <1>1, <1>2, <1>3

(* Of the jobs of a pass that may lift the latch, a safety job is found    *)
(* fresh or is run for the day that governs.                               *)
LEMMA StartKeeps ==
    ASSUME PassOwes, StartJob
    PROVE  PassOwes' /\ (SafetyJobs \in causes => SafetyJobs \in causes')
<1> DEFINE first == Min(pass.todo)
           j == registry[first]
           p == [pass EXCEPT !.todo = @ \ {first}]
<1>1. /\ pass.kind # "none" /\ pass.job = NoJob /\ pass.todo # {} /\ registry' = registry
      /\ causes' = IF VerifiedFresh(j) THEN causes \ {j} ELSE causes
      /\ verified' = IF VerifiedFresh(j) THEN verified \cup {j} ELSE verified
      /\ pass' = OnTo(p, j, Targets(j))
  BY DEF StartJob, LockFree
<1>2. first \in pass.todo /\ j \in Jobs
  <2>1. DOMAIN registry = 1 .. Len(registry) /\ Len(registry) \in Nat /\ \A i \in DOMAIN registry : registry[i] \in Jobs
    BY DEF PassOwes
  <2>2. pass.todo \in SUBSET Nat
    BY <2>1 DEF PassOwes
  <2>3. first \in pass.todo
    BY <1>1, <2>2, FirstOf
  <2> QED BY <2>1, <2>3 DEF PassOwes
<1>3. /\ PassShape(p) /\ p.kind = pass.kind /\ p.now = pass.now /\ p.todo = pass.todo \ {first}
      /\ p.frozen = pass.frozen
  BY DEF PassOwes, PassShape
<1> HIDE DEF p, first
<1>4. /\ PassShape(pass') /\ pass'.kind = pass.kind /\ pass'.now = pass.now /\ pass'.todo = pass.todo \ {first}
      /\ pass'.frozen = pass.frozen /\ pass'.job = IF Targets(j) = {} THEN NoJob ELSE j
  BY <1>1, <1>3, OnToFields
<1>5. ASSUME pass.kind \in {"boot", "sweep"}, Answerable(first, pass.now), ~VerifiedFresh(j)
      PROVE  Targets(j) # {}
  <2>1. Targets(j) = {d \in {GoverningDay(j, pass.now)} \ {NoDay} : ~Resolved(table[j][d])}
    BY <1>5, LedgerAssumption DEF Targets, Answerable
  <2> QED BY <1>5, <2>1 DEF Answerable, VerifiedFresh
<1>6. ASSUME pass'.kind \in {"boot", "sweep"}, ~pass'.frozen, NEW i \in DOMAIN registry, Answerable(i, pass.now)
      PROVE  i \in pass'.todo \/ registry[i] \in verified' \/ registry[i] = pass'.job
  <2>1. i \in pass.todo \/ registry[i] \in verified \/ registry[i] = NoJob
    BY <1>1, <1>4, <1>6 DEF PassOwes
  <2>2. registry[i] # NoJob
    BY <1>6, CatchUpAssumption DEF Answerable, Jobs
  <2>3. CASE i = first
    BY <1>1, <1>4, <1>5, <1>6, <2>3
  <2>4. CASE i # first
    BY <1>1, <1>4, <2>1, <2>2, <2>4
  <2> QED BY <2>3, <2>4
<1>7. PassOwes'
  BY <1>1, <1>4, <1>6 DEF PassOwes, Answerable
<1>8. j # SafetyJobs
  BY <1>2, CatchUpAssumption
<1> QED BY <1>1, <1>7, <1>8

(* A job ends: a success is on record, a failure of a safety job freezes   *)
(* the pass, and only a date-keyed job may end without either.             *)
LEMMA EndsKeep ==
    ASSUME PassOwes, NEW j \in Jobs, JobSucceeds(j) \/ JobFails(j) \/ JobUnfinished(j)
    PROVE  PassOwes' /\ (SafetyJobs \in causes => SafetyJobs \in causes')
<1>1. registry' = registry /\ pass.job = j /\ j # SafetyJobs
  BY CatchUpAssumption DEF JobSucceeds, JobFails, JobUnfinished
<1>2. \A i \in DOMAIN registry : registry[i] = NoJob => registry[i] \notin Safety
  BY CatchUpAssumption DEF Jobs
<1>3. CASE JobSucceeds(j) \/ JobUnfinished(j)
  <2> DEFINE days == IF JobSucceeds(j) THEN pass.rest ELSE {}
  <2>1. pass' = OnTo(pass, j, days) /\ (SafetyJobs \in causes => SafetyJobs \in causes')
    <3>1. CASE JobSucceeds(j)
      BY <1>1, <3>1 DEF JobSucceeds
    <3>2. CASE JobUnfinished(j) /\ ~JobSucceeds(j)
      BY <3>2 DEF JobUnfinished
    <3> QED BY <1>3, <3>1, <3>2
  <2>2. verified \subseteq verified' /\ (j \in Safety => j \in verified')
    BY <1>3, LedgerAssumption DEF JobSucceeds, JobUnfinished
  <2> HIDE DEF days
  <2>3. PassShape(pass)
    BY DEF PassOwes
  <2>4. /\ PassShape(pass') /\ pass'.kind = pass.kind /\ pass'.now = pass.now /\ pass'.todo = pass.todo
        /\ pass'.frozen = pass.frozen
    BY <2>1, <2>3, OnToFields
  <2> QED BY <1>1, <2>1, <2>2, <2>4 DEF PassOwes, Answerable
<1>4. CASE JobFails(j)
  <2> DEFINE freezes == j \in Safety /\ pass.kind # "hydrate"
             p == [pass EXCEPT !.frozen = @ \/ freezes]
  <2>1. /\ pass' = OnTo(p, j, pass.rest) /\ verified' = verified
        /\ SafetyJobs \in causes => SafetyJobs \in causes'
    BY <1>4 DEF JobFails
  <2>2. /\ PassShape(p) /\ p.kind = pass.kind /\ p.now = pass.now /\ p.todo = pass.todo
        /\ p.frozen = (pass.frozen \/ freezes)
    BY DEF PassOwes, PassShape
  <2> HIDE DEF p
  <2>3. /\ PassShape(pass') /\ pass'.kind = pass.kind /\ pass'.now = pass.now /\ pass'.todo = pass.todo
        /\ pass'.frozen = (pass.frozen \/ freezes)
    BY <2>1, <2>2, OnToFields
  <2>4. pass.kind \in {"boot", "sweep"} /\ ~pass'.frozen => j \notin Safety /\ ~pass.frozen
    BY <2>3
  <2> QED BY <1>1, <2>1, <2>3, <2>4 DEF PassOwes, Answerable
<1> QED BY <1>3, <1>4

(* A pass that ends unfrozen has answered for every safety job that is due. *)
LEMMA EndAnswers ==
    ASSUME PassOwes, EndPass, SafetyJobs \in causes, SafetyJobs \notin causes'
    PROVE  /\ ~LockFree /\ pass' = NoPass
           /\ \A j \in Safety \cap Registered : GoverningDay(j, pass.now) # NoDay => j \in verified
<1>1. pass.kind \in {"boot", "sweep"} /\ ~pass.frozen /\ pass.todo = {} /\ pass.job = NoJob
  BY DEF EndPass, Reconciled
<1>2. NoJob \notin Safety
  BY CatchUpAssumption DEF Jobs
<1>3. ASSUME NEW j \in Safety \cap Registered, GoverningDay(j, pass.now) # NoDay
      PROVE  j \in verified
  <2>1. PICK i \in DOMAIN registry : registry[i] = j
    BY DEF Registered
  <2> QED BY <1>1, <1>2, <1>3, <2>1 DEF PassOwes, Answerable
<1> QED BY <1>3 DEF EndPass

(* Every step keeps what the pass owes, and only its end lifts the latch. *)
LEMMA PassStep ==
    ASSUME PassOwes, [CatchUpNext]_catchUpVars
    PROVE  /\ PassOwes'
           /\ SafetyJobs \in causes /\ SafetyJobs \notin causes' => EndPass
<1>1. CASE UNCHANGED catchUpVars
  BY <1>1, PassKeeps DEF catchUpVars, process
<1>2. CASE Startup
  BY <1>2, PassKeeps DEF Startup
<1>3. CASE Arm
  BY <1>3, PassKeeps DEF Arm
<1>4. CASE Sweep
  BY <1>4, PassKeeps DEF Sweep
<1>5. CASE StartHydration
  BY <1>5, PassKeeps DEF StartHydration
<1>6. CASE StartJob
  BY <1>6, StartKeeps
<1>7. CASE SomeJobEnds
  BY <1>7, EndsKeep DEF SomeJobEnds, SomeJobSucceeds, Jobs
<1>8. CASE EndPass
  BY <1>8, PassKeeps DEF EndPass
<1>9. CASE SweepInFlight
  BY <1>9, PassKeeps DEF SweepInFlight, SkippedSweep, process
<1>10. CASE AskHydration
  BY <1>10, PassKeeps DEF AskHydration
<1>11. CASE SomeFireEnds
  BY <1>11, PassKeeps DEF SomeFireEnds, ScheduledDone
<1>12. CASE Tick
  BY <1>12, PassKeeps DEF Tick
<1>13. CASE Stop
  BY <1>13, PassKeeps DEF Stop
<1> QED
  BY <1>1, <1>2, <1>3, <1>4, <1>5, <1>6, <1>7, <1>8, <1>9, <1>10, <1>11, <1>12, <1>13
  DEF CatchUpNext, NextStep

(* catchup_safety_jobs is lifted by nothing but the end of a pass that has *)
(* run, or found fresh, every safety job that is due (startup's step 5 and *)
(* _reconcile_catchup_freeze): for every registry, calendar and lookback.  *)
THEOREM LiftsAreEarned == CatchUpSpec => LiftedOnlyWhenVerified
<1>1. CatchUpInit => PassOwes
  BY OwesInitially
<1>2. PassOwes /\ [CatchUpNext]_catchUpVars => PassOwes'
  BY PassStep
<1>3. PassOwes /\ [CatchUpNext]_catchUpVars =>
          [(SafetyJobs \in causes /\ SafetyJobs \notin causes')
              => /\ ~LockFree /\ pass' = NoPass
                 /\ \A j \in Safety \cap Registered : GoverningDay(j, pass.now) # NoDay => j \in verified]_catchUpVars
  BY PassStep, EndAnswers
<1> QED BY <1>1, <1>2, <1>3, PTL DEF CatchUpSpec, LiftedOnlyWhenVerified
=============================================================================
