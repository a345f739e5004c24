----------------------------- MODULE RiskControl -----------------------------
(***************************************************************************)
(* The sticky risk controls together: ModeManager (risk/mode.py), the      *)
(* cause ledger (risk/causes.py), KillSwitch (risk/kill.py) and its bridge *)
(* to the ledger, the equity ladder (risk/exposure.py), the boot and the   *)
(* warm-up lift (ops/lifecycle.py, ops/selftest.py), the owner's commands, *)
(* and the guard in front of the broker's order calls.                     *)
(*                                                                         *)
(* Everything runs on one event loop: an action is what one coroutine does *)
(* between two awaits.  ledger, mode, routing and killed are in the        *)
(* database; proc is what a crash loses.  A page to the owner is awaited   *)
(* for up to 95 s, so every await of the coroutines below may take long.   *)
(***************************************************************************)
EXTENDS RiskLedger, Sequences

CONSTANTS
    Evaluations,    \* rungs one evaluation of the equity ladder may trip
    Today,          \* last day of the model
    MaxBridge,      \* bound on kill events that wait for the bridge
    MaxAdmitted,    \* bound on order calls between the guard and the broker
    CrashAllowed    \* whether the process may die

Mode == {"OFF", "RECOMMEND", "AUTO"}
MODE_RANK(m) == CASE m = "OFF" -> 0 [] m = "RECOMMEND" -> 1 [] m = "AUTO" -> 2

DayScoped == {"daily_loss_hard", "daily_loss_soft"}
Dates == 0 .. Today

VARIABLES
    ledger,         \* risk_state_causes and mode_state.risk_state
    mode, routing,  \* mode_state
    killed,         \* kill_state
    today,          \* the clock's day
    breached,       \* day of the latest breach of each daily-loss line (history)
    rearmed,        \* the owner asked for AUTO since the latest hard breach (history)
    proc            \* the running process

disk == <<ledger, mode, routing, killed>>
past == <<today, breached, rearmed>>
vars == <<ledger, mode, routing, killed, today, breached, rearmed, proc>>

(***************************************************************************)
(* boot     where SessionLifecycle.startup is; "up" when it has returned   *)
(* bridge   kill.state events apublish has scheduled, not yet handled      *)
(* ladder   what is left of apply_floor_breaches and apply_day_loss        *)
(* stale    what is left of clear_stale_daily                              *)
(* resuming /resume_entries between its two clears                         *)
(* lift     _maybe_lift_warmup_freeze: "no", "testing", "clearing"         *)
(* refrozen warmup_ready was latched while the lift was testing            *)
(* admitted order calls past the guard, waiting for the rate limiter       *)
(***************************************************************************)
Down == [ boot |-> "down", bridge |-> <<>>, ladder |-> <<>>, stale |-> {},
          resuming |-> FALSE, lift |-> "no", refrozen |-> FALSE, admitted |-> 0 ]

Init ==
    /\ ledger = [ active |-> [c \in Causes |-> "NORMAL"], set_at |-> [c \in Causes |-> 0],
                  risk_state |-> "NORMAL" ]
    /\ mode = "OFF" /\ routing = "none" /\ killed = FALSE
    /\ today = 0 /\ breached = [c \in DayScoped |-> Today + 1] /\ rearmed = FALSE
    /\ proc = Down

Running == proc.boot # "down"
Up == proc.boot = "up"

-----------------------------------------------------------------------------
(* Writes of the ledger: both transactions, or a crash after the first.    *)
Latch(c, s, next) ==
    /\ c \in Causes
    /\ \/ ledger' = set_cause(ledger, c, s, today) /\ proc' = next
       \/ CrashAllowed /\ ledger' = LatchOnly(ledger, c, s, today) /\ proc' = Down

Clear(c, next) ==
    /\ c \in Causes
    /\ \/ ledger' = clear_cause(ledger, c) /\ proc' = next
       \/ CrashAllowed /\ ledger' = UnlatchOnly(ledger, c) /\ proc' = Down

Skip(next) == UNCHANGED ledger /\ proc' = next

(* "if not kill.is_killed()": a freeze that a killed engine does not latch. *)
LatchUnlessKilled(c, s, next) ==
    IF killed THEN Skip(next) ELSE Latch(c, s, next)

-----------------------------------------------------------------------------
(* ModeManager. *)
RequestTransition(to) ==
    /\ Running
    /\ mode' = to
    /\ routing' = IF to = "AUTO" THEN "PAPER" ELSE "none"
    /\ rearmed' = (rearmed \/ to = "AUTO")
    /\ UNCHANGED <<ledger, killed, today, breached, proc>>

(* Mutant: the comparison of ranks is the wrong way round. *)
ForceUpgrade(to) ==
    /\ mode' = IF MODE_RANK(to) > MODE_RANK(mode) THEN to ELSE mode
    /\ routing' = IF mode' = "AUTO" THEN routing ELSE "none"

ForceDowngrade(to) ==
    /\ mode' = IF MODE_RANK(to) < MODE_RANK(mode) THEN to ELSE mode
    /\ routing' = IF MODE_RANK(to) < MODE_RANK(mode) THEN "none" ELSE routing

(* KillSwitch.  The switch is written first, then the event is published. *)
Publish(event, next) ==
    /\ Len(proc.bridge) < MaxBridge
    /\ killed' = (event = "engaged")
    /\ proc' = [next EXCEPT !.bridge = Append(@, event)]

Trigger ==
    /\ Running /\ "kill" \in Causes
    /\ Publish("engaged", proc)
    /\ UNCHANGED <<ledger, mode, routing, past>>

OwnerReset ==
    /\ Running /\ "kill" \in Causes
    /\ Publish("released", proc)
    /\ UNCHANGED <<ledger, mode, routing, past>>

(* _kill_to_latch; asyncio runs the tasks of gather in the order scheduled. *)
KillToLatch ==
    /\ proc.bridge # <<>>
    /\ LET next == [proc EXCEPT !.bridge = Tail(@)] IN
       IF Head(proc.bridge) = "engaged"
       THEN Latch("kill", "KILLED", next) ELSE Clear("kill", next)
    /\ UNCHANGED <<mode, routing, killed, past>>

(* The owner's /pause_entries and /resume_entries. *)
PauseEntries ==
    /\ Running
    /\ Latch("owner_pause", "FROZEN", proc)
    /\ UNCHANGED <<mode, routing, killed, past>>

ResumeEntries ==
    /\ Running /\ ~proc.resuming
    /\ Clear("owner_pause", [proc EXCEPT !.resuming = TRUE])
    /\ UNCHANGED <<mode, routing, killed, past>>

ResumeStorm ==
    /\ proc.resuming
    /\ Clear("rejection_storm", [proc EXCEPT !.resuming = FALSE])
    /\ UNCHANGED <<mode, routing, killed, past>>

-----------------------------------------------------------------------------
(* The equity ladder: each rung as the steps between its awaits. *)
KillRung == <<"trigger", "floor_killed", "off">>
CloseRung == <<"floor", "recommend">>
HardRung == <<"hard", "recommend">>
SoftRung == <<"soft">>

(* What the two evaluations may trip: equity and day P&L are external.     *)
evaluate_floors == {<<>>, CloseRung, KillRung \o CloseRung}
evaluate_day_loss == {<<>>, SoftRung, HardRung}
AnyEvaluation == { f \o d : f \in evaluate_floors, d \in evaluate_day_loss }

ASSUME ControlAssumption ==
    /\ Evaluations \subseteq AnyEvaluation
    /\ Today \in Nat /\ MaxBridge \in Nat \ {0} /\ MaxAdmitted \in Nat
    /\ CrashAllowed \in BOOLEAN

EquityTick ==
    /\ Up /\ proc.ladder = <<>>
    /\ \E rungs \in Evaluations \ {<<>>} : proc' = [proc EXCEPT !.ladder = rungs]
    /\ UNCHANGED <<disk, past>>

Climbs(rung) == proc.ladder # <<>> /\ Head(proc.ladder) = rung
Climbed == [proc EXCEPT !.ladder = Tail(@)]

LadderKills ==
    /\ Climbs("trigger") /\ "kill" \in Causes
    /\ Publish("engaged", Climbed)
    /\ UNCHANGED <<ledger, mode, routing, past>>

(* trigger returns once its event has been handled. *)
LadderLatchesKilled ==
    /\ Climbs("floor_killed") /\ \A i \in 1 .. Len(proc.bridge) : proc.bridge[i] = "released"
    /\ Latch("floor_cumulative_floor", "KILLED", Climbed)
    /\ UNCHANGED <<mode, routing, killed, past>>

LadderLatchesFloor ==
    /\ Climbs("floor")
    /\ Latch("floor_equity_floor_rung", "CLOSE_ONLY", Climbed)
    /\ UNCHANGED <<mode, routing, killed, past>>

LadderLatchesHard ==
    /\ Climbs("hard")
    /\ Latch("daily_loss_hard", "CLOSE_ONLY", Climbed)
    /\ breached' = [breached EXCEPT !["daily_loss_hard"] = today]
    /\ rearmed' = FALSE
    /\ UNCHANGED <<mode, routing, killed, today>>

LadderLatchesSoft ==
    /\ Climbs("soft")
    /\ Latch("daily_loss_soft", "FROZEN", Climbed)
    /\ breached' = [breached EXCEPT !["daily_loss_soft"] = today]
    /\ UNCHANGED <<mode, routing, killed, today, rearmed>>

LadderDowngrades ==
    /\ \/ Climbs("off") /\ ForceDowngrade("OFF")
       \/ Climbs("recommend") /\ ForceDowngrade("RECOMMEND")
    /\ proc' = Climbed
    /\ UNCHANGED <<ledger, killed, past>>

-----------------------------------------------------------------------------
(***************************************************************************)
(* SessionLifecycle.startup.  The owner's commands, the broker login and   *)
(* the dashboard are served before it begins, so all of the above may      *)
(* happen between its steps.                                               *)
(***************************************************************************)
At(step) == proc.boot = step
Goes(step) == [proc EXCEPT !.boot = step]

ProcessStarts == At("down") /\ Skip(Goes("starting")) /\ UNCHANGED <<mode, routing, killed, past>>

(* Mutant: a cause latched today counts as stale. *)
StaleToday == { c \in Causes \cap DayScoped : Active(ledger, c) /\ ledger.set_at[c] <= today }

Stale == { c \in Causes \cap DayScoped : Active(ledger, c) /\ ledger.set_at[c] < today }

(* The self-test: clear_stale_daily over a list read up front ... *)
SelfTestBegins ==
    /\ At("starting")
    /\ Skip([Goes("selftest") EXCEPT !.stale = Stale])
    /\ UNCHANGED <<mode, routing, killed, past>>

ClearStaleDaily(c) ==
    /\ c \in proc.stale
    /\ Clear(c, [proc EXCEPT !.stale = @ \ {c}])
    /\ UNCHANGED <<mode, routing, killed, past>>

(* ... then the ladder, with the present equity ... *)
SelfTestLadder ==
    /\ At("selftest") /\ proc.stale = {} /\ proc.ladder = <<>>
    /\ \E rungs \in Evaluations : Skip([Goes("verdict") EXCEPT !.ladder = rungs])
    /\ UNCHANGED <<mode, routing, killed, past>>

(* ... then the single integrity rule: freeze a flat book, kill a live one. *)
Judged == At("verdict") /\ proc.ladder = <<>>

IntegrityFailsFlat ==
    /\ Judged
    /\ Latch("protected_store_integrity", "FROZEN", Goes("frozen_reasons"))
    /\ UNCHANGED <<mode, routing, killed, past>>

IntegrityFailsLive ==
    /\ Judged /\ "kill" \in Causes
    /\ Publish("engaged", Goes("frozen_reasons"))
    /\ UNCHANGED <<ledger, mode, routing, past>>

SelfTestPasses ==
    /\ Judged
    /\ \E step \in {"frozen_reasons", "catchup"} : Skip(Goes(step))
    /\ UNCHANGED <<mode, routing, killed, past>>

SelfTestFreezes ==
    /\ At("frozen_reasons")
    /\ LatchUnlessKilled("startup_selftest", "FROZEN", Goes("catchup"))
    /\ UNCHANGED <<mode, routing, killed, past>>

CatchUpFails ==
    /\ At("catchup")
    /\ LatchUnlessKilled("catchup_safety_jobs", "FROZEN", Goes("warmup"))
    /\ UNCHANGED <<mode, routing, killed, past>>

(* Mutant: cleared only if active, as the sweep does. *)
CatchUpCleanIfActive ==
    /\ At("catchup")
    /\ IF killed \/ ~Active(ledger, "catchup_safety_jobs")
       THEN Skip(Goes("warmup")) ELSE Clear("catchup_safety_jobs", Goes("warmup"))
    /\ UNCHANGED <<mode, routing, killed, past>>

CatchUpClean ==
    /\ At("catchup")
    /\ IF killed THEN Skip(Goes("warmup")) ELSE Clear("catchup_safety_jobs", Goes("warmup"))
    /\ UNCHANGED <<mode, routing, killed, past>>

WarmupShortAtBoot ==
    /\ At("warmup")
    /\ LatchUnlessKilled("warmup_ready", "FROZEN", Goes("up"))
    /\ UNCHANGED <<mode, routing, killed, past>>

WarmupReadyAtBoot ==
    At("warmup") /\ Skip(Goes("up")) /\ UNCHANGED <<mode, routing, killed, past>>

(* The half-hourly catch-up sweep, _reconcile_catchup_freeze. *)
SweepFails ==
    /\ Up /\ ~killed
    /\ Latch("catchup_safety_jobs", "FROZEN", proc)
    /\ UNCHANGED <<mode, routing, killed, past>>

SweepClean ==
    /\ Up /\ ~killed /\ "catchup_safety_jobs" \in Causes /\ Active(ledger, "catchup_safety_jobs")
    /\ Clear("catchup_safety_jobs", proc)
    /\ UNCHANGED <<mode, routing, killed, past>>

-----------------------------------------------------------------------------
(***************************************************************************)
(* reapply_warmup_gate, from the 60 s job and from each login; two of them *)
(* may overlap.  The lift's self-test awaits: it clears stale daily causes *)
(* and re-evaluates the ladder (which EquityTick stands for).              *)
(***************************************************************************)
WarmupFreezes ==
    /\ Running
    /\ LatchUnlessKilled("warmup_ready", "FROZEN",
                         [proc EXCEPT !.refrozen = (@ \/ (~killed /\ proc.lift = "testing"))])
    /\ UNCHANGED <<mode, routing, killed, past>>

LiftBegins ==
    /\ Running /\ "warmup_ready" \in Causes
    /\ proc.lift = "no" /\ proc.stale = {}
    /\ ~killed /\ ledger.risk_state = "FROZEN"
    /\ Skip([proc EXCEPT !.lift = "testing", !.stale = Stale, !.refrozen = FALSE])
    /\ UNCHANGED <<mode, routing, killed, past>>

LiftHeld ==
    /\ proc.lift = "testing" /\ proc.stale = {}
    /\ Skip([proc EXCEPT !.lift = "no", !.refrozen = FALSE])
    /\ UNCHANGED <<mode, routing, killed, past>>

LiftClearsWarmup ==
    /\ proc.lift = "testing" /\ proc.stale = {}
    /\ Clear("warmup_ready", [proc EXCEPT !.lift = "clearing", !.refrozen = FALSE])
    /\ UNCHANGED <<mode, routing, killed, past>>

LiftClearsSelfTest ==
    /\ proc.lift = "clearing"
    /\ Clear("startup_selftest", [proc EXCEPT !.lift = "no"])
    /\ UNCHANGED <<mode, routing, killed, past>>

-----------------------------------------------------------------------------
(* order_guard, and the same call after the rate limiter let it through. *)
OrderGuard ==
    /\ Running /\ proc.admitted < MaxAdmitted
    /\ ~killed /\ mode = "AUTO" /\ ledger.risk_state = "NORMAL"
    /\ proc' = [proc EXCEPT !.admitted = @ + 1]
    /\ UNCHANGED <<disk, past>>

OrderSent ==
    /\ proc.admitted > 0
    /\ proc' = [proc EXCEPT !.admitted = @ - 1]
    /\ UNCHANGED <<disk, past>>

Crash == CrashAllowed /\ Running /\ proc' = Down /\ UNCHANGED <<disk, past>>

NewDay ==
    today < Today /\ today' = today + 1 /\ UNCHANGED <<disk, breached, rearmed, proc>>

Owner == Trigger \/ OwnerReset \/ PauseEntries \/ ResumeEntries \/ ResumeStorm
         \/ \E to \in Mode : RequestTransition(to)

Ladder == EquityTick \/ LadderKills \/ LadderLatchesKilled \/ LadderLatchesFloor
          \/ LadderLatchesHard \/ LadderLatchesSoft \/ LadderDowngrades

Boot == ProcessStarts \/ SelfTestBegins \/ (\E c \in Causes : ClearStaleDaily(c))
        \/ SelfTestLadder \/ IntegrityFailsFlat \/ IntegrityFailsLive \/ SelfTestPasses
        \/ SelfTestFreezes \/ CatchUpFails \/ CatchUpClean
        \/ WarmupShortAtBoot \/ WarmupReadyAtBoot

Upkeep == KillToLatch \/ SweepFails \/ SweepClean
          \/ WarmupFreezes \/ LiftBegins \/ LiftHeld \/ LiftClearsWarmup \/ LiftClearsSelfTest

Next == Owner \/ Ladder \/ Boot \/ Upkeep \/ OrderGuard \/ OrderSent \/ Crash \/ NewDay

Spec == Init /\ [][Next]_vars

-----------------------------------------------------------------------------
BootStep == { "down", "starting", "selftest", "verdict", "frozen_reasons", "catchup",
              "warmup", "up" }
Rung == {"trigger", "floor_killed", "off", "floor", "recommend", "hard", "soft"}

Process ==
    [ boot : BootStep, bridge : Seq({"engaged", "released"}), ladder : Seq(Rung),
      stale : SUBSET Causes, resuming : BOOLEAN, lift : {"no", "testing", "clearing"},
      refrozen : BOOLEAN, admitted : 0 .. MaxAdmitted ]

(* Routing exists only in AUTO, whatever downgrades and requests interleave. *)
TypeOK ==
    /\ ledger \in Ledger(Dates)
    /\ mode \in Mode /\ routing \in {"PAPER", "none"} /\ (routing = "PAPER" <=> mode = "AUTO")
    /\ killed \in BOOLEAN /\ today \in Dates /\ rearmed \in BOOLEAN
    /\ breached \in [DayScoped -> 0 .. (Today + 1)]
    /\ proc \in Process

(***************************************************************************)
(* Whatever crash came before, once the boot has returned and the kill     *)
(* switch is off, the risk state in force is at least as restrictive as    *)
(* every cause in the ledger.  The two are written in two transactions; it *)
(* is startup's step 5 that heals them, whose clear is unconditional, and  *)
(* the bridge on a kill reset.                                             *)
(***************************************************************************)
ResetPending == \E i \in 1 .. Len(proc.bridge) : proc.bridge[i] = "released"

LedgerDominates == (Up /\ ~killed /\ ~ResetPending) => Dominates(ledger)

(***************************************************************************)
(* "Clearing a cause that was NOT active must never RELAX a state": the    *)
(* risk state returns to NORMAL only in a step that clears an active       *)
(* cause, also when a crash left state and ledger apart.                   *)
(***************************************************************************)
RearmOnlyByClearing ==
    [][ (ledger.risk_state # "NORMAL" /\ ledger'.risk_state = "NORMAL") =>
            \E c \in Causes : Active(ledger, c) /\ ~Active(ledger', c) ]_vars

(***************************************************************************)
(* The bridge of ops/main.py: once every kill event has been handled, the  *)
(* ledger mirrors the switch, whichever way trigger and reset raced; and   *)
(* an engaged switch shows as KILLED.                                      *)
(***************************************************************************)
KillMirrored ==
    (Up /\ proc.bridge = <<>>) =>
        /\ killed <=> Active(ledger, "kill")
        /\ killed => ledger.risk_state = "KILLED"

(***************************************************************************)
(* apply_day_loss: "hard => CLOSE_ONLY + AUTO->RECOMMEND".  While the hard *)
(* loss latches and the ladder is idle, AUTO is only what the owner asked  *)
(* for since the breach.                                                   *)
(***************************************************************************)
HardLossDisarms ==
    (Up /\ proc.ladder = <<>> /\ Active(ledger, "daily_loss_hard") /\ mode = "AUTO") => rearmed

(***************************************************************************)
(* apply_day_loss: "entries FROZEN for the rest of the day".  A daily-loss *)
(* line breached today still latches its cause once the engine is up.      *)
(***************************************************************************)
DailyLossHoldsForItsDay ==
    Up => \A c \in Causes \cap DayScoped : breached[c] = today => Active(ledger, c)

(***************************************************************************)
(* clear_stale_daily: a restart or a lift on the same day never clears a   *)
(* daily-loss cause, though the list of stale ones is read before the      *)
(* awaits of their clears: only an episode of an earlier day ends.         *)
(***************************************************************************)
DailyCauseOutlivesItsDay ==
    [][ \A c \in Causes \cap DayScoped :
            (Active(ledger, c) /\ ~Active(ledger', c)) => ledger.set_at[c] < today ]_vars

(***************************************************************************)
(* kill.py: "Block ANY order while killed": no opening order leaves for    *)
(* the broker while the switch is engaged.                                 *)
(***************************************************************************)
KilledBlocksOrders ==
    [][ (proc'.admitted < proc.admitted /\ proc'.boot = proc.boot) => ~killed ]_vars

(***************************************************************************)
(* clear_cause: "no active causes => NORMAL".  An engine that is up with   *)
(* nothing latched is not frozen.                                          *)
(***************************************************************************)
NormalWhenNothingLatched ==
    (Up /\ proc.bridge = <<>> /\ NothingLatched(ledger)) => ledger.risk_state = "NORMAL"

(***************************************************************************)
(* _maybe_lift_warmup_freeze: "Clear ONLY the causes this lifecycle owns   *)
(* and has just re-verified".  A lift does not clear a warm-up freeze that *)
(* was latched after it looked at the coverage.                            *)
(***************************************************************************)
LiftKeepsNewFreeze ==
    [][ (proc.refrozen /\ Active(ledger, "warmup_ready") /\ proc'.lift = "clearing") =>
            Active(ledger', "warmup_ready") ]_vars
=============================================================================
