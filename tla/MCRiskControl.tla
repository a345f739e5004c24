---------------------------- MODULE MCRiskControl ----------------------------
(***************************************************************************)
(* Two scenarios of the risk controls in one run, and the engine's         *)
(* processes, which share no variable with them.  "boot": crashes, two     *)
(* days and the hard daily loss, with the causes a boot handles, in mode   *)
(* OFF.  "ladder": every rung, the owner, the modes and the orders, in one *)
(* day without a crash.  A scenario bounds what may happen; it changes no  *)
(* action.  "watch": starts, ends and hangs under the lock and the         *)
(* watchdog.                                                               *)
(***************************************************************************)
EXTENDS RiskControl

CONSTANTS Pids, NoPid, DownStale, Grace, KillMayFail, MaxStrangers, MaxDeaths   \* of the watch

VARIABLES
    scenario,
    engines, lock, row, heart, beat_age, start_age, stamped, due, covered, told, tick, outage,
    alarms, strangers, deaths

watchVars == <<engines, lock, row, heart, beat_age, start_age, stamped, due, covered, told, tick,
               outage, alarms, strangers, deaths>>

Watch == INSTANCE EngineWatch WITH proc <- engines

ASSUME PartsAssumption == Watch!WatchAssumption

BootCauses == {"kill", "daily_loss_hard", "catchup_safety_jobs", "startup_selftest",
               "warmup_ready"}
LadderCauses == {"kill", "owner_pause", "rejection_storm", "protected_store_integrity",
                 "floor_cumulative_floor", "floor_equity_floor_rung",
                 "daily_loss_hard", "daily_loss_soft"}
MCCauses == BootCauses \cup LadderCauses

ASSUME ScenarioAssumption == MCCauses \subseteq Causes

Latched == {c \in Causes : Active(ledger, c)}

BootBounds ==
    /\ Latched' \subseteq BootCauses
    /\ Len(proc'.bridge) <= 1 /\ mode' = "OFF" /\ ~proc'.resuming
    /\ proc'.ladder \in {<<>>, HardRung, Tail(HardRung)}

LadderBounds ==
    /\ Latched' \subseteq LadderCauses
    /\ today' = 0 /\ proc'.lift = "no" /\ ~proc'.refrozen
    /\ proc.boot # "down" => proc'.boot # "down"

ScenarioInit == Init /\ Watch!Init /\ scenario \in {"boot", "ladder", "watch"}

ScenarioNext ==
    \/ /\ scenario # "watch" /\ Next /\ UNCHANGED <<scenario, watchVars>>
       /\ IF scenario = "boot" THEN BootBounds ELSE LadderBounds
    \/ scenario = "watch" /\ Watch!Next /\ UNCHANGED <<scenario, vars>>

ScenarioSpec == ScenarioInit /\ [][ScenarioNext]_<<vars, scenario, watchVars>>

(* Unless a crash came in between, a hard daily loss leaves AUTO only to   *)
(* the owner's own request (apply_day_loss), and once every kill event has *)
(* been handled the ledger mirrors the switch (_kill_to_latch).            *)
UncrashedControlsHold == scenario = "ladder" => HardLossDisarms /\ KillMirrored

(* The stored row says whether the last engine stopped or died, and no     *)
(* outage is paged twice.                                                  *)
OutageKnownOnce == Watch!RowTellsOutage /\ Watch!OneAlarmPerOutage
=============================================================================
