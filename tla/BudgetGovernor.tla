--------------------------- MODULE BudgetGovernor ---------------------------
(***************************************************************************)
(* The weekly LLM budget (intelligence/governor.py) and the runs that      *)
(* spend it (AgentHarness._run): a run asks can_invoke once, then makes up *)
(* to three SDK calls, each minutes long and booked when it has ended.     *)
(* Several runs are in flight; the quota window rolls over, a billing      *)
(* error latches DG4, the process restarts.                                *)
(*                                                                         *)
(* Money is counted in units; a window has a few moments, each with the    *)
(* trading sessions elapsed by then.  Prices, the DG1 knobs and the audit  *)
(* rows are left out.                                                      *)
(***************************************************************************)
EXTENDS Integers, FiniteSets, FiniteSetsExt, Functions

CONSTANTS
    Runs,                   \* what may be in flight at a time
    Agents, AgentOf,        \* the agent that makes each run
    Allocation,             \* of each agent, per window
    Credit, DG3Spend, DG2Spend,     \* weekly_credit_usd, and its 95 % and 85 %
    MaxCost,                \* of one SDK call
    MAX_SCHEMA_RETRIES,
    Elapsed, Sessions,      \* half sessions elapsed at each moment of a window, and in all
    LastWindow, MaxRestarts \* bounds

DG3_BLOCKED_AGENTS == Agents \ {"nightly"}
Moments == DOMAIN Elapsed
Window == 0 .. LastWindow

BudgetAssumption ==
    /\ IsFiniteSet(Runs) /\ IsFiniteSet(Agents)
    /\ AgentOf \in [Runs -> Agents] /\ Allocation \in [Agents -> Nat]
    /\ DG2Spend \in Nat /\ DG3Spend \in DG2Spend .. Credit /\ Credit \in Nat \ {0}
    /\ {MaxCost, MAX_SCHEMA_RETRIES, LastWindow, MaxRestarts, Sessions} \subseteq Nat

VARIABLES
    window, moment,
    spend,          \* budget_ledger in this window, by agent
    billing_error_window,
    last_tier,      \* _last_tier
    run,            \* of each run the number of its SDK call, and whether it is being booked
    restarts

vars == <<window, moment, spend, billing_error_window, last_tier, run, restarts>>

None == "none"
NoWindow == -1
Idle == [call |-> 0, ended |-> None]

Init ==
    /\ window = 0 /\ moment = 1
    /\ spend = [a \in Agents |-> 0] /\ billing_error_window = NoWindow
    /\ last_tier = None /\ run = [r \in Runs |-> Idle]
    /\ restarts = 0

-----------------------------------------------------------------------------
Total(table) == FoldFunction(+, 0, table)

(* pro_rata_to_date times a percentage; no pace, no rung. *)
OverPace(spent, percent) ==
    Elapsed[moment] # 0 /\ spent * 100 * Sessions > percent * Credit * Elapsed[moment]

(* Mutant of the next definition: the credit may be spent to the last unit. *)
DegradeTierLate(table, latch) ==
    IF latch = window \/ Total(table) > Credit THEN "DG4" ELSE "DG0"

DegradeTier(table, latch) ==
    LET spent == Total(table)
    IN  IF latch = window \/ spent >= Credit THEN "DG4"
        ELSE IF spent >= DG3Spend THEN "DG3"
        ELSE IF OverPace(spent, 125) \/ spent >= DG2Spend THEN "DG2"
        ELSE IF OverPace(spent, 110) THEN "DG1"
        ELSE "DG0"

Tier == DegradeTier(spend, billing_error_window)

(* can_invoke. *)
CanInvoke(agent, class) ==
    /\ spend[agent] < Allocation[agent]
    /\ Tier # "DG4"
    /\ ~(Tier = "DG3" /\ agent \in DG3_BLOCKED_AGENTS)
    /\ class = "heartbeat" => Tier \notin {"DG2", "DG3"}

-----------------------------------------------------------------------------
(* AgentHarness._run *)

Starts(r, class) ==
    /\ run[r] = Idle /\ CanInvoke(AgentOf[r], class)
    /\ run' = [run EXCEPT ![r].call = 1]
    /\ UNCHANGED <<window, moment, spend, billing_error_window, last_tier, restarts>>

(* record; the tier it leaves is published if it differs from last_tier. *)
Records(agent, cost) ==
    /\ spend' = [spend EXCEPT ![agent] = @ + cost]
    /\ last_tier' = DegradeTier(spend', billing_error_window)

(* An SDK call ends, is booked if it used anything, and the run awaits the *)
(* publication.                                                            *)
CallEnds(r, cost, how) ==
    /\ run[r].call > 0 /\ run[r].ended = None
    /\ run' = [run EXCEPT ![r].ended = how]
    /\ IF cost = 0 THEN UNCHANGED <<spend, last_tier>> ELSE Records(AgentOf[r], cost)
    /\ UNCHANGED <<window, moment, billing_error_window, restarts>>

(* A reply that breaks the schema is asked for again, without asking the   *)
(* governor; a billing error is noted, and nobody is told.                 *)
Settles(r) ==
    /\ run[r].ended # None
    /\ run' = [run EXCEPT ![r] =
                 IF @.ended = "schema_invalid" /\ @.call <= MAX_SCHEMA_RETRIES
                 THEN [call |-> @.call + 1, ended |-> None]
                 ELSE Idle]
    /\ billing_error_window' = IF run[r].ended = "credit_exhausted" THEN window
                               ELSE billing_error_window
    /\ UNCHANGED <<window, moment, spend, last_tier, restarts>>

-----------------------------------------------------------------------------
Tick ==
    /\ \/ moment + 1 \in Moments /\ moment' = moment + 1 /\ UNCHANGED <<window, spend>>
       \/ /\ moment + 1 \notin Moments /\ window < LastWindow
          /\ moment' = 1 /\ window' = window + 1
          /\ spend' = [a \in Agents |-> 0]
    /\ UNCHANGED <<billing_error_window, last_tier, run, restarts>>

(* The ledger stays, the latches and the runs do not. *)
Restart ==
    /\ restarts < MaxRestarts /\ restarts' = restarts + 1
    /\ billing_error_window' = NoWindow /\ last_tier' = None
    /\ run' = [r \in Runs |-> Idle]
    /\ UNCHANGED <<window, moment, spend>>

Next ==
    \/ \E r \in Runs :
        \/ \E class \in {"schedule", "heartbeat"} : Starts(r, class)
        \/ \E cost \in 0 .. MaxCost, how \in {"ok", "schema_invalid", "credit_exhausted"} :
              CallEnds(r, cost, how)
        \/ Settles(r)
    \/ Tick \/ Restart

Spec == Init /\ [][Next]_vars

-----------------------------------------------------------------------------
(* Properties *)

TypeOK ==
    /\ window \in Window /\ moment \in Moments
    /\ spend \in [Agents -> Nat]
    /\ billing_error_window \in Window \cup {NoWindow}
    /\ last_tier \in {None, "DG0", "DG1", "DG2", "DG3", "DG4"}
    /\ run \in [Runs -> [call : 0 .. MAX_SCHEMA_RETRIES + 1,
                         ended : {None, "ok", "schema_invalid", "credit_exhausted"}]]

RunCost == (MAX_SCHEMA_RETRIES + 1) * MaxCost
RunsOf(agent) == {r \in Runs : AgentOf[r] = agent}

(* The budget is checked before a run and charged during it: a window's    *)
(* spend, and an agent's, exceeds its limit by what the runs in flight may *)
(* still spend at most, also when they began in the window before          *)
(* (can_invoke, record).                                                   *)
SpendWithinReach ==
    /\ Total(spend) < Credit + Cardinality(Runs) * RunCost
    /\ \A a \in Agents :
        Allocation[a] > 0 => spend[a] < Allocation[a] + Cardinality(RunsOf(a)) * RunCost

(* "DG4 = credit exhausted / SDK billing errors => zero SDK calls"         *)
(* (config/agents.yaml): not for the retries of a run.                     *)
ZeroCallsUnderDG4 ==
    [][ \A r \in Runs : run'[r].call > run[r].call => Tier # "DG4" ]_vars

(* "R8 alerts on EVERY change" (raise_billing_error): nobody calls it, the *)
(* harness only notes the error, and no booking follows to publish DG4.    *)
LatchAnnounced ==
    (billing_error_window = window /\ \A r \in Runs : run[r] = Idle) => last_tier = "DG4"

(* "DG4 is a latch on the window it was raised in": until a restart.       *)
LatchHolds ==
    [][ billing_error_window = window => billing_error_window' = window \/ window' # window ]_vars
=============================================================================
