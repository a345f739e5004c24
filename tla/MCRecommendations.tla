-------------------------- MODULE MCRecommendations --------------------------
(***************************************************************************)
(* The analyst's advice and the analyst's money, in two parts that share   *)
(* no variable: a behaviour is of one entry and the exits of its position, *)
(* or of the LLM budget.                                                   *)
(***************************************************************************)
EXTENDS RecommendationBook, TLC

CONSTANTS
    r1, n1, n2,         \* runs in flight: one of the analyst, two of the nightly review
    Runs, Agents, AgentOf, Allocation, Elapsed,
    Credit, DG3Spend, DG2Spend, MaxCost, MAX_SCHEMA_RETRIES, Sessions, LastWindow, MaxRestarts

VARIABLES part, window, moment, spend, billing_error_window, last_tier, run, restarts

budgetVars == <<window, moment, spend, billing_error_window, last_tier, run, restarts>>
allVars == <<part, vars, budgetVars>>

MCRuns == {r1, n1, n2}
MCAgents == {"analyst", "nightly"}
MCAgentOf == [r \in MCRuns |-> IF r = r1 THEN "analyst" ELSE "nightly"]

(* The credit is less than the agents' allocations allow together, and     *)
(* less than one of them.                                                  *)
MCAllocation == "analyst" :> 2 @@ "nightly" :> 5
MCElapsed == <<0, 2, 3>>

Budget == INSTANCE BudgetGovernor

ASSUME PartsAssumption == Budget!BudgetAssumption

PartsInit == part \in {"book", "budget"} /\ Init /\ Budget!Init

PartsNext ==
    \/ part = "book" /\ Next /\ UNCHANGED <<part, budgetVars>>
    \/ part = "budget" /\ Budget!Next /\ UNCHANGED <<part, vars>>

PartsSpec == PartsInit /\ [][PartsNext]_allVars

MCSymmetry == Permutations(Manages) \cup Permutations({n1, n2})

(* A window's spend exceeds its limits by what the runs in flight may      *)
(* still spend at most.                                                    *)
SpendWithinReach == Budget!SpendWithinReach
=============================================================================
