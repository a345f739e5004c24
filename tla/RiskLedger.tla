----------------------------- MODULE RiskLedger -----------------------------
(***************************************************************************)
(* risk/causes.py and risk/mode.py: the ledger of causes that latch a risk *)
(* state, and its projection onto mode_state.risk_state.  Both live in the *)
(* database, in two tables that are written in two transactions: the       *)
(* operators named LatchOnly and UnlatchOnly are the first one alone.      *)
(***************************************************************************)
EXTENDS Naturals

CONSTANT Causes

RiskState == {"NORMAL", "FROZEN", "CLOSE_ONLY", "KILLED"}
LATCHING_STATES == RiskState \ {"NORMAL"}

RISK_RANK(s) ==
    CASE s = "NORMAL" -> 0 [] s = "FROZEN" -> 1 [] s = "CLOSE_ONLY" -> 2 [] s = "KILLED" -> 3

(***************************************************************************)
(* active[c] is the state cause c latches, NORMAL when its row is cleared  *)
(* or absent; set_at[c] is the day its present episode began.              *)
(***************************************************************************)
Ledger(days) ==
    [ active : [Causes -> RiskState], set_at : [Causes -> days], risk_state : RiskState ]

Active(l, c) == l.active[c] # "NORMAL"

(* Most restrictive wins; NORMAL is the absence of causes. *)
resolved_state(l) ==
    CHOOSE s \in RiskState :
        /\ s = "NORMAL" \/ \E c \in Causes : l.active[c] = s
        /\ \A c \in Causes : RISK_RANK(l.active[c]) <= RISK_RANK(s)

Project(l) == [l EXCEPT !.risk_state = resolved_state(l)]

(* Re-setting an active cause keeps the day its episode began. *)
LatchOnly(l, c, s, day) ==
    [l EXCEPT !.active[c] = s, !.set_at[c] = IF Active(l, c) THEN @ ELSE day]

UnlatchOnly(l, c) == [l EXCEPT !.active[c] = "NORMAL"]

set_cause(l, c, s, day) == Project(LatchOnly(l, c, s, day))

(* Mutant of the next definition: the recompute always wins. *)
PreservesNever(l, c) == FALSE

(* Clearing a cause that was not active never relaxes what is in force. *)
Preserves(l, c) ==
    ~Active(l, c) /\ RISK_RANK(l.risk_state) > RISK_RANK(resolved_state(l))

clear_cause(l, c) ==
    IF Preserves(l, c) THEN l ELSE Project(UnlatchOnly(l, c))

(* The state in force is at least as restrictive as every active cause. *)
Dominates(l) == \A c \in Causes : RISK_RANK(l.active[c]) <= RISK_RANK(l.risk_state)

NothingLatched(l) == \A c \in Causes : ~Active(l, c)
=============================================================================
