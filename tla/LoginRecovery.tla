--------------------------- MODULE LoginRecovery ---------------------------
(***************************************************************************)
(* What a login sets off: PostLoginRecovery (ops/post_login.py) and        *)
(* EarlyHydration (ops/early_hydration.py) as sibling tasks of each login, *)
(* EarlyHydration.on_boot, and the pass lock of the CatchUpRunner that     *)
(* hydrate_ahead waits for (ops/jobs.py).  An action is what one task does *)
(* between two awaits.                                                     *)
(*                                                                         *)
(* A trading day of one process.  Waits bounded at 900 s may time out at   *)
(* any moment; any step of a recovery and any job may fail.                *)
(***************************************************************************)
EXTENDS Naturals, FiniteSets

CONSTANTS
    Logins,
    Boot,           \* the boot: runs the ladder, and hydrates as a login would
    Jobs            \* the pre-open chain, 1 .. n in registry order

RecoveryAssumption == Boot \notin Logins /\ Jobs = 1 .. Cardinality(Jobs)

Hydrators == Logins \cup {Boot}

VARIABLES
    armed,          \* the scheduler has started and the post-arm pass is dispatched
    opened,         \* the session open has passed
    recovery,       \* of each login: none, running, done
    in_flight, completed,
    hydration,      \* where each EarlyHydration._hydrate is
    pass,           \* holder of the pass lock: "free", a hydrator or "sweep"
    todo,           \* jobs the holder has not come to
    resolved        \* jobs whose watermark of today says success

recoveries == <<recovery, in_flight, completed>>
passes == <<pass, todo, resolved>>
vars == <<armed, opened, recoveries, hydration, passes>>

Init ==
    /\ armed = FALSE /\ opened = FALSE
    /\ recovery = [l \in Logins |-> "none"]
    /\ in_flight = 0 /\ completed = TRUE
    /\ hydration = [h \in Hydrators |-> "none"]
    /\ pass = "free" /\ todo = {} /\ resolved = {}

-----------------------------------------------------------------------------
(***************************************************************************)
(* complete_login fires the hooks: one task each, and asyncio starts tasks *)
(* in the order they were created, so the recovery runs to its first await *)
(* before the hydration looks at anything.                                 *)
(***************************************************************************)
Login(l) ==
    /\ recovery[l] = "none"
    /\ recovery' = [recovery EXCEPT ![l] = "running"]
    /\ in_flight' = in_flight + 1 /\ completed' = FALSE
    /\ hydration' = [hydration EXCEPT ![l] = "begun"]
    /\ UNCHANGED <<armed, opened, passes>>

(* Mutant of the next definition: a bare event, set by the first to end.   *)
ReleasedByFirst == TRUE

Released == in_flight' = 0

(***************************************************************************)
(* The finally of run, whatever its guarded steps came to.  Setting the    *)
(* event wakes who waits, also when a login clears it before they resume.  *)
(***************************************************************************)
RecoveryEnds(l) ==
    /\ recovery[l] = "running"
    /\ recovery' = [recovery EXCEPT ![l] = "done"]
    /\ in_flight' = in_flight - 1
    /\ completed' = (completed \/ Released)
    /\ hydration' = [h \in Hydrators |->
          IF hydration[h] = "recovering" /\ completed' THEN "released" ELSE hydration[h]]
    /\ UNCHANGED <<armed, opened, passes>>

-----------------------------------------------------------------------------
To(h, step) == hydration' = [hydration EXCEPT ![h] = step]

Waits == UNCHANGED <<armed, opened, recoveries, passes>>

(* The gate before the waits, and on the trading day. *)
HydrationBegins(h) ==
    /\ hydration[h] = "begun"
    /\ To(h, IF opened THEN "skipped" ELSE "arming")
    /\ Waits

AwaitsArmed(h) ==
    /\ hydration[h] = "arming" /\ armed
    /\ To(h, IF completed THEN "released" ELSE "recovering")
    /\ Waits

(* Mutant of the next definition: the recovery is waited for without bound. *)
NeverGivesUp(h) == FALSE

GivesUp(h) == hydration[h] = "recovering"

(* A boot that never arms ends the hydration, a recovery that never ends   *)
(* does not.                                                               *)
ArmingTimesOut(h) ==
    /\ hydration[h] = "arming" /\ ~armed
    /\ To(h, "skipped")
    /\ Waits

RecoveryTimesOut(h) ==
    /\ GivesUp(h)
    /\ To(h, "timed out")
    /\ Waits

(* The open is looked at again after both waits. *)
Queues(h) ==
    /\ hydration[h] \in {"released", "timed out"}
    /\ To(h, IF opened THEN "skipped" ELSE "queued")
    /\ Waits

TooLate == opened

(* hydrate_ahead, once it holds the pass lock. *)
Hydrates(h) ==
    /\ hydration[h] = "queued" /\ pass = "free"
    /\ IF TooLate THEN To(h, "skipped") /\ UNCHANGED <<pass, todo>>
       ELSE To(h, "running") /\ pass' = h /\ todo' = Jobs
    /\ UNCHANGED <<armed, opened, recoveries, resolved>>

(***************************************************************************)
(* catch_up: skipped while another pass is in flight, and behind a waiter  *)
(* the released lock has woken.  Runs the jobs that are due.               *)
(***************************************************************************)
PassBegins ==
    /\ armed /\ pass = "free" /\ \A h \in Hydrators : hydration[h] # "queued"
    /\ pass' = "sweep" /\ todo' \in (SUBSET Jobs) \ {{}}
    /\ UNCHANGED <<armed, opened, recoveries, hydration, resolved>>

Runs(j) == j \notin resolved

First(j) == j \in todo /\ \A k \in todo : j <= k

(* One job of the pass, in registry order: its verdict is its own.         *)
JobEnds(j) ==
    /\ pass # "free" /\ First(j)
    /\ todo' = todo \ {j}
    /\ IF Runs(j) THEN resolved' \in {resolved, resolved \cup {j}} ELSE UNCHANGED resolved
    /\ UNCHANGED <<armed, opened, recoveries, hydration, pass>>

PassEnds ==
    /\ pass # "free" /\ todo = {}
    /\ pass' = "free"
    /\ hydration' = [h \in Hydrators |-> IF h = pass THEN "done" ELSE hydration[h]]
    /\ UNCHANGED <<armed, opened, recoveries, todo, resolved>>

-----------------------------------------------------------------------------
(* start_scheduler_and_fire_post_arm, at the end of the boot: the post-arm *)
(* pass takes the lock before a hydration that waited for this can.        *)
Arms ==
    /\ ~armed
    /\ armed' = TRUE
    /\ pass' = "sweep" /\ todo' \in (SUBSET Jobs) \ {{}}
    /\ To(Boot, "begun")
    /\ UNCHANGED <<opened, recoveries, resolved>>

Opens ==
    /\ ~opened /\ opened' = TRUE
    /\ UNCHANGED <<armed, recoveries, hydration, passes>>

Hydration(h) ==
    HydrationBegins(h) \/ AwaitsArmed(h) \/ ArmingTimesOut(h) \/ RecoveryTimesOut(h)
    \/ Queues(h) \/ Hydrates(h)

Next ==
    \/ \E l \in Logins : Login(l) \/ RecoveryEnds(l)
    \/ \E h \in Hydrators : Hydration(h)
    \/ PassBegins \/ (\E j \in Jobs : JobEnds(j)) \/ PassEnds
    \/ Arms \/ Opens

Spec == Init /\ [][Next]_vars

(* Jobs and waits end one way or another.  A recovery may hang: it awaits  *)
(* a ticker and a broker that set no bound of their own here.              *)
Fairness ==
    /\ \A h \in Hydrators : WF_vars(Hydration(h))
    /\ \A j \in Jobs : WF_vars(JobEnds(j))
    /\ WF_vars(PassEnds)

-----------------------------------------------------------------------------
(***************************************************************************)
(* "The event re-sets only once every in-flight run() has reached its own  *)
(* finally": a hydration that did not time out is let go when no recovery  *)
(* of any login is under way, however the logins overlap.                  *)
(***************************************************************************)
ChainFollowsRecovery ==
    [][ \A h \in Hydrators : (hydration[h] # "released" /\ hydration'[h] = "released") =>
            \A l \in Logins : recovery'[l] # "running" ]_vars

(***************************************************************************)
(* "A late acquisition is a logged skip, never a run": the chain begins    *)
(* when armed and before the open, however long its three waits took.      *)
(***************************************************************************)
ChainInItsWindow ==
    [][ \A h \in Hydrators :
            (hydration[h] # "running" /\ hydration'[h] = "running") => armed /\ ~opened ]_vars

(***************************************************************************)
(* "A wedged recovery must cost freshness, never the day's digest": every  *)
(* login's hydration ends, with the chain run or past its window, also     *)
(* when a recovery never ends and sweeps keep taking the lock.             *)
(***************************************************************************)
HydrationEnds ==
    \A l \in Logins : hydration[l] = "begun" ~> hydration[l] \in {"skipped", "done"}
=============================================================================
