------------------------------ MODULE CatchUp ------------------------------
(***************************************************************************)
(* The missed-job machinery: CatchUpRunner's passes (ops/jobs.py), the     *)
(* boot that starts the first one (ops/lifecycle.py), the fires of the     *)
(* armed scheduler, the post-arm one-shot, the sweep and its freeze        *)
(* reconciliation (ops/main.py), and the early hydration that runs today's *)
(* chain ahead of its clock.                                               *)
(*                                                                         *)
(* Passes and hydrations hold _pass_lock, the scheduler's fires do not.    *)
(* Each runs a job across an await and records its watermark afterwards,   *)
(* so the process may die, or the other may record, between the two.  A    *)
(* pass keeps the now it started with, and the days it then found missed.  *)
(***************************************************************************)
EXTENDS JobLedger, Sequences

CONSTANTS
    Registries,     \* sequences of jobs, by class and then by order
    Deferred,       \* POST_ARM_JOB_IDS, left out of the boot pass; all RUN_LATEST
    Hydrated,       \* EARLY_HYDRATION_JOB_IDS
    NoJob,
    Span,           \* bound on the days, by registry
    MaxStops        \* bound on the crashes and clean stops

SafetyJobs == "catchup_safety_jobs"

ASSUME CatchUpAssumption ==
    /\ Registries \subseteq Seq(Jobs) /\ Span \in [Registries -> Days]
    /\ Deferred \subseteq Jobs \ Safety /\ Hydrated \subseteq Jobs \ DateKeyed
    /\ NoJob \notin Jobs /\ SafetyJobs \notin Jobs /\ MaxStops \in Nat

VARIABLES
    registry,       \* what the integrator registered
    now,
    table,          \* job_runs
    causes,         \* active FROZEN causes: data_freshness:<job>, and catchup_safety_jobs
    engine,         \* "down", "booting", "booted" or "armed"
    down_since,     \* last_clean_stop_at, or the last heartbeat before a crash
    pass,           \* the holder of _pass_lock
    asked,          \* when the hydration that waits for the lock was called
    running,        \* the day that each scheduled fire is running its job for
    verified,       \* the safety jobs the pass has found fresh (history)
    stops

process == <<engine, pass, asked, running>>
catchUpVars == <<registry, now, table, causes, process, down_since, verified, stops>>

NoPass == [ kind |-> "none", now |-> 0, off_since |-> Never, todo |-> {},
            job |-> NoJob, day |-> NoDay, rest |-> {}, frozen |-> FALSE ]

MaxTime == Start(Span[registry]) + 1
Registered == {registry[i] : i \in DOMAIN registry}

CatchUpInit ==
    /\ registry \in Registries
    /\ now = 0
    /\ table = [j \in Jobs |-> [d \in Days |-> NoRow]]
    /\ causes = {}
    /\ engine = "down" /\ down_since = Never
    /\ pass = NoPass /\ asked = Never
    /\ running = [j \in Jobs |-> NoDay]
    /\ verified = {} /\ stops = 0

-----------------------------------------------------------------------------
(* _in_scope: LOAD_BEARING at boot, DEFERRED after arming, ALL for the sweep. *)
InScope(kind, j) ==
    CASE kind = "boot" -> j \notin Deferred
      [] kind = "deferred" -> j \in Deferred
      [] kind = "hydrate" -> j \in Hydrated
      [] OTHER -> TRUE

Pass(kind, since, off_since) ==
    [NoPass EXCEPT !.kind = kind, !.now = since, !.off_since = off_since,
                   !.todo = {i \in DOMAIN registry : InScope(kind, registry[i])}]

(* startup, up to its catch-up pass; the steps before it run no job. *)
Startup ==
    /\ engine = "down"
    /\ engine' = "booting"
    /\ pass' = Pass("boot", now, down_since)
    /\ UNCHANGED <<registry, now, table, causes, down_since, asked, running, verified, stops>>

(* start_scheduler_and_fire_post_arm: the one-shot takes the lock before   *)
(* the login hooks that wait for armed can ask for it.                     *)
Arm ==
    /\ engine = "booted"
    /\ engine' = "armed"
    /\ pass' = IF Deferred = {} THEN NoPass ELSE Pass("deferred", now, Never)
    /\ UNCHANGED <<registry, now, table, causes, down_since, asked, running, verified, stops>>

LockFree == pass.kind = "none"

(* catch_up from the 30-minute sweep.  A pass in flight makes it a no-op,  *)
(* and a hydration in the queue goes first.                                *)
Sweep ==
    /\ engine = "armed" /\ LockFree /\ asked = Never
    /\ pass' = Pass("sweep", now, Never)
    /\ UNCHANGED <<registry, now, table, causes, engine, down_since, asked, running, verified, stops>>

(* Mutant of the next definition: an empty result counts as a clean pass. *)
SkippedSweepClears(latch) == latch \ {SafetyJobs}

(* The sweep's result when a pass was in flight: _reconcile_catchup_freeze *)
(* leaves the latch alone.                                                 *)
SkippedSweep(latch) == latch

SweepInFlight ==
    /\ engine = "armed" /\ ~LockFree
    /\ causes' = SkippedSweep(causes)
    /\ UNCHANGED <<registry, now, table, down_since, process, verified, stops>>

(* EarlyHydration reaches hydrate_ahead: armed, on a trading day before the open. *)
AskHydration ==
    /\ engine = "armed" /\ asked = Never /\ pass.kind # "hydrate"
    /\ Day(now) \in TradingDays /\ now < Open(Day(now))
    /\ asked' = now
    /\ UNCHANGED <<registry, now, table, causes, engine, down_since, pass, running, verified, stops>>

(* The time of day is compared again under the lock; today is when it asked. *)
StartHydration ==
    /\ asked # Never /\ LockFree
    /\ asked' = Never
    /\ pass' = IF Phase(now) < Phase(Open(Day(now))) THEN Pass("hydrate", asked, Never) ELSE NoPass
    /\ UNCHANGED <<registry, now, table, causes, engine, down_since, running, verified, stops>>

-----------------------------------------------------------------------------
(* Mutant of the next definition: no failed day is ever given up. *)
KeptFailed(j) == table[j]

(* A pass that has marked the failed days out of its reach as given up. *)
Reconsidered(j) ==
    [ d \in Days |-> IF j \in DateKeyed /\ d \in Drifted(table[j], pass.now)
                     THEN Recorded(j, table[j][d], "skipped", now) ELSE table[j][d] ]

(* Mutant of the next definition: a job that is fresh already keeps its freeze. *)
NeverFresh(j) == FALSE

(* _clear_if_latched: a safety job the pass finds fresh, run by whomever. *)
VerifiedFresh(j) ==
    /\ j \in Safety /\ pass.kind # "hydrate"
    /\ GoverningDay(j, pass.now) # NoDay
    /\ Resolved(table[j][GoverningDay(j, pass.now)])

(* The days the pass runs j for: _run_safety_critical, _run_latest,        *)
(* _run_date_keyed, and hydrate_ahead for the day it asked on.             *)
Targets(j) ==
    LET today == Day(pass.now)
        missed == Missed(j, Reconsidered(j), pass.now, pass.off_since)
    IN CASE pass.kind = "hydrate" -> {d \in {today} : FiresOn(d) /\ ~Resolved(table[j][d])}
         [] pass.kind # "hydrate" /\ j \in Safety ->
                {d \in {GoverningDay(j, pass.now)} \ {NoDay} : ~Resolved(table[j][d])}
         [] pass.kind # "hydrate" /\ j \in Latest -> {Max(m) : m \in {missed} \ {{}}}
         [] OTHER -> missed

(* On to the first of these days, or out of the job. *)
OnTo(p, j, days) ==
    IF days = {} THEN [p EXCEPT !.job = NoJob, !.day = NoDay, !.rest = {}]
    ELSE [p EXCEPT !.job = j, !.day = Min(days), !.rest = days \ {Min(days)}]

StartJob ==
    /\ ~LockFree /\ pass.job = NoJob /\ pass.todo # {}
    /\ LET first == Min(pass.todo)
           j == registry[first]
       IN /\ table' = [table EXCEPT ![j] = IF pass.kind = "hydrate" THEN @ ELSE Reconsidered(j)]
          /\ causes' = IF VerifiedFresh(j) THEN causes \ {j} ELSE causes
          /\ verified' = IF VerifiedFresh(j) THEN verified \cup {j} ELSE verified
          /\ pass' = OnTo([pass EXCEPT !.todo = @ \ {first}], j, Targets(j))
    /\ UNCHANGED <<registry, now, engine, down_since, asked, running, stops>>

JobSucceeds(j) ==
    /\ pass.job = j /\ j \in Jobs
    /\ table' = [table EXCEPT ![j][pass.day] = Recorded(j, @, "success", now)]
    /\ causes' = IF pass.kind = "hydrate" THEN causes ELSE causes \ {j}
    /\ verified' = IF j \in Safety THEN verified \cup {j} ELSE verified
    /\ pass' = OnTo(pass, j, pass.rest)
    /\ UNCHANGED <<registry, now, engine, down_since, asked, running, stops>>

FailedStatus(j, row) == IF j \in DateKeyed THEN DateKeyedFailure(row, pass.now) ELSE "failed"

(* A raise, or a result that is not ok.  A safety job freezes entries. *)
JobFails(j) ==
    /\ pass.job = j /\ j \in Jobs
    /\ table' = [table EXCEPT ![j][pass.day] = Recorded(j, @, FailedStatus(j, @), now)]
    /\ LET freezes == j \in Safety /\ pass.kind # "hydrate"
       IN /\ causes' = IF freezes THEN causes \cup {j} ELSE causes
          /\ pass' = OnTo([pass EXCEPT !.frozen = @ \/ freezes], j, pass.rest)
    /\ UNCHANGED <<registry, now, engine, down_since, asked, running, verified, stops>>

(* _job_unfinished: no watermark, and the job's later days are left alone. *)
JobUnfinished(j) ==
    /\ pass.job = j /\ j \in DateKeyed
    /\ pass' = OnTo(pass, j, {})
    /\ UNCHANGED <<registry, now, table, causes, engine, down_since, asked, running, verified, stops>>

(* What the boot (startup, step 5) and the sweep (_reconcile_catchup_freeze) *)
(* make of a pass that ran.                                                  *)
Reconciled ==
    IF pass.kind \notin {"boot", "sweep"} THEN causes
    ELSE IF pass.frozen THEN causes \cup {SafetyJobs} ELSE causes \ {SafetyJobs}

EndPass ==
    /\ ~LockFree /\ pass.job = NoJob /\ pass.todo = {}
    /\ pass' = NoPass
    /\ causes' = Reconciled
    /\ engine' = IF pass.kind = "boot" THEN "booted" ELSE engine
    /\ verified' = {}
    /\ UNCHANGED <<registry, now, table, down_since, asked, running, stops>>

-----------------------------------------------------------------------------
(* _scheduled_runner's watermark, for the day of the fire; it freezes nothing. *)
ScheduledDone(j) ==
    /\ running[j] # NoDay
    /\ running' = [running EXCEPT ![j] = NoDay]
    /\ \/ \E status \in {"success", "failed"} :
              table' = [table EXCEPT ![j][running[j]] = Recorded(j, @, status, now)]
       \/ j \in DateKeyed /\ UNCHANGED table
    /\ UNCHANGED <<registry, now, causes, engine, down_since, pass, asked, verified, stops>>

-----------------------------------------------------------------------------
(* The jobs whose fire-time it now is.  The host may sleep through it, and  *)
(* a job still running is not started again.                               *)
Due(t) ==
    {j \in Registered : engine = "armed" /\ running[j] = NoDay /\ FiresOn(Day(t)) /\ t = Fire(j, Day(t))}

Tick ==
    /\ now < MaxTime
    /\ now' = now + 1
    /\ \E fires \in SUBSET Due(now') :
          running' = [j \in Jobs |-> IF j \in fires THEN Day(now') ELSE running[j]]
    /\ UNCHANGED <<registry, table, causes, engine, down_since, pass, asked, verified, stops>>

(* A clean stop or a crash, anywhere: job_runs and the causes are on disk. *)
Stop ==
    /\ engine # "down" /\ stops < MaxStops
    /\ engine' = "down" /\ down_since' = now /\ stops' = stops + 1
    /\ pass' = NoPass /\ asked' = Never
    /\ running' = [j \in Jobs |-> NoDay] /\ verified' = {}
    /\ UNCHANGED <<registry, now, table, causes>>

SomeJobSucceeds == \E j \in Jobs : JobSucceeds(j)
SomeJobEnds == SomeJobSucceeds \/ \E j \in Jobs : JobFails(j) \/ JobUnfinished(j)
SomeFireEnds == \E j \in Jobs : ScheduledDone(j)

(* At most one of these is possible at a time. *)
NextStep == Startup \/ Arm \/ Sweep \/ StartHydration \/ StartJob \/ SomeJobEnds \/ EndPass

CatchUpNext == NextStep \/ SweepInFlight \/ AskHydration \/ SomeFireEnds \/ Tick \/ Stop

CatchUpSpec == CatchUpInit /\ [][CatchUpNext]_catchUpVars

(* The engine is started again after a stop, the sweep has its timer, no   *)
(* job runs for ever, and of the jobs that are tried again and again some  *)
(* succeed.                                                                *)
Fairness ==
    /\ WF_catchUpVars(Tick) /\ WF_catchUpVars(NextStep) /\ WF_catchUpVars(SomeFireEnds)
    /\ SF_catchUpVars(SomeJobSucceeds)

LiveSpec == CatchUpSpec /\ Fairness

-----------------------------------------------------------------------------
CatchUpTypeOK ==
    /\ registry \in Registries
    /\ now \in 0 .. MaxTime
    /\ table \in [Jobs -> [Days -> Row]]
    /\ causes \subseteq Safety \cup {SafetyJobs}
    /\ engine \in {"down", "booting", "booted", "armed"}
    /\ asked \in {Never} \cup 0 .. MaxTime
    /\ running \in [Jobs -> {NoDay} \cup Days]
    /\ stops \in 0 .. MaxStops

(* A failed day of a date-keyed job stays among the days the next pass     *)
(* runs, whatever later days succeeded meanwhile, until it is resolved or  *)
(* out of reach of the lookback (include_failed of _missed_days).          *)
FailedDayStaysMissed ==
    \A j \in DateKeyed : \A d \in DaysWith(table[j], "failed") :
        d >= Day(now) - MaxLookback => d \in Missed(j, table[j], now, Never)

(* ... and some pass resolves it, by a success or by giving it up: again   *)
(* and again no date-keyed day is left failed.                             *)
FailedDaysResolved ==
    []<>(\A j \in DateKeyed : DaysWith(table[j], "failed") = {})

(* Once upstream works again no freeze of the catch-up stays behind: the   *)
(* freeze of a job that failed and then ran under the live scheduler, or   *)
(* ran early, is cleared by the pass that finds it fresh.                  *)
FreezesLift == []<>(causes = {})

(* catchup_safety_jobs is lifted only on the evidence of a pass that ran   *)
(* to its end with every safety job fresh or still ahead.                  *)
LiftedOnlyWhenVerified ==
    [][(SafetyJobs \in causes /\ SafetyJobs \notin causes')
        => /\ ~LockFree /\ pass' = NoPass
           /\ \A j \in Safety \cap Registered : GoverningDay(j, pass.now) # NoDay => j \in verified]_catchUpVars

(* Not so: a day no run was recorded for, between two successes, is out of *)
(* every later scan.                                                       *)
MissedDayStaysMissed ==
    \A j \in DateKeyed : \A d \in Days :
        (/\ FiresOn(d) /\ Fire(j, d) <= now /\ ~Resolved(table[j][d])
         /\ \E s \in DaysWith(table[j], "success") : s < d
         /\ d >= Day(now) - MaxLookback)
        => d \in Missed(j, table[j], now, Never)
=============================================================================
