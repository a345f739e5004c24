----------------------------- MODULE MCCatchUp -----------------------------
(***************************************************************************)
(* What was missed while nobody looked, in two parts that share no         *)
(* variable: a behaviour is of the jobs that a boot catches up, or of the  *)
(* processes that the watchdog watches.                                    *)
(*                                                                         *)
(* The jobs: a pre-open safety job, an evening one, a deferred run-latest  *)
(* job that is hydrated early, and a date-keyed job of the evening.        *)
(***************************************************************************)
EXTENDS CatchUp, TLC

CONSTANTS
    instruments, earnings, digest, bhavcopy,
    Pids, NoPid, DownStale, Grace, KillMayFail, MaxStrangers, MaxDeaths     \* of the watch

VARIABLES
    part,
    proc, lock, row, heart, beat_age, start_age, stamped, due, covered, told, tick, outage,
    alarms, strangers, deaths

watchVars == <<proc, lock, row, heart, beat_age, start_age, stamped, due, covered, told, tick,
               outage, alarms, strangers, deaths>>
allVars == <<part, catchUpVars, watchVars>>

MCSpan == (<<instruments, earnings>> :> 2) @@ (<<digest>> :> 2) @@ (<<bhavcopy>> :> 3)
MCRegistries == DOMAIN MCSpan
MCFireAt == [j \in Jobs |-> IF j \in {earnings, bhavcopy} THEN 2 ELSE 1]
MCTradingDays == 1 .. MaxDay

Watch == INSTANCE EngineWatch

ASSUME PartsAssumption == Watch!WatchAssumption

(* A part that does not move has one initial state. *)
PartsInit ==
    /\ part \in {"jobs", "watch"} /\ CatchUpInit /\ Watch!Init
    /\ part # "jobs" => registry = <<digest>>

Catches(A) == part = "jobs" /\ A /\ UNCHANGED <<part, watchVars>>
Watches(A) == part = "watch" /\ A /\ UNCHANGED <<part, catchUpVars>>

PartsNext == Catches(CatchUpNext) \/ Watches(Watch!Next)

(* A behaviour is of one part: a condition on a disjunction of several     *)
(* parts' actions says the same as one on each of them.                    *)
PartsSpec ==
    /\ PartsInit /\ [][PartsNext]_allVars
    /\ WF_allVars(Catches(Tick) \/ Watches(Watch!TimePasses))
    /\ WF_allVars(Catches(NextStep) \/ Watches(Watch!Watches))
    /\ WF_allVars(Catches(SomeFireEnds))
    /\ SF_allVars(Catches(SomeJobSucceeds) \/ Watches(Watch!SendDown(TRUE)))
    /\ SF_allVars(Watches(Watch!SendMissed(TRUE)))

(* A death of the engine is paged, a hang ended, a missed start paged. *)
OutagesHandled == Watch!OutagesHandled
=============================================================================
