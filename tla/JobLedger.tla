----------------------------- MODULE JobLedger -----------------------------
(***************************************************************************)
(* The job_runs table and what CatchUpRunner (ops/jobs.py) reads out of    *)
(* it: which fire-days of a job are missed, and which one governs the next *)
(* session.  Time is counted in phases of a day:                           *)
(*    0  before the pre-open fires (and before the session)                *)
(*    1  pre-open fires are past, the session is open                      *)
(*    2  the session is closed, the evening fires are past                 *)
(***************************************************************************)
EXTENDS Integers, FiniteSetsExt

CONSTANTS
    Safety, Latest, DateKeyed,  \* the jobs, by JobClass
    FireAt,                     \* JobSpec.at, as a phase
    MaxDay, TradingDays,        \* the calendar, and the days the jobs fire on
    MaxLookback,                \* max_lookback_days
    GiveUpAfter                 \* GIVE_UP_AFTER_DAYS

Jobs == Safety \cup Latest \cup DateKeyed
Days == 1 .. MaxDay

ASSUME LedgerAssumption ==
    /\ Safety \cap Latest = {} /\ Safety \cap DateKeyed = {} /\ Latest \cap DateKeyed = {}
    /\ FireAt \in [Jobs -> {1, 2}]
    /\ MaxDay \in Nat \ {0} /\ TradingDays \subseteq Days
    /\ MaxLookback \in Nat /\ GiveUpAfter \in Nat

Phases == 3
Day(t) == t \div Phases + 1
Phase(t) == t % Phases
Start(d) == Phases * (d - 1)
Fire(j, d) == Start(d) + FireAt[j]
Open(d) == Start(d) + 1
Close(d) == Start(d) + 2

Never == -1
Row == [status : {"none", "failed", "success", "skipped"}, first_failed_at : Int]
NoRow == [status |-> "none", first_failed_at |-> Never]
NoDay == 0

-----------------------------------------------------------------------------
(* record_run.  first_failed_at, when the failing streak began, is kept for *)
(* the date-keyed jobs only: nothing reads it of the others.                *)
Recorded(j, row, status, now) ==
    [ status |-> status,
      first_failed_at |->
          CASE status = "success" \/ j \notin DateKeyed -> Never
            [] status = "failed" /\ j \in DateKeyed /\ row.first_failed_at = Never -> now
            [] OTHER -> row.first_failed_at ]

(* was_run *)
Resolved(row) == row.status \in {"success", "skipped"}

DaysWith(rows, status) == {d \in Days : rows[d].status = status}

FiresOn(d) == d \in TradingDays

(* A job that never succeeded is scanned from the start of the off-window. *)
AfterSuccess(rows, today, off_since) ==
    LET done == DaysWith(rows, "success")
    IN IF done # {} THEN Max(done) + 1
       ELSE IF off_since # Never THEN Day(off_since) ELSE today

(* Where _missed_days starts to scan, for _run_latest. *)
ScanStart(rows, today, off_since) ==
    Max({AfterSuccess(rows, today, off_since), today - MaxLookback})

(* ... and for _run_date_keyed, which goes back to a failed day. *)
FailedScanStart(rows, today, off_since) ==
    LET failed == DaysWith(rows, "failed")
        after == AfterSuccess(rows, today, off_since)
    IN Max({ IF failed # {} THEN Min({after, Min(failed)}) ELSE after, today - MaxLookback })

(* _missed_days: the fire-days from the start of the scan, due and unresolved. *)
MissedFrom(start, j, rows, now) ==
    { d \in Days : /\ start <= d /\ d <= Day(now)
                   /\ FiresOn(d) /\ Fire(j, d) <= now
                   /\ ~Resolved(rows[d]) }

Missed(j, rows, now, off_since) ==
    MissedFrom(IF j \in DateKeyed THEN FailedScanStart(rows, Day(now), off_since)
                                  ELSE ScanStart(rows, Day(now), off_since),
               j, rows, now)

(* next_trading_day, or none in reach. *)
NextSessions(today) == {d \in TradingDays : d > today}

(* The next moment entries can be taken: now, or an open. *)
Horizons(now) ==
    LET today == Day(now)
    IN IF today \in TradingDays /\ now < Close(today)
       THEN {Max({now, Open(today)})}
       ELSE {Open(Min(next)) : next \in {NextSessions(today)} \ {{}}}

(* The fires at or before that moment, in reach of the lookback. *)
GoverningFires(j, now) ==
    UNION { {d \in Days : /\ Day(now) - MaxLookback <= d /\ d <= Day(h)
                          /\ FiresOn(d) /\ Fire(j, d) <= h} : h \in Horizons(now) }

(* _governing_day: the latest of them, unless it is still ahead. *)
GoverningDay(j, now) ==
    LET fires == GoverningFires(j, now)
    IN IF fires # {} /\ Fire(j, Max(fires)) <= now THEN Max(fires) ELSE NoDay

(* stale_safety_jobs *)
StaleSafetyJobs(table, now) ==
    {j \in Safety : GoverningDay(j, now) # NoDay /\ ~Resolved(table[j][GoverningDay(j, now)])}

(* _failing_streak_days *)
FailingStreak(row, now) ==
    IF row.first_failed_at = Never THEN 0 ELSE Max({0, (now - row.first_failed_at) \div Phases})

(* _record_date_keyed_failure *)
DateKeyedFailure(row, now) == IF FailingStreak(row, now) > GiveUpAfter THEN "skipped" ELSE "failed"

(* The failed days that no scan reaches any more (_failed_dates_before). *)
Drifted(rows, now) == {d \in DaysWith(rows, "failed") : d < Day(now) - MaxLookback}
=============================================================================
