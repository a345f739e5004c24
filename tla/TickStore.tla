----------------------------- MODULE TickStore -----------------------------
(***************************************************************************)
(* The raw ticks of one symbol: staged by the event loop, flushed to       *)
(* Parquet fragments by a worker thread (marketdata/store.py), collapsed   *)
(* to one file per date by the nightly job's thread and purged when old    *)
(* (marketdata/tick_compact.py, ops/main.py).  Threads interleave at every *)
(* file operation, and the process may die at each of them.                *)
(*                                                                         *)
(* Rows are distinct.  A file is the set of its rows; the empty set is a   *)
(* torn, zero-byte fragment, and as compacted file stands for none; a row  *)
(* 0 marks a fragment that was cut short and cannot be opened.  A tick may *)
(* carry the date of an earlier day: a connect replays each symbol's last  *)
(* tick.                                                                   *)
(***************************************************************************)
EXTENDS Naturals, FiniteSets, FiniteSetsExt

CONSTANTS
    LastDay,        \* bound on the days
    MaxTicks,       \* bound on the ticks
    MaxFaults,      \* bound on crashes and failing file operations
    Retention       \* TICKS_RETENTION_DAYS

TickAssumption == {LastDay, MaxTicks, MaxFaults, Retention} \subseteq Nat

VARIABLES
    now,            \* three phases a day: before, inside and after the session window
    engine,         \* "up", "stopping" (stop_event is set), "closing", "closed", "down"
    buffer,         \* _tick_buffer
    flush,          \* the holder of _flush_lock and what it has not yet written
    job,            \* job_tick_compact and its thread
    disk,           \* of each date partition
    ticks, faults,  \* counters
    written, gone   \* ticks in the files; how many were purged or will never be written (history)

vars == <<now, engine, buffer, flush, job, disk, ticks, faults, written, gone>>

Days == 0 .. LastDay
Today == now \div 3
InWindow == now % 3 = 1

NoFlush == [by |-> "none", todo |-> {}]
NoJob == [ pc |-> "idle", today |-> 0, days |-> {}, files |-> {}, ok |-> TRUE, stopped |-> FALSE ]
EmptyDate == [frags |-> {}, compact |-> {}, tmp |-> FALSE]

Truncated(d) == {[n |-> 0, day |-> d]}

Running == engine \in {"up", "stopping", "closing"}
Of(day, set) == {t \in set : t.day = day}

Init ==
    /\ now = 0 /\ engine = "up"
    /\ buffer = {} /\ flush = NoFlush /\ job = NoJob
    /\ disk = [d \in Days |-> EmptyDate]
    /\ ticks = 0 /\ faults = 0
    /\ written = {} /\ gone = 0

-----------------------------------------------------------------------------
(* The writer *)

StageTick(d) ==
    /\ Running /\ ticks < MaxTicks
    /\ ticks' = ticks + 1
    /\ buffer' = buffer \cup {[n |-> ticks + 1, day |-> d]}
    /\ UNCHANGED <<now, engine, flush, job, disk, faults, written, gone>>

(* _flush_locked takes the whole batch. *)
Take(by) ==
    /\ flush = NoFlush
    /\ flush' = IF buffer = {} THEN NoFlush ELSE [by |-> by, todo |-> buffer]
    /\ buffer' = {}

(* aflush_ticks, for a tick event that finds a batch due: skipped while    *)
(* another flush runs.                                                     *)
FlushDue ==
    /\ Running /\ buffer # {}
    /\ Take("loop")
    /\ UNCHANGED <<now, engine, job, disk, ticks, faults, written, gone>>

NextGroup == Min({t.day : t \in flush.todo})
Done(group) == IF flush.todo = group THEN NoFlush ELSE [flush EXCEPT !.todo = @ \ group]

(* One COPY per date of the batch, in order. *)
WriteGroup ==
    LET group == Of(NextGroup, flush.todo)
    IN  /\ flush # NoFlush /\ engine # "closed"
        /\ disk' = [disk EXCEPT ![NextGroup].frags = @ \cup {group}]
        /\ written' = written \cup group
        /\ flush' = Done(group)
        /\ UNCHANGED <<now, engine, buffer, job, ticks, faults, gone>>

(* Closed underneath: what is not written goes back to the buffer. *)
Restage ==
    /\ flush # NoFlush /\ engine = "closed"
    /\ buffer' = buffer \cup flush.todo /\ flush' = NoFlush
    /\ UNCHANGED <<now, engine, job, disk, ticks, faults, written, gone>>

FlushEnds == WriteGroup \/ Restage

(* A COPY that fails on an open store raises: the rest of the batch is     *)
(* neither written nor restaged, and a job whose flush it was ends.        *)
CopyFails ==
    /\ flush # NoFlush /\ engine # "closed" /\ faults < MaxFaults
    /\ faults' = faults + 1
    /\ gone' = gone + Cardinality(flush.todo) /\ flush' = NoFlush
    /\ job' = IF flush.by = "job" THEN NoJob ELSE job
    /\ UNCHANGED <<now, engine, buffer, disk, ticks, written>>

-----------------------------------------------------------------------------
(* job_tick_compact *)

StartJob(upto) ==
    /\ engine = "up" /\ ~InWindow /\ job.pc = "idle"
    /\ job' = [NoJob EXCEPT !.pc = "flush", !.days = {d \in Days : d <= upto}]
    /\ UNCHANGED <<now, engine, buffer, flush, disk, ticks, faults, written, gone>>

JobFlushes ==
    /\ job.pc = "flush" /\ Take("job")
    /\ job' = [job EXCEPT !.pc = "flushing"]
    /\ UNCHANGED <<now, engine, disk, ticks, faults, written, gone>>

(* compact_ticks begins, with the clock of that moment: after the job's    *)
(* flush, or after 15 s of waiting for another's.  A date is a candidate   *)
(* when its partition exists.                                              *)
Compact ==
    /\ \/ job.pc = "flushing" /\ flush.by # "job"
       \/ job.pc = "flush" /\ flush # NoFlush
    /\ job' = [job EXCEPT !.pc = "visit", !.today = Today,
                          !.days = {d \in @ : d < Today /\ disk[d] # EmptyDate}]
    /\ UNCHANGED <<now, engine, buffer, flush, disk, ticks, faults, written, gone>>

Date == Min(job.days)
NextDate(j) == [j EXCEPT !.pc = "visit", !.days = @ \ {Date}, !.files = {}]

Rows(frags) == MapThenSumSet(Cardinality, frags)

(* Mutant of Absorbed: the compacted file must hold more than its fragments. *)
AbsorbedWithMore(frags, compact) ==
    UNION frags \subseteq compact /\ Rows(frags) < Cardinality(compact)

(* No row of the fragments is missing, and the compacted file has as many. *)
Absorbed(frags, compact) ==
    UNION frags \subseteq compact /\ Rows(frags) <= Cardinality(compact)

(* _compact_symbol_day up to its first write: nothing to do, torn          *)
(* fragments quarantined, leftovers to delete, an unverifiable mix left    *)
(* alone, or fragments to merge.                                           *)
Visit ==
    LET date == disk[Date]
        files == Cardinality(date.frags) + (IF date.compact = {} THEN 0 ELSE 1)
        sound == date.frags \ {{}}
    IN  /\ job.pc = "visit" /\ job.days # {} /\ engine = "up" /\ ~InWindow
        /\ IF files <= 1
           THEN /\ disk' = [disk EXCEPT ![Date].tmp = FALSE]
                /\ job' = NextDate(job)
           ELSE /\ disk' = [disk EXCEPT ![Date].frags = sound]
                /\ CASE sound = {} /\ date.compact = {} -> job' = NextDate(job)
                     [] sound = {} /\ date.compact # {} ->     \* reads an empty list of files
                            \E ok \in BOOLEAN : job' = [NextDate(job) EXCEPT !.ok = @ /\ ok]
                     [] sound # {} /\ date.compact = {} ->
                            job' = [job EXCEPT !.pc = "write", !.files = sound]
                     [] OTHER ->
                            job' = IF Absorbed(sound, date.compact)
                                   THEN [job EXCEPT !.pc = "unlink", !.files = sound]
                                   ELSE [NextDate(job) EXCEPT !.ok = FALSE]
        /\ UNCHANGED <<now, engine, buffer, flush, ticks, faults, written, gone>>

(* _write_compacted: a fragment that cannot be opened fails the date.      *)
WriteTmp ==
    LET opens == Truncated(Date) \notin job.files
    IN  /\ job.pc = "write"
        /\ disk' = [disk EXCEPT ![Date].tmp = opens]
        /\ job' = IF opens THEN [job EXCEPT !.pc = "swap"] ELSE [NextDate(job) EXCEPT !.ok = FALSE]
        /\ UNCHANGED <<now, engine, buffer, flush, ticks, faults, written, gone>>

(* os.replace: the compacted file appears, whole. *)
Swap ==
    /\ job.pc = "swap"
    /\ disk' = [disk EXCEPT ![Date].tmp = FALSE, ![Date].compact = UNION job.files]
    /\ job' = [job EXCEPT !.pc = "unlink"]
    /\ UNCHANGED <<now, engine, buffer, flush, ticks, faults, written, gone>>

(* The fragments that were read, one by one. *)
Unlink ==
    /\ job.pc = "unlink"
    /\ \E f \in job.files :
        /\ disk' = [disk EXCEPT ![Date].frags = @ \ {f}]
        /\ job' = IF job.files = {f} THEN NextDate(job) ELSE [job EXCEPT !.files = @ \ {f}]
    /\ UNCHANGED <<now, engine, buffer, flush, ticks, faults, written, gone>>

(* Any file operation may fail: the date is reported and left. *)
DateFails ==
    /\ job.pc \in {"write", "swap", "unlink"} /\ faults < MaxFaults
    /\ faults' = faults + 1
    /\ job' = [NextDate(job) EXCEPT !.ok = FALSE]
    /\ UNCHANGED <<now, engine, buffer, flush, disk, ticks, written, gone>>

(* The session window or the stop signal, polled before every date. *)
Stopped ==
    /\ job.pc = "visit" /\ job.days # {} /\ (InWindow \/ engine # "up")
    /\ job' = [job EXCEPT !.days = {}, !.stopped = TRUE]
    /\ UNCHANGED <<now, engine, buffer, flush, disk, ticks, faults, written, gone>>

Expired == {d \in Days : d + Retention < Today}

(* apply_tick_retention, after a clean pass; a shutdown may cancel it. *)
EndJob ==
    /\ job.pc = "visit" /\ job.days = {}
    /\ \/ /\ job.ok /\ ~job.stopped
          /\ disk' = [d \in Days |-> IF d \in Expired THEN EmptyDate ELSE disk[d]]
          /\ written' = {t \in written : t.day \notin Expired}
          /\ gone' = gone + Cardinality(written \ written')
       \/ /\ ~job.ok \/ job.stopped \/ engine # "up"
          /\ UNCHANGED <<disk, written, gone>>
    /\ job' = NoJob
    /\ UNCHANGED <<now, engine, buffer, flush, ticks, faults>>

JobWorks ==
    JobFlushes \/ Compact \/ Visit \/ WriteTmp \/ Swap \/ Unlink \/ Stopped \/ EndJob

-----------------------------------------------------------------------------
(* The process *)

Tick ==
    /\ now < 3 * LastDay + 2 /\ now' = now + 1
    /\ UNCHANGED <<engine, buffer, flush, job, disk, ticks, faults, written, gone>>

Stop ==
    /\ engine = "up" /\ faults < MaxFaults
    /\ engine' = "stopping" /\ faults' = faults + 1
    /\ UNCHANGED <<now, buffer, flush, job, disk, ticks, written, gone>>

(* MarketStore.close: its flush, once, if the lock comes free in 15 s. *)
CloseFlushes ==
    /\ engine = "stopping" /\ engine' = "closing"
    /\ Take("close") \/ (flush # NoFlush /\ UNCHANGED <<buffer, flush>>)
    /\ UNCHANGED <<now, job, disk, ticks, faults, written, gone>>

Close ==
    /\ engine = "closing" /\ flush.by # "close"
    /\ engine' = "closed"
    /\ UNCHANGED <<now, buffer, flush, job, disk, ticks, faults, written, gone>>

(* The end of the process: what is in memory is gone. *)
Ends(torn) ==
    /\ engine' = "down"
    /\ gone' = gone + Cardinality(buffer) + Cardinality(flush.todo)
    /\ buffer' = {} /\ flush' = NoFlush /\ job' = NoJob
    /\ disk' = IF torn = {} THEN disk ELSE [disk EXCEPT ![NextGroup].frags = @ \cup torn]
    /\ UNCHANGED <<now, ticks, written>>

Exit ==
    /\ engine = "closed" /\ flush = NoFlush /\ job.pc \in {"idle", "flush"}
    /\ Ends({}) /\ UNCHANGED faults

(* A COPY that the crash cuts short may leave a zero-byte file, or a       *)
(* larger one without its footer.                                          *)
Crash ==
    /\ engine # "down" /\ faults < MaxFaults
    /\ \/ Ends({})
       \/ flush # NoFlush /\ (Ends({{}}) \/ Ends({Truncated(NextGroup)}))
    /\ faults' = faults + 1

Boot ==
    /\ engine = "down" /\ engine' = "up"
    /\ UNCHANGED <<now, buffer, flush, job, disk, ticks, faults, written, gone>>

Process == CloseFlushes \/ Close \/ Exit \/ Boot

-----------------------------------------------------------------------------
Next ==
    \/ \E d \in 0 .. Today : StageTick(d) \/ StartJob(d)
    \/ FlushDue \/ FlushEnds \/ CopyFails
    \/ JobWorks \/ DateFails
    \/ Tick \/ Stop \/ Process \/ Crash

Spec == Init /\ [][Next]_vars

(* Threads run, the job is run for the last day again and again (the       *)
(* nightly slot, and the half-hourly sweep until it succeeded), a dead     *)
(* process is restarted.                                                   *)
JobRuns == StartJob(Today) \/ JobWorks

Fairness == WF_vars(Tick) /\ WF_vars(FlushEnds) /\ WF_vars(JobRuns) /\ WF_vars(Process)

LiveSpec == Spec /\ Fairness

-----------------------------------------------------------------------------
(* Properties *)

TypeOK ==
    /\ now \in 0 .. 3 * LastDay + 2 /\ engine \in {"up", "stopping", "closing", "closed", "down"}
    /\ flush.by \in {"none", "loop", "job", "close"} /\ (flush.todo = {} <=> flush = NoFlush)
    /\ job.pc \in {"idle", "flush", "flushing", "visit", "write", "swap", "unlink"}
    /\ job.files # {} => job.days # {}

Readable(d) == (UNION disk[d].frags) \cup disk[d].compact

(* A row that a flush has written stays in the files until its date is     *)
(* purged, whatever the compaction, a late flush or a crash does in        *)
(* between, and every staged tick is at one place: in the buffer, in the   *)
(* flush, in the files or gone, purged or given up by a crash, an exit or  *)
(* a failed COPY (_compact_symbol_day's swap before unlink,                *)
(* _flush_locked).                                                         *)
TicksKept ==
    LET kept == buffer \cup flush.todo \cup written
    IN  /\ \A t \in written : t \in Readable(t.day)
        /\ Cardinality(buffer) + Cardinality(flush.todo) + Cardinality(written) = Cardinality(kept)
        /\ Cardinality(kept) + gone = ticks

Doubled(d) == \E f \in disk[d].frags : f \cap disk[d].compact # {}
Verifiable(d) == UNION disk[d].frags \subseteq disk[d].compact

(* Rows that readers see twice after an interrupted unlink are repaired by *)
(* a later run, unless a late flush, or one cut short, added a fragment of *)
(* its own to the date (_compact_symbol_day's absorbed branch).            *)
DuplicatesRepaired ==
    \A d \in Days : Doubled(d) /\ Verifiable(d) ~> ~Doubled(d) \/ ~Verifiable(d)

(* The docstring's sentence, which the code does not keep: the writer      *)
(* never appends to a past date.                                           *)
ClosedDatesStayClosed ==
    [][\A d \in Days : d < Today /\ disk[d].compact # {} => disk[d].frags' \subseteq disk[d].frags]_vars
=============================================================================
