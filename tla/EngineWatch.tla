---------------------------- MODULE EngineWatch ----------------------------
(***************************************************************************)
(* Whether the engine is up, and who says so: the engine's processes with  *)
(* the OS lock (ops/single_instance.py), the engine_lifecycle row of a     *)
(* start and a stop (ops/lifecycle.py), the heartbeat thread               *)
(* (ops/heartbeat.py), and the watchdog that reads the row once a minute,  *)
(* pages the owner and kills a wedged engine (scripts/watchdog.py).        *)
(*                                                                         *)
(* There is no clock: last_alive_at and started_at are kept as their ages, *)
(* up to the age that matters, and the watchdog's stamp by whether it is   *)
(* newer than last_alive_at.  A day has one scheduled start.               *)
(***************************************************************************)
EXTENDS Naturals, FiniteSets

CONSTANTS
    Pids, NoPid,
    DownStale, Grace,       \* down_stale_s and catchup_grace_s
    KillMayFail,            \* TerminateProcess may be refused
    MaxStrangers, MaxDeaths \* bounds: processes that reuse a pid, watchdog ticks that die

WatchAssumption ==
    /\ NoPid \notin Pids /\ IsFiniteSet(Pids) /\ KillMayFail \in BOOLEAN
    /\ {DownStale, Grace, MaxStrangers, MaxDeaths} \subseteq Nat

VARIABLES
    proc,           \* the process of each pid: "free", "stranger", or an engine's phase
    lock,           \* the holder of engine.lock
    row,            \* engine_lifecycle: state and pid
    heart,          \* the heartbeat thread: "off", "beating", "stuck"
    beat_age, start_age,
    stamped,        \* last_down_alert_at is not before last_alive_at
    due, covered,   \* start_grace_s after the day's start, and whether started_at is not before it
    told,           \* missed_start_alerted
    tick,           \* the watchdog's tick
    outage,         \* history: a run died, and none has taken over
    alarms,         \* history: pages for this last_alive_at, and for the missed start
    strangers, deaths

engine == <<proc, lock, row, heart, outage>>
times == <<beat_age, start_age, due>>
watchdog == <<stamped, told, tick, alarms, deaths>>
vars == <<engine, times, covered, watchdog, strangers>>

NoRow == [state |-> "none", pid |-> NoPid]
NoTick == [ at |-> "idle", seen |-> NoRow, wedged |-> FALSE, armed |-> FALSE, missed |-> FALSE,
            newer |-> FALSE, stamp |-> FALSE, mark |-> FALSE ]

Init ==
    /\ proc = [p \in Pids |-> "free"] /\ lock = NoPid /\ row = NoRow /\ heart = "off"
    /\ beat_age = 0 /\ start_age = 0 /\ due = FALSE
    /\ stamped = FALSE /\ covered = FALSE /\ told = FALSE
    /\ tick = NoTick /\ outage = FALSE /\ alarms = [down |-> 0, missed |-> 0]
    /\ strangers = 0 /\ deaths = 0

-----------------------------------------------------------------------------
pid_alive(p) == p # NoPid /\ proc[p] # "free"
Live == {"RUNNING", "STOPPING"}
Working == {"up", "stopping"}

Becomes(p, phase) == proc' = [proc EXCEPT ![p] = phase]

(* last_alive_at is written: newer than any stamp, and than a tick's now.  *)
Alive ==
    /\ beat_age' = 0 /\ stamped' = FALSE
    /\ tick' = IF tick.at = "idle" THEN tick ELSE [tick EXCEPT !.newer = TRUE]
    /\ alarms' = [alarms EXCEPT !.down = 0]

(* The process ends, and the kernel releases its lock. *)
Ends(p) ==
    /\ Becomes(p, "free")
    /\ lock' = IF lock = p THEN NoPid ELSE lock
    /\ heart' = IF proc[p] \in Working \cup {"stopped"} THEN "off" ELSE heart
    /\ outage' = (outage \/ proc[p] \in Working)

-----------------------------------------------------------------------------
(* Processes *)

(* Mutant of the next definition: the lock is free for whoever asks. *)
LockIsFree == TRUE

MayLock == lock = NoPid

(* The owner or the service manager starts one whenever they like; without *)
(* the lock it exits at once.                                              *)
Start(p) ==
    /\ proc[p] = "free" /\ MayLock
    /\ lock' = p /\ Becomes(p, "booting")
    /\ UNCHANGED <<row, heart, outage, times, covered, watchdog, strangers>>

(* The second guard, on the row: a live pid there refuses the start. *)
ReadPrior(p) ==
    /\ proc[p] = "booting"
    /\ IF row.state \in Live /\ row.pid # p /\ pid_alive(row.pid)
       THEN Ends(p) ELSE Becomes(p, "checked") /\ UNCHANGED <<lock, heart, outage>>
    /\ UNCHANGED <<row, times, covered, watchdog, strangers>>

CommitRunning(p) ==
    /\ proc[p] = "checked" /\ Becomes(p, "up")
    /\ row' = [state |-> "RUNNING", pid |-> p] /\ heart' = "beating"
    /\ outage' = FALSE /\ start_age' = 0 /\ covered' = due /\ Alive
    /\ UNCHANGED <<lock, due, told, deaths, strangers>>

(* shutdown marks STOPPING first; what may block it is waited for here. *)
MarkStopping(p) ==
    /\ proc[p] = "up" /\ Becomes(p, "stopping") /\ row' = [row EXCEPT !.state = "STOPPING"]
    /\ UNCHANGED <<lock, heart, outage, times, covered, watchdog, strangers>>

MarkStopped(p) ==
    /\ proc[p] = "stopping" /\ Becomes(p, "stopped") /\ row' = [row EXCEPT !.state = "STOPPED"]
    /\ UNCHANGED <<lock, heart, outage, times, covered, watchdog, strangers>>

(* The heartbeat is joined and the process exits; or it dies at any point. *)
Exit(p) ==
    /\ proc[p] # "free" /\ Ends(p)
    /\ UNCHANGED <<row, times, covered, watchdog, strangers>>

(* A process that is no engine gets the pid of one that ended. *)
Stranger(p) ==
    /\ proc[p] = "free" /\ strangers < MaxStrangers
    /\ strangers' = strangers + 1 /\ Becomes(p, "stranger")
    /\ UNCHANGED <<lock, row, heart, outage, times, covered, watchdog>>

Beat ==
    /\ heart = "beating" /\ Alive
    /\ UNCHANGED <<engine, start_age, due, covered, told, deaths, strangers>>

(* The thread hangs, or is heard again. *)
Stick ==
    /\ heart # "off" /\ heart' = IF heart = "beating" THEN "stuck" ELSE "beating"
    /\ UNCHANGED <<proc, lock, row, outage, times, covered, watchdog, strangers>>

(* A minute: a heart that beats is never heard less often. *)
TimePasses ==
    /\ heart = "beating" => beat_age = 0
    /\ beat_age' = IF beat_age > DownStale THEN beat_age ELSE beat_age + 1
    /\ start_age' = IF start_age > Grace THEN start_age ELSE start_age + 1
    /\ UNCHANGED <<engine, due, covered, watchdog, strangers>>

(* The grace after the scheduled start is over; a run may have begun in it. *)
StartDue ==
    /\ ~due /\ due' = TRUE
    /\ covered' \in {FALSE, row.pid # NoPid}
    /\ UNCHANGED <<engine, beat_age, start_age, watchdog, strangers>>

-----------------------------------------------------------------------------
(* The watchdog: one process per tick, never two at a time *)

At(at) == tick.at = at
UnchangedByWatchdog == UNCHANGED <<times, covered, strangers>>

(* now, read_snapshot and load_debounce; the pids are probed afterwards. *)
Read ==
    /\ At("idle")
    /\ tick' = [ NoTick EXCEPT
            !.at = "read", !.seen = row, !.armed = ~stamped,
            !.wedged = row.state = "RUNNING" /\ beat_age > DownStale /\ start_age > Grace,
            !.missed = due /\ ~covered /\ ~told ]
    /\ UNCHANGED <<engine, stamped, told, alarms, deaths>> /\ UnchangedByWatchdog

(* decide *)
Decide ==
    LET alive == pid_alive(tick.seen.pid)
        reported == tick.seen.state \in Live
        down == reported /\ (~alive \/ tick.wedged)
        missed == tick.missed /\ ~(reported /\ alive)
    IN  /\ At("read")
        /\ tick' = CASE down /\ tick.armed ->
                        [tick EXCEPT !.at = "alarm", !.wedged = @ /\ alive, !.missed = missed]
                     [] ~(down /\ tick.armed) /\ missed -> [NoTick EXCEPT !.at = "missed"]
                     [] OTHER -> NoTick
        /\ UNCHANGED <<engine, stamped, told, alarms, deaths>> /\ UnchangedByWatchdog

(* Mutant of the next definition: the page is stamped before it is sent. *)
StampedAnyway(ok) == TRUE

(* The page is stamped if it was delivered. *)
Stamped(ok) == ok

Count(n) == IF n > MaxDeaths THEN n ELSE n + 1
Onwards == IF tick.missed THEN "missed" ELSE "save"

(* ENGINE_DOWN is sent, and a wedged engine killed if that went through. *)
SendDown(ok) ==
    /\ At("alarm")
    /\ tick' = [tick EXCEPT !.stamp = Stamped(ok), !.at = IF ok /\ tick.wedged THEN "kill" ELSE Onwards]
    /\ alarms' = IF ok /\ ~tick.newer THEN [alarms EXCEPT !.down = Count(@)] ELSE alarms
    /\ UNCHANGED <<engine, stamped, told, deaths>> /\ UnchangedByWatchdog

(* force_kill, of whatever process has the pid by now. *)
Kill ==
    /\ At("kill") /\ tick' = [tick EXCEPT !.at = Onwards]
    /\ \/ pid_alive(tick.seen.pid) /\ Ends(tick.seen.pid) /\ UNCHANGED row
       \/ (KillMayFail \/ ~pid_alive(tick.seen.pid)) /\ UNCHANGED engine
    /\ UNCHANGED <<stamped, told, alarms, deaths>> /\ UnchangedByWatchdog

SendMissed(ok) ==
    /\ At("missed") /\ tick' = [tick EXCEPT !.mark = ok, !.at = "save"]
    /\ alarms' = IF ok THEN [alarms EXCEPT !.missed = Count(@)] ELSE alarms
    /\ UNCHANGED <<engine, stamped, told, deaths>> /\ UnchangedByWatchdog

(* save_debounce: the stamp is the now that the tick began with. *)
Save ==
    /\ At("save") /\ tick' = NoTick
    /\ stamped' = IF tick.stamp THEN ~tick.newer ELSE stamped
    /\ told' = (told \/ tick.mark)
    /\ UNCHANGED <<engine, alarms, deaths>> /\ UnchangedByWatchdog

TickDies ==
    /\ ~At("idle") /\ deaths < MaxDeaths /\ deaths' = deaths + 1 /\ tick' = NoTick
    /\ UNCHANGED <<engine, stamped, told, alarms>> /\ UnchangedByWatchdog

-----------------------------------------------------------------------------
Sends == \E ok \in BOOLEAN : SendDown(ok) \/ SendMissed(ok)
Watches == Read \/ Decide \/ Sends \/ Kill \/ Save

Next ==
    \/ \E p \in Pids :
        \/ Start(p) \/ ReadPrior(p) \/ CommitRunning(p)
        \/ MarkStopping(p) \/ MarkStopped(p) \/ Exit(p) \/ Stranger(p)
    \/ Beat \/ Stick \/ TimePasses \/ StartDue
    \/ Watches \/ TickDies

Spec == Init /\ [][Next]_vars

(* Time passes, the task scheduler runs the watchdog, its messages get     *)
(* through some time.  Nothing is assumed about the engine, which may hang *)
(* anywhere, nor that anybody starts it.                                   *)
Fairness ==
    /\ WF_vars(TimePasses) /\ WF_vars(Watches)
    /\ SF_vars(SendDown(TRUE)) /\ SF_vars(SendMissed(TRUE))

LiveSpec == Spec /\ Fairness

-----------------------------------------------------------------------------
(* Properties *)

TypeOK ==
    /\ proc \in [Pids -> {"free", "stranger", "booting", "checked", "up", "stopping", "stopped"}]
    /\ lock \in Pids \cup {NoPid} /\ heart \in {"off", "beating", "stuck"}
    /\ row \in [state : {"none", "RUNNING", "STOPPING", "STOPPED"}, pid : Pids \cup {NoPid}]
    /\ beat_age \in 0 .. DownStale + 1 /\ start_age \in 0 .. Grace + 1
    /\ {due, covered, told, stamped, outage} \subseteq BOOLEAN

(* The row is of the engine that runs, in its state, and when none does it *)
(* says whether the last one stopped or died: what the next boot calls     *)
(* crash_recovered, and what the watchdog pages.                           *)
StateOf(phase) ==
    CASE phase = "up" -> "RUNNING" [] phase = "stopping" -> "STOPPING" [] phase = "stopped" -> "STOPPED"

RowTellsOutage ==
    /\ \A p \in Pids : proc[p] \in Working \cup {"stopped"} =>
            row = [state |-> StateOf(proc[p]), pid |-> p]
    /\ (\A p \in Pids : proc[p] \notin Working) => (outage <=> row.state \in Live)

(* The owner is paged once for an outage, and once for a missed start,     *)
(* unless a tick dies after it has sent.                                   *)
OneAlarmPerOutage == alarms.down <= 1 + deaths /\ alarms.missed <= 1 + deaths

(* Again and again nothing is left to report: no death unpaged (unless     *)
(* another takes over or a process gets the pid), no hung engine that is   *)
(* not killed (one that is being stopped may hang unnoticed), and no       *)
(* missed start unpaged while nobody makes it up.                          *)
Unpaged == outage /\ alarms.down = 0 /\ ~pid_alive(row.pid)
Hung == heart = "stuck" /\ row.state = "RUNNING"
NotStarted == due /\ ~covered /\ alarms.missed = 0 /\ \A p \in Pids : proc[p] = "free"

OutagesHandled == []<>~(Unpaged \/ Hung \/ NotStarted)

(* "state == 'STOPPED' => SILENT" (scripts/watchdog.py): not for a clean   *)
(* stop that ends between the row's reading and the pid's probing.         *)
CleanStopIsSilent ==
    [][ At("read") /\ tick'.at = "alarm" => outage \/ heart = "stuck" ]_vars
=============================================================================
