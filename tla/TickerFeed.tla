---------------------------- MODULE TickerFeed ----------------------------
(***************************************************************************)
(* The ticker child under its TickerSupervisor (broker/ticker_supervisor), *)
(* the resume that starts it (ops/post_login.py), and the feed_stale cause *)
(* that feed.health drives (feed_health_to_latch in risk/causes.py).       *)
(*                                                                         *)
(* An action is what one coroutine does between two awaits.  Ages become   *)
(* choices: the monitor may find a silence or a warm-up that is too long   *)
(* when the child is mute, or when it misjudges.  The warm-up backoff and  *)
(* its one escalation to the owner only change when, and are left out.     *)
(***************************************************************************)
EXTENDS Naturals, Sequences

CONSTANTS
    MaxToken,       \* bound on the daily logins
    MaxFaults,      \* bound on failures of the child and misjudgements of the monitor
    StopAllowed     \* whether the engine may be stopped

ASSUME FeedAssumption ==
    MaxToken \in Nat \ {0} /\ MaxFaults \in Nat /\ StopAllowed \in BOOLEAN

VARIABLES
    state,          \* _state
    child,          \* the subprocess: none, up, mute (wedged or hung), exited
    child_token,    \* the access token it was handed over stdin
    access_token,   \* _access_token
    session_token,  \* SessionManager.access_token()
    draining,       \* the link of a terminated child still holds frames
    seen,           \* _last_frame_at is not None
    monitor,        \* _monitor_loop: none, watching, publishing, waiting for the lock, respawning
    lock,           \* _lock: free, or what its holder does
    starting,       \* tokens of the start calls that wait for the lock
    stopping,       \* no, waiting for the lock, done
    ready,          \* the event loop's queue: handlers of feed.health, detached latch work
    feed_stale,     \* the cause is active
    in_session, faults,
    lost            \* feed_stale latched, no child promoted to HEALTHY since (history)

feed == <<state, seen, lost>>
process == <<child, child_token, draining>>
tokens == <<access_token, session_token>>
control == <<monitor, lock, starting, stopping>>
latch == <<ready, feed_stale>>
world == <<in_session, faults>>
vars == <<feed, process, tokens, control, latch, world>>

Init ==
    /\ state = "STOPPED" /\ child = "none" /\ child_token = 0
    /\ access_token = 0 /\ session_token \in {0, 1}
    /\ draining = FALSE /\ seen = FALSE
    /\ monitor = "none" /\ lock = "free" /\ starting = <<>> /\ stopping = "no"
    /\ ready = <<>> /\ feed_stale = FALSE
    /\ in_session \in BOOLEAN /\ faults = 0 /\ lost = FALSE

Misjudges == faults < MaxFaults /\ faults' = faults + 1

-----------------------------------------------------------------------------
(***************************************************************************)
(* The handlers of feed.health and the work they detach run in the order   *)
(* they were scheduled; each writes the ledger before its first real await *)
(* (the page to the owner).                                                *)
(***************************************************************************)
Publishes(health) == ready' = Append(ready, health)

Delivered(health) == \A i \in 1 .. Len(ready) : ready[i] # health

OnFeedHealth ==
    /\ ready # <<>> /\ Head(ready) \in {"STALE", "HEALTHY"}
    /\ ready' = Tail(ready) \o
            CASE Head(ready) = "STALE" /\ in_session -> <<"set_cause">>
              [] Head(ready) = "HEALTHY" /\ feed_stale -> <<"clear_cause">>
              [] OTHER -> <<>>
    /\ UNCHANGED <<feed, process, tokens, control, feed_stale, world>>

LatchWork ==
    /\ ready # <<>> /\ Head(ready) \in {"set_cause", "clear_cause"}
    /\ ready' = Tail(ready)
    /\ feed_stale' = (Head(ready) = "set_cause")
    /\ lost' = (lost \/ Head(ready) = "set_cause")
    /\ UNCHANGED <<state, seen, process, tokens, control, world>>

-----------------------------------------------------------------------------
(* _handle_frame, with _mark_alive; the reader awaits what it publishes.   *)
Frame == {"heartbeat", "reconnect", "tick", "order"}

(* KiteTicker delivers nothing on a token the broker has rotated. *)
Sends(frame) == child = "up" /\ (frame \in {"heartbeat", "order"} \/ child_token = session_token)

(* Mutant of the next definition: a frame does not recover a STALE feed,   *)
(* and a heartbeat does not promote.                                       *)
RecoversOnTick(frame) == frame = "tick" /\ state \in {"STALE", "WARMING", "DEGRADED"}

Recovers(frame) ==
    \/ state = "STALE"
    \/ state = "WARMING" /\ frame # "order"
    \/ state = "DEGRADED" /\ frame = "tick"

HandleFrame(frame) ==
    /\ Delivered("HEALTHY")
    /\ Sends(frame) \/ draining
    /\ seen' = TRUE
    /\ state' = IF Recovers(frame) THEN "HEALTHY" ELSE state
    /\ lost' = (lost /\ ~(state = "WARMING" /\ state' = "HEALTHY"))
    /\ IF Recovers(frame) \/ (frame = "reconnect" /\ state = "HEALTHY")
       THEN Publishes("HEALTHY") ELSE UNCHANGED ready
    /\ UNCHANGED <<process, tokens, control, feed_stale, world>>

-----------------------------------------------------------------------------
(* _monitor_loop. *)
FindsExit ==
    /\ monitor = "watching" /\ child = "exited"
    /\ monitor' = "waiting"
    /\ UNCHANGED <<feed, process, tokens, lock, starting, stopping, latch, world>>

(* Frame silence while running, or a warm-up that takes too long. *)
FindsSilence ==
    /\ monitor = "watching" /\ child \in {"up", "mute"}
    /\ state = "WARMING" \/ seen
    /\ \/ child = "mute" /\ UNCHANGED faults
       \/ child = "up" /\ Misjudges
    /\ state' = "STALE" /\ Publishes("STALE")
    /\ monitor' = "publishing"
    /\ UNCHANGED <<seen, lost, process, tokens, lock, starting, stopping, feed_stale, in_session>>

PublishedStale ==
    /\ monitor = "publishing" /\ Delivered("STALE")
    /\ monitor' = "waiting"
    /\ UNCHANGED <<feed, process, tokens, lock, starting, stopping, latch, world>>

(* _check_tick_silence; the handlers of feed.health ignore DEGRADED. *)
FindsTickSilence ==
    /\ monitor = "watching" /\ child \in {"up", "mute"}
    /\ state = "HEALTHY" /\ in_session
    /\ state' = "DEGRADED"
    /\ UNCHANGED <<seen, lost, process, tokens, control, latch, world>>

(* _respawn: terminate the child first, cancel the reader, spawn anew. *)
Respawn ==
    /\ monitor = "waiting" /\ lock = "free"
    /\ monitor' = "respawning" /\ lock' = "respawn"
    /\ UNCHANGED <<feed, process, tokens, starting, stopping, latch, world>>

RespawnTerminates ==
    /\ lock = "respawn"
    /\ child' = "none" /\ lock' = "spawn"
    /\ draining' \in {FALSE, child # "exited"}
    /\ UNCHANGED <<feed, child_token, tokens, monitor, starting, stopping, latch, world>>

(***************************************************************************)
(* _spawn_child, the old link closed: a new child with the token start was *)
(* given, and a new monitor.  The start calls that wait find it running    *)
(* when the lock is released, one turn of the loop later, and do nothing.  *)
(***************************************************************************)
SpawnChild ==
    /\ lock = "spawn"
    /\ child' = "up" /\ child_token' = access_token /\ draining' = FALSE
    /\ seen' = FALSE /\ state' = "WARMING"
    /\ monitor' = "watching"
    /\ lock' = "free" /\ starting' = <<>>
    /\ UNCHANGED <<lost, tokens, stopping, latch, world>>

(***************************************************************************)
(* ... or the process cannot be created.  What was raised ends the monitor *)
(* that respawns, with the state it had found, or the start call; nothing  *)
(* is retried, and resume_ticker starts only a STOPPED feed.               *)
(***************************************************************************)
SpawnFails ==
    /\ lock = "spawn" /\ Misjudges
    /\ lock' = "free" /\ draining' = FALSE
    /\ IF monitor = "respawning"
       THEN monitor' = "none" /\ UNCHANGED starting
       ELSE starting' = Tail(starting) /\ UNCHANGED monitor
    /\ UNCHANGED <<feed, child, child_token, tokens, stopping, latch, in_session>>

-----------------------------------------------------------------------------
(* complete_login, and resume_ticker from its recovery or from startup.    *)
Login ==
    /\ session_token < MaxToken /\ session_token' = session_token + 1
    /\ UNCHANGED <<feed, process, access_token, control, latch, world>>

ResumeTicker ==
    /\ session_token > 0 /\ state = "STOPPED" /\ Len(starting) < 2
    /\ starting' = Append(starting, session_token)
    /\ UNCHANGED <<feed, process, tokens, monitor, lock, stopping, latch, world>>

Start ==
    /\ lock = "free" /\ starting # <<>>
    /\ IF child \in {"up", "mute"}
       THEN starting' = Tail(starting) /\ UNCHANGED <<access_token, lock>>
       ELSE /\ access_token' = Head(starting)
            /\ lock' = "spawn" /\ UNCHANGED starting
    /\ UNCHANGED <<feed, process, session_token, monitor, stopping, latch, world>>

StopCalled ==
    /\ StopAllowed /\ stopping = "no" /\ stopping' = "waiting"
    /\ UNCHANGED <<feed, process, tokens, monitor, lock, starting, latch, world>>

(* Mutant of the next definition: the monitor is not cancelled. *)
StopLeavesMonitor ==
    /\ stopping = "waiting" /\ lock = "free" /\ lock' = "stop"
    /\ UNCHANGED <<feed, process, tokens, starting, monitor, stopping, latch, world>>

(* stop: the monitor first; its cancellation takes back what it published. *)
StopCancelsMonitor ==
    /\ stopping = "waiting" /\ lock = "free" /\ lock' = "stop"
    /\ monitor' = "none"
    /\ ready' = IF monitor = "publishing" THEN SelectSeq(ready, LAMBDA e : e # "STALE") ELSE ready
    /\ UNCHANGED <<feed, process, tokens, starting, stopping, feed_stale, world>>

StopTerminates ==
    /\ lock = "stop" /\ lock' = "free" /\ stopping' = "done"
    /\ child' = "none" /\ state' = "STOPPED"
    /\ UNCHANGED <<seen, lost, child_token, draining, tokens, monitor, starting, latch, world>>

-----------------------------------------------------------------------------
ChildFails ==
    /\ child = "up" /\ Misjudges
    /\ child' \in {"mute", "exited"}
    /\ UNCHANGED <<feed, child_token, draining, tokens, control, latch, in_session>>

(* KiteTicker gives up on a rotated token: the child stops itself. *)
ChildGivesUp ==
    /\ child \in {"up", "mute"} /\ child_token # session_token /\ Misjudges
    /\ child' = "exited"
    /\ UNCHANGED <<feed, child_token, draining, tokens, control, latch, in_session>>

SessionBell ==
    /\ in_session' = ~in_session
    /\ UNCHANGED <<feed, process, tokens, control, latch, faults>>

Monitor == FindsExit \/ FindsSilence \/ PublishedStale \/ FindsTickSilence

Supervision ==
    \/ Respawn \/ RespawnTerminates \/ SpawnChild \/ SpawnFails
    \/ Start \/ StopCancelsMonitor \/ StopTerminates

Next ==
    \/ Monitor \/ Supervision \/ OnFeedHealth \/ LatchWork
    \/ \E frame \in Frame : HandleFrame(frame)
    \/ Login \/ ResumeTicker \/ StopCalled \/ ChildFails \/ ChildGivesUp \/ SessionBell

(***************************************************************************)
(* The event loop runs what is ready, the monitor cycles every second and  *)
(* finds a mute or dead child, and a child that is up heartbeats.          *)
(***************************************************************************)
Spec ==
    /\ Init /\ [][Next]_vars
    /\ WF_vars(OnFeedHealth) /\ WF_vars(LatchWork)
    /\ WF_vars(FindsExit) /\ WF_vars(FindsSilence /\ UNCHANGED faults) /\ WF_vars(PublishedStale)
    /\ WF_vars(Respawn) /\ WF_vars(RespawnTerminates) /\ WF_vars(SpawnChild)
    /\ WF_vars(StopCancelsMonitor) /\ WF_vars(StopTerminates)
    /\ WF_vars(HandleFrame("heartbeat"))

-----------------------------------------------------------------------------
TypeOK ==
    /\ state \in {"STOPPED", "WARMING", "HEALTHY", "DEGRADED", "STALE"}
    /\ child \in {"none", "up", "mute", "exited"}
    /\ {child_token, access_token, session_token} \subseteq 0 .. MaxToken
    /\ {draining, seen, feed_stale, in_session, lost} \subseteq BOOLEAN
    /\ monitor \in {"none", "watching", "publishing", "waiting", "respawning"}
    /\ lock \in {"free", "spawn", "respawn", "stop"}
    /\ starting \in Seq(1 .. MaxToken) /\ stopping \in {"no", "waiting", "done"}
    /\ ready \in Seq({"STALE", "HEALTHY", "set_cause", "clear_cause"})
    /\ faults \in 0 .. MaxFaults

(***************************************************************************)
(* start, stop and respawn under one lock: whenever it is free, there is a *)
(* monitor exactly when there is a child, so that no child is left         *)
(* unwatched, and no monitor is left that would respawn after a stop.      *)
(***************************************************************************)
WatchedExactlyWhileSpawned == lock = "free" => (monitor = "none" <=> child = "none")

(***************************************************************************)
(* _set_state and _spawn_child: a child is only ever taken for running     *)
(* once a frame arrived that was sent after its spawn.                     *)
(***************************************************************************)
RunningOnOwnEvidence ==
    (lock = "free" /\ child # "none" /\ state \in {"HEALTHY", "DEGRADED"}) => seen

(* A failed respawn left neither child nor monitor, and a state that no    *)
(* start call accepts.                                                     *)
Abandoned == lock = "free" /\ child = "none" /\ state # "STOPPED"

(***************************************************************************)
(* feed_health_to_latch: "cleared on its next HEALTHY one".  A feed_stale  *)
(* freeze does not outlast the feed's recovery, also when the clear's      *)
(* check of the ledger ran ahead of the detached latch it should undo,     *)
(* because a STALE feed is respawned and reaches HEALTHY again; unless the *)
(* respawn could not create its process.                                   *)
(***************************************************************************)
FeedFreezeLifts == feed_stale ~> (~feed_stale \/ stopping # "no" \/ Abandoned)

(***************************************************************************)
(* FeedHealth: a frame silence "kills + respawns the child", and STALE "is *)
(* recoverable".  Without the exception: a lost feed thaws.                *)
(***************************************************************************)
LostFeedRecovers == feed_stale ~> (~feed_stale \/ stopping # "no")

(***************************************************************************)
(* FeedHealth: "STOPPED -- no child running".  Once the lock is released,  *)
(* a feed without a child says so, which is what resume_ticker asks for.   *)
(***************************************************************************)
ChildlessReadsStopped == ~Abandoned

(***************************************************************************)
(* ticker/main.py: a child that gave up stops "so the engine respawns us   *)
(* with a fresh token (the usual cause is an expired access token)".       *)
(***************************************************************************)
RespawnTakesFreshToken ==
    [][ (monitor = "respawning" /\ child = "none" /\ child' = "up") =>
            child_token' = session_token ]_vars

(***************************************************************************)
(* feed_health_to_latch: "a respawned feed must reach HEALTHY first".  A   *)
(* feed that went STALE in session stays frozen while its successor warms  *)
(* up.                                                                     *)
(***************************************************************************)
LostFeedStaysFrozen == (lost /\ state = "WARMING" /\ ready = <<>>) => feed_stale
=============================================================================
