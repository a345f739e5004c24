--------------------------- MODULE MCSessionParts ---------------------------
(***************************************************************************)
(* Three parts that a login moves and that share no variable, checked in   *)
(* one run: a behaviour is of the broker session, of the ticker feed, or   *)
(* of what a login sets off.                                               *)
(***************************************************************************)
EXTENDS TickerFeed

CONSTANTS
    Calls, MaxTokens, CrashAllowed, KillAllowed,            \* of the session
    Logins, Boot, Jobs                                      \* of the recovery

VARIABLES
    part,
    minted, honoured, held_token, rejected, breaker_fired, flight, logins, clears, frozen,
    killed, refused, alerts, unwritten,
    armed, opened, recovery, in_flight, completed, hydration, pass, todo, resolved

sessionVars == <<minted, honoured, held_token, rejected, breaker_fired, flight, logins, clears,
                 frozen, killed, refused, alerts, unwritten>>
recoveryVars == <<armed, opened, recovery, in_flight, completed, hydration, pass, todo, resolved>>
allVars == <<part, vars, sessionVars, recoveryVars>>

Session == INSTANCE KiteSession WITH access_token <- held_token
Recovery == INSTANCE LoginRecovery

ASSUME PartsAssumption == Session!SessionAssumption /\ Recovery!RecoveryAssumption

(* A part that does not move has one initial state. *)
PartsInit ==
    /\ part \in {"session", "feed", "recovery"}
    /\ Init /\ Session!Init /\ Recovery!Init
    /\ part # "feed" => session_token = 0 /\ ~in_session
    /\ part # "session" => honoured = 1

Feeding(A) == part = "feed" /\ A /\ UNCHANGED <<part, sessionVars, recoveryVars>>
Recovering(A) == part = "recovery" /\ A /\ UNCHANGED <<part, vars, sessionVars>>

PartsNext ==
    \/ part = "session" /\ Session!Next /\ UNCHANGED <<part, vars, recoveryVars>>
    \/ Feeding(Next)
    \/ Recovering(Recovery!Next)

PartsSpec ==
    /\ PartsInit /\ [][PartsNext]_allVars
    /\ WF_allVars(Feeding(OnFeedHealth)) /\ WF_allVars(Feeding(LatchWork))
    /\ WF_allVars(Feeding(FindsExit)) /\ WF_allVars(Feeding(FindsSilence /\ UNCHANGED faults))
    /\ WF_allVars(Feeding(PublishedStale))
    /\ WF_allVars(Feeding(Respawn)) /\ WF_allVars(Feeding(RespawnTerminates))
    /\ WF_allVars(Feeding(SpawnChild))
    /\ WF_allVars(Feeding(StopCancelsMonitor)) /\ WF_allVars(Feeding(StopTerminates))
    /\ WF_allVars(Feeding(HandleFrame("heartbeat")))
    /\ \A h \in Logins \cup {Boot} : WF_allVars(Recovering(Recovery!Hydration(h)))
    /\ \A j \in Jobs : WF_allVars(Recovering(Recovery!JobEnds(j)))
    /\ WF_allVars(Recovering(Recovery!PassEnds))

(* A burst of rejected calls alerts the owner, once. *)
RejectionAlertedOnce == Session!OneAlertPerLogin /\ Session!RejectionIsAlerted

(* What a login sets off: the pre-open chain runs after the recovery and   *)
(* before the open, and every hydration ends.                              *)
LoginRunsItsCourse ==
    Recovery!ChainFollowsRecovery /\ Recovery!ChainInItsWindow /\ Recovery!HydrationEnds
=============================================================================
