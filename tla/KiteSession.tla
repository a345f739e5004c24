---------------------------- MODULE KiteSession ----------------------------
(***************************************************************************)
(* The daily Kite token: SessionManager (broker/session.py), the breaker   *)
(* KiteClient fires on a TokenException, and the hooks ops/main.py wires   *)
(* to it (freeze entries and alert; clear the freeze on a login).          *)
(*                                                                         *)
(* Tokens are numbered as the broker mints them.  Every exchange with the  *)
(* broker runs in an executor thread: it leaves with the token the client  *)
(* holds then, the broker judges it, and the answer is handled on the      *)
(* event loop, any time later and in any order.                            *)
(***************************************************************************)
EXTENDS Naturals

CONSTANTS
    Calls,          \* REST calls that may be in flight
    MaxTokens,      \* bound on the tokens the broker mints
    CrashAllowed,   \* whether the process may die
    KillAllowed     \* whether the kill switch may be engaged

SessionAssumption ==
    /\ MaxTokens \in Nat \ {0}
    /\ CrashAllowed \in BOOLEAN /\ KillAllowed \in BOOLEAN

Token == 1 .. MaxTokens
None == 0

VARIABLES
    minted, honoured,   \* the broker: latest token, and the one it honours (None: rotated)
    access_token,       \* held by the session and persisted (Secrets)
    rejected,           \* _rejected
    breaker_fired,      \* _breaker_fired
    flight,             \* the call or the boot probe in flight: token carried, verdict
    logins,             \* tokens minted by a complete_login that has not resumed yet
    clears,             \* _clear_token_freeze tasks that have not run
    frozen,             \* cause kite_token_rejected is active in the ledger
    killed,             \* KillSwitch.is_killed
    refused, alerts,    \* live rejections, alerts begun, since the login or boot (history)
    unwritten           \* the breaker's write to the ledger failed in that time (history)

broker == <<minted, honoured>>
session == <<access_token, rejected, breaker_fired>>
history == <<refused, alerts, unwritten>>
vars == <<broker, session, flight, logins, clears, frozen, killed, history>>

Exchanges == Calls \cup {"boot probe"}
Grounded == [token |-> None, verdict |-> "none"]

(* A boot on a token of an earlier day, which may or may not be honoured. *)
Init ==
    /\ minted = 1 /\ honoured \in {None, 1}
    /\ access_token = 1 /\ rejected = FALSE /\ breaker_fired = FALSE
    /\ flight = [e \in Exchanges |->
                    IF e = "boot probe" THEN [token |-> None, verdict |-> "due"] ELSE Grounded]
    /\ logins = {} /\ clears = 0
    /\ frozen = FALSE /\ killed = FALSE
    /\ refused = FALSE /\ alerts = 0 /\ unwritten = FALSE

token_valid == ~rejected
-----------------------------------------------------------------------------
(* The broker's side. *)
Rotates ==
    /\ honoured # None /\ honoured' = None
    /\ UNCHANGED <<minted, session, flight, logins, clears, frozen, killed, history>>

(* generate_session: a new token supersedes the one before. *)
Mints ==
    /\ minted < MaxTokens
    /\ minted' = minted + 1 /\ honoured' = minted + 1
    /\ logins' = logins \cup {minted + 1}
    /\ UNCHANGED <<session, flight, clears, frozen, killed, history>>

Judges(e) ==
    /\ flight[e].verdict = "sent"
    /\ \E verdict \in {IF flight[e].token = honoured THEN "accepted" ELSE "rejected", "error"} :
           flight' = [flight EXCEPT ![e].verdict = verdict]
    /\ UNCHANGED <<broker, session, logins, clears, frozen, killed, history>>

-----------------------------------------------------------------------------
Leaves(e) ==
    /\ flight' = [flight EXCEPT ![e] = [token |-> access_token, verdict |-> "sent"]]
    /\ UNCHANGED <<broker, session, logins, clears, frozen, killed, history>>

(* Once at startup; the login callback is served before. *)
ProbeLeaves == flight["boot probe"].verdict = "due" /\ Leaves("boot probe")

CallLeaves(c) == flight[c] = Grounded /\ Leaves(c)

Lands(e) == flight' = [flight EXCEPT ![e] = Grounded]

(* Anything but a TokenException changes nothing, for the probe or a call. *)
ReturnsUnrejected(e) ==
    /\ flight[e].verdict \in {"accepted", "error"}
    /\ Lands(e)
    /\ UNCHANGED <<broker, session, logins, clears, frozen, killed, history>>

(* The probe marks the token, and leaves the breaker and the owner alone. *)
ProbeRejected ==
    /\ flight["boot probe"].verdict = "rejected"
    /\ Lands("boot probe")
    /\ rejected' = TRUE
    /\ UNCHANGED <<broker, access_token, breaker_fired, logins, clears, frozen, killed, history>>

(* Mutant of the next definition: deduplicated on _rejected. *)
AlreadyRejected == rejected

Already == breaker_fired

(***************************************************************************)
(* on_token_rejected and its hook, as far as the first real await: the     *)
(* page to the owner, behind the write of the cause.  freeze_entries does  *)
(* nothing on a killed engine.  A write that raises, before or after its   *)
(* commit, takes the hook with it: the breaker is spent without an alert.  *)
(***************************************************************************)
CallRejected(c) ==
    /\ flight[c].verdict = "rejected"
    /\ Lands(c)
    /\ rejected' = TRUE /\ refused' = TRUE
    /\ breaker_fired' = TRUE
    /\ \/ /\ frozen' = (frozen \/ (~Already /\ ~killed))
          /\ alerts' = IF Already THEN alerts ELSE alerts + 1
          /\ UNCHANGED unwritten
       \/ /\ ~Already /\ ~killed
          /\ frozen' \in {frozen, TRUE} /\ unwritten' = TRUE
          /\ UNCHANGED alerts
    /\ UNCHANGED <<broker, access_token, logins, clears, killed>>

(* complete_login resumes: by the dashboard's callback, or by /token. *)
LoginReturns(t) ==
    /\ t \in logins /\ logins' = logins \ {t}
    /\ access_token' = t /\ rejected' = FALSE /\ breaker_fired' = FALSE
    /\ clears' = clears + 1
    /\ refused' = FALSE /\ alerts' = 0 /\ unwritten' = FALSE
    /\ UNCHANGED <<broker, flight, frozen, killed>>

ClearTokenFreeze ==
    /\ clears > 0 /\ clears' = clears - 1
    /\ frozen' = FALSE
    /\ UNCHANGED <<broker, session, flight, logins, killed, history>>

Kill ==
    /\ KillAllowed /\ killed' = ~killed
    /\ UNCHANGED <<broker, session, flight, logins, clears, frozen, history>>

(* The token and the ledger are persisted; the rest is lost. *)
Restart ==
    /\ CrashAllowed
    /\ rejected' = FALSE /\ breaker_fired' = FALSE
    /\ flight' = [e \in Exchanges |->
                    IF e = "boot probe" THEN [token |-> None, verdict |-> "due"] ELSE Grounded]
    /\ logins' = {} /\ clears' = 0
    /\ refused' = FALSE /\ alerts' = 0 /\ unwritten' = FALSE
    /\ UNCHANGED <<broker, access_token, frozen, killed>>

Next ==
    \/ Rotates \/ Mints \/ (\E e \in Exchanges : Judges(e) \/ ReturnsUnrejected(e))
    \/ ProbeLeaves \/ ProbeRejected
    \/ \E c \in Calls : CallLeaves(c) \/ CallRejected(c)
    \/ \E t \in Token : LoginReturns(t)
    \/ ClearTokenFreeze \/ Kill \/ Restart

Spec == Init /\ [][Next]_vars

-----------------------------------------------------------------------------
Verdict == {"none", "due", "sent", "accepted", "rejected", "error"}

TypeOK ==
    /\ minted \in Token /\ honoured \in {None, minted}
    /\ access_token \in 1 .. minted
    /\ rejected \in BOOLEAN /\ breaker_fired \in BOOLEAN
    /\ flight \in [Exchanges -> [token : {None} \cup (1 .. minted), verdict : Verdict]]
    /\ logins \subseteq 2 .. minted /\ clears \in 0 .. MaxTokens
    /\ frozen \in BOOLEAN /\ killed \in BOOLEAN
    /\ {refused, unwritten} \subseteq BOOLEAN /\ alerts \in Nat

(***************************************************************************)
(* on_token_rejected: "repeated 403s in a burst only fire the hook the     *)
(* first time", however many calls with the dead token are in flight.      *)
(***************************************************************************)
OneAlertPerLogin == alerts <= 1

(***************************************************************************)
(* The suppression incident of 2026-08-20: the first live rejection since  *)
(* the login or boot alerts the owner, also when the boot probe, or a late *)
(* answer, has marked the token rejected before; unless the hook failed    *)
(* before it could.                                                        *)
(***************************************************************************)
RejectionIsAlerted == refused => alerts > 0 \/ unwritten

(***************************************************************************)
(* ops/main.py: on the first TokenException of a burst "entries FREEZE and *)
(* the owner is alerted".  Without the exception.                          *)
(***************************************************************************)
RejectionReachesOwner == refused => alerts > 0

(***************************************************************************)
(* A token freeze has an end in sight: either the breaker that latched it  *)
(* is still armed for the next login, or a login has scheduled the task    *)
(* that clears it.  Only a restart may lose both.                          *)
(***************************************************************************)
FreezeHasOwner == frozen => breaker_fired \/ clears > 0

FreezeKeepsOwner == [][ FreezeHasOwner => FreezeHasOwner' \/ Restart ]_vars

(***************************************************************************)
(* "A token the broker still honours ... stays usable": the session does   *)
(* not call a token rejected that the broker honours.                      *)
(***************************************************************************)
HonouredTokenUsable == access_token = honoured => token_valid

(***************************************************************************)
(* ops/main.py: the first TokenException of a burst fires the hook "so     *)
(* entries FREEZE and the owner is alerted".  While the token stands       *)
(* rejected by a live call, entries are frozen, by this cause or a kill.   *)
(***************************************************************************)
RejectedMeansFrozen == (breaker_fired /\ rejected) => frozen \/ killed
=============================================================================
