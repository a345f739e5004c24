---------------------------- MODULE BrokerProofs ----------------------------
(***************************************************************************)
(* Theorems about the two brokers: the session with Kite and its ticker    *)
(* feed, and the paper broker that stands in for its order book.           *)
(*                                                                         *)
(* The feed: the supervisor's lock keeps the child and its monitor         *)
(* together, for any number of logins, faults and start calls, and a feed  *)
(* that is taken for running has been heard.  The session's breaker alerts *)
(* once for a login, and what a login sets off keeps its order.            *)
(*                                                                         *)
(* The paper broker, for any orders, triggers, symbols, prices, sizes,     *)
(* shares, lengths of a day and behaviour of the feed: one tick lapses,    *)
(* fills, ends or charges any number of orders, and then may book one more *)
(* for a trigger.  Passed says what the first half may have made of each   *)
(* order (Fate); the second half books an absent one.                      *)
(***************************************************************************)
EXTENDS MCSessionParts, PaperBroker, FiniteSetTheorems, TLAPS

(* stop cancels the monitor before it terminates the child: between the    *)
(* two the lock is held and no monitor is left.                            *)
StopFirstCancels == lock = "stop" => monitor = "none"

(* Who holds the lock: a monitor that respawns, from the termination to    *)
(* the spawn, or a start that found the lock free.                         *)
LockHasHolder ==
    /\ lock = "respawn" => monitor = "respawning"
    /\ monitor = "respawning" => lock \in {"respawn", "spawn"}
    /\ lock = "spawn" => IF monitor = "respawning" THEN child = "none"
                         ELSE (monitor = "none" <=> child = "none")

(* Every way to a running state goes through a frame of the current child. *)
RunningWasHeard == state \in {"HEALTHY", "DEGRADED"} => seen

Supervised ==
    /\ WatchedExactlyWhileSpawned
    /\ StopFirstCancels
    /\ LockHasHolder
    /\ RunningWasHeard

(***************************************************************************)
(* _monitor_loop changes the monitor from one live state to another and    *)
(* never takes the child away; a silence is found only of a live child.    *)
(***************************************************************************)
LEMMA MonitorKeeps ==
    ASSUME Supervised, Monitor
    PROVE  Supervised'
<1> USE DEF Supervised, WatchedExactlyWhileSpawned, StopFirstCancels, LockHasHolder,
            RunningWasHeard, feed, process, tokens, latch, world
<1>1. CASE FindsExit BY <1>1 DEF FindsExit
<1>2. CASE FindsSilence BY <1>2 DEF FindsSilence
<1>3. CASE PublishedStale BY <1>3 DEF PublishedStale
<1>4. CASE FindsTickSilence
  <2>1. seen /\ seen' = seen /\ child # "none" /\ UNCHANGED <<child, monitor, lock>>
        BY <1>4 DEF FindsTickSilence, control
  <2> QED BY <2>1
<1> QED BY <1>1, <1>2, <1>3, <1>4 DEF Monitor

(***************************************************************************)
(* start, stop and respawn: the lock is taken from free, the child is only *)
(* taken away or spawned under it, and it is freed with both or neither,   *)
(* also by a spawn that fails.                                             *)
(***************************************************************************)
LEMMA SupervisionKeeps ==
    ASSUME Supervised, Supervision
    PROVE  Supervised'
<1> USE DEF Supervised, WatchedExactlyWhileSpawned, StopFirstCancels, LockHasHolder,
            RunningWasHeard, feed, process, tokens, latch, world
<1>1. CASE Respawn BY <1>1 DEF Respawn
<1>2. CASE RespawnTerminates BY <1>2 DEF RespawnTerminates
<1>3. CASE SpawnChild \/ SpawnFails BY <1>3 DEF SpawnChild, SpawnFails
<1>4. CASE Start BY <1>4 DEF Start
<1>5. CASE StopCancelsMonitor BY <1>5 DEF StopCancelsMonitor
<1>6. CASE StopTerminates BY <1>6 DEF StopTerminates
<1> QED BY <1>1, <1>2, <1>3, <1>4, <1>5, <1>6 DEF Supervision

(***************************************************************************)
(* _handle_frame: a frame, also one a killed child left in its link, marks *)
(* the feed as heard before it may promote it, and revives no STOPPED one. *)
(***************************************************************************)
LEMMA FrameKeeps ==
    ASSUME Supervised, NEW frame \in Frame, HandleFrame(frame)
    PROVE  Supervised'
<1>1. seen' = TRUE /\ UNCHANGED <<child, monitor, lock>>
      BY DEF HandleFrame, process, control
<1>2. state = "STOPPED" => state' = "STOPPED"
      BY DEF HandleFrame, Recovers
<1> QED BY <1>1, <1>2 DEF Supervised, WatchedExactlyWhileSpawned, StopFirstCancels,
                          LockHasHolder, RunningWasHeard

(* What the child, the owner, the broker and the event bus do moves neither *)
(* the lock nor the monitor, and ends a child without taking it away.       *)
LEMMA OthersKeep ==
    ASSUME Supervised,
           OnFeedHealth \/ LatchWork \/ Login \/ ResumeTicker \/ StopCalled
           \/ ChildFails \/ ChildGivesUp \/ SessionBell
    PROVE  Supervised'
<1>1. UNCHANGED <<state, seen, monitor, lock>>
      BY DEF OnFeedHealth, LatchWork, Login, ResumeTicker, StopCalled, ChildFails, ChildGivesUp,
             SessionBell, feed, control
<1>2. child = "none" <=> child' = "none"
      BY DEF OnFeedHealth, LatchWork, Login, ResumeTicker, StopCalled, ChildFails, ChildGivesUp,
             SessionBell, process
<1> QED BY <1>1, <1>2 DEF Supervised, WatchedExactlyWhileSpawned, StopFirstCancels,
                          LockHasHolder, RunningWasHeard

(***************************************************************************)
(* The supervisor's invariant: whatever start calls, respawns, a stop,     *)
(* frames of a dead child and failures do, in any order.                   *)
(***************************************************************************)
THEOREM FeedSupervised == Spec => []Supervised
<1>1. Init => Supervised
      BY DEF Init, Supervised, WatchedExactlyWhileSpawned, StopFirstCancels, LockHasHolder,
             RunningWasHeard
<1>2. Supervised /\ [Next]_vars => Supervised'
  <2> SUFFICES ASSUME Supervised, [Next]_vars PROVE Supervised'
      OBVIOUS
  <2>1. CASE UNCHANGED vars
        BY <2>1 DEF vars, feed, process, control, Supervised, WatchedExactlyWhileSpawned,
                    StopFirstCancels, LockHasHolder, RunningWasHeard
  <2>2. CASE Monitor BY <2>2, MonitorKeeps
  <2>3. CASE Supervision BY <2>3, SupervisionKeeps
  <2>4. CASE \E frame \in Frame : HandleFrame(frame) BY <2>4, FrameKeeps
  <2>5. CASE OnFeedHealth \/ LatchWork \/ Login \/ ResumeTicker \/ StopCalled
             \/ ChildFails \/ ChildGivesUp \/ SessionBell
        BY <2>5, OthersKeep
  <2> QED BY <2>1, <2>2, <2>3, <2>4, <2>5 DEF Next
<1> QED BY <1>1, <1>2, PTL DEF Spec

(***************************************************************************)
(* start, stop and respawn under one lock: no child is left unwatched and  *)
(* no monitor is left that would respawn after a stop.                     *)
(***************************************************************************)
THEOREM ChildIsWatched == Spec => []WatchedExactlyWhileSpawned
<1>1. Supervised => WatchedExactlyWhileSpawned
      BY DEF Supervised
<1> QED BY <1>1, FeedSupervised, PTL

(***************************************************************************)
(* _spawn_child and _mark_alive: a child is taken for running only on a    *)
(* frame that arrived after its spawn.                                     *)
(***************************************************************************)
THEOREM RunningIsHeard == Spec => []RunningOnOwnEvidence
<1>1. Supervised => RunningOnOwnEvidence
      BY DEF Supervised, RunningWasHeard, RunningOnOwnEvidence
<1> QED BY <1>1, FeedSupervised, PTL

-----------------------------------------------------------------------------
(* The breaker counts: it has fired exactly when the alert of this login   *)
(* was begun or its hook failed, and whatever a live call was refused with *)
(* has fired it.                                                           *)
BreakerTellsAlerts ==
    /\ breaker_fired \in BOOLEAN /\ unwritten \in BOOLEAN
    /\ alerts = IF breaker_fired /\ ~unwritten THEN 1 ELSE 0
    /\ refused \/ unwritten => breaker_fired

(* Every step of the session keeps them together: an exchange judged after *)
(* a login is judged against the token it carried.                         *)
LEMMA SessionStep ==
    ASSUME BreakerTellsAlerts, Session!Next
    PROVE  BreakerTellsAlerts'
<1> USE DEF BreakerTellsAlerts, Session!session, Session!history
<1>1. CASE Session!Rotates \/ Session!Mints \/ Session!ProbeLeaves \/ Session!ClearTokenFreeze
           \/ Session!Kill
  <2>1. UNCHANGED <<breaker_fired, refused, alerts, unwritten>>
    BY <1>1 DEF Session!Rotates, Session!Mints, Session!ProbeLeaves, Session!Leaves,
                Session!ClearTokenFreeze, Session!Kill
  <2> QED BY <2>1
<1>2. ASSUME NEW e \in Session!Exchanges, Session!Judges(e) \/ Session!ReturnsUnrejected(e)
      PROVE  BreakerTellsAlerts'
  BY <1>2 DEF Session!Judges, Session!ReturnsUnrejected
<1>3. CASE Session!ProbeRejected
  BY <1>3 DEF Session!ProbeRejected
<1>4. ASSUME NEW c \in Calls, Session!CallLeaves(c)
      PROVE  BreakerTellsAlerts'
  BY <1>4 DEF Session!CallLeaves, Session!Leaves
<1>5. ASSUME NEW c \in Calls, Session!CallRejected(c)
      PROVE  BreakerTellsAlerts'
  <2>1. breaker_fired' = TRUE
    BY <1>5 DEF Session!CallRejected
  <2>2. CASE alerts' = (IF breaker_fired THEN alerts ELSE alerts + 1) /\ unwritten' = unwritten
    <3>1. CASE breaker_fired BY <2>1, <2>2, <3>1
    <3>2. CASE ~breaker_fired BY <2>1, <2>2, <3>2
    <3> QED BY <3>1, <3>2
  <2>3. CASE ~breaker_fired /\ unwritten' = TRUE /\ alerts' = alerts
    BY <2>1, <2>3
  <2> QED BY <1>5, <2>2, <2>3 DEF Session!CallRejected, Session!Already
<1>6. ASSUME NEW t \in Session!Token, Session!LoginReturns(t)
      PROVE  BreakerTellsAlerts'
  BY <1>6 DEF Session!LoginReturns
<1>7. CASE Session!Restart
  BY <1>7 DEF Session!Restart
<1> QED BY <1>1, <1>2, <1>3, <1>4, <1>5, <1>6, <1>7 DEF Session!Next

(***************************************************************************)
(* The breaker of broker/session.py: for any number of exchanges in        *)
(* flight, logins and restarts, a burst of rejections alerts the owner     *)
(* once, and a rejection that a live call saw has alerted.                 *)
(***************************************************************************)
THEOREM OneAlertForABurst == Session!Spec => []RejectionAlertedOnce
<1>1. Session!Init => BreakerTellsAlerts
  BY DEF Session!Init, BreakerTellsAlerts
<1>2. BreakerTellsAlerts /\ [Session!Next]_(Session!vars) => BreakerTellsAlerts'
  <2>1. BreakerTellsAlerts /\ UNCHANGED Session!vars => BreakerTellsAlerts'
    BY DEF BreakerTellsAlerts, Session!vars, Session!session, Session!history
  <2> QED BY <2>1, SessionStep
<1>3. BreakerTellsAlerts => RejectionAlertedOnce
  BY DEF BreakerTellsAlerts, RejectionAlertedOnce, Session!OneAlertPerLogin,
         Session!RejectionIsAlerted
<1> QED BY <1>1, <1>2, <1>3, PTL DEF Session!Spec

-----------------------------------------------------------------------------
(***************************************************************************)
(* What a login sets off, for any logins, also without end, and any chain  *)
(* of jobs.  The count is of the recoveries under way, so that the event   *)
(* is set only while there is none; a hydration past its first wait is of  *)
(* an engine that has armed.                                               *)
(***************************************************************************)
UnderWay == {l \in Logins : recovery[l] = "running"}

RecoveryTyped ==
    /\ recovery \in [Logins -> {"none", "running", "done"}]
    /\ hydration \in [Recovery!Hydrators ->
          {"none", "begun", "arming", "recovering", "released", "timed out", "queued",
           "running", "skipped", "done"}]
    /\ armed \in BOOLEAN /\ opened \in BOOLEAN /\ completed \in BOOLEAN

EventTellsCount ==
    /\ IsFiniteSet(UnderWay) /\ in_flight = Cardinality(UnderWay)
    /\ completed => UnderWay = {}

WaitsAfterArming ==
    \A h \in Recovery!Hydrators :
        hydration[h] \in {"recovering", "released", "timed out", "queued", "running"} => armed

RecoveryInv == RecoveryTyped /\ EventTellsCount /\ WaitsAfterArming

(* What a step must do to be in order: only an empty house lets a chain    *)
(* go, and only an armed engine before the open starts one.                *)
Released(h) == hydration[h] # "released" /\ hydration'[h] = "released"

Started(h) == hydration[h] # "running" /\ hydration'[h] = "running"

InOrder ==
    \A h \in Recovery!Hydrators :
        (Released(h) => UnderWay' = {}) /\ (Started(h) => armed /\ ~opened)

(***************************************************************************)
(* A login adds itself to the recoveries under way and clears the event.   *)
(***************************************************************************)
LEMMA LoginInOrder ==
    ASSUME RecoveryInv, NEW l \in Logins, Recovery!Login(l)
    PROVE  RecoveryInv' /\ InOrder
<1> USE DEF Recovery!Login, RecoveryInv
<1>1. RecoveryTyped'
  BY DEF RecoveryTyped, Recovery!passes, Recovery!Hydrators
<1>2. UnderWay' = UnderWay \cup {l} /\ l \notin UnderWay
  BY DEF RecoveryTyped, UnderWay
<1>3. EventTellsCount'
  <2>1. IsFiniteSet(UnderWay \cup {l}) /\ Cardinality(UnderWay \cup {l}) = Cardinality(UnderWay) + 1
    BY <1>2, FS_AddElement DEF EventTellsCount
  <2> QED BY <1>2, <2>1 DEF EventTellsCount
<1>4. WaitsAfterArming' /\ InOrder
  BY DEF RecoveryTyped, WaitsAfterArming, InOrder, Released, Started, Recovery!Hydrators
<1> QED BY <1>1, <1>3, <1>4

(***************************************************************************)
(* The end of a recovery: with the event still clear the count tells       *)
(* whether another one is under way, and it is not set while one is.       *)
(***************************************************************************)
LEMMA EndInOrder ==
    ASSUME RecoveryInv, NEW l \in Logins, Recovery!RecoveryEnds(l)
    PROVE  RecoveryInv' /\ InOrder
<1> USE DEF Recovery!RecoveryEnds, Recovery!Released, RecoveryInv
<1>1. UnderWay' = UnderWay \ {l} /\ l \in UnderWay
  BY DEF RecoveryTyped, UnderWay
<1>2. ~completed
  BY <1>1 DEF EventTellsCount
<1>3. /\ IsFiniteSet(UnderWay \ {l})
      /\ Cardinality(UnderWay \ {l}) = Cardinality(UnderWay) - 1
  BY <1>1, FS_RemoveElement DEF EventTellsCount
<1>4. IsFiniteSet(UnderWay') /\ in_flight' = Cardinality(UnderWay')
  BY <1>1, <1>3 DEF EventTellsCount
<1>5. completed' => UnderWay' = {}
  BY <1>2, <1>4, FS_EmptySet
<1>6. RecoveryTyped'
  BY <1>2 DEF RecoveryTyped
<1>7. WaitsAfterArming'
  BY DEF RecoveryTyped, WaitsAfterArming
<1>8. InOrder
  BY <1>5 DEF RecoveryTyped, InOrder, Released, Started
<1> QED BY <1>4, <1>5, <1>6, <1>7, <1>8 DEF EventTellsCount

(***************************************************************************)
(* A hydration goes from wait to wait and looks at the armed flag, at the  *)
(* event and, twice, at the open.                                          *)
(***************************************************************************)
LEMMA HydrationInOrder ==
    ASSUME RecoveryInv, NEW h \in Recovery!Hydrators, Recovery!Hydration(h)
    PROVE  RecoveryInv' /\ InOrder
<1> USE DEF Recovery!To, Recovery!Waits, Recovery!passes, Recovery!recoveries, RecoveryInv,
            RecoveryTyped, EventTellsCount, UnderWay, WaitsAfterArming, InOrder, Released, Started
<1>1. CASE Recovery!HydrationBegins(h) BY <1>1 DEF Recovery!HydrationBegins
<1>2. CASE Recovery!AwaitsArmed(h) BY <1>2 DEF Recovery!AwaitsArmed
<1>3. CASE Recovery!ArmingTimesOut(h) BY <1>3 DEF Recovery!ArmingTimesOut
<1>4. CASE Recovery!RecoveryTimesOut(h)
  BY <1>4 DEF Recovery!RecoveryTimesOut, Recovery!GivesUp
<1>5. CASE Recovery!Queues(h) BY <1>5 DEF Recovery!Queues
<1>6. CASE Recovery!Hydrates(h) BY <1>6 DEF Recovery!Hydrates, Recovery!TooLate
<1> QED BY <1>1, <1>2, <1>3, <1>4, <1>5, <1>6 DEF Recovery!Hydration

LEMMA RecoveryStep ==
    ASSUME RecoveryInv, [Recovery!Next]_(Recovery!vars)
    PROVE  RecoveryInv' /\ InOrder
<1> DEFINE Idle == UNCHANGED <<recovery, in_flight, completed>>
<1>1. CASE \E l \in Logins : Recovery!Login(l) \/ Recovery!RecoveryEnds(l)
  BY <1>1, LoginInOrder, EndInOrder
<1>2. CASE \E h \in Recovery!Hydrators : Recovery!Hydration(h)
  BY <1>2, HydrationInOrder
<1>3. ASSUME Idle, UNCHANGED <<armed, hydration>>, opened' \in BOOLEAN
      PROVE  RecoveryInv' /\ InOrder
  BY <1>3 DEF RecoveryInv, RecoveryTyped, EventTellsCount, UnderWay, WaitsAfterArming, InOrder,
              Released, Started
<1>4. CASE Recovery!PassBegins \/ (\E j \in Jobs : Recovery!JobEnds(j)) \/ Recovery!Opens
           \/ UNCHANGED Recovery!vars
  BY <1>3, <1>4 DEF Recovery!PassBegins, Recovery!JobEnds, Recovery!Opens, Recovery!vars,
                    Recovery!recoveries, RecoveryInv, RecoveryTyped
<1>5. CASE Recovery!PassEnds
  BY <1>5 DEF Recovery!PassEnds, Recovery!recoveries, RecoveryInv, RecoveryTyped,
              EventTellsCount, UnderWay, WaitsAfterArming, InOrder, Released, Started
<1>6. CASE Recovery!Arms
  BY <1>6 DEF Recovery!Arms, Recovery!To, Recovery!recoveries, Recovery!Hydrators, RecoveryInv,
              RecoveryTyped, EventTellsCount, UnderWay, WaitsAfterArming, InOrder, Released,
              Started
<1> QED BY <1>1, <1>2, <1>4, <1>5, <1>6 DEF Recovery!Next

LEMMA RecoveryStarts == Recovery!Init => RecoveryInv
<1> SUFFICES ASSUME Recovery!Init PROVE RecoveryInv
  OBVIOUS
<1>1. UnderWay = {}
  BY DEF Recovery!Init, UnderWay
<1>2. EventTellsCount
  BY <1>1, FS_EmptySet DEF Recovery!Init, EventTellsCount
<1>3. RecoveryTyped /\ WaitsAfterArming
  BY DEF Recovery!Init, RecoveryTyped, WaitsAfterArming
<1> QED BY <1>2, <1>3 DEF RecoveryInv

(***************************************************************************)
(* The pre-open chain is let go only when no recovery of any login is      *)
(* under way, unless its wait timed out, and it starts only when armed and *)
(* before the open: the safety of what a login sets off.  That every       *)
(* hydration ends is a matter of fairness, and TLC's.                      *)
(***************************************************************************)
THEOREM ChainWaitsItsTurn ==
    Recovery!Spec => Recovery!ChainFollowsRecovery /\ Recovery!ChainInItsWindow
<1>1. RecoveryInv /\ [Recovery!Next]_(Recovery!vars)
        => [\A h \in Recovery!Hydrators :
               (hydration[h] # "released" /\ hydration'[h] = "released")
                  => \A l \in Logins : recovery'[l] # "running"]_(Recovery!vars)
  BY RecoveryStep DEF InOrder, Released, UnderWay
<1>2. RecoveryInv /\ [Recovery!Next]_(Recovery!vars)
        => [\A h \in Recovery!Hydrators :
               (hydration[h] # "running" /\ hydration'[h] = "running")
                  => armed /\ ~opened]_(Recovery!vars)
  BY RecoveryStep DEF InOrder, Started
<1>3. RecoveryInv /\ [Recovery!Next]_(Recovery!vars) => RecoveryInv'
  BY RecoveryStep
<1> QED BY <1>1, <1>2, <1>3, RecoveryStarts, PTL
        DEF Recovery!Spec, Recovery!ChainFollowsRecovery, Recovery!ChainInItsWindow

-----------------------------------------------------------------------------
OrderRec ==
    [ status : {"absent", "OPEN", "COMPLETE", "CANCELLED", "REJECTED"},
      symbol : Symbols \cup {"none"}, type : Types \cup {"LIMIT", "none"}, side : Sides \cup {"none"},
      qty : Nat, price : Nat, filled : Nat, cancelled : Nat, triggered : BOOLEAN,
      placed : Nat, key : Int, spent : Nat, gtt : GttIds \cup {"none"} ]

SymbolState ==
    [ day : Int, minute : Int, cum : Int, start : Int, running : Nat, bar : Nat,
      saw : BOOLEAN, reset : BOOLEAN ]

GttRec ==
    [ status : {"absent", "active", "triggered", "failed", "deleted"},
      symbol : Symbols \cup {"none"}, shape : GttShapes \cup {"none"},
      listed : Symbols \cup {"none"} ]

OrderSound(order) ==
    /\ order.filled <= order.qty
    /\ order.status = "OPEN" => order.cancelled = 0
    /\ order.status = "COMPLETE" => order.filled = order.qty /\ order.cancelled = 0
    /\ order.status = "CANCELLED" => order.filled + order.cancelled = order.qty
    /\ order.status = "absent" => order.gtt = "none"

BookTyped ==
    /\ now \in Nat /\ session \in Int
    /\ orders \in [OrderIds -> OrderRec]
    /\ \A o \in OrderIds : OrderSound(orders[o])
    /\ states \in [Symbols -> SymbolState]
    /\ tape \in [Symbols -> Nat]
    /\ gtts \in [GttIds -> GttRec]
    /\ \A g \in GttIds : gtts[g].status = "active" =>
          /\ gtts[g].symbol \in Symbols /\ gtts[g].listed \in Symbols
          /\ gtts[g].shape \in GttShapes

-----------------------------------------------------------------------------
(* What a tick may make of one order, st being the symbol state it left.    *)
StaysAsItWas(order, m) ==
    m.status = order.status /\ m.filled = order.filled /\ m.cancelled = order.cancelled

TakesMore(order, m) ==
    /\ order.status = "OPEN" /\ m.filled > order.filled /\ m.filled <= m.qty
    /\ m.status = IF m.filled = m.qty THEN "COMPLETE" ELSE "OPEN"
    /\ m.cancelled = order.cancelled

IsEnded(order, m) ==
    /\ order.status = "OPEN" /\ m.status \in {"CANCELLED", "REJECTED"}
    /\ m.filled = order.filled /\ m.cancelled = m.qty - m.filled

Charged(order, m, st) ==
    IF EffectiveVolume(st) = None \/ m.filled = order.filled
    THEN \/ m.key = order.key /\ m.spent >= order.spent
         \/ m.key = st.minute /\ m.spent >= Spent(order, st)
    ELSE /\ m.key = st.minute
         /\ m.spent = Spent(order, st) + (m.filled - order.filled)
         /\ m.spent <= EffectiveVolume(st) \div Share

Fate(order, m, st) ==
    /\ m \in OrderRec
    /\ m.gtt = order.gtt /\ m.placed = order.placed /\ m.qty = order.qty /\ m.price = order.price
    /\ order.status # "OPEN" => m = order
    /\ StaysAsItWas(order, m) \/ TakesMore(order, m) \/ IsEnded(order, m)
    /\ Charged(order, m, st)

(* An order that ends keeps what had filled; the rest is cancelled.        *)
LEMMA TerminatedFate ==
    ASSUME NEW order \in OrderRec, OrderSound(order), order.status = "OPEN",
           NEW status \in {"CANCELLED", "REJECTED"}, NEW st \in SymbolState
    PROVE  Fate(order, Terminated(order, status), st)
<1> DEFINE m == Terminated(order, status)
<1>1. order.qty - order.filled \in Nat
  BY DEF OrderSound, OrderRec
<1>2. m \in OrderRec
  BY <1>1 DEF Terminated, OrderRec
<1>3. /\ m.gtt = order.gtt /\ m.placed = order.placed /\ m.qty = order.qty /\ m.price = order.price
      /\ m.status = status /\ m.filled = order.filled /\ m.cancelled = order.qty - order.filled
      /\ m.key = order.key /\ m.spent = order.spent
  BY DEF Terminated, OrderRec
<1>4. IsEnded(order, m)
  BY <1>3 DEF IsEnded
<1>5. Charged(order, m, st)
  BY <1>3 DEF Charged, OrderRec
<1> QED BY <1>2, <1>3, <1>4, <1>5 DEF Fate

(* Nothing is left undecided in the volume a tick is sized on.             *)
LEMMA VolumeTyped ==
    ASSUME NEW st \in SymbolState
    PROVE  EffectiveVolume(st) \in Nat \cup {None}
BY DEF EffectiveVolume, SymbolState, None

(* A positive fill keeps within the quantity, and within the share of the  *)
(* volume that the order has not spent yet.                                *)
LEMMA FillableBounded ==
    ASSUME NEW order \in OrderRec, OrderSound(order), NEW st \in SymbolState
    PROVE  /\ Fillable(order, st) \in Nat
           /\ Fillable(order, st) <= order.qty - order.filled
           /\ EffectiveVolume(st) # None /\ Fillable(order, st) > 0 =>
                 Spent(order, st) + Fillable(order, st) <= EffectiveVolume(st) \div Share
           /\ Spent(order, st) \in Nat
<1>1. order.qty - order.filled \in Nat /\ Spent(order, st) \in Nat
  BY DEF OrderSound, OrderRec, Spent
<1>2. CASE EffectiveVolume(st) = None
  BY <1>1, <1>2 DEF Fillable
<1>3. CASE EffectiveVolume(st) # None
  <2> DEFINE share == EffectiveVolume(st) \div Share
             rest == order.qty - order.filled
  <2>1. EffectiveVolume(st) \in Nat /\ Share \in Nat \ {0}
    BY <1>3, VolumeTyped, PaperAssumption
  <2>2. share \in Nat
    BY <2>1
  <2>3. Fillable(order, st) = Max2(Min2(rest, share - Spent(order, st)), 0)
    BY <1>3 DEF Fillable
  <2> HIDE DEF share, rest
  <2>4. rest \in Nat
    BY <1>1 DEF rest
  <2>5. /\ Fillable(order, st) \in Nat /\ Fillable(order, st) <= rest
        /\ Fillable(order, st) > 0 => Spent(order, st) + Fillable(order, st) <= share
    BY <1>1, <2>2, <2>3, <2>4 DEF Max2, Min2
  <2> QED BY <1>1, <1>3, <2>5 DEF share, rest
<1> QED BY <1>2, <1>3

(* The matching of one resting order.                                      *)
LEMMA MatchedFate ==
    ASSUME NEW order \in OrderRec, OrderSound(order), order.status = "OPEN",
           NEW st \in SymbolState, NEW ltp, NEW late, NEW raises
    PROVE  Fate(order, Matched(order, st, ltp, late, raises), st)
<1> DEFINE hit == [order EXCEPT !.triggered = @ \/ order.type = "SL-M"]
           qty == Fillable(order, st)
           charged == IF EffectiveVolume(st) = None THEN hit
                      ELSE [hit EXCEPT !.key = st.minute, !.spent = Spent(order, st)]
           reached == IF order.filled + qty >= order.qty THEN "COMPLETE" ELSE "OPEN"
           filled == [charged EXCEPT !.filled = @ + qty, !.spent = @ + qty, !.status = reached]
           given == IF order.filled > 0 THEN "CANCELLED" ELSE "REJECTED"
           ended == Terminated(charged, given)
<1>0. Matched(order, st, ltp, late, raises) =
        IF late \/ ~Through(order, ltp) THEN order
        ELSE IF qty = 0 THEN charged ELSE IF raises THEN ended ELSE filled
  BY DEF Matched
<1>a. /\ given \in {"CANCELLED", "REJECTED"}
      /\ reached \in {"COMPLETE", "OPEN"}
      /\ reached = IF order.filled + qty >= order.qty THEN "COMPLETE" ELSE "OPEN"
  OBVIOUS
<1> HIDE DEF given, reached
<1>1. /\ qty \in Nat /\ qty <= order.qty - order.filled
      /\ EffectiveVolume(st) # None /\ qty > 0 => Spent(order, st) + qty <= EffectiveVolume(st) \div Share
      /\ Spent(order, st) \in Nat
  BY FillableBounded
<1> HIDE DEF qty
<1>2. hit \in OrderRec
  BY DEF OrderRec
<1>3. /\ hit.gtt = order.gtt /\ hit.placed = order.placed /\ hit.qty = order.qty /\ hit.price = order.price
      /\ hit.status = order.status /\ hit.filled = order.filled /\ hit.cancelled = order.cancelled
      /\ hit.key = order.key /\ hit.spent = order.spent
  BY DEF OrderRec
<1> HIDE DEF hit
<1>4. /\ charged \in OrderRec
      /\ charged.gtt = order.gtt /\ charged.placed = order.placed
      /\ charged.qty = order.qty /\ charged.price = order.price
      /\ charged.status = order.status /\ charged.filled = order.filled /\ charged.cancelled = order.cancelled
      /\ IF EffectiveVolume(st) = None THEN charged.key = order.key /\ charged.spent = order.spent
         ELSE charged.key = st.minute /\ charged.spent = Spent(order, st)
  <2>1. CASE EffectiveVolume(st) = None
    BY <1>2, <1>3, <2>1
  <2>2. CASE EffectiveVolume(st) # None
    <3>1. charged = [hit EXCEPT !.key = st.minute, !.spent = Spent(order, st)]
      BY <2>2
    <3>2. st.minute \in Int
      BY DEF SymbolState
    <3> QED BY <1>1, <1>2, <1>3, <2>2, <3>1, <3>2 DEF OrderRec
  <2> QED BY <2>1, <2>2
<1> HIDE DEF charged
<1>5. Fate(order, order, st)
  BY DEF Fate, StaysAsItWas, Charged, OrderRec
<1>6. Fate(order, charged, st)
  <2>1. StaysAsItWas(order, charged)
    BY <1>4 DEF StaysAsItWas
  <2>2. Charged(order, charged, st)
    BY <1>1, <1>4 DEF Charged, OrderRec
  <2> QED BY <1>4, <2>1, <2>2 DEF Fate
<1>7. Fate(order, ended, st)
  <2>1. OrderSound(charged)
    BY <1>4 DEF OrderSound
  <2>2. /\ ended.gtt = order.gtt /\ ended.placed = order.placed /\ ended.qty = order.qty
        /\ ended.price = order.price /\ ended.filled = order.filled
        /\ ended.status \in {"CANCELLED", "REJECTED"} /\ ended.cancelled = order.qty - order.filled
        /\ ended.key = charged.key /\ ended.spent = charged.spent
    BY <1>a, <1>4 DEF Terminated, OrderRec
  <2>3. ended \in OrderRec
    <3>1. charged.qty - charged.filled \in Nat
      BY <1>4, <2>1 DEF OrderSound, OrderRec
    <3> QED BY <1>a, <1>4, <3>1 DEF Terminated, OrderRec
  <2> HIDE DEF ended
  <2>4. IsEnded(order, ended)
    BY <2>2 DEF IsEnded
  <2>5. Charged(order, ended, st)
    BY <1>1, <1>4, <2>2 DEF Charged, OrderRec
  <2> QED BY <2>2, <2>3, <2>4, <2>5 DEF Fate
<1>8. ASSUME qty # 0
      PROVE  Fate(order, filled, st)
  <2>1. /\ filled.gtt = order.gtt /\ filled.placed = order.placed /\ filled.qty = order.qty
        /\ filled.price = order.price /\ filled.cancelled = order.cancelled
        /\ filled.filled = order.filled + qty
        /\ filled.status = reached
        /\ filled.key = charged.key /\ filled.spent = charged.spent + qty
    BY <1>4 DEF OrderRec
  <2>2. filled \in OrderRec
    <3>1. charged.filled + qty \in Nat /\ charged.spent + qty \in Nat
      BY <1>1, <1>4 DEF OrderRec
    <3> DEFINE more == charged.filled + qty
               used == charged.spent + qty
    <3> DEFINE one == [charged EXCEPT !.filled = more]
               two == [one EXCEPT !.spent = used]
    <3>2. filled = [two EXCEPT !.status = reached]
      OBVIOUS
    <3> HIDE DEF more, used, filled
    <3>3. one \in OrderRec
      BY <1>4, <3>1 DEF more, OrderRec
    <3> HIDE DEF one
    <3>4. two \in OrderRec
      BY <3>1, <3>3 DEF used, OrderRec
    <3> HIDE DEF two
    <3> QED BY <1>a, <3>2, <3>4 DEF OrderRec
  <2> HIDE DEF filled
  <2>3. order.filled \in Nat /\ order.qty \in Nat /\ order.spent \in Nat
    BY DEF OrderRec
  <2>4. TakesMore(order, filled)
    <3>1. filled.filled > order.filled /\ filled.filled <= filled.qty
      BY <1>1, <1>8, <2>1, <2>3
    <3>2. filled.status = IF filled.filled = filled.qty THEN "COMPLETE" ELSE "OPEN"
      BY <1>a, <1>1, <2>1, <2>3
    <3> QED BY <2>1, <3>1, <3>2 DEF TakesMore
  <2>5. Charged(order, filled, st)
    BY <1>1, <1>4, <1>8, <2>1, <2>3 DEF Charged
  <2> QED BY <2>1, <2>2, <2>4, <2>5 DEF Fate
<1> QED BY <1>0, <1>5, <1>6, <1>7, <1>8

-----------------------------------------------------------------------------
(* A tick, up to the triggers: middle is the book it hands to them.        *)
Passed(middle, st) ==
    /\ st \in SymbolState /\ st.minute = now
    /\ middle \in [OrderIds -> OrderRec]
    /\ \A o \in OrderIds : Fate(orders[o], middle[o], st)
    /\ session # None /\ session < Today =>
          \A o \in OrderIds : middle[o].status = "OPEN" => DayOf(middle[o]) >= Today
    /\ took' = Tallied(orders, middle, st)

(* The day of a minute is a natural number. *)
LEMMA TodayIsNat ==
    ASSUME now \in Nat
    PROVE  Today \in Nat
BY PaperAssumption DEF Today

(* What a tick leaves of the symbol it is of.                              *)
LEMMA HeardTyped ==
    ASSUME NEW old \in SymbolState, NEW cum \in Nat, now \in Nat
    PROVE  LET heard == Heard(old, cum)
               mark == IF old.day = Today THEN old.cum ELSE None
           IN /\ heard \in SymbolState /\ heard.minute = now /\ heard.day = Today
              /\ heard.cum = Max2(cum, mark)
              /\ heard.start = IF old.day = Today /\ old.minute = now THEN old.start
                               ELSE IF mark # None THEN mark ELSE cum
              /\ heard.running = Max2(heard.cum - heard.start, 0)
<1> DEFINE today == IF old.day = Today THEN old
                    ELSE [old EXCEPT !.day = Today, !.cum = None, !.minute = None,
                                     !.start = 0, !.running = 0]
           start == IF today.minute = now THEN today.start ELSE MinuteFrom(today, cum)
           mark == Max2(cum, today.cum)
           running == Max2(mark - start, 0)
<1>1. /\ today \in SymbolState /\ today.day = Today
      /\ today.cum = IF old.day = Today THEN old.cum ELSE None
      /\ today.minute = IF old.day = Today THEN old.minute ELSE None
      /\ old.day = Today => today.start = old.start
  <2> DEFINE one == [old EXCEPT !.day = Today]
             two == [one EXCEPT !.cum = None]
             three == [two EXCEPT !.minute = None]
             four == [three EXCEPT !.start = 0]
  <2>1. today = IF old.day = Today THEN old ELSE [four EXCEPT !.running = 0]
    OBVIOUS
  <2>2. one \in SymbolState /\ one.day = Today
    BY TodayIsNat DEF SymbolState
  <2> HIDE DEF one, today
  <2>3. two \in SymbolState /\ two.day = Today /\ two.cum = None
    BY <2>2 DEF SymbolState, None
  <2> HIDE DEF two
  <2>4. three \in SymbolState /\ three.day = Today /\ three.cum = None /\ three.minute = None
    BY <2>3 DEF SymbolState, None
  <2> HIDE DEF three
  <2>5. four \in SymbolState /\ four.day = Today /\ four.cum = None /\ four.minute = None
    BY <2>4 DEF SymbolState
  <2> HIDE DEF four
  <2>6. CASE old.day = Today
    BY <2>1, <2>6
  <2>7. CASE old.day # Today
    BY <2>1, <2>5, <2>7 DEF SymbolState
  <2> QED BY <2>6, <2>7
<1> HIDE DEF today
<1>2. start \in Int /\ mark \in Int
  BY <1>1 DEF SymbolState, MinuteFrom, Max2
<1> HIDE DEF start, mark
<1>3. running \in Nat
  BY <1>2 DEF Max2
<1> HIDE DEF running
<1>4. Heard(old, cum) = [today EXCEPT !.saw = @ \/ cum > 0, !.reset = today.cum # None /\ cum < today.cum,
                              !.minute = now, !.start = start, !.cum = mark, !.running = running]
  BY DEF Heard, today, start, mark, running
<1> DEFINE some == today.saw \/ cum > 0
           lower == today.cum # None /\ cum < today.cum
           one == [today EXCEPT !.saw = some]
           two == [one EXCEPT !.reset = lower]
           three == [two EXCEPT !.minute = now]
           four == [three EXCEPT !.start = start]
           five == [four EXCEPT !.cum = mark]
<1>5. Heard(old, cum) = [five EXCEPT !.running = running]
  BY <1>4
<1>6. some \in BOOLEAN /\ lower \in BOOLEAN
  BY <1>1 DEF SymbolState
<1> HIDE DEF some, lower
<1>7. one \in SymbolState /\ one.day = Today
  BY <1>1, <1>6 DEF SymbolState
<1> HIDE DEF one
<1>8. two \in SymbolState /\ two.day = Today
  BY <1>6, <1>7 DEF SymbolState
<1> HIDE DEF two
<1>9. three \in SymbolState /\ three.day = Today /\ three.minute = now
  BY <1>8 DEF SymbolState
<1> HIDE DEF three
<1>10. four \in SymbolState /\ four.day = Today /\ four.minute = now /\ four.start = start
  BY <1>2, <1>9 DEF SymbolState
<1> HIDE DEF four
<1>11. /\ five \in SymbolState /\ five.day = Today /\ five.minute = now
       /\ five.start = start /\ five.cum = mark
  BY <1>2, <1>10 DEF SymbolState
<1> HIDE DEF five
<1>12. /\ Heard(old, cum) \in SymbolState
       /\ Heard(old, cum).minute = now /\ Heard(old, cum).day = Today
       /\ Heard(old, cum).start = start /\ Heard(old, cum).cum = mark
       /\ Heard(old, cum).running = running
  BY <1>3, <1>5, <1>11 DEF SymbolState
<1>13. /\ mark = Max2(cum, IF old.day = Today THEN old.cum ELSE None)
       /\ start = IF old.day = Today /\ old.minute = now THEN old.start
                  ELSE IF today.cum # None THEN today.cum ELSE cum
       /\ running = Max2(mark - start, 0)
  BY <1>1 DEF mark, start, running, MinuteFrom, None
<1> QED BY <1>1, <1>12, <1>13

(* One order of a tick: lapsed, matched, or left alone.                    *)
LEMMA TickFate ==
    ASSUME NEW order \in OrderRec, OrderSound(order), NEW st \in SymbolState, NEW ltp,
           NEW lapses, NEW rests, NEW late, NEW raises,
           rests => order.status = "OPEN" /\ ~lapses, lapses => order.status = "OPEN"
    PROVE  Fate(order, IF rests THEN Matched(order, st, ltp, late, raises)
                       ELSE IF lapses THEN Terminated(order, "CANCELLED") ELSE order, st)
<1>1. CASE rests
  BY <1>1, MatchedFate
<1>2. CASE ~rests /\ lapses
  BY <1>2, TerminatedFate
<1>3. CASE ~rests /\ ~lapses
  BY <1>3 DEF Fate, StaysAsItWas, Charged, OrderRec
<1> QED BY <1>1, <1>2, <1>3

(* A tick is a pass over the book, in which every order meets its fate     *)
(* against what the symbol has traded, followed by the triggers: all that  *)
(* the invariants need of on_tick.                                         *)
LEMMA TickPasses ==
    ASSUME BookTyped, NEW s \in Ticking, OnTick(s)
    PROVE  \E st, middle, ltp :
               /\ Passed(middle, st) /\ MatchGtts(middle, s, ltp)
               /\ states' = [states EXCEPT ![s] = st] /\ session' = Max2(session, Today)
               /\ tape' \in [Symbols -> Nat] /\ now' = now
<1> DEFINE sweeps == session # None /\ session < Today
           book == Swept(s)
           resting == Resting(book, s)
<1>1. PICK n, ltp, waiting, broken, cum :
        n \in Trades /\ cum \in Printed(s, n) /\ Arrives(s, n, ltp, cum, waiting, broken)
  BY DEF OnTick
<1> DEFINE st == Heard(states[s], cum)
           matched == MatchedBook(book, s, st, ltp, waiting, broken)
<1>3. s \in Symbols /\ now \in Nat /\ tape[s] \in Nat /\ n \in Nat
  BY <1>1, PaperAssumption DEF BookTyped
<1>4. cum \in Nat
  BY <1>1, <1>3, PaperAssumption DEF Printed
<1>5. st \in SymbolState /\ st.minute = now
  BY <1>3, <1>4, HeardTyped DEF BookTyped
<1>6. tape' \in [Symbols -> Nat]
  <2>1. tape[s] + n \in Nat /\ tape' = [tape EXCEPT ![s] = @ + n]
    BY <1>1, <1>3 DEF Arrives
  <2> QED BY <1>3, <2>1 DEF BookTyped
<1>7. /\ session' = Max2(session, Today) /\ states' = [states EXCEPT ![s] = st]
      /\ MatchGtts(matched, s, ltp) /\ now' = now
      /\ took' = Tallied(book, matched, st)
  BY <1>1 DEF Arrives
<1> HIDE DEF st
<1> DEFINE lapses(o) == sweeps /\ orders[o].status = "OPEN" /\ DayOf(orders[o]) < Today
<1>8. ASSUME NEW o \in OrderIds
      PROVE  /\ book[o] = IF lapses(o) THEN Terminated(orders[o], "CANCELLED") ELSE orders[o]
             /\ o \in resting => orders[o].status = "OPEN" /\ ~lapses(o)
             /\ book[o].filled = orders[o].filled
  <2>1. orders[o] \in OrderRec
    BY DEF BookTyped
  <2>2. book[o] = IF lapses(o) THEN Terminated(orders[o], "CANCELLED") ELSE orders[o]
    BY DEF Lapsed, Swept
  <2>3. /\ Terminated(orders[o], "CANCELLED").status = "CANCELLED"
        /\ Terminated(orders[o], "CANCELLED").filled = orders[o].filled
    BY <2>1 DEF Terminated, OrderRec
  <2>4. o \in resting => book[o].status = "OPEN"
    BY DEF Resting
  <2> HIDE DEF book, resting, lapses
  <2> QED BY <2>2, <2>3, <2>4
<1> HIDE DEF book, resting
<1>9. ASSUME NEW o \in OrderIds
      PROVE  /\ Fate(orders[o], matched[o], st)
             /\ lapses(o) => matched[o].status = "CANCELLED"
  <2>1. orders[o] \in OrderRec /\ OrderSound(orders[o])
    BY DEF BookTyped
  <2>2. matched[o] = IF o \in resting THEN Matched(orders[o], st, ltp, o \in waiting, o \in broken)
                     ELSE IF lapses(o) THEN Terminated(orders[o], "CANCELLED") ELSE orders[o]
    BY <1>8 DEF MatchedBook, resting
  <2>3. lapses(o) => orders[o].status = "OPEN"
    OBVIOUS
  <2>4. Terminated(orders[o], "CANCELLED").status = "CANCELLED"
    BY <2>1 DEF Terminated, OrderRec
  <2> HIDE DEF lapses, matched
  <2>5. Fate(orders[o], matched[o], st)
    BY <1>5, <1>8, <2>1, <2>2, <2>3, TickFate
  <2> QED BY <1>8, <2>2, <2>4, <2>5
<1>10. matched \in [OrderIds -> OrderRec]
  BY <1>9 DEF Fate, MatchedBook
<1>11. took' = Tallied(orders, matched, st)
  BY <1>7, <1>8 DEF Tallied
<1>12. ASSUME sweeps, NEW o \in OrderIds, matched[o].status = "OPEN"
       PROVE  DayOf(matched[o]) >= Today
  <2> HIDE DEF matched
  <2>1. orders[o].status = "OPEN" /\ matched[o].placed = orders[o].placed
    BY <1>9, <1>12 DEF Fate
  <2>2. ~(DayOf(orders[o]) < Today)
    BY <1>9, <1>12, <2>1
  <2>3. DayOf(matched[o]) = DayOf(orders[o]) /\ DayOf(orders[o]) \in Nat
    <3>1. orders[o].placed \in Nat /\ DayMinutes \in Nat \ {0}
      BY PaperAssumption DEF BookTyped, OrderRec
    <3> QED BY <2>1, <3>1 DEF DayOf
  <2>4. Today \in Nat
    BY <1>3, TodayIsNat
  <2> QED BY <2>2, <2>3, <2>4
<1> HIDE DEF matched
<1>13. Passed(matched, st)
  BY <1>5, <1>9, <1>10, <1>11, <1>12 DEF Passed
<1> QED BY <1>6, <1>7, <1>13

-----------------------------------------------------------------------------
(* An order that has just been booked, for the trigger g or for none.      *)
Born(order, g) ==
    /\ order \in OrderRec /\ order.status \in {"OPEN", "REJECTED"}
    /\ order.filled = 0 /\ order.cancelled = 0 /\ order.qty \in Qtys /\ order.price \in Prices
    /\ order.placed = now /\ order.gtt = g

(* A registered order is born whole, and the others are left alone. *)
LEMMA RegisteredBorn ==
    ASSUME now \in Nat, NEW book \in [OrderIds -> OrderRec], NEW o \in OrderIds,
           NEW s \in Symbols, NEW type \in Types \cup {"LIMIT"}, NEW side \in Sides,
           NEW q \in Qtys, NEW p \in Prices, NEW g \in GttIds \cup {"none"}
    PROVE  /\ Registered(book, o, s, type, side, q, p, g) \in [OrderIds -> OrderRec]
           /\ \A k \in OrderIds \ {o} : Registered(book, o, s, type, side, q, p, g)[k] = book[k]
           /\ Born(Registered(book, o, s, type, side, q, p, g)[o], g)
           /\ Registered(book, o, s, type, side, q, p, g)[o].status = "OPEN"
<1> DEFINE order == [status |-> "OPEN", symbol |-> s, type |-> type, side |-> side, qty |-> q,
                     price |-> p, filled |-> 0, cancelled |-> 0, triggered |-> FALSE, placed |-> now,
                     key |-> None, spent |-> 0, gtt |-> g]
<1>1. q \in Nat /\ p \in Nat
  BY PaperAssumption
<1>3. order \in OrderRec
  BY <1>1 DEF OrderRec, None
<1>4. Born(order, g) /\ order.status = "OPEN"
  BY <1>3 DEF Born
<1>5. Registered(book, o, s, type, side, q, p, g) = [book EXCEPT ![o] = order]
  BY DEF Registered
<1> HIDE DEF order
<1> QED BY <1>3, <1>4, <1>5

(* A leg is an order born for its trigger.                                 *)
LEMMA LegIsBorn ==
    ASSUME BookTyped, NEW middle \in [OrderIds -> OrderRec], NEW g \in GttIds, gtts[g].status = "active",
           NEW o \in OrderIds, NEW ltp, NEW t \in Hit(gtts[g], ltp)
    PROVE  Born(Leg(middle, g, o, t), g)
<1> DEFINE symbol == gtts[g].symbol
           side == gtts[g].shape.side
           qty == gtts[g].shape.qty
           kind == "LIMIT"
           booked == Registered(middle, o, symbol, kind, side, qty, t, g)
<1>1. gtts[g].symbol \in Symbols /\ gtts[g].shape \in GttShapes /\ now \in Nat
  BY DEF BookTyped
<1>2. gtts[g].shape \in [triggers : SUBSET Prices, last : Quotes, side : Sides, qty : Qtys]
  BY <1>1, PaperAssumption
<1>3. t \in Prices /\ side \in Sides /\ qty \in Qtys /\ symbol \in Symbols
  BY <1>1, <1>2 DEF Hit
<1>4. kind \in Types \cup {"LIMIT"} /\ g \in GttIds \cup {"none"}
  OBVIOUS
<1>5. Leg(middle, g, o, t) = booked[o]
  BY DEF Leg
<1> HIDE DEF symbol, side, qty, kind
<1>6. Born(booked[o], g)
  BY <1>1, <1>3, <1>4, RegisteredBorn
<1> QED BY <1>5, <1>6

(* What the triggers of one tick, those in firing, make of the book they   *)
(* find: at gives each the id of its leg.                                  *)
TriggersDo(middle, firing, at) ==
    /\ orders' \in [OrderIds -> OrderRec] /\ gtts' \in [GttIds -> GttRec]
    /\ \A g \in GttIds \ firing : gtts'[g] = gtts[g]
    /\ \A g \in firing :
          /\ g \in GttIds /\ at[g] \in OrderIds /\ gtts[g].status = "active"
          /\ middle[at[g]].status = "absent"
          /\ \/ gtts'[g].status = "failed" /\ orders'[at[g]] = middle[at[g]]
             \/ gtts'[g].status = "triggered" /\ Born(orders'[at[g]], g)
    /\ \A g, h \in firing : at[g] = at[h] => g = h
    /\ \A o \in OrderIds : orders'[o] = middle[o] \/ \E g \in firing : at[g] = o

(* MatchGtts books the leg of every trigger that fires, and nothing else.  *)
LEMMA TriggersFire ==
    ASSUME BookTyped, NEW middle \in [OrderIds -> OrderRec], NEW s, NEW ltp, MatchGtts(middle, s, ltp)
    PROVE  \E firing, at : TriggersDo(middle, firing, at)
<1> DEFINE firing == Firing(s, ltp)
<1>1. PICK at \in [firing -> {o \in OrderIds : middle[o].status = "absent"}],
           hit \in [firing -> Prices], raising \in SUBSET firing :
        LET fire == [g \in firing |-> Fired(middle, g, at[g], hit[g], g \in raising)]
        IN /\ \A g \in firing : hit[g] \in Hit(gtts[g], ltp)
           /\ \A g, h \in firing : at[g] = at[h] => g = h
           /\ orders' = [o \in OrderIds |-> IF \E g \in firing : at[g] = o
                                            THEN fire[CHOOSE g \in firing : at[g] = o].order ELSE middle[o]]
           /\ gtts' = [g \in GttIds |-> IF g \in firing THEN [gtts[g] EXCEPT !.status = fire[g].status]
                                        ELSE gtts[g]]
  BY DEF MatchGtts
<1> DEFINE Fire(g) == Fired(middle, g, at[g], hit[g], g \in raising)
           owner(o) == CHOOSE g \in firing : at[g] = o
<1>2. /\ \A g \in firing : hit[g] \in Hit(gtts[g], ltp)
      /\ \A g, h \in firing : at[g] = at[h] => g = h
      /\ orders' = [o \in OrderIds |-> IF \E g \in firing : at[g] = o THEN Fire(owner(o)).order ELSE middle[o]]
      /\ gtts' = [g \in GttIds |-> IF g \in firing THEN [gtts[g] EXCEPT !.status = Fire(g).status] ELSE gtts[g]]
  BY <1>1
<1>3. ASSUME NEW g \in firing
      PROVE  /\ g \in GttIds /\ gtts[g].status = "active"
             /\ at[g] \in OrderIds /\ middle[at[g]].status = "absent"
             /\ hit[g] \in Hit(gtts[g], ltp)
  BY <1>2 DEF Firing
<1>4. ASSUME NEW g \in firing
      PROVE  \/ Fire(g).status = "failed" /\ Fire(g).order = middle[at[g]]
             \/ Fire(g).status = "triggered" /\ Born(Fire(g).order, g)
  <2>1. CASE g \in raising
    BY <2>1 DEF Fired
  <2>2. CASE g \notin raising
    <3>1. Fire(g).status = "triggered" /\ Fire(g).order = Leg(middle, g, at[g], hit[g])
      BY <2>2 DEF Fired
    <3>2. Born(Leg(middle, g, at[g], hit[g]), g)
      BY <1>3, LegIsBorn
    <3> QED BY <3>1, <3>2
  <2> QED BY <2>1, <2>2
<1> HIDE DEF firing, Fire
<1>5. ASSUME NEW g \in firing
      PROVE  orders'[at[g]] = Fire(g).order
  <2>1. owner(at[g]) = g
    BY <1>2
  <2> HIDE DEF owner
  <2> QED BY <1>2, <1>3, <2>1
<1>6. ASSUME NEW o \in OrderIds
      PROVE  /\ orders'[o] \in OrderRec
             /\ orders'[o] = middle[o] \/ \E g \in firing : at[g] = o
  <2>1. CASE \E g \in firing : at[g] = o
    <3>1. PICK g \in firing : at[g] = o
      BY <2>1
    <3>2. orders'[o] = Fire(g).order
      BY <1>5, <3>1
    <3> QED BY <1>4, <3>1, <3>2 DEF Born
  <2>2. CASE ~ \E g \in firing : at[g] = o
    BY <1>2, <2>2
  <2> QED BY <2>1, <2>2
<1>7. ASSUME NEW g \in GttIds
      PROVE  /\ gtts'[g] \in GttRec
             /\ g \notin firing => gtts'[g] = gtts[g]
             /\ g \in firing => gtts'[g].status = Fire(g).status
  <2>1. gtts[g] \in GttRec
    BY DEF BookTyped
  <2>2. CASE g \in firing
    <3> DEFINE status == Fire(g).status
    <3>1. status \in {"failed", "triggered"} /\ gtts'[g] = [gtts[g] EXCEPT !.status = status]
      BY <1>2, <1>4, <2>2
    <3> HIDE DEF status
    <3>2. gtts'[g] \in GttRec /\ gtts'[g].status = status
      BY <2>1, <3>1 DEF GttRec
    <3> QED BY <2>2, <3>2 DEF status
  <2>3. CASE g \notin firing
    BY <1>2, <2>1, <2>3
  <2> QED BY <2>2, <2>3
<1>8. orders' \in [OrderIds -> OrderRec] /\ gtts' \in [GttIds -> GttRec]
  <2>1. orders' = [o \in OrderIds |-> orders'[o]] /\ gtts' = [g \in GttIds |-> gtts'[g]]
    BY <1>2
  <2> QED BY <1>6, <1>7, <2>1
<1>9. ASSUME NEW g \in firing
      PROVE  /\ g \in GttIds /\ at[g] \in OrderIds /\ gtts[g].status = "active"
             /\ middle[at[g]].status = "absent"
             /\ \/ gtts'[g].status = "failed" /\ orders'[at[g]] = middle[at[g]]
                \/ gtts'[g].status = "triggered" /\ Born(orders'[at[g]], g)
  <2>1. g \in GttIds /\ orders'[at[g]] = Fire(g).order
    BY <1>3, <1>5
  <2>2. gtts'[g].status = Fire(g).status
    BY <1>7, <2>1
  <2> QED BY <1>3, <1>4, <2>1, <2>2
<1>10. \A g \in GttIds \ firing : gtts'[g] = gtts[g]
  BY <1>7
<1>11. \A g, h \in firing : at[g] = at[h] => g = h
  BY <1>2
<1>12. \A o \in OrderIds : orders'[o] = middle[o] \/ \E g \in firing : at[g] = o
  BY <1>6
<1>13. TriggersDo(middle, firing, at)
  BY <1>8, <1>9, <1>10, <1>11, <1>12 DEF TriggersDo
<1> QED BY <1>13

(* So an order is as the pass left it, or it has just been born.           *)
LEMMA TriggersBook ==
    ASSUME BookTyped, NEW middle \in [OrderIds -> OrderRec], NEW s, NEW ltp, MatchGtts(middle, s, ltp),
           NEW o \in OrderIds
    PROVE  \/ orders'[o] = middle[o]
           \/ middle[o].status = "absent" /\ \E g \in GttIds : Born(orders'[o], g)
<1>1. PICK firing, at : TriggersDo(middle, firing, at)
  BY TriggersFire
<1> QED BY <1>1 DEF TriggersDo

(* What one step may do to the orders.                                     *)
Booked(o, g) ==
    /\ orders[o].status = "absent" /\ Born(orders'[o], g)

PlacedNow ==
    \E o \in OrderIds :
        /\ orders' \in [OrderIds -> OrderRec] /\ Booked(o, "none")
        /\ \A k \in OrderIds \ {o} : orders'[k] = orders[k]

(* place_order books one order on an id that had none, and says what       *)
(* becomes of it.                                                          *)
LEMMA PlaceBooks ==
    ASSUME BookTyped, PlaceOrder
    PROVE  PlacedNow
<1>1. PICK o \in OrderIds, s \in Symbols, type \in Types, side \in Sides, q \in Qtys, p \in Prices :
        /\ orders[o].status = "absent"
        /\ LET booked == Registered(orders, o, s, type, side, q, p, "none")
           IN orders' \in {booked, [booked EXCEPT ![o].status = "REJECTED"]}
  BY DEF PlaceOrder
<1> DEFINE booked == Registered(orders, o, s, type, side, q, p, "none")
<1>2. /\ booked \in [OrderIds -> OrderRec]
      /\ \A k \in OrderIds \ {o} : booked[k] = orders[k]
      /\ Born(booked[o], "none")
  BY RegisteredBorn DEF BookTyped
<1>3. orders' = booked \/ orders' = [booked EXCEPT ![o].status = "REJECTED"]
  BY <1>1
<1> HIDE DEF booked
<1> DEFINE turned_down == [booked[o] EXCEPT !.status = "REJECTED"]
<1>4. turned_down \in OrderRec /\ Born(turned_down, "none")
  BY <1>2 DEF Born, OrderRec
<1>5. CASE orders' = booked
  BY <1>1, <1>2, <1>5 DEF PlacedNow, Booked
<1>6. CASE orders' = [booked EXCEPT ![o].status = "REJECTED"]
  <2>1. orders' = [booked EXCEPT ![o] = turned_down]
    BY <1>6
  <2> HIDE DEF turned_down
  <2>2. /\ orders' \in [OrderIds -> OrderRec] /\ orders'[o] = turned_down
        /\ \A k \in OrderIds \ {o} : orders'[k] = orders[k]
    BY <1>2, <1>4, <2>1
  <2> QED BY <1>1, <1>4, <2>2 DEF PlacedNow, Booked
<1> QED BY <1>3, <1>5, <1>6

(* An amended order: larger than its fill, or complete at it.              *)
LEMMA AmendedSound ==
    ASSUME NEW order \in OrderRec, OrderSound(order), order.status = "OPEN",
           NEW q \in Qtys, NEW p \in Prices, q >= order.filled
    PROVE  /\ Amended(order, q, p) \in OrderRec /\ OrderSound(Amended(order, q, p))
           /\ Amended(order, q, p).status = IF order.filled = q THEN "COMPLETE" ELSE "OPEN"
           /\ Amended(order, q, p).qty = q /\ Amended(order, q, p).price = p
           /\ Amended(order, q, p).filled = order.filled /\ Amended(order, q, p).gtt = order.gtt
           /\ Amended(order, q, p).key = order.key /\ Amended(order, q, p).spent = order.spent
           /\ Amended(order, q, p).placed = order.placed
<1> DEFINE status == IF order.filled >= q THEN "COMPLETE" ELSE "OPEN"
           one == [order EXCEPT !.qty = q]
           two == [one EXCEPT !.price = p]
           m == [two EXCEPT !.status = status]
<1>1. q \in Nat /\ p \in Nat /\ order.filled \in Nat /\ order.cancelled = 0
  BY PaperAssumption DEF OrderRec, OrderSound
<1>2. m = Amended(order, q, p)
  BY DEF Amended
<1>3. status = (IF order.filled = q THEN "COMPLETE" ELSE "OPEN") /\ status \in {"COMPLETE", "OPEN"}
  BY <1>1
<1> HIDE DEF status
<1>4. /\ one \in OrderRec /\ one.qty = q /\ one.filled = order.filled /\ one.gtt = order.gtt
      /\ one.key = order.key /\ one.spent = order.spent /\ one.placed = order.placed
      /\ one.cancelled = order.cancelled
  BY <1>1 DEF OrderRec
<1> HIDE DEF one
<1>5. /\ two \in OrderRec /\ two.qty = q /\ two.filled = order.filled /\ two.gtt = order.gtt
      /\ two.key = order.key /\ two.spent = order.spent /\ two.placed = order.placed
      /\ two.cancelled = order.cancelled /\ two.price = p
  BY <1>1, <1>4 DEF OrderRec
<1> HIDE DEF two
<1>6. /\ m \in OrderRec /\ m.qty = q /\ m.filled = order.filled /\ m.gtt = order.gtt
      /\ m.key = order.key /\ m.spent = order.spent /\ m.placed = order.placed
      /\ m.cancelled = order.cancelled /\ m.price = p /\ m.status = status
  BY <1>3, <1>5 DEF OrderRec
<1> HIDE DEF m
<1>7. OrderSound(m)
  BY <1>1, <1>3, <1>6 DEF OrderSound
<1> QED BY <1>2, <1>3, <1>6, <1>7

(* An order that meets its fate stays sound. *)
LEMMA FateSound ==
    ASSUME NEW order \in OrderRec, OrderSound(order), NEW m, NEW st, Fate(order, m, st)
    PROVE  OrderSound(m)
<1>1. CASE order.status # "OPEN"
  BY <1>1 DEF Fate
<1>2. CASE order.status = "OPEN"
  <2>1. m \in OrderRec /\ m.qty = order.qty /\ m.gtt = order.gtt
    BY DEF Fate
  <2>2. /\ order.filled <= order.qty /\ order.cancelled = 0
        /\ order.filled \in Nat /\ order.qty \in Nat /\ m.filled \in Nat
    BY <1>2, <2>1 DEF OrderSound, OrderRec
  <2>3. CASE StaysAsItWas(order, m)
    BY <1>2, <2>1, <2>2, <2>3 DEF StaysAsItWas, OrderSound
  <2>4. CASE TakesMore(order, m)
    BY <1>2, <2>1, <2>2, <2>4 DEF TakesMore, OrderSound
  <2>5. CASE IsEnded(order, m)
    BY <1>2, <2>1, <2>2, <2>5 DEF IsEnded, OrderSound
  <2> QED BY <2>3, <2>4, <2>5 DEF Fate
<1> QED BY <1>1, <1>2

(* A newborn order is sound. *)
LEMMA BornSound ==
    ASSUME NEW order, NEW g, Born(order, g)
    PROVE  OrderSound(order)
BY PaperAssumption DEF Born, OrderSound, OrderRec

-----------------------------------------------------------------------------
(* Types and soundness of the orders through a tick.                       *)
LEMMA TickTyped ==
    ASSUME BookTyped, NEW s \in Ticking, OnTick(s)
    PROVE  BookTyped'
<1>1. PICK st, middle, ltp :
        /\ Passed(middle, st) /\ MatchGtts(middle, s, ltp)
        /\ states' = [states EXCEPT ![s] = st] /\ session' = Max2(session, Today)
        /\ tape' \in [Symbols -> Nat] /\ now' = now
  BY TickPasses
<1>2. middle \in [OrderIds -> OrderRec] /\ st \in SymbolState
  BY <1>1 DEF Passed
<1>3. ASSUME NEW o \in OrderIds
      PROVE  OrderSound(middle[o])
  <2>1. orders[o] \in OrderRec /\ OrderSound(orders[o]) /\ Fate(orders[o], middle[o], st)
    BY <1>1 DEF BookTyped, Passed
  <2> QED BY <2>1, FateSound
<1>4. now' \in Nat /\ session' \in Int
  BY <1>1, TodayIsNat DEF BookTyped, Max2
<1>5. states' \in [Symbols -> SymbolState]
  BY <1>1, <1>2 DEF BookTyped
<1>6. PICK firing, at : TriggersDo(middle, firing, at)
  BY <1>1, <1>2, TriggersFire
<1>7. ASSUME NEW o \in OrderIds
      PROVE  OrderSound(orders'[o])
  <2>1. orders'[o] = middle[o] \/ \E g \in GttIds : Born(orders'[o], g)
    BY <1>6 DEF TriggersDo
  <2> QED BY <1>3, <2>1, BornSound
<1>8. ASSUME NEW g \in GttIds, gtts'[g].status = "active"
      PROVE  gtts'[g] = gtts[g]
  BY <1>6, <1>8 DEF TriggersDo
<1>9. \A g \in GttIds : gtts'[g].status = "active" =>
        /\ gtts'[g].symbol \in Symbols /\ gtts'[g].listed \in Symbols
        /\ gtts'[g].shape \in GttShapes
  BY <1>8 DEF BookTyped
<1>10. orders' \in [OrderIds -> OrderRec] /\ gtts' \in [GttIds -> GttRec]
  BY <1>6 DEF TriggersDo
<1> QED BY <1>1, <1>4, <1>5, <1>7, <1>9, <1>10 DEF BookTyped

(* ... and through any other step.                                         *)
LEMMA TypedStep ==
    ASSUME BookTyped, [PaperNext]_paperVars
    PROVE  BookTyped'
<1>1. CASE PlaceOrder
  <2>1. PICK o \in OrderIds :
          /\ orders' \in [OrderIds -> OrderRec] /\ Booked(o, "none")
          /\ \A k \in OrderIds \ {o} : orders'[k] = orders[k]
    BY <1>1, PlaceBooks DEF PlacedNow
  <2>2. \A k \in OrderIds : OrderSound(orders'[k])
    BY <2>1, BornSound DEF Booked, BookTyped
  <2> QED BY <1>1, <2>1, <2>2 DEF PlaceOrder, BookTyped
<1>2. ASSUME NEW o \in OrderIds, ModifyOrder(o)
      PROVE  BookTyped'
  <2>1. PICK q \in Qtys, p \in Prices :
          q >= orders[o].filled /\ orders' = [orders EXCEPT ![o] = Amended(orders[o], q, p)]
    BY <1>2 DEF ModifyOrder
  <2>2. Amended(orders[o], q, p) \in OrderRec /\ OrderSound(Amended(orders[o], q, p))
    BY <1>2, <2>1, AmendedSound DEF ModifyOrder, BookTyped
  <2>3. orders' \in [OrderIds -> OrderRec] /\ \A k \in OrderIds : OrderSound(orders'[k])
    BY <2>1, <2>2 DEF BookTyped
  <2> QED BY <1>2, <2>3 DEF ModifyOrder, BookTyped
<1>3. ASSUME NEW o \in OrderIds, CancelOrder(o)
      PROVE  BookTyped'
  <2>1. PICK st : st \in SymbolState
    <3>1. [day |-> 0, minute |-> 0, cum |-> 0, start |-> 0, running |-> 0, bar |-> 0,
           saw |-> FALSE, reset |-> FALSE] \in SymbolState
      BY DEF SymbolState
    <3> QED BY <3>1
  <2>2. Fate(orders[o], Terminated(orders[o], "CANCELLED"), st)
    BY <1>3, <2>1, TerminatedFate DEF CancelOrder, BookTyped
  <2>3. /\ Terminated(orders[o], "CANCELLED") \in OrderRec
        /\ OrderSound(Terminated(orders[o], "CANCELLED"))
    BY <2>2, FateSound DEF BookTyped, Fate
  <2>4. orders' \in [OrderIds -> OrderRec] /\ \A k \in OrderIds : OrderSound(orders'[k])
    BY <1>3, <2>3 DEF CancelOrder, BookTyped
  <2> QED BY <1>3, <2>4 DEF CancelOrder, BookTyped
<1>4. ASSUME NEW g \in GttIds, SetGtt(g)
      PROVE  BookTyped'
  <2>1. PICK s \in Symbols, shape \in GttShapes, listed \in Symbols :
          gtts' = [gtts EXCEPT ![g] =
                     [status |-> "active", symbol |-> s, shape |-> shape, listed |-> listed]]
    BY <1>4 DEF SetGtt, BookTyped
  <2>2. [status |-> "active", symbol |-> s, shape |-> shape, listed |-> listed] \in GttRec
    BY DEF GttRec
  <2> QED BY <1>4, <2>1, <2>2 DEF SetGtt, BookTyped
<1>5. ASSUME NEW g \in GttIds, DeleteGtt(g)
      PROVE  BookTyped'
  BY <1>5 DEF DeleteGtt, BookTyped, GttRec
<1>6. ASSUME NEW s \in Ticking, OnTick(s)
      PROVE  BookTyped'
  BY <1>6, TickTyped
<1>7. ASSUME NEW s \in Ticking, OnBar(s)
      PROVE  BookTyped'
  <2>1. PICK v \in BarVolumes : states' = [states EXCEPT ![s].bar = v]
    BY <1>7 DEF OnBar
  <2>2. v \in Nat /\ s \in Symbols
    BY PaperAssumption
  <2>3. states' \in [Symbols -> SymbolState]
    BY <2>1, <2>2 DEF BookTyped, SymbolState
  <2> QED BY <1>7, <2>3 DEF OnBar, BookTyped
<1>8. CASE Minute
  <2>1. now' \in Nat /\ tape' \in [Symbols -> Nat]
    BY <1>8 DEF Minute, BookTyped
  <2> QED BY <1>8, <2>1 DEF Minute, BookTyped
<1>9. CASE UNCHANGED paperVars
  BY <1>9 DEF paperVars, BookTyped
<1> QED BY <1>1, <1>2, <1>3, <1>4, <1>5, <1>6, <1>7, <1>8, <1>9 DEF PaperNext

(* The empty book is sound. *)
LEMMA InitTyped == PaperInit => BookTyped
<1> SUFFICES ASSUME PaperInit
             PROVE  BookTyped
  OBVIOUS
<1>1. Absent \in OrderRec /\ OrderSound(Absent)
  BY DEF Absent, OrderRec, OrderSound, None
<1>2. NoGtt \in GttRec /\ NoGtt.status = "absent"
  BY DEF NoGtt, GttRec
<1>3. Fresh \in SymbolState
  BY DEF Fresh, SymbolState, None
<1>4. /\ orders \in [OrderIds -> OrderRec] /\ \A o \in OrderIds : OrderSound(orders[o])
      /\ gtts \in [GttIds -> GttRec] /\ \A g \in GttIds : gtts[g].status = "absent"
      /\ states \in [Symbols -> SymbolState] /\ tape \in [Symbols -> Nat]
  BY <1>1, <1>2, <1>3 DEF PaperInit
<1>5. now \in Nat /\ session \in Int
  BY DEF PaperInit, None
<1> QED BY <1>4, <1>5 DEF BookTyped

-----------------------------------------------------------------------------
(***************************************************************************)
(* A closed order accounts for its whole quantity: what had filled and     *)
(* what is cancelled add up, whichever of a tick, a lapse, a raising       *)
(* callable, a modify or a cancel closed it (_terminate).                  *)
(***************************************************************************)
THEOREM ClosedOrdersAddUp == PaperSpec => []QuantityAccounted
<1>1. BookTyped => QuantityAccounted
  <2> SUFFICES ASSUME BookTyped, NEW o \in OrderIds, orders[o].status \in {"COMPLETE", "CANCELLED"}
               PROVE  orders[o].filled + orders[o].cancelled = orders[o].qty
    BY DEF QuantityAccounted
  <2>1. orders[o] \in OrderRec /\ OrderSound(orders[o])
    BY DEF BookTyped
  <2> QED BY <2>1 DEF OrderSound, OrderRec
<1> QED BY <1>1, InitTyped, TypedStep, PTL DEF PaperSpec

-----------------------------------------------------------------------------
(* The share of a minute: what an order took of the minute it last traded  *)
(* in is charged to it, until the minute is over.                          *)
OrderShare(order, t, at) ==
    /\ t \in [minute : Int, qty : Nat, volume : Nat]
    /\ t.qty * Share <= t.volume
    /\ t.minute <= at
    /\ t.minute = at => order.key = at /\ t.qty <= order.spent
    /\ order.status = "absent" => t.minute = None

SharesSpent ==
    /\ took \in [OrderIds -> [minute : Int, qty : Nat, volume : Nat]]
    /\ \A o \in OrderIds : OrderShare(orders[o], took[o], now)

(* Integer division: a share of the volume, taken Share times, fits in it. *)
LEMMA ShareFits ==
    ASSUME NEW v \in Nat, NEW x \in Nat, x <= v \div Share
    PROVE  x * Share <= v
<1>1. Share \in Nat \ {0}
  BY PaperAssumption
<1> QED BY <1>1

(* A tick charges every share it hands out.                                *)
LEMMA TickCharges ==
    ASSUME now \in Nat, NEW o \in OrderIds, NEW middle, NEW st \in SymbolState, st.minute = now,
           orders[o] \in OrderRec, OrderSound(orders[o]), Fate(orders[o], middle[o], st),
           OrderShare(orders[o], took[o], now)
    PROVE  OrderShare(middle[o], Tallied(orders, middle, st)[o], now)
<1> DEFINE order == orders[o]
           m == middle[o]
           volume == EffectiveVolume(st)
           got == m.filled - order.filled
           minuted == IF took[o].minute = now THEN took[o] ELSE [minute |-> now, qty |-> 0, volume |-> 0]
           after == [minuted EXCEPT !.qty = @ + got, !.volume = Max2(@, volume)]
           t == took[o]
<1>1. Tallied(orders, middle, st)[o] = IF got = 0 \/ volume = None THEN t ELSE after
  BY DEF Tallied
<1>2. /\ m \in OrderRec /\ order \in OrderRec /\ Charged(order, m, st)
      /\ OrderSound(order) /\ OrderShare(order, t, now) /\ volume \in Nat \cup {None}
      /\ (order.status # "absent" => m.status # "absent") /\ (order.status = "absent" => m = order)
  <2>1. order.status # "absent" => m.status # "absent"
    BY DEF Fate, StaysAsItWas, TakesMore, IsEnded
  <2> QED BY <2>1, VolumeTyped DEF Fate
<1>3. order.filled \in Nat /\ m.filled \in Nat /\ order.spent \in Nat /\ m.spent \in Nat
  BY <1>2 DEF OrderRec
<1>4. got \in Int /\ (got = 0 <=> m.filled = order.filled)
  BY <1>3
<1>5. got >= 0
  BY <1>3 DEF Fate, StaysAsItWas, TakesMore, IsEnded
<1>6. t.minute = now => Spent(order, st) = order.spent
  BY <1>2 DEF OrderShare, Spent
<1>7. CASE got = 0 \/ volume = None
  <2>1. \/ m.key = order.key /\ m.spent >= order.spent
        \/ m.key = now /\ m.spent >= Spent(order, st)
    BY <1>2, <1>4, <1>7 DEF Charged
  <2>2. t.minute = now => m.key = now /\ t.qty <= m.spent
    <3> SUFFICES ASSUME t.minute = now
                 PROVE  m.key = now /\ t.qty <= m.spent
      OBVIOUS
    <3>1. order.key = now /\ t.qty <= order.spent /\ t.qty \in Nat
      BY <1>2 DEF OrderShare
    <3> QED BY <1>3, <1>6, <2>1, <3>1
  <2> HIDE DEF t, m, order
  <2>3. OrderShare(m, t, now)
    BY <1>2, <2>2 DEF OrderShare
  <2> QED BY <1>1, <1>7, <2>3 DEF t, m
<1>8. CASE got # 0 /\ volume # None
  <2>1. /\ m.key = now /\ m.spent = Spent(order, st) + got
        /\ m.spent <= volume \div Share
    BY <1>2, <1>4, <1>8 DEF Charged
  <2>2. volume \in Nat /\ t.qty \in Nat /\ t.volume \in Nat /\ Spent(order, st) \in Nat
    BY <1>2, <1>3, <1>8 DEF OrderShare, Spent
  <2> HIDE DEF t, m, order, volume, got
  <2>3. /\ minuted \in [minute : Int, qty : Nat, volume : Nat] /\ minuted.minute = now
        /\ minuted.qty <= Spent(order, st)
    <3>1. CASE t.minute = now
      <4>1. minuted = t
        BY <3>1 DEF t
      <4>2. t \in [minute : Int, qty : Nat, volume : Nat] /\ t.qty <= order.spent
        BY <1>2, <3>1 DEF OrderShare
      <4> QED BY <1>6, <3>1, <4>1, <4>2
    <3>2. CASE t.minute # now
      <4>1. minuted = [minute |-> now, qty |-> 0, volume |-> 0]
        BY <3>2 DEF t
      <4> QED BY <2>2, <4>1
    <3> QED BY <3>1, <3>2
  <2> HIDE DEF minuted
  <2> DEFINE sum == minuted.qty + got
             most == Max2(minuted.volume, volume)
             counted == [minuted EXCEPT !.qty = sum]
  <2>4. sum \in Nat /\ most \in Nat /\ sum <= m.spent /\ volume <= most
    BY <1>4, <1>5, <2>1, <2>2, <2>3 DEF Max2
  <2>5. after = [counted EXCEPT !.volume = most]
    OBVIOUS
  <2> HIDE DEF sum, most, after
  <2>6. counted \in [minute : Int, qty : Nat, volume : Nat] /\ counted.minute = now /\ counted.qty = sum
    BY <2>3, <2>4
  <2> HIDE DEF counted
  <2>7. /\ after \in [minute : Int, qty : Nat, volume : Nat]
        /\ after.minute = now /\ after.qty = sum /\ after.volume = most
    BY <2>4, <2>5, <2>6
  <2>8. volume \div Share \in Int
    BY <2>2, PaperAssumption
  <2>9. sum <= volume \div Share
    BY <1>3, <2>1, <2>4, <2>8 DEF m
  <2>10. sum * Share <= volume
    BY <2>2, <2>4, <2>9, ShareFits
  <2>11. sum * Share \in Int
    BY <2>4, PaperAssumption
  <2>12. after.qty * Share <= after.volume
    BY <2>2, <2>4, <2>7, <2>10, <2>11
  <2>13. m.status # "absent"
    BY <1>2, <1>4, <1>8 DEF m, order, got
  <2>14. OrderShare(m, after, now)
    BY <2>1, <2>4, <2>7, <2>12, <2>13 DEF OrderShare
  <2> QED BY <1>1, <1>8, <2>14 DEF t, m, volume, got
<1> QED BY <1>7, <1>8

(* A new order has taken nothing. *)
LEMMA BornShares ==
    ASSUME NEW order, NEW g, Born(order, g), NEW t, NEW old, NEW at \in Nat,
           OrderShare(old, t, at), old.status = "absent"
    PROVE  OrderShare(order, t, at)
BY DEF Born, OrderShare, None

(* A tick keeps within the shares. *)
LEMMA TickShares ==
    ASSUME BookTyped, SharesSpent, NEW s \in Ticking, OnTick(s)
    PROVE  SharesSpent'
<1>1. PICK st, middle, ltp :
        Passed(middle, st) /\ MatchGtts(middle, s, ltp) /\ now' = now
  BY TickPasses
<1>2. /\ middle \in [OrderIds -> OrderRec] /\ st \in SymbolState /\ st.minute = now
      /\ now \in Nat /\ took' = Tallied(orders, middle, st)
  BY <1>1 DEF Passed, BookTyped
<1>3. ASSUME NEW o \in OrderIds
      PROVE  OrderShare(middle[o], took'[o], now)
  <2>1. /\ orders[o] \in OrderRec /\ OrderSound(orders[o])
        /\ Fate(orders[o], middle[o], st) /\ OrderShare(orders[o], took[o], now)
    BY <1>1 DEF BookTyped, Passed, SharesSpent
  <2> QED BY <1>2, <2>1, TickCharges
<1>4. took' \in [OrderIds -> [minute : Int, qty : Nat, volume : Nat]]
  <2>1. \A o \in OrderIds : took'[o] \in [minute : Int, qty : Nat, volume : Nat]
    BY <1>3 DEF OrderShare
  <2> QED BY <1>2, <2>1 DEF Tallied
<1>5. ASSUME NEW o \in OrderIds
      PROVE  OrderShare(orders'[o], took'[o], now)
  <2>1. \/ orders'[o] = middle[o]
        \/ middle[o].status = "absent" /\ \E g : Born(orders'[o], g)
    BY <1>1, <1>2, TriggersBook
  <2> QED BY <1>2, <1>3, <2>1, BornShares
<1>6. ASSUME NEW o \in OrderIds
      PROVE  OrderShare(orders'[o], took'[o], now')
  BY <1>1, <1>5
<1> QED BY <1>4, <1>6 DEF SharesSpent

(* No step lets an order take more than its share of the minute. *)
LEMMA ShareStep ==
    ASSUME BookTyped, SharesSpent, [PaperNext]_paperVars
    PROVE  SharesSpent'
<1>1. CASE PlaceOrder
  <2>1. PICK o \in OrderIds :
          /\ orders' \in [OrderIds -> OrderRec] /\ Booked(o, "none")
          /\ \A k \in OrderIds \ {o} : orders'[k] = orders[k]
    BY <1>1, PlaceBooks DEF PlacedNow
  <2>2. OrderShare(orders'[o], took[o], now)
    BY <2>1, BornShares DEF Booked, SharesSpent, BookTyped
  <2>3. took' = took /\ now' = now
    BY <1>1 DEF PlaceOrder
  <2>4. \A k \in OrderIds : OrderShare(orders'[k], took[k], now)
    BY <2>1, <2>2 DEF SharesSpent
  <2> QED BY <2>3, <2>4 DEF SharesSpent
<1>2. ASSUME NEW o \in OrderIds, ModifyOrder(o)
      PROVE  SharesSpent'
  <2>1. PICK q \in Qtys, p \in Prices :
          q >= orders[o].filled /\ orders' = [orders EXCEPT ![o] = Amended(orders[o], q, p)]
    BY <1>2 DEF ModifyOrder
  <2> DEFINE m == Amended(orders[o], q, p)
  <2>2. m.key = orders[o].key /\ m.spent = orders[o].spent /\ m.status \in {"OPEN", "COMPLETE"}
    BY <1>2, <2>1, AmendedSound DEF ModifyOrder, BookTyped
  <2>3. took' = took /\ now' = now /\ orders \in [OrderIds -> OrderRec]
    BY <1>2 DEF ModifyOrder, BookTyped
  <2>4. orders' = [orders EXCEPT ![o] = m]
    BY <2>1
  <2> HIDE DEF m
  <2>5. OrderShare(m, took[o], now)
    BY <2>2 DEF SharesSpent, OrderShare
  <2>6. \A k \in OrderIds : OrderShare(orders'[k], took[k], now)
    BY <2>3, <2>4, <2>5 DEF SharesSpent
  <2> QED BY <2>3, <2>6 DEF SharesSpent
<1>3. ASSUME NEW o \in OrderIds, CancelOrder(o)
      PROVE  SharesSpent'
  <2> DEFINE m == Terminated(orders[o], "CANCELLED")
  <2>1. m.key = orders[o].key /\ m.spent = orders[o].spent /\ m.status = "CANCELLED"
    BY DEF Terminated, BookTyped, OrderRec
  <2>2. took' = took /\ now' = now /\ orders \in [OrderIds -> OrderRec]
    BY <1>3 DEF CancelOrder, BookTyped
  <2>3. orders' = [orders EXCEPT ![o] = m]
    BY <1>3 DEF CancelOrder
  <2> HIDE DEF m
  <2>4. OrderShare(m, took[o], now)
    BY <2>1 DEF SharesSpent, OrderShare
  <2>5. \A k \in OrderIds : OrderShare(orders'[k], took[k], now)
    BY <2>2, <2>3, <2>4 DEF SharesSpent
  <2> QED BY <2>2, <2>5 DEF SharesSpent
<1>4. ASSUME NEW s \in Ticking, OnTick(s)
      PROVE  SharesSpent'
  BY <1>4, TickShares
<1>5. CASE Minute
  <2>1. orders' = orders /\ took' = took /\ now' = now + 1 /\ now \in Nat
    BY <1>5 DEF Minute, BookTyped
  <2>2. ASSUME NEW o \in OrderIds
        PROVE  OrderShare(orders[o], took[o], now + 1)
    BY <2>1 DEF SharesSpent, OrderShare
  <2> QED BY <2>1, <2>2 DEF SharesSpent
<1>6. CASE \/ \E g \in GttIds : SetGtt(g) \/ DeleteGtt(g)
           \/ \E s \in Ticking : OnBar(s)
           \/ UNCHANGED paperVars
  <2>1. orders' = orders /\ took' = took /\ now' = now
    BY <1>6 DEF SetGtt, DeleteGtt, OnBar, paperVars
  <2> QED BY <2>1 DEF SharesSpent
<1> QED BY <1>1, <1>2, <1>3, <1>4, <1>5, <1>6 DEF PaperNext

(***************************************************************************)
(* No order takes more than its share of the volume a minute has shown,    *)
(* for any number of ticks, restatements, partial fills, modifies and      *)
(* minutes, and any Share (_fillable_qty).                                 *)
(***************************************************************************)
THEOREM SharesNeverExceeded == PaperSpec => []ShareHolds
<1>1. PaperInit => SharesSpent
  <2> SUFFICES ASSUME PaperInit
               PROVE  SharesSpent
    OBVIOUS
  <2> DEFINE t == [minute |-> None, qty |-> 0, volume |-> 0]
  <2>1. \A o \in OrderIds : orders[o] = Absent /\ took[o] = t
    BY DEF PaperInit
  <2>2. t \in [minute : Int, qty : Nat, volume : Nat] /\ took = [o \in OrderIds |-> t] /\ now = 0
    BY DEF PaperInit, None
  <2>3. 0 * Share = 0
    BY PaperAssumption
  <2>4. OrderShare(Absent, t, 0)
    BY <2>2, <2>3 DEF OrderShare, None
  <2> HIDE DEF t
  <2> QED BY <2>1, <2>2, <2>4 DEF SharesSpent
<1>2. SharesSpent => ShareHolds
  BY DEF SharesSpent, OrderShare, ShareHolds
<1>3. BookTyped /\ SharesSpent /\ [PaperNext]_paperVars => (BookTyped /\ SharesSpent)'
  BY TypedStep, ShareStep
<1> QED BY <1>1, <1>2, <1>3, InitTyped, PTL DEF PaperSpec

-----------------------------------------------------------------------------
(* Triggers and their legs.                                                *)
Legs(g) == {o \in OrderIds : orders[o].gtt = g}

LegsBooked ==
    \A g \in GttIds :
        /\ gtts[g].status = "triggered" => \E o \in OrderIds : Legs(g) = {o}
        /\ gtts[g].status \in {"absent", "active", "failed"} => Legs(g) = {}

(* Steps that book no leg leave every order its trigger.                   *)
LEMMA SameLegs ==
    ASSUME LegsBooked, \A o \in OrderIds : orders'[o].gtt = orders[o].gtt,
           \A g \in GttIds : \/ gtts'[g].status = gtts[g].status
                             \/ gtts'[g].status = "deleted"
                             \/ /\ gtts'[g].status \in {"active", "failed"}
                                /\ gtts[g].status \in {"absent", "active", "failed"}
    PROVE  LegsBooked'
<1>1. \A g \in GttIds : Legs(g)' = Legs(g)
  BY DEF Legs
<1> HIDE DEF Legs
<1> SUFFICES ASSUME NEW g \in GttIds
             PROVE  /\ gtts'[g].status = "triggered" => \E o \in OrderIds : Legs(g)' = {o}
                    /\ gtts'[g].status \in {"absent", "active", "failed"} => Legs(g)' = {}
  BY DEF LegsBooked
<1>2. Legs(g)' = Legs(g)
  BY <1>1
<1>3. /\ gtts[g].status = "triggered" => \E o \in OrderIds : Legs(g) = {o}
      /\ gtts[g].status \in {"absent", "active", "failed"} => Legs(g) = {}
  BY DEF LegsBooked
<1> QED BY <1>2, <1>3

(* No step books a second leg for a trigger, or one for a trigger that has *)
(* not fired.                                                              *)
LEMMA LegsStep ==
    ASSUME BookTyped, LegsBooked, [PaperNext]_paperVars
    PROVE  LegsBooked'
<1>1. CASE PlaceOrder
  <2>1. PICK o \in OrderIds :
          Booked(o, "none") /\ \A k \in OrderIds \ {o} : orders'[k] = orders[k]
    BY <1>1, PlaceBooks DEF PlacedNow
  <2>2. orders[o].gtt = "none" /\ orders'[o].gtt = "none"
    BY <2>1 DEF Booked, Born, BookTyped, OrderSound
  <2>3. \A k \in OrderIds : orders'[k].gtt = orders[k].gtt
    BY <2>1, <2>2
  <2>4. gtts' = gtts
    BY <1>1 DEF PlaceOrder
  <2> QED BY <2>3, <2>4, SameLegs
<1>2. ASSUME NEW o \in OrderIds, ModifyOrder(o)
      PROVE  LegsBooked'
  <2>1. PICK q \in Qtys, p \in Prices :
          q >= orders[o].filled /\ orders' = [orders EXCEPT ![o] = Amended(orders[o], q, p)]
    BY <1>2 DEF ModifyOrder
  <2>2. Amended(orders[o], q, p).gtt = orders[o].gtt
    BY <1>2, <2>1, AmendedSound DEF ModifyOrder, BookTyped
  <2>3. \A k \in OrderIds : orders'[k].gtt = orders[k].gtt
    BY <2>1, <2>2 DEF BookTyped
  <2> QED BY <1>2, <2>3, SameLegs DEF ModifyOrder
<1>3. ASSUME NEW o \in OrderIds, CancelOrder(o)
      PROVE  LegsBooked'
  <2>1. Terminated(orders[o], "CANCELLED").gtt = orders[o].gtt
    BY DEF Terminated, BookTyped, OrderRec
  <2>2. \A k \in OrderIds : orders'[k].gtt = orders[k].gtt
    BY <1>3, <2>1 DEF CancelOrder, BookTyped
  <2> QED BY <1>3, <2>2, SameLegs DEF CancelOrder
<1>4. ASSUME NEW g \in GttIds, SetGtt(g) \/ DeleteGtt(g)
      PROVE  LegsBooked'
  <2>1. orders' = orders
    BY <1>4 DEF SetGtt, DeleteGtt
  <2>2. \A h \in GttIds : \/ gtts'[h].status = gtts[h].status
                          \/ gtts'[h].status = "deleted"
                          \/ gtts'[h].status = "active" /\ gtts[h].status \in {"absent", "active"}
    BY <1>4 DEF SetGtt, DeleteGtt, BookTyped, GttRec
  <2> QED BY <2>1, <2>2, SameLegs
<1>5. ASSUME NEW s \in Ticking, OnTick(s)
      PROVE  LegsBooked'
  <2>1. PICK st, middle, ltp : Passed(middle, st) /\ MatchGtts(middle, s, ltp)
    BY <1>5, TickPasses
  <2>2. middle \in [OrderIds -> OrderRec] /\ \A o \in OrderIds : middle[o].gtt = orders[o].gtt
    BY <2>1 DEF Passed, Fate
  <2>3. PICK firing, at : TriggersDo(middle, firing, at)
    BY <2>1, <2>2, TriggersFire
  <2>4. ASSUME NEW g \in firing
        PROVE  /\ g \in GttIds /\ at[g] \in OrderIds /\ gtts[g].status = "active"
               /\ orders[at[g]].gtt = "none" /\ Legs(g) = {}
               /\ \/ gtts'[g].status = "failed" /\ orders'[at[g]].gtt = "none"
                  \/ gtts'[g].status = "triggered" /\ orders'[at[g]].gtt = g
    <3>1. g \in GttIds /\ at[g] \in OrderIds /\ gtts[g].status = "active" /\ middle[at[g]].status = "absent"
      BY <2>3 DEF TriggersDo
    <3>2. orders[at[g]].status = "absent"
      BY <2>1, <3>1 DEF Passed, Fate, StaysAsItWas, TakesMore, IsEnded
    <3>3. orders[at[g]].gtt = "none" /\ Legs(g) = {}
      BY <3>1, <3>2 DEF BookTyped, OrderSound, LegsBooked
    <3>4. \/ gtts'[g].status = "failed" /\ orders'[at[g]] = middle[at[g]]
          \/ gtts'[g].status = "triggered" /\ Born(orders'[at[g]], g)
      BY <2>3 DEF TriggersDo
    <3> QED BY <2>2, <3>1, <3>3, <3>4 DEF Born
  <2>5. ASSUME NEW o \in OrderIds
        PROVE  \/ orders'[o].gtt = orders[o].gtt
               \/ \E g \in firing : /\ at[g] = o /\ orders[o].gtt = "none" /\ orders'[o].gtt = g
                                   /\ gtts'[g].status = "triggered"
    <3>1. orders'[o] = middle[o] \/ \E g \in firing : at[g] = o
      BY <2>3 DEF TriggersDo
    <3> QED BY <2>2, <2>4, <3>1
  <2>6. /\ \A g, h \in firing : at[g] = at[h] => g = h
        /\ \A g \in GttIds \ firing : gtts'[g] = gtts[g]
    BY <2>3 DEF TriggersDo
  <2>7. ASSUME NEW h \in GttIds
        PROVE  /\ gtts'[h].status = "triggered" => \E o \in OrderIds : Legs(h)' = {o}
               /\ gtts'[h].status \in {"absent", "active", "failed"} => Legs(h)' = {}
    <3>1. h # "none"
      BY PaperAssumption
    <3>2. CASE h \in firing /\ gtts'[h].status = "triggered"
      <4>1. Legs(h)' = {at[h]} /\ at[h] \in OrderIds
        BY <2>4, <2>5, <3>1, <3>2 DEF Legs
      <4> QED BY <3>2, <4>1
    <3>3. CASE h \in firing /\ gtts'[h].status # "triggered"
      <4>1. gtts'[h].status = "failed" /\ Legs(h) = {}
        BY <2>4, <3>3
      <4>2. Legs(h)' = {}
        BY <2>4, <2>5, <3>1, <3>3, <4>1 DEF Legs
      <4> QED BY <4>1, <4>2
    <3>4. CASE h \notin firing
      <4>1. Legs(h)' = Legs(h)
        BY <2>5, <3>1, <3>4 DEF Legs
      <4>2. gtts'[h] = gtts[h]
        BY <2>6, <3>4
      <4> HIDE DEF Legs
      <4> QED BY <4>1, <4>2 DEF LegsBooked
    <3> QED BY <3>2, <3>3, <3>4
  <2> QED BY <2>7 DEF LegsBooked
<1>6. CASE Minute \/ (\E s \in Ticking : OnBar(s)) \/ UNCHANGED paperVars
  <2>1. orders' = orders /\ gtts' = gtts
    BY <1>6 DEF Minute, OnBar, paperVars
  <2> QED BY <2>1, SameLegs
<1> QED BY <1>1, <1>2, <1>3, <1>4, <1>5, <1>6 DEF PaperNext

(***************************************************************************)
(* A trigger has fired exactly when one order was booked for it, whatever  *)
(* ticks, raising callables, re-settings and deletions come in between     *)
(* (_fire_gtt_leg).                                                        *)
(***************************************************************************)
THEOREM TriggersBookOneLeg == PaperSpec => []OneLegPerTrigger
<1>1. PaperInit => LegsBooked
  <2> SUFFICES ASSUME PaperInit, NEW g \in GttIds
               PROVE  gtts[g].status = "absent" /\ Legs(g) = {}
    BY DEF LegsBooked
  <2>1. "none" # g
    BY PaperAssumption
  <2> QED BY <2>1 DEF PaperInit, NoGtt, Absent, Legs
<1>2. LegsBooked => OneLegPerTrigger
  <2> SUFFICES ASSUME LegsBooked, NEW g \in GttIds
               PROVE  /\ gtts[g].status = "triggered" => Cardinality(Legs(g)) = 1
                      /\ gtts[g].status \in {"absent", "active", "failed"} => Cardinality(Legs(g)) = 0
    BY DEF OneLegPerTrigger, Legs
  <2> QED BY FS_Singleton, FS_EmptySet DEF LegsBooked
<1>3. BookTyped /\ LegsBooked /\ [PaperNext]_paperVars => (BookTyped /\ LegsBooked)'
  BY TypedStep, LegsStep
<1> QED BY <1>1, <1>2, <1>3, InitTyped, PTL DEF PaperSpec

-----------------------------------------------------------------------------
(***************************************************************************)
(* The first tick of a new day leaves no order of an earlier day resting,  *)
(* on any symbol, whichever symbol it is of (_lapse_all).                  *)
(***************************************************************************)
THEOREM OldOrdersLapse == PaperSpec => DayOrdersLapse
<1>1. ASSUME BookTyped, PaperNext, session # None, session' > session, NEW o \in OrderIds,
             orders'[o].status = "OPEN"
      PROVE  DayOf(orders'[o]) >= session'
  <2>1. PICK s \in Ticking : OnTick(s)
    <3>1. session' # session
      BY <1>1 DEF BookTyped
    <3> QED BY <1>1, <3>1 DEF PaperNext, PlaceOrder, ModifyOrder, CancelOrder, SetGtt, DeleteGtt, OnBar, Minute
  <2>2. PICK st, middle, ltp :
          Passed(middle, st) /\ MatchGtts(middle, s, ltp) /\ session' = Max2(session, Today)
    BY <1>1, <2>1, TickPasses
  <2>3. Today \in Nat /\ session \in Int
    BY <1>1, TodayIsNat DEF BookTyped
  <2>4. session < Today /\ session' = Today
    BY <1>1, <2>2, <2>3 DEF Max2
  <2>5. \A k \in OrderIds : middle[k].status = "OPEN" => DayOf(middle[k]) >= Today
    BY <1>1, <2>2, <2>4 DEF Passed
  <2>6. \/ orders'[o] = middle[o]
        \/ \E g : Born(orders'[o], g)
    <3>1. middle \in [OrderIds -> OrderRec]
      BY <2>2 DEF Passed
    <3> QED BY <1>1, <2>2, <3>1, TriggersBook
  <2>7. CASE orders'[o] = middle[o]
    BY <1>1, <2>4, <2>5, <2>7
  <2>8. CASE \E g : Born(orders'[o], g)
    <3>1. DayOf(orders'[o]) = Today
      BY <2>8 DEF Born, DayOf, Today
    <3> QED BY <2>3, <2>4, <3>1
  <2> QED BY <2>6, <2>7, <2>8
<1>2. BookTyped /\ [PaperNext]_paperVars =>
        [session # None /\ session' > session =>
            \A o \in OrderIds : orders'[o].status = "OPEN" => DayOf(orders'[o]) >= session']_paperVars
  BY <1>1
<1> QED BY <1>2, InitTyped, TypedStep, PTL DEF PaperSpec, DayOrdersLapse

-----------------------------------------------------------------------------
(* The moves of one order's book.                                          *)
LEMMA FateIsAMove ==
    ASSUME NEW o \in OrderIds, NEW st, orders[o] \in OrderRec, OrderSound(orders[o]),
           Fate(orders[o], orders'[o], st)
    PROVE  Book(o)!Next \/ BookOf(o)' = BookOf(o)
<1> DEFINE order == orders[o]
           m == orders'[o]
<1>1. m \in OrderRec /\ m.qty = order.qty /\ m.price = order.price
  BY DEF Fate
<1>2. CASE StaysAsItWas(order, m)
  BY <1>1, <1>2 DEF StaysAsItWas, BookOf
<1>3. CASE TakesMore(order, m)
  <2>1. /\ order.status = "OPEN" /\ m.filled \in order.filled + 1 .. order.qty
        /\ m.status = IF m.filled = m.qty THEN "COMPLETE" ELSE "OPEN"
    BY <1>1, <1>3 DEF TakesMore, OrderRec
  <2> DEFINE filled_to == IF m.filled = order.qty THEN "complete" ELSE "open"
  <2>2. BookOf(o).status = "open" /\ BookOf(o).filled_qty = order.filled /\ BookOf(o).qty = order.qty
    BY <2>1 DEF BookOf, Outcome
  <2>3. BookOf(o)' = [status |-> filled_to, qty |-> order.qty, price |-> order.price, filled_qty |-> m.filled]
    BY <1>1, <2>1 DEF BookOf, Outcome
  <2> HIDE DEF filled_to
  <2>4. [BookOf(o) EXCEPT !.filled_qty = m.filled, !.status = filled_to]
          = [status |-> filled_to, qty |-> order.qty, price |-> order.price, filled_qty |-> m.filled]
    <3> DEFINE more == [BookOf(o) EXCEPT !.filled_qty = m.filled]
    <3>1. more = [status |-> "open", qty |-> order.qty, price |-> order.price, filled_qty |-> m.filled]
      BY <2>1 DEF BookOf, Outcome
    <3> DEFINE closed == [more EXCEPT !.status = filled_to]
    <3> HIDE DEF more
    <3>2. closed = [status |-> filled_to, qty |-> order.qty, price |-> order.price, filled_qty |-> m.filled]
      BY <3>1
    <3> QED BY <3>2 DEF more
  <2>5. BookOf(o)' = [BookOf(o) EXCEPT !.filled_qty = m.filled, !.status = Book(o)!StatusAt(m.filled, BookOf(o).qty)]
    BY <2>2, <2>3, <2>4 DEF Book!StatusAt, filled_to
  <2>6. Book(o)!Fill
    BY <2>1, <2>2, <2>5 DEF Book!Fill
  <2> QED BY <2>6 DEF Book!Next
<1>4. CASE IsEnded(order, m)
  <2>1. order.status = "OPEN" /\ m.filled = order.filled /\ m.status \in {"CANCELLED", "REJECTED"}
    BY <1>4 DEF IsEnded
  <2>2. CASE m.status = "CANCELLED"
    <3>1. Book(o)!Close
      BY <1>1, <2>1, <2>2 DEF Book!Close, BookOf, Outcome
    <3> QED BY <3>1 DEF Book!Next
  <2>3. CASE m.status = "REJECTED"
    <3>1. Book(o)!RejectInside
      BY <1>1, <2>1, <2>3 DEF Book!RejectInside, BookOf, Outcome
    <3> QED BY <3>1 DEF Book!Next
  <2> QED BY <2>1, <2>2, <2>3
<1> QED BY <1>2, <1>3, <1>4 DEF Fate

(* A birth is an acceptance or a rejection in the broker's book of that    *)
(* order.                                                                  *)
LEMMA BirthIsAMove ==
    ASSUME NEW o \in OrderIds, NEW g, orders[o].status = "absent", Born(orders'[o], g)
    PROVE  Book(o)!Next
<1> DEFINE m == orders'[o]
<1>1. m.filled = 0 /\ m.qty \in Qtys /\ m.price \in Prices /\ m.status \in {"OPEN", "REJECTED"}
  BY DEF Born
<1>2. CASE m.status = "OPEN"
  <2>1. Book(o)!Accept
    BY <1>1, <1>2 DEF Book!Accept, BookOf, Outcome
  <2> QED BY <2>1 DEF Book!Next
<1>3. CASE m.status = "REJECTED"
  <2>1. Book(o)!Refuse
    BY <1>1, <1>3 DEF Book!Refuse, BookOf, Outcome
  <2> QED BY <2>1 DEF Book!Next
<1> QED BY <1>1, <1>2, <1>3

(* A step moves each order as one move of the broker's book, or not at all. *)
LEMMA StepIsAMove ==
    ASSUME BookTyped, [PaperNext]_paperVars, NEW o \in OrderIds
    PROVE  Book(o)!Next \/ BookOf(o)' = BookOf(o)
<1>1. CASE orders'[o] = orders[o]
  BY <1>1 DEF BookOf
<1>2. CASE PlaceOrder
  <2>1. PICK k \in OrderIds :
          Booked(k, "none") /\ \A j \in OrderIds \ {k} : orders'[j] = orders[j]
    BY <1>2, PlaceBooks DEF PlacedNow
  <2> QED BY <1>1, <2>1, BirthIsAMove DEF Booked
<1>3. CASE ModifyOrder(o)
  <2>1. PICK q \in Qtys, p \in Prices :
          q >= orders[o].filled /\ orders' = [orders EXCEPT ![o] = Amended(orders[o], q, p)]
    BY <1>3 DEF ModifyOrder
  <2> DEFINE m == Amended(orders[o], q, p)
  <2>2. /\ m.qty = q /\ m.price = p /\ m.filled = orders[o].filled
        /\ m.status = IF orders[o].filled = q THEN "COMPLETE" ELSE "OPEN"
        /\ orders'[o] = m /\ orders[o].status = "OPEN"
    BY <1>3, <2>1, AmendedSound DEF ModifyOrder, BookTyped
  <2> HIDE DEF m
  <2> DEFINE sized_to == IF orders[o].filled = q THEN "complete" ELSE "open"
  <2>3. BookOf(o).status = "open" /\ BookOf(o).filled_qty = orders[o].filled
    BY <2>2 DEF BookOf, Outcome
  <2>4. BookOf(o)' = [status |-> sized_to, qty |-> q, price |-> p, filled_qty |-> orders[o].filled]
    BY <2>2 DEF BookOf, Outcome
  <2> HIDE DEF sized_to
  <2>5. [BookOf(o) EXCEPT !.qty = q, !.price = p, !.status = sized_to]
          = [status |-> sized_to, qty |-> q, price |-> p, filled_qty |-> orders[o].filled]
    <3> DEFINE sized == [BookOf(o) EXCEPT !.qty = q]
    <3>1. sized = [status |-> "open", qty |-> q, price |-> orders[o].price, filled_qty |-> orders[o].filled]
      BY <2>2 DEF BookOf, Outcome
    <3> DEFINE priced == [sized EXCEPT !.price = p]
    <3> HIDE DEF sized
    <3>2. priced = [status |-> "open", qty |-> q, price |-> p, filled_qty |-> orders[o].filled]
      BY <3>1
    <3> DEFINE closed == [priced EXCEPT !.status = sized_to]
    <3> HIDE DEF priced
    <3>3. closed = [status |-> sized_to, qty |-> q, price |-> p, filled_qty |-> orders[o].filled]
      BY <3>2
    <3> QED BY <3>3 DEF priced, sized
  <2>6. BookOf(o)' = [BookOf(o) EXCEPT !.qty = q, !.price = p,
                                       !.status = Book(o)!StatusAt(BookOf(o).filled_qty, q)]
    BY <2>3, <2>4, <2>5 DEF Book!StatusAt, sized_to
  <2>7. Book(o)!Modify
    BY <2>1, <2>3, <2>6 DEF Book!Modify
  <2> QED BY <2>7 DEF Book!Next
<1>4. CASE CancelOrder(o)
  <2> DEFINE m == Terminated(orders[o], "CANCELLED")
  <2>1. /\ m.qty = orders[o].qty /\ m.price = orders[o].price /\ m.filled = orders[o].filled
        /\ m.status = "CANCELLED" /\ orders'[o] = m /\ orders[o].status = "OPEN"
    BY <1>4 DEF CancelOrder, Terminated, BookTyped, OrderRec
  <2> HIDE DEF m
  <2>2. Book(o)!Close
    BY <2>1 DEF Book!Close, BookOf, Outcome
  <2> QED BY <2>2 DEF Book!Next
<1>5. ASSUME NEW k \in OrderIds \ {o}, ModifyOrder(k) \/ CancelOrder(k)
      PROVE  orders'[o] = orders[o]
  BY <1>5 DEF ModifyOrder, CancelOrder, BookTyped
<1>6. ASSUME NEW s \in Ticking, OnTick(s)
      PROVE  Book(o)!Next \/ BookOf(o)' = BookOf(o)
  <2>1. PICK st, middle, ltp : Passed(middle, st) /\ MatchGtts(middle, s, ltp)
    BY <1>6, TickPasses
  <2>2. middle \in [OrderIds -> OrderRec] /\ Fate(orders[o], middle[o], st)
    BY <2>1 DEF Passed
  <2>3. CASE orders'[o] = middle[o]
    <3>1. orders[o] \in OrderRec /\ OrderSound(orders[o]) /\ Fate(orders[o], orders'[o], st)
      BY <2>2, <2>3 DEF BookTyped
    <3> QED BY <3>1, FateIsAMove
  <2>4. ASSUME NEW g, middle[o].status = "absent", Born(orders'[o], g)
        PROVE  Book(o)!Next
    <3>1. orders[o].status = "absent"
      BY <2>2, <2>4 DEF Fate, StaysAsItWas, TakesMore, IsEnded
    <3> QED BY <2>4, <3>1, BirthIsAMove
  <2>5. orders'[o] = middle[o] \/ \E g : middle[o].status = "absent" /\ Born(orders'[o], g)
    BY <2>1, <2>2, TriggersBook
  <2> QED BY <2>3, <2>4, <2>5
<1>7. CASE \/ Minute \/ (\E g \in GttIds : SetGtt(g) \/ DeleteGtt(g))
           \/ (\E s \in Ticking : OnBar(s)) \/ UNCHANGED paperVars
  BY <1>1, <1>7 DEF Minute, SetGtt, DeleteGtt, OnBar, paperVars
<1> QED BY <1>1, <1>2, <1>3, <1>4, <1>5, <1>6, <1>7 DEF PaperNext

(***************************************************************************)
(* Each order of the paper broker is a BrokerBook: ticks, lapses, triggers *)
(* and callers move it only as the broker that the order management is     *)
(* verified against moves, so paper and live share what they promise.      *)
(***************************************************************************)
THEOREM PaperImplementsBroker == PaperSpec => ImplementsBroker
<1>1. PaperInit => \A o \in OrderIds : Book(o)!Init
  BY DEF PaperInit, Book!Init, Book!NoBook, BookOf, Outcome, Absent
<1>2. BookTyped /\ [PaperNext]_paperVars => [\A o \in OrderIds : [Book(o)!Next]_(BookOf(o))]_paperVars
  BY StepIsAMove
<1> QED BY <1>1, <1>2, InitTyped, TypedStep, PTL DEF PaperSpec, ImplementsBroker

-----------------------------------------------------------------------------
(* What the broker knows of the tape: never more than was traded, never    *)
(* less than the last honest print, and a minute starts no lower than the  *)
(* last honest print before it.                                            *)
FeedOf(s) ==
    LET st == states[s]
        h == honest[s]
    IN /\ h \in [before : Int, latest : Int]
       /\ st.minute <= now /\ st.day <= Today
       /\ st.minute = now => st.day = Today
       /\ st.day = Today => st.cum <= tape[s]
       /\ h.latest # None => st.day = Today /\ h.latest >= 0 /\ h.latest <= st.cum
       /\ h.before # None => h.latest # None /\ h.before >= 0 /\ h.before <= tape[s]
       /\ h.before # None /\ st.minute = now => /\ h.before <= st.start
                                                /\ st.running <= tape[s] - h.before

FeedKnown ==
    /\ honest \in [Symbols -> [before : Int, latest : Int]]
    /\ \A s \in Symbols : FeedOf(s)

(* A tick raises the mark of the day to a volume that was traded. *)
LEMMA TickKnown ==
    ASSUME BookTyped, FeedKnown, NEW s \in Ticking, OnTick(s)
    PROVE  FeedKnown'
<1>1. PICK n, ltp, waiting, broken, cum :
        n \in Trades /\ cum \in Printed(s, n) /\ Arrives(s, n, ltp, cum, waiting, broken)
  BY DEF OnTick
<1> DEFINE old == states[s]
           st == Heard(old, cum)
           h == honest[s]
           traded == tape[s] + n
           after == HonestAfter(s, n, cum)
           mark == IF old.day = Today THEN old.cum ELSE None
<1>2. s \in Symbols /\ now \in Nat /\ tape[s] \in Nat /\ n \in Nat /\ Today \in Nat
  BY <1>1, PaperAssumption, TodayIsNat DEF BookTyped
<1>3. cum \in Nat /\ cum <= traded /\ traded \in Nat
  BY <1>1, <1>2, PaperAssumption DEF Printed
<1>4. /\ states' = [states EXCEPT ![s] = st] /\ tape' = [tape EXCEPT ![s] = traded]
      /\ honest' = [honest EXCEPT ![s] = after] /\ now' = now
  BY <1>1 DEF Arrives
<1>5. Today' = Today
  BY <1>4 DEF Today
<1>6. old \in SymbolState /\ h \in [before : Int, latest : Int] /\ FeedOf(s)
  BY <1>2 DEF BookTyped, FeedKnown
<1>7. /\ st \in SymbolState /\ st.minute = now /\ st.day = Today
      /\ st.cum = Max2(cum, mark)
      /\ st.start = IF old.day = Today /\ old.minute = now THEN old.start
                    ELSE IF mark # None THEN mark ELSE cum
      /\ st.running = Max2(st.cum - st.start, 0)
  BY <1>2, <1>3, <1>6, HeardTyped
<1>8. /\ after.before = IF old.day # Today \/ old.minute # now THEN h.latest ELSE h.before
      /\ after.latest = IF cum = traded THEN cum ELSE h.latest
      /\ after \in [before : Int, latest : Int]
  BY <1>3, <1>6 DEF HonestAfter
<1>9. /\ old.day = Today => old.cum <= tape[s]
      /\ h.latest # None => old.day = Today /\ h.latest >= 0 /\ h.latest <= old.cum
      /\ h.before # None => h.latest # None /\ h.before >= 0 /\ h.before <= tape[s]
      /\ h.before # None /\ old.minute = now => h.before <= old.start
      /\ old.cum \in Int /\ old.start \in Int /\ h.latest \in Int /\ h.before \in Int
  BY <1>6 DEF FeedOf, SymbolState
<1> HIDE DEF old, st, h, traded, after
<1>10. mark \in Int /\ mark <= tape[s] /\ (h.latest # None => h.latest <= mark)
  BY <1>2, <1>9 DEF None
<1>11. st.cum \in Int /\ st.cum <= traded /\ st.cum >= cum /\ st.cum >= mark
  <2>1. tape[s] <= traded
    BY <1>2 DEF traded
  <2>2. mark <= traded
    BY <1>2, <1>3, <1>10, <2>1
  <2> HIDE DEF mark
  <2> QED BY <1>3, <1>7, <1>10, <2>2 DEF Max2
<1>12. after.latest # None => after.latest >= 0 /\ after.latest <= st.cum
  <2> HIDE DEF mark
  <2> QED BY <1>3, <1>8, <1>9, <1>10, <1>11
<1>13. after.before # None => /\ after.latest # None /\ after.before >= 0
                              /\ after.before <= traded /\ after.before <= st.start
  <2> SUFFICES ASSUME after.before # None
               PROVE  /\ after.latest # None /\ after.before >= 0
                      /\ after.before <= traded /\ after.before <= st.start
    OBVIOUS
  <2>1. tape[s] <= traded
    BY <1>2 DEF traded
  <2>2. h.latest # None /\ h.latest >= 0 /\ old.day = Today /\ h.latest <= mark /\ mark # None
    BY <1>8, <1>9, <1>10 DEF None
  <2>3. after.latest # None
    BY <1>3, <1>8, <2>2 DEF None
  <2>4. CASE old.minute = now
    <3>1. after.before = h.before /\ st.start = old.start
      BY <1>7, <1>8, <2>2, <2>4
    <3> QED BY <1>2, <1>3, <1>9, <2>1, <2>3, <2>4, <3>1
  <2>5. CASE old.minute # now
    <3>1. after.before = h.latest /\ st.start = mark
      BY <1>7, <1>8, <2>2, <2>5
    <3> HIDE DEF mark
    <3> QED BY <1>2, <1>3, <1>9, <1>10, <2>1, <2>2, <2>3, <3>1
  <2> QED BY <2>4, <2>5
<1>14. after.before # None => st.running <= traded - after.before
  <2> SUFFICES ASSUME after.before # None
               PROVE  st.running <= traded - after.before
    OBVIOUS
  <2>1. /\ after.before \in Int /\ after.before <= traded /\ after.before <= st.start
        /\ st.start \in Int
    BY <1>7, <1>8, <1>13 DEF SymbolState
  <2>2. st.running = Max2(st.cum - st.start, 0)
    BY <1>7
  <2>3. st.cum - st.start <= traded - after.before /\ 0 <= traded - after.before
    BY <1>3, <1>11, <2>1
  <2> QED BY <1>3, <1>11, <2>1, <2>2, <2>3 DEF Max2
<1>15. states'[s] = st /\ tape'[s] = traded /\ honest'[s] = after
  BY <1>2, <1>4 DEF BookTyped, FeedKnown
<1>16. FeedOf(s)'
  <2>1. /\ st.minute = now' /\ st.day = Today' /\ now' \in Nat /\ Today' \in Nat
    BY <1>2, <1>4, <1>5, <1>7
  <2> QED BY <1>8, <1>11, <1>12, <1>13, <1>14, <1>15, <2>1 DEF FeedOf
<1>17. ASSUME NEW r \in Symbols \ {s}
       PROVE  FeedOf(r)'
  <2>1. states'[r] = states[r] /\ tape'[r] = tape[r] /\ honest'[r] = honest[r]
    BY <1>4 DEF BookTyped, FeedKnown
  <2> QED BY <1>4, <1>5, <2>1 DEF FeedKnown, FeedOf
<1>18. honest' \in [Symbols -> [before : Int, latest : Int]]
  BY <1>4, <1>8 DEF FeedKnown
<1> QED BY <1>16, <1>17, <1>18 DEF FeedKnown

(* A new day empties the tape, and what is remembered of the old one is not*)
(* used.                                                                   *)
LEMMA MinuteKnown ==
    ASSUME BookTyped, FeedKnown, Minute
    PROVE  FeedKnown'
<1> DEFINE rolls == (now + 1) \div DayMinutes > Today
<1>1. /\ now \in Nat /\ now' = now + 1 /\ states' = states
      /\ tape' = [s \in Symbols |-> IF rolls THEN 0 ELSE tape[s]]
      /\ honest' = [s \in Symbols |-> IF rolls THEN [before |-> None, latest |-> None] ELSE honest[s]]
  BY DEF Minute, BookTyped
<1>2. Today' \in Nat /\ Today \in Nat /\ Today' >= Today /\ (rolls <=> Today' > Today)
  BY <1>1, PaperAssumption DEF Today
<1> HIDE DEF rolls
<1>3. ASSUME NEW s \in Symbols
      PROVE  FeedOf(s)' /\ honest'[s] \in [before : Int, latest : Int]
  <2>1. FeedOf(s) /\ states[s] \in SymbolState /\ tape[s] \in Nat
    BY DEF FeedKnown, BookTyped
  <2>2. states[s].minute \in Int /\ states[s].minute <= now /\ states[s].day \in Int /\ states[s].day <= Today
    BY <2>1 DEF FeedOf, SymbolState
  <2>3. states[s].minute < now'
    BY <1>1, <2>2
  <2>4. CASE rolls
    <3>1. tape'[s] = 0 /\ honest'[s] = [before |-> None, latest |-> None] /\ states'[s] = states[s]
      BY <1>1, <2>4
    <3>2. states[s].day < Today'
      BY <1>2, <2>2, <2>4
    <3>3. now' \in Nat
      BY <1>1
    <3> QED BY <1>2, <2>2, <2>3, <3>1, <3>2, <3>3 DEF FeedOf, None
  <2>5. CASE ~rolls
    <3>1. tape'[s] = tape[s] /\ honest'[s] = honest[s] /\ states'[s] = states[s]
      BY <1>1, <2>5
    <3>2. Today' = Today
      BY <1>2, <2>5
    <3>3. now' \in Nat
      BY <1>1
    <3> QED BY <1>1, <2>1, <2>2, <2>3, <3>1, <3>2, <3>3 DEF FeedOf
  <2> QED BY <2>4, <2>5
<1>4. honest' \in [Symbols -> [before : Int, latest : Int]]
  BY <1>1, <1>3
<1> QED BY <1>3, <1>4 DEF FeedKnown

(* No step lets the remembered volume pass the traded one. *)
LEMMA FeedStep ==
    ASSUME BookTyped, FeedKnown, [PaperNext]_paperVars
    PROVE  FeedKnown'
<1>1. ASSUME NEW s \in Ticking, OnTick(s)
      PROVE  FeedKnown'
  BY <1>1, TickKnown
<1>2. CASE Minute
  BY <1>2, MinuteKnown
<1>3. ASSUME NEW s \in Ticking, OnBar(s)
      PROVE  FeedKnown'
  <2>1. PICK v \in BarVolumes : states' = [states EXCEPT ![s].bar = v]
    BY <1>3 DEF OnBar
  <2>2. now' = now /\ tape' = tape /\ honest' = honest
    BY <1>3 DEF OnBar
  <2>3. ASSUME NEW r \in Symbols
        PROVE  /\ states'[r].minute = states[r].minute /\ states'[r].day = states[r].day
               /\ states'[r].cum = states[r].cum /\ states'[r].start = states[r].start
               /\ states'[r].running = states[r].running
    BY <2>1 DEF BookTyped, SymbolState
  <2>4. Today' = Today
    BY <2>2 DEF Today
  <2>5. ASSUME NEW r \in Symbols
        PROVE  FeedOf(r)'
    BY <2>2, <2>3, <2>4 DEF FeedKnown, FeedOf
  <2> QED BY <2>2, <2>5 DEF FeedKnown
<1>4. CASE \/ PlaceOrder
           \/ \E o \in OrderIds : ModifyOrder(o) \/ CancelOrder(o)
           \/ \E g \in GttIds : SetGtt(g) \/ DeleteGtt(g)
           \/ UNCHANGED paperVars
  <2>1. now' = now /\ tape' = tape /\ honest' = honest /\ states' = states
    BY <1>4 DEF PlaceOrder, ModifyOrder, CancelOrder, SetGtt, DeleteGtt, paperVars
  <2>2. Today' = Today
    BY <2>1 DEF Today
  <2> QED BY <2>1, <2>2 DEF FeedKnown, FeedOf
<1> QED BY <1>1, <1>2, <1>3, <1>4 DEF PaperNext

(***************************************************************************)
(* The volume that orders are sized on never exceeds what has traded since *)
(* the last honest print before the minute, through any restatement and on *)
(* either side of a minute or a day (the high-water mark of on_tick).      *)
(***************************************************************************)
THEOREM BaseIsNotInflated == PaperSpec => []BaseNotInflated
<1>1. PaperInit => FeedKnown
  <2> SUFFICES ASSUME PaperInit
               PROVE  FeedKnown
    OBVIOUS
  <2>1. now = 0 /\ Today \in Nat
    BY TodayIsNat DEF PaperInit
  <2>2. ASSUME NEW s \in Symbols
        PROVE  FeedOf(s)
    <3>1. states[s] = Fresh /\ tape[s] = 0 /\ honest[s] = [before |-> None, latest |-> None]
      BY DEF PaperInit
    <3> QED BY <2>1, <3>1 DEF FeedOf, Fresh, None
  <2>3. honest \in [Symbols -> [before : Int, latest : Int]]
    BY DEF PaperInit, None
  <2> QED BY <2>2, <2>3 DEF FeedKnown
<1>2. FeedKnown => BaseNotInflated
  BY DEF FeedKnown, FeedOf, BaseNotInflated
<1>3. BookTyped /\ FeedKnown /\ [PaperNext]_paperVars => (BookTyped /\ FeedKnown)'
  BY TypedStep, FeedStep
<1> QED BY <1>1, <1>2, <1>3, InitTyped, PTL DEF PaperSpec
=============================================================================
