---------------------------- MODULE RateLimiter ----------------------------
(***************************************************************************)
(* The orders bucket of broker/rate_limiter.py: RateLimiter.acquire for    *)
(* order calls with intent "entry" (budgeted by the day) and intent        *)
(* "risk_reducing" (paced only).                                           *)
(*                                                                         *)
(* acquire runs without a real await up to its first sleep, so it is one   *)
(* action, and so is each retry after a sleep.  Tokens are counted in      *)
(* 1/Second of a token and the bucket gains one such unit per tick, so one *)
(* token takes Second ticks.  The refill reads the WALL clock, which may   *)
(* be stepped; the sleeps run on the event loop's monotonic clock, and a   *)
(* sleeper may wake late.                                                  *)
(***************************************************************************)
EXTENDS Integers, FiniteSetsExt

CONSTANTS
    Entry, Reducing,    \* callers of acquire, by intent
    Cap,                \* entry_calls_per_day
    Burst, Second,      \* capacity of the bucket; ticks per second
    MaxStep, MaxSteps,  \* size, and number, of the steps of the wall clock
    MaxNewDays          \* bound on the midnights

LimiterAssumption ==
    /\ Cap \in Nat \ {0} /\ Burst \in Nat \ {0} /\ Second \in Nat \ {0}
    /\ MaxStep \in Nat /\ MaxSteps \in Nat /\ MaxNewDays \in Nat
    /\ Entry \cap Reducing = {} /\ IsFiniteSet(Entry)

Callers == Entry \cup Reducing
Capacity == Burst * Second

VARIABLES
    tokens,         \* _Bucket.tokens, in units
    lag,            \* wall clock minus _Bucket._last; above Capacity it makes no difference
    caller,         \* where each call of acquire is
    left,           \* ticks its sleep still takes
    entry_calls,
    stale_day,      \* the calendar day is no longer _day
    recent,         \* ticks since each of the latest Burst + 1 admissions, newest first (history)
    steps, newDays  \* what the environment did so far

budget == <<entry_calls, stale_day>>
bucket == <<tokens, lag>>
calls == <<caller, left>>
environment == <<steps, newDays>>
vars == <<bucket, calls, budget, recent, environment>>

(* Of the i-th latest admission more than i seconds make no difference. *)
LongAgo == [i \in 1 .. Burst + 1 |-> i * Second]

AfterOneMore == [i \in 1 .. Burst + 1 |-> IF i = 1 THEN 0 ELSE recent[i - 1]]
OneTickOlder == [i \in 1 .. Burst + 1 |-> Min({i * Second, recent[i] + 1})]

Init ==
    /\ tokens = Capacity /\ lag = 0
    /\ caller = [c \in Callers |-> "idle"] /\ left = [c \in Callers |-> 0]
    /\ entry_calls = 0 /\ stale_day = FALSE
    /\ recent = LongAgo
    /\ steps = 0 /\ newDays = 0

-----------------------------------------------------------------------------
(* _Bucket._refill: only forward, the wall clock may be behind _last. *)
Refilled == IF lag > 0 THEN Min({Capacity, tokens + lag}) ELSE tokens

(* Mutant of the next definition: an entry call is not counted. *)
TakeTokenUncounted(c, counted) ==
    /\ Refilled >= Second
    /\ tokens' = Refilled - Second
    /\ caller' = [caller EXCEPT ![c] = "admitted"]
    /\ entry_calls' = counted
    /\ recent' = AfterOneMore
    /\ UNCHANGED left

(* Mutant of the next definition: a woken sleeper does not look again. *)
TakeTokenUnchecked(c, counted) ==
    /\ Refilled >= Second \/ caller[c] = "asleep"
    /\ tokens' = Max({0, Refilled - Second})
    /\ caller' = [caller EXCEPT ![c] = "admitted"]
    /\ entry_calls' = IF c \in Entry THEN counted + 1 ELSE counted
    /\ recent' = AfterOneMore
    /\ UNCHANGED left

(* A call is counted once it was paced. *)
TakeToken(c, counted) ==
    /\ Refilled >= Second
    /\ tokens' = Refilled - Second
    /\ caller' = [caller EXCEPT ![c] = "admitted"]
    /\ entry_calls' = IF c \in Entry THEN counted + 1 ELSE counted
    /\ recent' = AfterOneMore
    /\ UNCHANGED left

(* The sleep lasts for exactly what is missing of a token. *)
Sleep(c, counted) ==
    /\ Refilled < Second
    /\ tokens' = Refilled
    /\ caller' = [caller EXCEPT ![c] = "asleep"]
    /\ left' = [left EXCEPT ![c] = Second - Refilled]
    /\ entry_calls' = counted
    /\ UNCHANGED recent

WaitSeconds(c, counted) ==
    /\ lag' = Min({lag, 0})
    /\ TakeToken(c, counted) \/ Sleep(c, counted)

(* _maybe_rollover: at the start of acquire, and only there. *)
Budgeted == IF stale_day THEN 0 ELSE entry_calls

(* Mutant of the next definition: the cap binds one call late. *)
ExhaustedLate == Budgeted > Cap

EntryBudgetExhausted == Budgeted >= Cap

Refuse(c) ==
    /\ c \in Entry /\ EntryBudgetExhausted
    /\ caller' = [caller EXCEPT ![c] = "refused"]
    /\ entry_calls' = Budgeted
    /\ UNCHANGED <<bucket, left, recent>>

StartPacing(c) == ~(c \in Entry /\ EntryBudgetExhausted) /\ WaitSeconds(c, Budgeted)

Acquire(c) ==
    /\ caller[c] = "idle"
    /\ stale_day' = FALSE
    /\ Refuse(c) \/ StartPacing(c)
    /\ UNCHANGED environment

(* The sleep is over: refill again, take the token or sleep again. *)
Retry(c) ==
    /\ caller[c] = "asleep" /\ left[c] = 0
    /\ WaitSeconds(c, entry_calls)
    /\ UNCHANGED <<stale_day, environment>>

(* The entry side of the caller goes on to its next order call. *)
NextCall(c) ==
    /\ c \in Entry /\ caller[c] \in {"admitted", "refused"}
    /\ caller' = [caller EXCEPT ![c] = "idle"]
    /\ UNCHANGED <<bucket, left, budget, recent, environment>>

-----------------------------------------------------------------------------
Tick ==
    /\ lag' = Min({Capacity, lag + 1})
    /\ left' = [c \in Callers |-> Max({0, left[c] - 1})]
    /\ recent' = OneTickOlder
    /\ UNCHANGED <<tokens, caller, budget, environment>>

(* The wall clock is corrected, one way or the other. *)
StepBack ==
    /\ steps < MaxSteps /\ steps' = steps + 1
    /\ \E d \in 1 .. MaxStep : lag' = lag - d
    /\ UNCHANGED <<tokens, calls, budget, recent, newDays>>

StepForward ==
    /\ steps < MaxSteps /\ steps' = steps + 1
    /\ \E d \in 1 .. MaxStep : lag' = Min({Capacity, lag + d})
    /\ recent' = LongAgo
    /\ UNCHANGED <<tokens, calls, budget, newDays>>

NewDay ==
    /\ newDays < MaxNewDays /\ newDays' = newDays + 1
    /\ stale_day' = TRUE
    /\ UNCHANGED <<bucket, calls, entry_calls, recent, steps>>

Next ==
    \/ \E c \in Callers : Acquire(c) \/ Retry(c) \/ NextCall(c)
    \/ Tick \/ StepBack \/ StepForward \/ NewDay

(* Time passes, and a sleeper whose timer has fired is resumed. *)
Spec == Init /\ [][Next]_vars /\ WF_vars(Tick) /\ \A c \in Callers : WF_vars(Retry(c))

-----------------------------------------------------------------------------
TypeOK ==
    /\ tokens \in 0 .. Capacity
    /\ lag \in (-(MaxStep * MaxSteps)) .. Capacity
    /\ caller \in [Callers -> {"idle", "asleep", "admitted", "refused"}]
    /\ left \in [Callers -> 0 .. Second]
    /\ entry_calls \in Nat /\ stale_day \in BOOLEAN
    /\ recent \in [1 .. Burst + 1 -> Nat]
    /\ steps \in 0 .. MaxSteps /\ newDays \in 0 .. MaxNewDays

(***************************************************************************)
(* The pace (B3): at most Burst order calls are admitted in any second: of *)
(* the latest Burst + 1 the first is a second ago, whichever way sleeping  *)
(* and arriving callers contend for the tokens and also while the wall     *)
(* clock is set back.  A step forward earns the bucket tokens at once, so  *)
(* the count starts anew there.                                            *)
(***************************************************************************)
Paced == recent[Burst + 1] >= Second

(***************************************************************************)
(* The entry budget is checked before the sleep and counted after it, so   *)
(* each further entry caller may overshoot the day's cap by one call, and  *)
(* no more, also across a midnight.                                        *)
(***************************************************************************)
EntryOvershootBounded == entry_calls <= Cap + Cardinality(Entry) - 1

(***************************************************************************)
(* orders_today: "entry_calls is hard-capped at entry_calls_per_day".      *)
(***************************************************************************)
EntryCapHolds == entry_calls <= Cap

(***************************************************************************)
(* "A churny entry day must never be able to starve a kill-flatten": a     *)
(* risk-reducing call that waits for a token gets one, though entry calls  *)
(* come in all day and the bucket is not a queue: an arriving call may     *)
(* take the token a sleeper waits for, but the cap ends that.              *)
(***************************************************************************)
FlattenSent == \A c \in Reducing : caller[c] = "asleep" ~> caller[c] = "admitted"
=============================================================================
