# TLA+ models of the trading engine

This directory models the parts of the engine whose correctness depends on the
order in which things happen: the order machinery (`oms/`), the sticky risk
controls (`risk/`), the engine's life (`ops/lifecycle.py`, `scripts/watchdog.py`),
the daily session, login recovery and catch-up jobs, the ticker, the bars and tick
files, the road from a candidate to a closed recommendation, the LLM budget, the
owner's messages, and the paper broker. TLC checks every run on a small instance;
TLAPS proves every invariant and every plain action property of the runs for all
values of the constants; liveness is TLC's alone.

    tlc -config MCOrderRow.cfg MCOrderRow     # any run of PROJECT.json
    tlapm OrderRowProofs.tla                  # any of the *Proofs modules

`PROJECT.json` lists components, runs, mutants, the lines every definition
stands for, hazards, findings and theorems.

## 1. The system

One Python process on one asyncio event loop (`ops/main.py`), one SQLite
database, DuckDB and Parquet files for market data, one Twisted child process
(`ticker/main.py`), a watchdog process that the task scheduler starts every minute,
the broker's REST API and Telegram. Coroutines interleave at awaits only, but many
awaits are long: a page to the owner may take 95 s, an LLM call minutes, and every
REST call, scan and file operation runs in a worker thread. Whatever is read before
an await may be stale after it, tasks run in the order they were scheduled, and a
crash keeps exactly what a transaction or a rename committed.

| component | state | operations | what makes it correct |
|---|---|---|---|
| order state machine, `oms/state.py` | the order row | transition, amend, correlate, two refusal doors | terminal is final, fills only grow, a refused change is undone |
| update reducer, `oms/updates.py` | none | apply_update, parse_postback | never raises on a truthful frame, idempotent, ignores what is old |
| correlation buffer, `oms/correlation.py` | frames by broker id, in memory | hold, resolve, sweep | bounded, nothing unaccounted, in order |
| order store, `oms/store.py` | rows and the event log | insert, record, record_noop | one audit chain, no lost update |
| risk ledger, `risk/causes.py` | a row per cause; `mode_state.risk_state` | set_cause, clear_cause, clear_stale_daily | most restrictive cause wins, re-arm only when all are cleared |
| mode and kill, `risk/mode.py`, `risk/kill.py` | mode, routing, killed | request, downgrade, trigger, reset | risk only lowers, kill is sticky |
| equity ladder, `risk/exposure.py` | tables | evaluate and apply rungs | each rung's action is carried out fully, once |
| boot, `ops/lifecycle.py`, `ops/selftest.py` | freeze causes | startup, warm-up freeze and lift | heals what a crash tore; never opens entries unverified |
| engine's life, `ops/single_instance.py`, `ops/heartbeat.py`, `scripts/watchdog.py` | lock file, lifecycle row, debounce file | start, stop, beat, watchdog tick | one engine; an outage is told from a stop and paged once |
| rate limiter, `broker/rate_limiter.py` | tokens, entry count | acquire | pace, daily entry cap, flattens never starved |
| session, `broker/session.py` | token, rejected, breaker | login, probe, rejection | one alert per dead token, a live token usable |
| login recovery, `ops/post_login.py`, `ops/early_hydration.py` | depth, completed event, hydration task | recover, hydrate | the pre-open chain runs after the recovery, before the open |
| ticker, `broker/ticker_supervisor.py` | state, child, monitor, lock | start, stop, respawn, frames | a wedged feed is respawned, freezes entries, and thaws when back |
| jobs, `ops/jobs.py` | `job_runs`, pass lock, freezes | catch-up, hydrate, scheduled fires | each day's job done or given up, failures freeze, freezes end |
| bar builder, `marketdata/bar_builder.py` | open bars, baseline, recent bars | on_tick, advance, flush | no bar published twice, no volume lost or doubled |
| bar and tick stores, `marketdata/` | DuckDB rows, Parquet partitions | amend, gap fill, flush, compact, purge | no written row lost, none read twice for good |
| pre-screen, `strategy/prescreen.py` | admission slots of the day | publish, displace, claim, decline, rearm | caps hold, a paid slot buys a call |
| pipeline, `ops/pipeline.py` | forward queue, journal | queue, drain, evaluate, requeue | the queue empties, no call for a displaced pair |
| recommendation book, `ops/pipeline.py` | recommendations, learning ledger, positions | deliver, take, close, veto, expire, events | one outcome per recommendation, rows agree |
| LLM budget, `intelligence/governor.py` | budget ledger, latch | can_invoke, record | spend within the cap |
| notify, `notify/telegram.py` | notifications, live sends | send, drain | critical messages arrive, none marked that did not |
| paper broker, `paper/broker.py` | simulated orders, triggers | place, modify, cancel, on_tick | behaves as the broker's book does |
| reconcile, `ops/holdings_reconcile.py` | observations | compare | one alert per true difference |
| gate, features, strategy, learning, API | mostly pure | | input to output |

How they interact. The OMS modules are a Phase-3 foundation: no caller exists in
the source yet, and `OrderLifecycle` follows the caller sequence that
`oms/updates.py` prescribes (place, correlate, resolve, apply). The paper broker
stands in for the broker in tests and replays. The kill switch publishes on the
event bus and a bridge writes the ledger. The self-test, the 60 s equity tick, the
catch-up sweep, the warm-up job, the login hooks, the feed monitor and the owner's
Telegram commands all write the same ledger. Order calls pass `order_guard`, then
the rate limiter, then the broker; a TokenException on the way back trips the
session's breaker. A login fires the recovery that starts the ticker and, beside
it, the early hydration, which waits for the recovery and then for the pass lock
that the catch-up passes hold. Ticks build bars and are staged for the files; bars
wake the scanners, whose candidates the pre-screen admits in worker threads and the
pipeline forwards, one paced analyst call at a time under the governor's budget;
what the gate lets through is delivered to the owner, whose answers close the loop.
Telegram and the HTTP API are served before the boot runs, so owner and login race
it. The watchdog shares nothing with the engine but the lifecycle row and its pid.

## 2. The modules

| module | models | composed of |
|---|---|---|
| `OrderMachine` | states, edges and guards, and the reducer, as operators | |
| `OrderRow` | one row under the platform's moves and any frame: the abstract specification | `OrderMachine` |
| `BrokerBook` | one order in the broker's book: the abstract broker | |
| `OrderLifecycle` | the row, the book, calls in flight, the wire, the buffer, crashes, two clocks | `OrderMachine`; refines `OrderRow` and `BrokerBook` |
| `OrderStore` | callers with stale snapshots writing one row and its audit log | `OrderMachine` |
| `PendingCorrelation` | the bounded buffer with many ids | |
| `RiskLedger` | the cause ledger and its projection, as operators | |
| `RiskControl` | owner, ladder, boot, lift, sweep, bridge and order guard over one ledger | `RiskLedger` |
| `RateLimiter` | the orders bucket with its budget | |
| `EngineWatch` | the engine's processes, OS lock, lifecycle row, heartbeat; the watchdog that pages and kills | |
| `KiteSession` | token, breaker, freeze and login hook with exchanges in flight | |
| `LoginRecovery` | overlapping recoveries, the completed event, early hydrations, the pass lock | |
| `TickerFeed` | child, monitor, lock, resume and the feed_stale latch | |
| `JobLedger` | `job_runs` and what a pass reads out of it, as operators | |
| `CatchUp` | boot, sweep, hydration and scheduled fires over one ledger of runs, with the freezes they set and lift | `JobLedger` |
| `PreScreen` | the admission slots, one operator per critical section | |
| `SignalFunnel` | scans, the forward queue, the drain and its evaluation, the journal, restarts | `PreScreen` |
| `Trade` | one entry recommendation as the owner sees it: the abstract specification | |
| `RecommendationBook` | recommendations, ledger and positions under the owner, sweeps and exit proposals | refines `Trade` |
| `BudgetGovernor` | the weekly budget and the runs in flight that spend it | |
| `BarBuilder` | ticks to bars, late ticks, gap fill and reconcile over the same rows | |
| `TickStore` | raw ticks: buffer, flush, close, compaction, retention, at every file operation | |
| `Outbox` | live sends, the journal and the drainer | |
| `PaperBroker` | simulated orders and triggers under ticks and bars | each order refines `BrokerBook` |

The `MC*` modules hold the small sets that configurations cannot write. Several of
them check parts that share no variable in one run: a variable `part` (`scenario` in
`MCRiskControl`, `half` in `MCBarBuilder`), chosen in the initial state, says which
part moves; the others
stay where they are, and fairness is stated of the wrapped actions. Since a
behaviour is of one part, a condition on a disjunction of two parts' actions says
what one on each of them would say. The parts are: `MCOrderParts` = `OrderStore`,
`PendingCorrelation`, `RateLimiter`, `Outbox`; `MCRiskControl` = `RiskControl` in
two scenarios, `EngineWatch`; `MCSessionParts` = `TickerFeed`, `KiteSession`,
`LoginRecovery`; `MCCatchUp` = `CatchUp`, `EngineWatch`; `MCRecommendations` =
`RecommendationBook`, `BudgetGovernor`; `MCBarBuilder` = `BarBuilder`, `TickStore`.
An operator commented "Mutant" is a plausible bug of the definition that follows it;
no specification uses it.

State and code.

- Orders. `row`/`order` is a row of the `orders` table (`PlatformOrder`) without the
  columns nothing depends on; prices and quantities are small numbers, status words
  are those of `KITE_STATUS_MAP`, and time is the whole second that the reducer
  compares. A modification's old parameters are `prior_fields` of its event.
- Risk. `ledger.active[c]` is the state column of an uncleared cause and
  `ledger.set_at[c]` its day; set_cause and clear_cause commit twice, so `Latch` and
  `Clear` have a disjunct in which the process dies between the commits. `proc` is
  everything a crash loses, `killed`, `mode`, `routing` and `ledger` what it keeps.
  `proc.ladder` and `proc.boot` are program counters: one value per await at which
  others may run.
- Session, login and feed. In `KiteSession` an exchange has three actions (leaves,
  judged, handled) because the executor thread decides which token it carries and
  when its answer is seen. An action of `LoginRecovery` is what one task does between
  two awaits; 900 s waits may time out at any moment. In `TickerFeed`, `ready` is the
  part of the event loop's queue that feed.health uses, in its order, and ages of
  frames are choices of the monitor.
- Jobs. `JobLedger` counts time in three phases of a day (before the pre-open fires,
  session, after the evening fires). `table[j][d]` is the row of job and day, `pass`
  the holder of `_pass_lock` with the `now` it started at and the days it found
  missed then; scheduled fires (`running`) do not take the lock. `causes` are the
  freezes the catch-up sets and lifts.
- Funnel. `pre` is the state of `SignalPreScreen` under its lock, `bus` what it has
  published and no handler has seen, `queue` the pending forwards, `tick`/`chosen`
  the drain and the phase of its one evaluation, `journal` the table
  `prescreen_day_slots` that a boot hydrates from.
- Book. `rec`, `ledger` and `position` are three tables; a position is named by the
  entry it was opened for. `event` and `todo`/`aged` are the awaits of the position
  events and of the max-holding sweep.
- Budget. `run[r]` is how many SDK calls a harness run has made and whether the last
  one is yet to be booked; `moment` is a point of the quota window with the sessions
  elapsed by then.
- Bars and ticks. `BarBuilder` counts half minutes, keeps of a bar its source, low,
  high and volume, and remembers (history) what was published and heard. In
  `TickStore` a file is the set of its rows, one action per file operation of each
  thread, so a crash falls between any two, or within one: it may cut a fragment short
  or empty.
- Messages. `row[m]` (`journal` in the run) is the notifications row, `sending` the
  live sends in flight, `pass` the rest of the drainer's batch; time is counted in
  drain passes.
- Engine's life. `proc` gives each pid a phase (booting, row checked, up, stopping,
  stopped) or a stranger that reuses it. Ages stand for timestamps: `stamped` says
  whether the watchdog's stamp is newer than `last_alive_at`, which is all the
  re-arm predicate compares. A watchdog tick reads, decides (and probes), sends,
  kills and saves in separate actions.
- Paper. `orders`, `gtts` and `state` are the dictionaries of `PaperBroker`; `tape`
  is what truly traded, which a tick may restate; `took` and `honest` are history.

## 3. The runs

Passing runs (states are distinct states; times with two workers):

| run | question | instance |
|---|---|---|
| `order_row` | does the reducer survive every frame, truthful or not, at every row? | two broker ids, quantity up to 2, two prices, three seconds, all status words; 4,017 states, 30 s |
| `lifecycle_safety` | does the row stay behind the book, settle, and do only what one row allows? | quantity 2 that may be shrunk to 1 and repriced, one modification, clocks one second apart, loss, duplication, reordering, lost answer, restart, lapse, a buffer of two, a completed order still worded OPEN; 296,919 states, 2.4 min |
| `lifecycle_intents_live` | does every intent end? | quantity 2 enlargeable to 3, or repriced; agreeing clocks, no loss; 88,629 states, 35 s |
| `order_parts` | audit chain, buffer accounting, pace and budget of order calls, messages to the owner | two writers with snapshots of any age; two ids, two entries, four frames held; two entry callers and a reducing one, burst 2, cap 2, one clock step, one midnight; three messages, two of them critical, one unsendable, a batch of one and a scan of two, one fault (an outage, a failing journal or expiry write, or a crash); 252,331 states, 78 s |
| `risk_control` | does a boot heal what crashes tore, does a hard loss disarm, does the ledger mirror the kill switch; is an outage told from a stop and paged once? | boot: five causes, crashes anywhere, a midnight, the hard-loss rung, the lift; ladder: eight causes, every combination of rungs, kill, reset, pause, resume, mode changes, two bridge events; watch: two pids, one reuse of a pid, one watchdog tick that dies, a kill that may be refused; 1,022,602 states, 1.8 min |
| `session_parts` | one alert per login and never none; supervision and thaw of the feed; the course of a login | three tokens, two calls and the boot probe in flight, kills, restarts, a cause write that fails; two logins, three faults, spawns that fail, stop, session bells; two logins, the boot, two jobs; 418,688 states, 1.9 min |
| `catch_up` | is the safety freeze lifted on evidence only, is a failed day retried, do freezes end; is every outage handled? | four jobs in three registries, up to three days, lookback 1, give-up 0, one stop; watch: two pids; 146,808 states, 100 s |
| `signal_funnel` | caps, slots that buy calls, a queue that empties | two pairs of a strategy with one slot, scores 1 to 3, one forward a day, one pending forward, four publications, one stop, exceptions while the analyst is called; 568,390 states, 2 min |
| `recommendations` | one outcome, agreeing rows, one standing exit; spend within reach | one entry, three exits or adjusts; three runs in flight with a retry each, two windows, one restart; 970,434 states, 100 s |
| `paper_broker` | share of the tape, one leg per trigger, day orders lapse, the book's behaviour | two orders, one GTT, two symbols of which one ticks, one order price and two quotes, any failing callables, days of two minutes, one day roll; 288,926 states, 80 s |
| `bars` | bars published once, in order, true to the tape; ticks kept and read once | three minutes, two prints, two recent bars, one stop, one minute whose write fails; two days, three ticks, two faults, fragments cut short; 391,243 states, 80 s |

Why these bounds. One order is enough for the OMS because rows share nothing but
the buffer, which has its own part with two ids. A quantity of 2 or 3 separates
nothing, partial and full; an amendment goes down across the fill in the safety
run and up in the liveness run. Two entries in the buffer make eviction, and two
callers every conflict the store can have. The causes of a scenario are those its
actions write; resolution depends on ranks only and each of the three latching
ranks occurs. The ladder's weekly rung behaves as the close-only rung does. Two days
are enough for "an earlier day", three for a failed day between two others. Two
entry callers are the smallest overshoot. A second of two clock ticks lets
callers sleep at different depths. Two exchanges and the probe are a burst, a late answer and a
silent rejection. The four jobs of `catch_up` are one of each kind that its code
tells apart. One slot and two pairs make every displacement; margins are strict
comparisons, so three scores are a worse, an equal and a better one. Three exits are
an event's, a sweep's and a duplicate. The credit of `recommendations` is below the
sum of the allocations, so both limits bind. The two prints of `bars` have price and
volume in opposite order. Two pids let a new engine follow an old one, or reuse its
pid. Bounds that stop a counter (`MaxTime`, `MaxBridge`, `MaxAdmitted`, `MaxHeld`,
`MaxSteps`, `MaxNewDays`, `MaxTokens`, `MaxFaults`, `MaxStops`, `MaxPublished`,
`MaxRestarts`, `MaxStrangers`, `MaxDeaths`, `MaxLost`, `Today`) appear in guards and are named
where declared.

`CHECK_DEADLOCK FALSE` stands where a bounded world may really be over (an order
closed, the day's publications used up, the process down for good, every message
settled): `MCOrderRow`, `OrderIntentsLive`, `MCOrderParts`, `MCSessionParts`,
`SignalFunnel`, `SignalFunnelRace`, `Recommendations`, `PaperBroker`, `BarBuilder`.
In `MCOrderLifecycle`, `MCRiskControl` and `CatchUp` deadlock is checked.

Fairness.

- `OrderLifecycle`: the broker answers what it was sent, a call in flight returns, a
  frame sent and not yet applied is delivered, and the drain loop continues, all
  weakly fair; nothing is assumed about fills, the owner or the clock, and the
  liveness run has no lost frames or answers because the engine re-polls nothing.
- `RateLimiter`: time passes and a sleeper whose timer fired is resumed (asyncio);
  entry callers need not call. `Outbox`: the drain loop runs, sends end (each has a
  timeout), outages end.
- `TickerFeed`: the loop runs what is ready, the monitor's one-second cycle finds an
  exited or mute child, and a running child heartbeats; no fairness on ticks, logins
  or misjudgements. A respawn may fail to create its process: what is raised ends the
  monitor, the state stays as the monitor found it (STALE), and resume_ticker restarts
  only a STOPPED feed. `FeedFreezeLifts` excepts such an `Abandoned` feed, and
  `LostFeedRecovers` and `ChildlessReadsStopped` (section 4) show it.
  `LoginRecovery`: hydrations proceed (their waits are bounded by timeouts, so a hung
  recovery needs no fairness), jobs and passes end.
- `CatchUp`: the clock, the engine's next step (it is started again, its sweep has a
  timer), a fire's end, and, strongly, some success among jobs that are tried again
  and again. `SignalFunnel`: boot, drain and evaluation proceed (the call has a
  timeout), arrivals are handled, the window closes; the flush is strongly fair
  because what refuses a drain is lifted again and again (the tick is pulsed every
  minute).
- `TickStore`: the clock, the end of a flush, the nightly job's steps, and the restart
  of a dead process.
- `EngineWatch`: time passes, the task scheduler runs the watchdog, and, strongly,
  messages that are sent again and again get through. Nothing is assumed about the
  engine, which may hang anywhere, nor that anybody starts it.

Each property has a mutant: a definition replaced by a plausible bug, under which
the run must fail. They are listed in PROJECT.json.

## 4. Where the code does not do what it says

`signal_funnel_race` ends in a violation of a sentence of the repository:
`EvaluatedKeepsItsSlot` ("an evaluated candidate never loses its slot",
strategy/prescreen.py:596). A pair is marked evaluated before its analyst call; a
displacement notice left by an earlier scan, or a refused second publication of the
same pair, re-arms it while the call is in flight.

The properties below are also sentences of the repository, defined in their modules,
that the code does not keep. No run lists them; added to the configuration named
here (of a part, as a property of the instance), TLC shows the counterexample within
a minute.

| property | add to | the code | the sentence |
|---|---|---|---|
| `IntentsResolve` | `OrderIntentsLive.cfg` with `MaxLag = 1` | a broker second behind ours makes the ack of a modify look old; the row stays MODIFY_PENDING | updates.py:116 |
| `ParametersAgreeWhenQuiet` | `MCOrderLifecycle.cfg` | a frame without new state or fill is absorbed before its parameters are read | updates.py:326 |
| `RefusedModifyIsUndone` | `MCOrderLifecycle.cfg` | a fill before the refusal leaves the refused parameters | state.py:582 and its property test |
| `NoRollBack` | `MCOrderParts.cfg` | the check compares the state only | store.py:18 |
| `NormalWhenNothingLatched` | `MCRiskControl.cfg` | a crash between clear_cause's commits leaves FROZEN with no cause | causes.py, clear_cause |
| `HardLossDisarms` | `MCRiskControl.cfg` | a crash between latch and downgrade keeps AUTO | exposure.py, apply_day_loss |
| `DailyLossHoldsForItsDay` | `MCRiskControl.cfg` | a re-latched daily cause keeps yesterday's date | exposure.py, apply_day_loss |
| `LiftKeepsNewFreeze` | `MCRiskControl.cfg` | a lift clears a freeze newer than its evidence | lifecycle.py, _maybe_lift_warmup_freeze |
| `KilledBlocksOrders` | `MCRiskControl.cfg` | guard, then the limiter's await, then the order | kill.py, assert_orders_allowed |
| `EntryCapHolds` | `MCOrderParts.cfg` | the budget is checked before the sleep, counted after | rate_limiter.py, orders_today |
| `BacklogInOrder` | `MCOrderParts.cfg` | a message that waits out its backoff is overtaken by younger ones of its rank | telegram.py:145 |
| `HonouredTokenUsable` | `MCSessionParts.cfg` | a late answer to the old token marks the new one rejected | session.py:25 |
| `RejectedMeansFrozen` | `MCSessionParts.cfg` | the login's clear task thaws a newer rejection; the breaker is spent on a killed engine without a freeze | main.py, the token breaker's hook |
| `LostFeedStaysFrozen` | `MCSessionParts.cfg` | frames of the killed child lift the freeze | causes.py:196 |
| `LostFeedRecovers` | `MCSessionParts.cfg` | a respawn that cannot create its process ends the monitor, and the freeze stays | ticker_supervisor.py:42 |
| `ChildlessReadsStopped` | `MCSessionParts.cfg` | the same feed keeps reading STALE without a child | ticker_supervisor.py:28 |
| `RejectionReachesOwner` | `MCSessionParts.cfg` | a cause write that fails ends the hook before its alert, with the breaker spent | main.py:1384 |
| `RespawnTakesFreshToken` | `MCSessionParts.cfg` | a respawn uses start's token, not the session's | ticker/main.py:556 |
| `MissedDayStaysMissed` | `CatchUp.cfg` | a day no run was recorded for, between two successes, is out of every later scan | jobs.py:17 ("the next startup resumes exactly there") |
| `AnswersWithinCap` | `SignalFunnel.cfg` with `RaisesIn = {"gating", "sending"}` | a failure after the analyst's answer refunds the forward | pipeline.py:1838 |
| `LossesAreCloses` | `Recommendations.cfg` | a close labels the rows of the position's exits too, so one loss counts several times | exposure.py:244 |
| `TakenIsOpen` | `Recommendations.cfg` | a close named by an exit's id leaves the entry taken | telegram.py:1166 |
| `OutcomeStands` | `Recommendations.cfg` | the sweep relabels rows a close has completed, as no_action | pipeline.py, expire_stale |
| `ZeroCallsUnderDG4` | `Recommendations.cfg` | the retries of a run are not admitted again | config/agents.yaml:83 |
| `LatchHolds` | `Recommendations.cfg` | the billing-error latch is in memory: a restart forgets it | governor.py:167 |
| `LatchAnnounced` | `Recommendations.cfg` | the harness notes a billing error; raise_billing_error, which would publish the change, has no caller | governor.py:259 |
| `FillsGapsOnly` | `BarBuilder.cfg` | the gap list is read before the candles are awaited | backfill.py:361 |
| `CandlesStay` | `BarBuilder.cfg` | a candle of the minute being built is overwritten by the built bar | store.py:1290 |
| `ClosedDatesStayClosed` | `BarBuilder.cfg` | a connect replays each symbol's last tick, of an earlier day | tick_compact.py:17 |
| `TriggerWatchesItsSymbol` | `PaperBroker.cfg` | a modify that names another symbol leaves the trigger in the old symbol's list | paper/broker.py:839 |
| `CleanStopIsSilent` | `MCRiskControl.cfg` | the row is read before the pid is probed: a stop that ends in between is paged as a crash | watchdog.py:28 |

`LiftKeepsNewFreeze` needs two reapply calls to overlap (the 60 s job and a login),
`HonouredTokenUsable` a probe slower than a login.

Met while modelling, without a property: a hang while STOPPING is silent for ever
(by design, a live STOPPING pid is not a crash), and a refused TerminateProcess is
never retried, because the page is stamped before its result is known; the kill goes
to the pid chosen before the page, which may be a recovered engine. A
late scheduled fire's failure overwrites a pass's success of the same day, and
freezes nothing until the next sweep. `hydrate_ahead` takes its date before it
waits for the pass lock. A displaced pair that is admitted again loses its mark in
`_seen`, although `decline` says it stays. An exit may be delivered for a position
that was closed after the gate's context was read. The paper broker's first tick ever
lapses nothing, and a minute that goes backwards arms the share again. Its
modify_order replaces the quantity before it reads the prices: one that does not parse
would leave an OPEN order of the new quantity, possibly filled in full, and no
postback; no caller in the source passes one. Bars whose write raises are lost from
the store until the nightly reconcile, for they were popped before, and a tick whose
amendment of a stored row raises is dropped. `_roll_day`
resets the bar builder on any change of the date, also backwards. A COPY that raises
on an open store drops the rest of its batch; only the closed-store branch restages
it. A date that cannot be verified keeps retention from running until it leaves the
job's window. A live send in flight is pending with no attempt, so the drainer sends
it again at once. A login's snapshot read may hydrate a stored instrument map over
a live one.

Defined, true, and in no run, because they are shallow or implied by a run's
property: the modules' `TypeOK`s, `IntentsEndForCause`, `ParametersHaveASource`,
`FailedDayStaysMissed`; and, because they are proved for all constants (section 5):
`FillAlwaysLands`, `NoAppliedFillMissing`, `RunningOnOwnEvidence`,
`QuantityAccounted`, `BaseNotInflated`.

## 5. What is proved

Every invariant and every action property without a liveness part that a passing run
checks is also a theorem, for all values of the constants that the named ASSUMEs
admit (TLC evaluates those in the runs): the numbers of callers, frames, causes, pids,
logins, pairs, recommendations, runs, minutes and ticks are arbitrary, and so are the
bounds that stop the counters of the small instances. Eight modules hold the proofs.

`OrderMachineProofs`: lemmas about the machine's operators (an edge keeps a row
well typed, fills grow, a terminal row has no edge out).

`OrderRowProofs` (any ids, frames, amendments and times): type correctness,
`NeverRegresses`, `NeverRaises`, `FillAlwaysLands`, `ReplayIsIdempotent`,
`CancelIntentHeld`. Type correctness is inductive; the others are about single
steps and frames and follow from it with the lemmas, a case per branch of
`apply_update`.

`OrderLifecycleProofs` (any quantities, prices, words, buffer size, clock skew and
fault flags): `RowNeverAheadOfBook`, `NoAppliedFillMissing`, `FinalFrameSettles` and
both refinements. None of them is inductive by itself, because the row is only as
good as the frames in flight. `IInv` adds that every frame ever sent is an old truth
of a book that only moves forward (`FramesAreOldTruths`, `BookConsistent`), that
calls in flight match the row's state (`CallsMatchRow`) and that a terminal row has
the book's fill (`TerminalRowIsFinal`). There is one lemma per action, then
`IInv /\ [Next]_vars => IInv'`. The refinements map each action to a move of the
row, or of the book, or to a stutter; TLC checks the first too.

`OrderPartsProofs`, the four parts of `order_parts`:

- `AuditChain` of the store. `Follows` is what a writer may hand to record given its
  snapshot, however old; record accepts it only in the snapshot's state, so what it
  writes is an edge from the row's own state (`ChainStep`).
- `PacedWithinBudget` of the limiter, the overshoot for any number of callers.
  `LimiterInv` says of each of the latest admissions, not only of the oldest that
  `Paced` speaks of, that the bucket cannot hold what was taken since then and time
  has not given back (`Repaid`), and that the entries counted and the entry callers
  asleep are together at most the cap and one less than the callers there are
  (`SleepersCounted`): a sleeper has passed the check and is not counted yet.
- `BufferKeepsUpdates` of the correlation buffer: every update offered is at exactly
  one place, and those of an id are delivered in the order of arrival. `BufferInv`
  has the entries in the order of their numbers and all of them younger than what
  was delivered of their id (`WaitsInTurn`). What resolve and sweep keep is a filter,
  written as a recursive function (`Among`), whose effect `FilterKeeps` proves for
  sequences of any length.
- `NothingLost` of the outbox, the safety half of `OwnerIsTold`.

`RiskControlProofs`, the three scenarios of `risk_control` and the catch-up:

- `LedgerDominates`, `RearmOnlyByClearing`, `DailyCauseOutlivesItsDay`, and type
  correctness with routing exactly in AUTO. `IInv` adds `Healed` (from step 5 of the
  boot on the ledger is dominated, unless the switch is engaged or a reset waits in
  the bridge) and `StaleIsStale` (what is left in the list of stale causes is active
  and of an earlier day, although others ran since it was read).
- `UncrashedControlsHold`: the ladder's controls in a process that lives. In
  `Uncrashed` the last event in the bridge says how the switch is, or the ledger does
  when none is left, and a breach is followed by its downgrade, which is the next
  rung as long as AUTO is left from before it.
- `OutageKnownOnce`: in `EngineInv` the lock is with the one engine there is, the row is
  of the run that began last, and an outage is over while an engine works; `PageInv` says that a page
  is paid for by a stamp, by one the tick is about to write, or by a tick that died.
- `LiftedOnlyWhenVerified`: `PassOwes` says of a pass that may still lift the safety
  freeze that each job whose day it must answer for is verified, ahead of it, or
  the one in hand.

`BrokerProofs`, the session with the broker and the paper broker:

- `WatchedExactlyWhileSpawned` and `RunningOnOwnEvidence` of the feed, from
  `Supervised`: a stop leaves no monitor before it terminates the child, the lock,
  when held, has its holder, and every way to a running
  state goes through a frame of the current child.
- `RejectionAlertedOnce` of the session: the breaker tells exactly whether the login
  had its alert, unless the hook's cause write failed.
- `ChainFollowsRecovery` and `ChainInItsWindow`, the safety half of
  `LoginRunsItsCourse`: `in_flight` is the number of recoveries under way, and the
  event is set only when there is none.
- `ShareHolds`, `OneLegPerTrigger`, `DayOrdersLapse`, `QuantityAccounted`,
  `BaseNotInflated` and the refinement of `BrokerBook` by every order of the paper
  broker. One tick may lapse, fill, end or charge any number of orders and book the
  legs of any triggers it hits: `Fate` is what it may have made of each order, `TickPasses` that
  it makes nothing else, and each theorem then reads its answer off the fates.

`PipelineProofs`, from ticks to recommendations:

- `BuiltOnceInOrder`: `Between` puts every open minute strictly after what is
  finalized and every published minute at or before it.
- `BarsAreTrue`: `VolumeInv` says that the volumes of all bars, open or finalized
  (also those whose write failed), add up to what the baseline has seen of the
  session, `CoverInv` that open bars and own rows enclose every price heard of their
  minute, and that a remembered range lies within its row unless the write of that
  minute failed, so that a late tick that the memory absorbs is one the row covers.
- `TicksKept` of the files, the safety half of `TicksReadOnce`. `FilesInv`: every
  staged tick is counted at one place (`EachOnce`), what is written stays readable
  (`WrittenIsReadable`), because the compaction relies, between its file operations,
  on what still holds: no compacted file until the swap, and after it one with the
  rows of every fragment that is still to be deleted (`JobKnows`).
- `AnsweredIsLabelled`, `OneStandingExit` and `ImplementsTrade`, the refinement of
  `Trade`. `BookInv` relates the three tables (an open position's entry is taken, a
  closed one's ledger row is labelled); `ExitInv` says that an event is evaluated
  only while no exit of its position stands, and that an exit delivered after a
  standing one is live, so that the repeat check finds it.
- `SpendWithinReach`: `WithinReach` bounds the spend by the credit and what the runs
  admitted before it was used up may still book, for the sum and for each agent.

`SignalFunnelProofs`: `CapsHold` and `SlotsPayForCalls`. A batch is admitted one
candidate after the other; `AdmitKeeps` is the step, and the batch follows from it.
`FunnelInv` says that whoever is on the way holds a slot or has lost it to another,
that what is being evaluated has been paid for (`OnTheWay`), and that a slot the
journal calls spent without a forward is on the bus, queued, refused by policy or
being evaluated (`Accounted`): each handler of the loop re-arms what it drops.

How sums, filters and batches are handled. The library's induction theorems take an
operator as a parameter, which the provers cannot instantiate. What a fold, a
recursive function or a batch computes for every input is proved by the least
counterexample instead: were there one, the least (`NatLessThanWellFounded`,
`WFMin`) would have a predecessor that is none, and the step from it is a lemma. So
no theorem rests on a bound of the data.

Only model-checked: liveness, because TLAPS handles neither ENABLED nor fairness:
`OrdersSettle`, `FlattenSent`, `OwnerIsTold`, `FeedFreezeLifts`, the end of every
hydration in `LoginRunsItsCourse`, `FailedDaysResolved`, `FreezesLift`,
`OutagesHandled`, `QueueEmpties`, `TicksReadOnce`.

## 6. What is not modelled

Wire formats, parsing, wording, logging, statistics and alerts that change
nothing. Prices as decimals. Of the modelled parts:

- the quote and historical buckets (the same bucket without a budget);
  subscription changes and the warm-up backoff of the ticker; the trade window,
  which `order_guard` takes as open; the bodies of jobs;
- catch-up: suppression of notifications, the compaction lane, hydration timeouts
  inside a pass, the kill switch's gating of a reconcile;
- login recovery: the ladder of instrument maps;
- engine's life: crash-loop coalescing, a blocked stop (its hooks are not wired),
  sleep of the PC, the signal handler, the boot-contract watchdog, health gauges;
- funnel: the day roll, parked strategies, the catalyst budget, the schedule of
  tranche caps, immediate and arrival modes, orphaned-proposal alerts, quantile ranks;
- book: scratch outcomes and P&L, owner approvals, holdings sold outside the ledger,
  changes of stop and quantity;
- budget: the DG1 knobs and the prices of calls;
- bars: open, close and auction prices, the day roll, the lag watchdog; ticks: the
  budgets of a compaction night, equal rows, a second symbol, the steps of rmtree;
- paper: fill prices, slippage, margins, a modify with a price that does not parse, a
  latency longer than a minute, the replay driver and its surface;
- messages: the split into parts, two-step challenges (updates are handled one at a
  time), episodes.

Scrapers, features, scanners, the gate, learning, back-tests, dashboard and scripts
are input to output, without a protocol: they are most of the repository's lines and
stay outside. The per-component reasons are in PROJECT.json.

## 7. What could come next

`HoldingsWatch` (`ops/holdings_reconcile.py`: an alert a day, two-day observations
against a lagging broker); `Challenge` and `Episodes` of `notify/`; the event bus with
its drain; the risk gate and cost model as operators against reference definitions;
the day roll of funnel and bar builder.

Theorems: `IntentsEndForCause` and `ParametersHaveASource` of the order row;
`FailedDayStaysMissed` of the catch-up; that one hydration or pass runs the chain at
a time, and that the pass lock is held by exactly that one; what a filtered page of
the outbox's drainer keeps of the ranks; the paper broker's GTTs as an abstract
specification of their own, as `BrokerBook` is for the orders.
