# Algo-Sassy: a verification project

TLA+ models of the live trading system in `src/app` and of its console in
`src/frontend`, checked with TLC on small instances; every safety property of the
passing runs is proved with TLAPS for every instance. Python paths below are relative to
`src/app`, `.jsx` and `.js` ones to `src/frontend/src`, unless they start with
`src/`.

## 1. The system

Algo-Sassy is one Python process that trades through the Kite broker. Three
long-lived threads and the asyncio main loop share module-level singletons:

| thread | runs | reads / writes |
|---|---|---|
| web socket thread (KiteTicker) | `websocket_manager._on_ticks` | tick queue, system state |
| tick processor | `tick_processor`, `candle_builder` | tick queue, candle store, strategy queue |
| strategy worker | `strategy_worker`, strategies, `risk_engine`, `execution_engine` (one `asyncio.run` per decision) | everything below |
| main loop | routes, login callback, `broker_reconciliation` every 15 s, daily token check, `exit_all_positions` tasks | everything below |

The event bus (`core/event_bus.py`) is synchronous: subscribers run inside the
publisher's call, in the publisher's thread.

The console is a React application. Each page keeps its own state, talks to the
backend by `fetch` calls that overlap and overtake each other, and shares with
the other pages and tabs nothing but the access key in `localStorage`.

### Inventory

| component | state | operations | interacts with | hard behaviour | what makes it correct |
|---|---|---|---|---|---|
| capital registry | total, used, reservations | reserve, confirm, release, sweep, give back | risk engine calls it, order events settle it, login overwrites the total | check and reserve apart; repeated settlement; unlocked assignment | never overdrawn by itself; a hold is settled once |
| symbol lock manager | state per symbol | acquire, release, lock_critical | risk and execution engine | every exit path must release; the lock-out has no way back | IN_EXECUTION exactly while in flight |
| MTM engine | signed quantity and average per symbol | apply_order_fill | execution engine, strategies, reconciliation | positions exist in memory only | equals the broker's when nothing is in flight |
| risk engine, governance guard | peak equity | evaluate_intent | reads state, lock, capital, positions one after another | stale reads | what was checked still holds when it is used |
| execution engine, idempotency | none | execute_decision | broker, order cache, event bus | lost answers, retries, exceptions | ends, settles, releases |
| order cache | list, fetch time | get_orders, invalidate | sniffer, dashboard | refill outside the lock; a failed fetch is answered all the same | fresh after invalidate |
| strategy worker | event queue | loop | strategies, the above | READY is read once per turn | one decision at a time |
| kill switch, liquidation | none | EMERGENCY_LIQUIDATE | route, reconciliation | the tasks are forgotten, decisions are in flight | the broker ends flat |
| broker reconciliation | grace periods | one cycle | broker, MTM engine | an await between the two snapshots | lasting differences are noticed, passing ones tolerated |
| tick queue, tick processor, candle builder, market data | bounded queue, candles | enqueue, process_tick, get_last_n_candles | web socket, strategy worker | late, lost and refused ticks; full queues; two threads on one store | a candle is what its ticks say, once, in order |
| session (auth manager, login) | active token, system state | process_callback, validate_current_token, startup | main loop, broker | state is read before an await and set after it | READY only with a token; a check spares a good one |
| strategy store and registry | rows, registered routes | create, deploy, undeploy, delete, restore | routes, startup, tick stream | registered before the commit; a restore that raises half way; a row moves while it runs | what runs is what the rows say |
| web socket client | ticker, subscriptions | start, subscribe, connect and close callbacks | routes, startup, login, ticker's own thread | two threads on one list without a lock | what runs is fed, over disconnections and restarts |
| console: access gate | key, unlocked tabs | unlock, any call, 401, reload | every guarded route | one 401 clears what another tab stored | an unlocked tab has a key; a bad key goes away |
| console: strategies | list, busy, error | create, deploy, undeploy, refresh | strategy store | refreshes overtake each other | a quiet page tells the truth |
| console: manual orders | form, feedback, list | submit, poll, show | manual-order route, order cache | lost answers, cached lists, stale or empty ones that pass for fresh | one order per ticket; what was placed is counted, and listed as far as the table goes |
| console: risk rules | form, projection, countdown, commits | edit, simulate, commit, cancel | risk-params and settings routes | two POSTs per commit, a poll that writes the form | halves stay together; the countdown is served |
| console: limits, emotion guard | pending copy, countdowns | review, cancel, apply; override, abort | none | timers that outlive what started them | no countdown is cut short |
| console: backtest pages | run, curve, statistics | run, fall back, save | backtest routes | the page changes while a run or save is under way | one run's results, never a mixture |
| console: simulator stream | socket, timer | connect, close, retry, unmount | web socket route | callbacks of a page that was left | one stream, of the page that is open |
| console: polling views | data on display, a socket's buffer | poll, refresh, pause, flush | reading routes, the event feed | answers overtake each other; a buffer is emptied before it is read | the views come back to the backend's data |
| alert manager, backtest engine, regime/drift/clock monitors, read-only routes, metrics, logging, models, other pages | | | | | see section 8 |

`PROJECT.json` lists the components with their sources, and the hazards, each
at the line where it bites.

## 2. Modules

| module | models | remarks |
|---|---|---|
| `Instruments` | the set of symbols | |
| `SymbolLock` | `services/symbol_lock.py` | each method body is one critical section, hence one operator |
| `CapitalRegistry` | `services/capital_registry.py` | likewise |
| `MtmEngine` | `services/mtm_engine.py` | `Filled` is `apply_order_fill` on one position |
| `Broker` | Kite, external | accepts at once, fills or rejects later; only fills move the broker's position |
| `TradePipeline` | `strategy_worker`, `risk_engine`, `governance_guard`, `execution_engine`, `idempotency_manager` | EXTENDS the four above; `pc` names the points between two accesses to shared state |
| `OrderEscrow` | nothing: the abstract specification | what the pipeline promises, refined by `TradePipeline` |
| `MCTradePipeline` | history variables for two properties of the pipeline | |
| `EmergencyControl` | `routers/protected.py`, `kill_switch`, `broker_reconciliation`, `kite_service.exit_all_positions` | EXTENDS `TradePipeline`; its other actions leave the control variables alone |
| `MCEmergencyControl` | a history variable: was the emergency one event that met a quiet pipeline | |
| `CapitalClients` | the registry under arbitrary concurrent callers, with the sweeper | EXTENDS `CapitalRegistry` |
| `OrderCache` | `services/order_cache.py` | separate: the pipeline's sniff already allows any answer the cache can give |
| `SessionControl` | `services/auth_manager.py`, `routers/auth.py`, startup | stands behind the free state changes of `TradePipeline` |
| `StrategyStore` | strategy-store routes of `routers/dashboard.py`, `strategy_registry`, `user_strategy_runtime`, the restore in `main.py` | EXTENDED by `StrategyDesk` and `TickStream` |
| `TickStream` | `services/websocket_manager.py` with its callers | composes the store with the stream; its ticks are those of `CandlePipeline` |
| `MCServices` | runs registry, cache, session and stream, one at a time | they share no state |
| `AccessGate` | `App`, `AppAccessGate` of `App.jsx`, `config/appAccess.js`, `core/security.py` | several tabs, one storage |
| `StrategyDesk` | `ShellApp`, `StrategyBuilderPage`, `StrategiesPage` of `App.jsx` | over the real store, not an abstraction of it |
| `ManualOrders` | `BrokerPage` of `App.jsx`, `pages/LiveExecution.jsx`, manual-order and orders routes | with its own copy of the cache, reduced to what one list needs, its failure branches included; the tables show the newest `LiveCut` and `BrokerCut` orders |
| `RiskDesk` | `pages/RiskControlPanel.jsx`, `components/shared/FrictionAction.jsx`, the routes they post to | |
| `LimitForm` | `pages/RiskControl.jsx` | |
| `EmotionGuard` | `pages/EmotionGuard.jsx`, `components/EmotionGuardOverlay.jsx` | |
| `BacktestLab` | `pages/BacktestLab.jsx`, `BacktestPage` of `App.jsx` | the second runs one backtest at a time and saves nothing |
| `LiveStream` | `SimulatorPage` of `App.jsx` | |
| `PollViews` | `useAuthStatusPoll`, `useOverviewPoll` of `App.jsx`, `SystemHealth`, `PortfolioView`, `StrategyPanel`, `AuditLogPage`, `OverviewDashboard` | what differs is kept: timers, what an error makes of the data, and the one page that reads a socket |
| `MCConsole` | runs the pages, one at a time | a page drops its state when it is left |
| `CandlePipeline` | `_on_ticks`, `tick_queue_manager`, `tick_processor`, `candle_builder`, `market_data_service`, the worker's queue | its consumer end is what `TakeCandle` starts from |
| `*_proofs` | theorems about the module of that name, see section 7 | `Services_proofs` is about the modules of `MCServices`, `Console_proofs` about those of `MCConsole` but `ManualOrders` |

### How actions correspond to code

* `TradePipeline`. `TakeCandle` … `CandleDone` are the worker's loop; `RefuseIntent`,
  `ApproveExit`, `AdmitEntry`, `SizeEntry`, `PreCheck`, `ReserveForEntry`,
  `ReserveFails` are `evaluate_intent` from top to bottom; `SniffAdopts` … `ReleaseLock`
  are `execute_decision`. A step boundary lies wherever another thread can change or see
  what the code reads or writes: the READY check, the balance between pre-check and
  reservation, each broker call, and ORDER_SUCCESS before the local fill.
* A step of the environment (state change, new balance, manual order, exchange fill,
  rejection, ageing) may come between any two worker steps.
* Disturbances are a constant set, so each run states which it allows: `lost_response`,
  `exchange_reject`, `manual_order`, `sniff_error`, `liquidation_error`,
  `positions_error`.
* Data: prices and capital are small integers, the volatility formula is a set of raw
  sizes, an order is its symbol, side, quantity, status and whether it is within the 15
  second sniff window. Fractions occur in one place, the blended average of `Filled`,
  where they are rounded down.
* `EmergencyControl`. Publishing EMERGENCY_LIQUIDATE is one step, because its
  subscribers run synchronously on the main loop; the task it creates reads the
  positions in one step and sells them one per step. A reconciliation cycle is
  `ReconStart` (READY, and with it a token), `ReconFetch` (the broker's positions) and a
  comparison with what is local by then: the await lies in the middle.
* `OrderCache`. `get_orders` is dirty read, re-check under the lock, fetch, store under
  the lock, with the failure branches.
* `CandlePipeline`. Each thread is its loop: state check, blocking get, processing.
  `process_tick` is one step, for it holds the store's lock throughout, the hand-over to
  the strategy queue included.
* `SessionControl`. A check or a login is a coroutine with a step per await; what it
  read before is in its record, and it sets the system state from that. The process may
  end anywhere; only the token table survives.
* `StrategyStore`. The routes have no await, so each is one step; the order inside it
  (register, then commit) shows when the commit fails. A restart restores everything
  (`RestoreRows`) or skips the rest once some rows are registered (`RestoreSkips`,
  `BootSkips`: nothing is committed, and only the built-in symbols are subscribed to).
  `TickStream` adds the subscription that follows, and cuts `subscribe` and
  `_on_connect` where they have read the list and not yet stored it.
* Console modules. A call is sent, served (with what the backend has then) and
  delivered: three steps, each possibly late, lost or refused. A timer tick, a click and
  a callback are one step each, as React runs them to completion. A React state update
  is applied at once; where the code reads a value from an older render, the record of
  the call carries that value.
* Data of the console: rules and limits are pairs (a part for each route, or for each
  kind of field), lists are known by their length or version, a run by its number, an
  instrument stands for its token. The broker's list of orders only grows, so that the
  rows of a table are its last positions (`Listed`).

## 3. Runs

| run | shows | bounds and why they are enough |
|---|---|---|
| `pipeline_disturbed` | no leaked lock, no orphaned hold, no short, no pyramiding, sound decisions, no overdraft, the lock-out is final | one symbol shared by two strategies, two attempts, two orders at the broker, balances 3 and 4 so that the pre-check can pass and the reservation fail, raw size 0 |
| `pipeline_two_symbols` | used capital covers the positions; local equals broker at rest; one straggler after the kill switch; refinement of `OrderEscrow` | two symbols at two prices so that proceeds differ from cost, two orders at the broker so that one is adopted; no disturbance, as `InSyncAtRest` needs |
| `fair_system` | types of the control plane; desyncs halt trading; decisions end; holds settle | one symbol, one strategy, every disturbance, exchange rejections included |
| `emergency_trading` | one emergency event that overlaps with nothing flattens; the emergency path refines the pipeline's environment | two symbols, so that a liquidation has a list to walk and stop in; long and short by manual orders |
| `services` | the registry spends nothing twice and settles each hold once; fetches are fresh and when invalidate() is honoured; READY has a token and checks spare good ones; what runs is fed | two ids settled repeatedly, three ticks around an expiry of one; two readers and two placers, three orders, failing fetches; two tokens, two tasks; one strategy that moves between two instruments, one of them built in (`AutoSymbols`), two tickers of a process |
| `console` | the pages tell the truth, send one order, keep halves, runs and sockets apart, serve countdowns and catch up | two tabs, two keys, two requests, one rotation; one strategy, two calls; one ticket twice in flight, two lists, two orders with tables of one row, so that the second order pushes the first out; two bases and caps, one base being what an error answer writes (`NoBase`), delay two; two limits; cooldowns of 1 to 3; two runs; two effects; two polls, two changes |
| `candle_pipeline` | candles are what the ticks say; events are final and in order; windows reach the event; the queue drains | two symbols, three minutes, three ticks with late ones and refused ones, queues of one so that both overflow, a history of two so that it evicts |
| `retry_duplicates`, `exit_locked_out`, `liquidation_straggler`, `phantom_in_flight`, `history_open` | violations, section 6 | each with only the disturbance the scenario needs |

Bounds in the models: `MaxOrders` (orders the broker still has to fill or list),
`MaxExposure` (the margin), `MaxTasks`, `MaxKillRequests`, `MaxTime`, `LastMinute`,
`MaxTicks`, `MaxBatch`, `MaxRequests`, `MaxRotations`, `MaxBook`, `MaxRuns`,
`MaxVersion`, and the sets `Tasks`, `Tickers`, `Slots`, `Submits`, `Loads`, `Commits`,
`Effects` and `Polls` of what may be in flight. `MaxRetries`, `MaxStrategies`, the queue
sizes, `MaxHistory` and `Lookback` are parameters of the code.

`services` and `console` each hold several parts that share no state. Their
actions are confined to the part that a constant choice of the initial state
names, so that a run is the union of the parts' behaviours and not their
product; every property is about one part, and for the others it holds of a
part at rest. Two calls, tabs, tasks or readers are enough for one to overtake,
clear or refute another. Where the code does not survive such an overlap the
property excepts it by name, with a history variable that is set by the very
event and ends where the code repairs itself:

| exception | begins | ends |
|---|---|---|
| `overlapped` of `OrderCache` | a call under way when an invalidation returns; a fetch that fails | a call begins alone with nothing cached |
| `crowded` | two checks or logins in flight together | a check begins alone |
| `missed` (a set of symbols) | a subscription that is not made, raises, or meets a connection | that symbol is subscribed to again |
| `torn` (a set of ids) | a route or restore that does not commit; a strategy moved and deployed while it runs | the id is deployed again, or restored |
| `crossed` (a set of tabs) | another request's answer clears the key under an open tab or its check | a key is stored; the tab is reloaded |
| `overlapped` of `StrategyDesk` | the page's last call began beside another | the next call that begins alone |
| `blurred` | a list that failed or overlapped, or was fetched while an order was placed | a list asked for by itself with nothing cached |
| `untold` (a count per ticket) | each order whose answer was lost or came when the page was left | never: one order more per such answer |
| `troubled` | a POST that failed, commits that overlapped | a commit begins alone |

One commit of risk rules is
in flight at a time in the run; the theorem about it has any number.

No run uses symmetry (several check liveness or refinement). Deadlock is checked
in every run but `console`: the backtest page may have used up its `MaxRuns`
and then has nothing left to do.

## 4. Fairness

Safety runs assume none. `FairControlSpec` assumes

* weak fairness of the worker's steps: the thread runs on, and a broker call
  returns or raises (the client library has a timeout);
* weak fairness of starting a reconciliation cycle (an interval job) and strong
  fairness of its fetch: fetches may fail, not for ever;
* weak fairness of the main loop's tasks and of the exchange.

`FairCandleSpec` assumes weak fairness of the worker thread only. Nothing is
assumed of the operator, of logins, or of the balance.

`ConsoleSpec` assumes, of the page that is open,

* weak fairness of its timers (`TimerRuns`): `setInterval` and `setTimeout` of
  `App.jsx:149`, `App.jsx:175`, `App.jsx:1098`, `LiveExecution.jsx:75` and the
  views, the flush of `OverviewDashboard`'s buffer among them;
* weak fairness of what passes at the backend by itself (`BackendMoves`): a fetch
  into the order cache ends, its second is over, a dead backend's calls fail, the
  feed sends a frame;
* strong fairness of being answered (`ServerAnswers`) and of an answer that
  carries data being the one delivered (`AnswerCounts`): calls fail, not all of
  them for ever, and the operator does not reload or leave the page before each;
* weak fairness of delivering an answer (`AnswerArrives`).

`AcceptedIsListed`, a part of `PagesCatchUp`, has a premise besides: from some
time on the backend's own fetches succeed (`<>[][~AnyBroken]`). A fetch that fails
now and then is not enough, for each empties the list for a second.

Clicks, edits, restarts, key changes and the backend's ups and downs are free.

## 5. Properties worth knowing

* `LockMatchesFlight`, `HoldMatchesFlight`: over every path of a decision,
  exceptions and adoption included, lock and hold exist exactly as long as the
  decision needs them. The sweeper that nothing schedules is thus not missed.
* `OneLongPerSymbol`, `DecisionSound`: what the strategy saw steps ago still
  holds when the order is sent and when it is booked, because one worker thread
  does all of it. Either would fail with two worker threads.
* `OneStraggler`: after READY is left at most one decision goes out.
* `UsedCoversPositions`: the clamp in `capital_registry.py:101` never hides an
  error of the undisturbed system.
* `QuietLiquidationFlattens` is what remains of "flattens all positions" when
  the emergency is one event and overlaps with nothing; `liquidation_straggler`
  shows the rest.
* `FreshUnlessOverlapped` is what remains of invalidate()'s promise: a fetch
  under way, or a failed one, may still put an old list back; the first call that
  begins alone after that ends it.
* `EventsAreFinal`: a candle handed to the strategies is closed, complete and
  newer than the previous one, although the store goes on changing.
* `WindowReachesEvent`: the window is read after the event was taken, from a store
  that another thread rolls. It holds the very candle, unless the event waited so
  long that it is full of newer ones; then the strategy decides on a window
  without the candle it was called for.
* `ReadyHasToken`, `ChecksSpareGoodTokens`: a check sets the state after an await
  from what it read before. One task at a time is safe by that alone; two that
  overlap may leave READY without a token, until a check begins alone. A check
  whose commit fails leaves both as they were, and READY with a dead token.
* `StrategiesAreFed`: deployments, disconnections and restarts in any order leave
  the stream with every symbol that a strategy runs on. It excepts symbol by symbol
  what was never asked for: the commit or the restore before it raised, the
  subscription raised, or it met a connection on the other thread.
* `QuietDeskIsTrue`: a page whose last call began alone shows what is stored and
  what runs, except the strategies a restore has skipped or a route has not
  committed.
* `UnlockedHasKey`: a late 401 clears whichever key is stored by then. It can do
  so under another tab, which is then open and powerless until it is reloaded or a
  key is stored; never otherwise.
* `OneOrderPerTicket`, `PlacedIsListed`: a ticket has one order, and one more for
  each answer that never reached the operator; what was announced as placed is
  counted by a list loaded after it, although it comes from the shared cache, and
  is in the table unless newer orders fill it.
* `RulesTogether`, `CountdownsServed`, `RunsStayApart`, `OneStreamOfThePage`:
  timers and callbacks of an earlier commit, countdown, run or mount never count
  for a later one. `RulesTogether` holds again from the first commit that begins
  alone after a POST failed.
* `DesyncHalts` is run with exchange rejections and adoptions: a position that only
  one side has, for whatever reason, ends in a halt if it lasts.
* `PagesCatchUp`: whatever was lost, the page that stays open comes back to the
  truth by its timers.
* Balance changes and capital: `NeverOverdrawn` excludes steps that lower
  `totalCapital`. A login that reports a smaller balance can overdraw.

## 6. Where code and documentation disagree

1. `retry_duplicates`: the retry loop does not sniff again.
2. `exit_locked_out`: a locked-out symbol's exits are refused, and nothing
   unlocks it.
3. `liquidation_straggler`: positions are read once; what is in flight, or a
   second press, is left over.
4. `phantom_in_flight`: the phantom check has no grace period.
5. `history_open`: the averages are computed with the running price of the
   candle that has just opened.

Seen while modelling, without a run: an adopted order deploys its hold without booking a
position (`execution_engine.py:82-90`), so `used_capital` may exceed what is deployed
(`UsedCoversPositions` is an inequality for this reason); the order cache releases its
mutex before it fetches, so several threads may fetch at once (`order_cache.py:35-45`,
against `:25`); two symbols overdue in one reconciliation cycle start two liquidations
of everything (`broker_reconciliation.py:72-77`); grace periods of symbols that went
flat are kept (`broker_reconciliation.py:64`, against `:79`); the tick queue is not
flushed while the system is halted (`tick_processor.py:43`). `main.py:55` logs that
trading is blocked although a check that fails for another reason than the token leaves
READY; a check begun before the kill switch falls sets READY after it
(`auth_manager.py:139`); a second login that fails gives up a good session; a second
ticker is created if a strategy is deployed while the first connects
(`dashboard.py:322`). A restore that raises leaves what it had registered running on
symbols that nobody subscribes to (`main.py:154-165`). The order cache answers a failed
fetch with its stale list, or stores an empty one as fresh for a second
(`order_cache.py:51-62`), and the route answers 200 with either.

In the console: the button of `FrictionAction.jsx:25` says "Confirmed" although
`handleApply` swallowed a failed POST (`RiskControlPanel.jsx:116-118`), and
success is announced for an error status (`RiskControlPanel.jsx:113`); the poll
overwrites an edited cap as long as the base risk is 1.5, against the comment at
`RiskControlPanel.jsx:45`, and a commit takes the form as it is by then, not as
it was simulated; `RiskControl.jsx` posts nothing; `StrategyPanel` shows
TRENDING for an error answer; `BrokerPage` does not stop a second submission;
`SwipeToLiquidate` announces liquidated positions and calls no backend; the order
tables end at 50 and 12 rows without a word (`LiveExecution.jsx:51`,
`App.jsx:645`); an error status with a JSON body writes default rules into the
form (`RiskControlPanel.jsx:35-54`); `OverviewDashboard` may empty its buffer before
its updater reads it, and never opens its socket again
(`OverviewDashboard.jsx:116-124`). The
last ones are true of single lines and need no run.

## 7. Proofs

Every safety property that a passing run checks is also a theorem, for every
value of the constants that satisfies the named assumptions of the modules
(`SymbolsAssumption`, `PipelineAssumption`, `ControlAssumption`,
`CandleAssumption`, …), which TLC evaluates in the runs. Most of these say that a
placeholder (`NoCall`, `NoneInFlight`, `NoMerge`, …) is none of the values it
stands beside; the others are `IsFiniteSet(Symbols)`, a positive price, delay or
queue size, at least one strategy and one attempt. Two theorems have hypotheses
about the disturbances and one about the manual orders; they are stated below.

| module | is about | theorems for the runs' properties |
|---|---|---|
| `CapitalRegistry_proofs` | sums over finite sets | (lemmas) |
| `StrategyStore_proofs` | rows and registry | (lemmas) |
| `TradePipeline_proofs` | the pipeline, its budget, the broker's list, the kill switch | `TypeCorrect`, `NoLockLeaks`, `NoHoldOrphaned`, `LongOrFlat`, `DecisionsStaySound`, `LockoutIsFinal`, `BudgetSafe`, `Implementation`, `DeploymentsCovered`, `BooksMatchBroker`, `KillSwitchStops` |
| `EmergencyControl_proofs` | the emergency path | `ControlTypesHold`, `PipelineSurvives`, `EmergencyIsEnvironment`, `QuietEmergencyFlattens` |
| `CandlePipeline_proofs` | ticks, candles, events | `CandleTypesHold`, `CandlesSummariseTicks`, `EventsStayFinal`, `WindowsReachEvents` |
| `Services_proofs` | registry clients, order cache, session, stream | `DeploymentsConsumeHolds`, `NoDoubleSpending`, `OwnFetches`, `InvalidationWorks`, `ReadyNeedsToken`, `GoodTokensSpared`, `StreamFeedsStrategies`, `ServicesTypesHold`, `ServicesSafe` |
| `ManualOrders_proofs` | order tickets | `TicketsPlacedOnce`, `PlacedAreListed` |
| `Console_proofs` | the other pages and their composition | `UnlockedTabsHaveKeys`, `HalvesStayTogether`, `RunsNeverMix`, `OnePageStreams`, `QuietDesksAreTrue`, `CountdownsAreServed`, `ConsoleTypesHold`, `ConsoleSafe` |

**Trade pipeline** (`TradePipeline_proofs`). The inductive invariant `IInv` is
`TypeOK` with `LockMatchesFlight`, `HoldMatchesFlight`, `OneLongPerSymbol` and
`DecisionSound`. None of the middle three is inductive alone: that the fill of
`ApplyFill` leaves the symbol long or flat needs the position to be what it was
at approval (`OneLongPerSymbol` in flight), which for an entry needs the symbol
to have been flat since the strategy looked (`DecisionSound`), and that no other
decision touched it, which is the lock discipline; that `ReserveForEntry` adds
the only hold needs `HoldMatchesFlight` of the steps before. The broker appears
in none of them: whatever it holds, answers or loses, the discipline stands, so
the proof has one step per worker action and a single one for the environment.
The action properties follow from the same invariant, and so does
`Implementation`: every step maps to a step of `OrderEscrow` or a stutter, with
`held` mapped to the sum of the reservations, of which the invariant allows one.

*Sums over sets.* `UsedCoversPositions` and `NoDoubleSpend` sum over sets of any
size. `CapitalRegistry_proofs` derives what a changed, a new and a removed term
make of `MapThenSumSet` without induction over data: a set that is wrong
contains a smallest wrong subset (every nonempty family of finite sets has a
minimal member), and taking the chosen element out of that one yields a
contradiction. `DeploymentsCovered` then has one step per way of booking
(`BooksStep`): none, an entry's position for the cost just deployed, or the end
of an exit's whole position.

*Sums over the broker's list.* `Totals` says that a list of numbers has a total by
exhibiting its running totals, in which entries that are all zero change
nothing. Appending, replacing and removing an entry each move the total by what
they add or take, again without induction. `SyncInv` says: what the local
position is ahead of the broker's, the worker's unbooked order included, is what
the open orders will still move. `BooksMatchBroker` follows for runs in which
no answer is lost, no accepted order rejected, and none placed by hand; each of
the three parts the two for good.

*Kill switch.* `KillSwitchStops` strengthens `OneStraggler`: once READY is left, a
counted straggler means that no further decision is before the sniff with its
admission behind it.

**Emergency path** (`EmergencyControl_proofs`). To the pipeline every step of
the kill switch, the reconciliation job and the liquidations is a stutter, a
change of state or somebody else's order (`ControlStep`). `PipelineSurvives`
carries the pipeline's discipline over with no hypothesis. `EmergencyIsEnvironment` is
the refinement itself; the liquidation orders what the broker holds, so it asks
that the pipeline's environment may order any quantity. `QuietEmergencyFlattens`
uses the running totals once more: while nothing overlaps with the one event,
what is left to sell of a symbol is what the broker will hold once its open
orders are filled (`ExitInv`). It asks that the exchange rejects nothing and that
no call of the exit fails. An attempt to prove it without "one event" fails, and
rightly so: reconciliation publishes one event for each of several overdue
symbols, each starts a liquidation of everything, and two of them sell twice.
`Quiet` therefore counts the events.

**Candles** (`CandlePipeline_proofs`). The four properties are inductive together
with two facts. A symbol's newest candle is as late as the latest tick processed
(`NewestIsLatest`): without it a tick could open a candle for a minute whose
ticks are counted already. And the candle of every event that is queued or
taken is still in the store, or `MaxHistory` newer ones are (`EventsStored`):
without it a window read after the event could lack the event's candle and not
be full of newer ones. The ring of `MaxHistory` candles and
the drops of both queues are in the proof as they are in the code.

**Services** (`Services_proofs`). *Order cache*: what a caller is given was decided when
the list was fetched, or when somebody else stored it. `CacheInv` adds that nothing is
known before it is placed, that an answer on its way is no older than its own request,
and that, without an overlap, the cached list and every answer about to be cached hold
all that was announced. *Session*: unless tasks overlapped since the last check that
began alone there is one at most; a check is about the active token, and one that found
it invalid is right; a login past its first step has stored a token. *Stream*
(`StreamInv`): what the registry runs, short of the symbols `missed`, is in the lists,
subscribed or about to be stored, and on the wire of a ticker that is connected; before
the startup has restored anything there is no stream; rows and registry agree by the
lemmas of `StrategyStore_proofs`. `ServicesImplement` shows that the composition
implements each part, so `ServicesTypesHold` and `ServicesSafe` hold of it.

**Order tickets** (`ManualOrders_proofs`). `OrdersInv`: on
LiveExecution one submission is under way at a time; a ticket has at most as many orders as
answers that never reached the operator, and one more if it was told of one or
is about to be; unless blurred, the list, the cache and every list in flight
that the page will show hold what the operator was promised. The last concerns
the whole list; what the table shows of it follows from the definition of the
cut. The counts are of positions in the broker's book, a sequence
that only grows, so that they need cardinalities and no sums.

**Console** (`Console_proofs`). *Access gate*: a tab that verifies a key is locked and
verifies one key, and the verified key is stored unless the tab was crossed; what is
crossed is kept tab by tab. *Risk rules*: from a commit that began alone until a POST
fails or another joins it there is one commit at most, it carries the last form, and
every answered POST of it is stored; while the button counts, what has passed and what
is left make the delay, as in the invariants of *limits* and *emotion guard*. *Simulator
stream*: the mounted effect is the only one whose cleanup has not run and has either a
socket or a timer. *Backtest page*: a run under way has cleared what the one before it
showed. *Strategies*: a desk whose last call began alone has that one call, and only it
can part the list from the table; what a restore skipped is torn, by `RestoreSkips`.
*Polling views*: their types only (`PollTypesHold`), what they promise is liveness.
`ConsoleImplements` composes the pages, as `ServicesImplement` does the services.

**Model-checked only.** Liveness (`DecisionEnds`, `HoldSettles`, `DesyncHalts`,
`EventsDrain`, `PagesCatchUp`): fairness and ENABLED are beyond the prover. That
`OpenQty` of `Broker`, a fold, is the sum it looks like is needed by no theorem:
the margin only disables orders. The five violations are counterexamples of TLC.

## 8. What is not modelled, and why

* The indicators, stop loss, partial target and trailing stop of the EMA strategy are
  functions of prices: when a strategy signals is free, which covers them for the
  properties here.
* The backend's emotion guard, drift monitor, clock monitor, `unlock_critical`,
  `update_price`, `update_synthetic_position`, `force_refresh`: no caller on the live
  path. In particular no price reaches the MTM engine, so equity equals total capital
  and the drawdown caps depend on the peak alone.
* Run-time changes of the governance limits (`routers/governance.py`): they are fixed at
  their defaults.
* Candle volume; ticks are taken to be well-typed.
* Restart of the trading process with an open position: local positions live in memory
  (`services/mtm_engine.py:18`), so the position becomes a phantom that reconciliation
  liquidates. The violation is that of `phantom_in_flight` without its race. Restarts
  are modelled for the session, the store, the stream and the strategies of the console.
* The alert manager posts to a chat and nothing reads its state; the web socket's
  heartbeat monitor sets a flag that no part reads.
* Regime, drift and clock monitors: floating-point statistics, two of them without a
  caller.
* The backtest engine replays history through the modelled strategy and risk code and
  shares no state with the live system; its page is modelled.
* Routes that only read, metrics, logging, ORM models, seeding, tear sheet.
* Console: `Strategies`, `SettingsPage`, `NotificationSettings`, `SwipeToLiquidate`,
  `StatefulToggle`, layout and theme (mock data, drawing, settings kept in the browser),
  the form fields inside `App.jsx`, the time range of its backtest page,
  `StrategyPanel`'s toggle (it posts nothing). Of the modelled ones, `pages/*` and
  `components/*` are in the tree and not routed by the present `App.jsx`: they are
  modelled as the components they are, mounted by any parent.
* React's development mode runs effects twice; the models are of the production build. A
  parent that renders again restarts the interval of `FrictionAction`, which only
  lengthens the countdown.
* Grace periods of reconciliation beyond one cycle (`broker_reconciliation.py:64`): the
  next cycle is 15 seconds away and the period 3.
