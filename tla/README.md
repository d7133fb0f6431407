# Verification of the CSD signal engine

TLA+ models of the signal engine in `src/app`, the TLC configurations that check them, and TLAPS
proofs about them. The engine is one asyncio program: it follows closed candles of Binance USD-M
futures, detects changes of structure (CSD), waits for a retest of the broken level, scores it, stores a
signal and alerts the user. Around it stand a backtester that replays the same strategy, a validation
that decides whether the engine may leave observation mode, and read-only views.

Run `tlc -config X.cfg MC<Module>.tla` for a run of the table below, and `tlapm <Module>_proofs.tla` for
the proofs.

## 1. The system

| Part (`src/app/...`) | State it keeps | Operations | Interacts by | Hard behaviour | What makes it correct |
|---|---|---|---|---|---|
| `main.py` run | settings, observation mode, shutdown event | boot, `reconcile`, `persist_signal`, shutdown | awaits REST, starts the client task, closes the database | boot failures, shutdown at any moment, a task that dies unobserved | shutdown completes; the database outlives the task; the feed recovers or says so |
| `data/binance_ws.py` | connection, `_stop`, `first_connection`, backoff | `run`, `_subscribe`, `process_message`, `stop` | frames of the exchange, `CandleStore`, `EventBus`, `HealthStatus` | interleaved control replies and data, partial subscriptions, loss, timeouts, exceptions it does and does not name | no candle is lost by a reconciled session; a closed candle is evaluated once, in order |
| `data/binance_rest.py` | none | `fetch_candles`, paging, `validate_symbol` | called by `reconcile` | requests overlap candle closes; transport failures | a row counts as closed only after its interval |
| `data/candles.py`, `events/` | candles by open time; handlers | `add_candle`, reads, `publish_candle_closed` | memory, SQLite upsert | replacement by older observations; failing upsert | evaluated candles stay as evaluated |
| `structure/` | `_emitted_breaks` | swings, LH/HL, `CSDEngine.evaluate` | called by the strategy | newest swing changes; the same swing is broken again | one report per broken swing; only confirmed swings are read |
| `strategy/breakout.py`, `retest.py` | one setup per key | `start`, `resolve`, `advance`, `evaluate` | shared slot of a key | window boundary, invalidation against retest, replacement | the retest is the first return; a failed setup is final |
| `strategy/csd_strategy.py` | `latest_assessment` | `on_candle_closed`, `_assess` | calls all of the above in order, awaits the signal handler | raising half way, two assessments on one candle, restart | one signal per trigger and entry mode |
| `strategy/confirmation, regime, risk, scoring`, `indicators/` | none | pure decimal functions | called by `_assess` | out-of-range components raise | arithmetic |
| `storage/`, `signals/` | tables `signals`, `notifications`, ... | `save`, `save_attempt`, ... | SQLite in the event loop | failures and crashes between statements | an id is stored once |
| `notifications/` | attempts | `dispatch`, `_deliver`, providers | HTTP and SMTP inside the frame's handler | retries of what was already delivered; slow and failing providers | bounded alerts, truthful rows, no provider blocks another |
| `backtest/exits.py` | a simulated trade | `advance`, `close_at_end_of_data`, `gross_r` | called by the runner and the simulator | stop and targets in one candle; legs that move the stop | pessimistic order, results that match the fills |
| `backtest_runner.py`, `backtest/phase9.py` (simulator) | pending trades | `run`, `simulate` | strategy callbacks, `backtest_trades` | several trades in one interleaved replay; end of data | each trade ends as if it were alone |
| `replay.py` | none | `run` | strategy | order of timeframes | no look-ahead |
| `backtest/research_*`, `phase9_cli.py` | checkpoints of two files, progress artifact | phases, reuse, resume, restart | files, candles in SQLite, one orchestrator per entry mode | swallowed failures, a crash between two files, corrected candles, other arguments | a reused unit is what the run would have computed; ready means complete evidence |
| `backtest/walkforward, costs, research, metrics` | none | windows, percentiles, reordering, costs | called by the orchestrator | month lengths, seams of the windows, nearest ranks, ties | no out-of-sample trade twice, none lost but those not filled in their half; figures that do not contradict each other |
| `backtest/gate.py` | none | `evaluate_gate` | report of the validation | stale or incomplete reports | live only on a sufficient report |
| `scripts/fetch_historical.py` | open transaction, list of issues | download pairs, store batches | `fetch_candles_range`, `upsert_many`, exit code | full and overlapping pages, refusals, a statement that raises, kills and reruns | a reported range is in the database, complete and final |
| `monitoring/` | snapshot files, `_candles` | `write`, `update`, `read`, staleness | written by the engine, read by other processes | readers that hold a file, a dead writer's last file | files that hold what the engine knows; publishing never stops the feed |
| `dashboard.py` | event streams, the browser's chart | `event_stream`, chart script | snapshot files, SQLite | broken streams, change of market, late timers | the chart shows the newest candle of its market and does not stay LIVE over a dead engine |
| `manual_analysis.py`, other `scripts/` | none | read-only tools | SQLite, REST | - | - |
| `config/settings.py` | none | `load_settings` | - | - | assumptions on the constants |

`PROJECT.json` lists every part with its status, and under `hazards` every place where the code is
exposed to something a test would hardly reach, with the properties that cover it.

## 2. The modules

| Module | Models | Uses |
|---|---|---|
| `MarketFeed` | `main.run`, `reconcile`, `BinanceWebSocketClient`, `CandleStore`, `EventBus`, the exchange | - |
| `MarketFeed_proofs` | theorems about `MarketFeed` | `MarketFeed`, TLAPS |
| `SetupContract` | the abstract promise of the setup lifecycle | - |
| `CsdStrategy` | `CSDStrategyEngine` and all it calls, on one (symbol, primary timeframe) | refines `SetupContract` |
| `CsdStrategy_proofs` | theorems about `CsdStrategy` | `CsdStrategy`, TLAPS |
| `SignalDelivery`, `SignalDelivery_proofs` | `persist_signal`, `SignalRepository.save`, `NotificationDispatcher`, restarts | - |
| `ExitPolicy` | pure operators for one simulated trade (`exits.py`) | - |
| `BacktestRunner` | `HistoricalBacktestRunner.run`, and `CanonicalTradeSimulator.simulate` as the reference | `ExitPolicy` |
| `Assessment`, `Assessment_proofs` | what `_assess` may know and how it is scored: `confirmation.py`, `regime.py`, `scoring.py`, live or in a replay | - |
| `WalkForward`, `TradeFigures`, `GoLiveGate` | pure operators: windows, sequence risk and costs, `evaluate_gate` | - |
| `ResearchFigures` | growing candle ranges, trades and reports under those operators | the three above |
| `Backtest_proofs` | theorems about `BacktestRunner` and `ResearchFigures` | both, TLAPS |
| `ResearchRun`, `ResearchRun_proofs` | `phase9_cli.run`, `UnifiedResearchOrchestrator`, `ResearchCheckpointStore` | - |
| `HistoryFetch`, `HistoryFetch_proofs` | `fetch_historical.py`, `fetch_candles_range`, `upsert_many` | - |
| `Monitoring`, `Monitoring_proofs` | publications of the engine, both snapshot files, `event_stream` and the chart | - |
| `MC*` | instances for TLC | their module |

### MarketFeed

An action is what the engine does between two awaits, or one step of the exchange. `forming`, `link`,
`request`, `delivering` and `wire` belong to the exchange and the network: each stream has one forming
candle, requests are answered in order, frames arrive in order until the connection breaks, when any
suffix may be lost. `main` and `phase` are the program counters of `main.run` and of
`BinanceWebSocketClient.run`; `first` is `first_connection`, `attempt` the counter of `ReconnectBackoff`
saturated where the delay is, `todo`/`rows` the position inside `reconcile()`, `store` the `CandleStore`, and
`health` the fields of `HealthStatus` anything depends on. `evaluated` and `resynced` are history variables.

A candle version is `forming`, `final` or `partial`: `candle_from_rest_row` decides by the clock at parsing
time, so a row captured while its candle was forming and parsed after its close is closed with unfinished
values. `RowVersion` models just that; see the hazard at `binance_rest.py:108`.

`TaskDies` is the exception no `except` of `run()` names, `EndSession` one it catches; both run the `finally`
block. Which failure gives which follows the code: `fetch_candles` turns a transport failure into
`RuntimeError`, payload and decoding errors are `ValueError`, SQLite errors are neither.
`MaxCandle`, `WireBound` and `FaultBound` are bounds; `FaultKinds` says which failures a run may meet.

### CsdStrategy and SetupContract

`bars` are the closed candles in the store, also those the REST bootstrap put there without evaluating;
`OnCandleClosed(e)` is the whole handler for bar `e`: the pending setup is advanced and judged, the retest
assessed, swings and structure recomputed from the window as of the candle, a break looked for, a setup
started, an immediate entry assessed. `RetestRaises` and `ImmediateRaises` are the same handler with an
assessment that raises: `scoring.py` raises `ValueError` for a component out of range and the awaited
`persist_signal` may raise too; what ran before stays done, what follows does not happen. The score
itself is a choice. The percent and ATR distances become two constants, `MinDistance` and `ZoneOffset`, in units
of price: the properties tell apart only whether a close is beyond the level, near enough or far enough.
The environment assumption (each bar at most once, in order, at the latest some bars late) is what
`MarketFeed!EvaluatedOnceInOrder` checks of the feed.

`SetupContract` is the promise: a trigger is used once per run of the engine, a setup waits a bounded number of
candles, ends once, and is replaced only for a fresh trigger. `CsdStrategy!Contract` maps `used` to
`_emitted_breaks`, `current` and `status` to the setup, and `waited` to `bars_after_breakout`.

### SignalDelivery

Everything from the risk analysis on runs inside the handler of a frame, so there is one dispatch at a
time. `ChannelAccepts` is separate from the end of `send()`: a provider may take a message whose answer is lost,
times out, or is cut off by a kill. `stored` and `rows` survive `Kill` and `Start`; every run chooses its
observation mode as `evaluate_gate` and `--force-live` would. SQLite writes without an await between them are
one step and may raise, which ends the task as in `MarketFeed`.

### ExitPolicy and BacktestRunner

`ExitPolicy` has one operator per method of `exits.py`; integers stand for decimals and `RUnit` parts make one
R, the plans being restricted to risks that divide (assumption `PlansAssumption`). Excursions, times and costs
are left out. `BacktestRunner` is the loop of `run()`: one `Replay` step is one candle, including the strategy
callback (any plans `RiskEngine` could derive), the advance of every pending trade of that key, and the storing of those
that closed; `EndOfData` is the tail of `run()`. Loops over a list (`InState`, `Following`, `Advanced`) are recursive
functions of its length and sums of leg sizes are `SumFunctionOnSet`, so that the proofs can unfold them.

Every primary signal also becomes a random candidate with an arbitrary entry that risks what its template
risks, as `build_symbol_validation` draws them per symbol.

### Assessment

The environment gives candles in the order of the feed (`Feed = "live"`: as they close; `"replay"`: sorted by open time) and
the strategy keeps the indicators of the last candle of each timeframe (`latest`). `actual` is what an engine that missed
nothing would hold. Time is counted in primary candles, a quality in percent rounded down, a point is 240. Indicators
are a reading of their candle; which setups are assessed is `CsdStrategy`'s business, so any of `Setups` may be. A
restart forgets `latest`, a missed candle leaves it behind, and a raised score ends the handler. The regime is recorded
with the assessment and decides nothing, as in the code.

### WalkForward, TradeFigures, GoLiveGate and ResearchFigures

Operators for `rolling_windows`, `_drawdown_and_streak`, `_percentile`, `monte_carlo_ordering`, `run_random_entry_experiment`,
`CostModel.breakdown` and `evaluate_gate`, and a small machine whose steps are what grows: a month of candles, a finished
trade, a sampled ordering, a result of a report that improves. The data of a range may hold some plans (`market`), each
with the date of its signal and that of the candle that fills it. `ReplayWindow` is one round of `_walk_forward`: the strategy runs
afresh over the window's candles, so it may find any of the window's plans, none of a symbol whose unit raises; the candles
end with the window, so a plan not filled by then is no trade (`Replayed`); and of the trades those signalled in the second
half count (`OutOfSample`). A plan that nothing fills counts nowhere and is left out. The gate's keys are fields of their own, each
of which a report may lack: the two with a fallback (`Reported`), `expectancy_r`, which the threshold is about, the two expectancies
of the ratio and the ratio itself; a key reported as null is left out, and so is the age, for which no caller passes a clock. A random
candidate's results are those of the trades. `Curve` is the loop of `_drawdown_and_streak` as a function of the round (`Extended`), `Sorted` some ascending order:
Python's sort is stable, but equal results cannot be told apart. Confidence intervals, medians, groupings, cost-stress scenarios, the lifecycle funnel and report metadata are left out.

### ResearchRun

A result is abstracted to the version of the candles and the number of iterations it was computed from, so that "the
right result" is `Value(u)`. `disk` holds both files of each checkpoint and survives `Dies`; `saving` is the moment between
them. A run is fresh, a resumption or a restart; its label, seed and date range choose the directory and do not change. The
candles are corrected only between runs (`DataCorrected`) and each correction is a new version: candles restored to an earlier one are outside. Failures of walk-forward, sensitivity and higher-timeframe units are
recorded; any other ends the run. Abstracted: clearing a restarted directory is one step; the order in which saved baselines are
scanned is free; the in-memory cache is never hit by a run; the progress artifact is always asked for; a `ValueError`
of a sensitivity unit makes it unsupported.

### HistoryFetch

A candle is its open time and how far it had formed when the exchange took it. `fetch` is the download of one pair
(cursor, refusals in a row, page, collected), `working` the table as the open transaction sees it, `table` what is committed.
An answer is any page the exchange may give, up to `Overlap` candles before the cursor included; `Refuse` is an HTTP failure, after
`MaxFailures` in a row the pair fails; `SaveFails` leaves rows in the open transaction. `outcome` is what the script printed
of a pair. Delays are steps; prices, duplicates and OHLC violations are left out; one script runs at a time.

### Monitoring

`work` is the list of publications the current handler has still to make, each with what the failure of its last attempt does:
logged, or the end of the session, the boot or the process. `file` is what the two snapshot files hold, `behind` the files
whose last publication was refused. Replacing a file that a reader holds open is refused where `ReadersBlock`. The reader is an event
stream with `last_payload`, the browser one tab with its selected market, timer, chart and label. A candle is a
version number, every second one closes its bar; each publication is a new payload because of `updated_at`. The temporary
file and its replacement are one step; message counts and other health fields are left out; a session's details are
`MarketFeed`'s. A status request may hold the health file at any time, the live file only the event stream does.
A stop waits for a running `reconcile`, and the chart is assumed to be on the page. Reconnections of the stream are bounded, and a slow
refresh of the page by its minute timer, which may show LIVE again for a moment (`dashboard.py:93`, `dashboard.py:121`), is left out.

## 3. What is checked

| Run | Properties | Shows | Bounds, and why they are enough |
|---|---|---|---|
| `feed_safety` | `ReconciledSessionHasNoGap`, `EvaluatedOnceInOrder`, `EvaluatedStaysFinal`, `AcknowledgedMeansDelivering`, `DatabaseOutlivesTask`, `ShutdownCompletes`, `ReconnectsUnlessTaskEnded` | whatever fails and whenever candles close, a reconciled session misses nothing, the strategy sees each candle at most once and in order, reported health is true, nothing runs after the database is closed; a lost session is followed by a receiving one unless the task ended, and a shutdown completes | one stream (streams share only the queue of `reconcile`), 4 candles with a history of 3, so that a row leaves the window; 3 frames in flight; 2 failures of all 12 kinds: one to lose the session, one in its recovery |
| `strategy_lifecycle` | `TypeOK`, `OneSignalPerTrigger`, `FailedTriggerNeverSignals`, `RetestIsFirstReturn`, `ImplementsContract` | the setup lifecycle keeps its contract on every sequence of candles, evaluated, skipped or failing | a history with one LH and one HL, then 4 live bars of 8 kinds; window of two bars, one restart, both entry modes: a setup is opened, waits, fails or is retested, and is replaced within 4 bars |
| `delivery` | `AlertsAreBounded`, `RowsTellTheTruth`, `EveryProviderTried`, `ShutdownEnds` | alerts are bounded over all runs of the process, rows are true, no provider blocks another, a shutdown in the middle of a dispatch ends | two signals, two providers, 2 attempts, one restart: a retry, a second provider and a second run each happen |
| `backtest_trades` | `RunnerMatchesSimulator`, `GrossMatchesFills`, `PessimisticFills`, `LossIsBounded` | two overlapping trades in an interleaved replay end as the simulator ends each alone; no target fills on a candle that reached the stop; the result is what the fills paid and at worst the risk | 4 candles over two timeframes, 2 signals of either side, two legs with the stop moved after the first, a time stop of 2 bars |
| `assessment_live` | `CausallyAvailable`, `ConfirmationIsCurrent`, `RestartNeverAddsSignals`, `ScoresStayOnTheScale` | live, every assessment reads confirmation candles that have closed and are the newest closed, unknown ones add no points, and only a volume minimum below the average makes `score()` raise | timeframes of 1, 2 and 4 primary candles over 5 of them, 2 restarts or misses; readings at and around each threshold |
| `research_run` | `ReusedUnitsMatchInputs`, `DurableProgress`, `ReadyMeansEvidence`, `RunEnds` | runs that die anywhere, resume over the same or corrected candles and meet failing units never take another candle set's result, lose only unfinished units, and are ready only over complete evidence | two symbols, two entry modes, one window, value and variant, 3 runs, 2 versions of the candles, one failing unit: every phase occurs, is interrupted, resumed and fails |
| `research_figures` | `OutOfSampleOnce`, `ResamplingIsCoherent`, `OnlyAShrinkingLossFails` | whatever each replay finds, no trade counts in two windows, and a plan counts in the window whose half holds it if found and filled there; percentiles, probabilities and random entries agree; a better report fails only for a shrinking loss | ranges up to 14 months (four windows) from five dates (end of months, a leap year), three plans of two symbols around a seam: filled before it, over it and after it; 3 trades of 5 kinds in all orders and 3 samples; figures up to 2, thresholds of 1 and 2, reports with and without a ratio, a count or its fallback, and with a loss out of sample |
| `history_fetch` | `RangeIsComplete`, `ReportedIsDurable`, `ExitZeroMeansUsable`, `ScriptEnds` | whatever the gaps, pages, refusals, failing statements, kills and reruns, a download is complete, a report durable, exit code 0 means usable series | two pairs, every list out of 5 candles, pages and batches of 2 with up to 2 candles of overlap, 2 refusals, 2 runs |
| `monitoring` | `FilesMatchTheEngine`, `ChartShowsItsMarket`, `ReadersNeverStopTheFeed`, `DeadEngineIsNotLive`, `NewestIsDrawn` | with readers in the way, lost sessions, kills and restarts, broken streams and clicks, the files hold what the engine knows, publishing never ends a streaming session, and the chart is true | two markets with 2 and 1 frames, 2 disturbances, 2 attempts for the code's 4 and one stale second for its 5 |

Runs that TLC refutes. Each states what a document or comment says, and ends in a counterexample:

| Run | Statement | What the code does |
|---|---|---|
| `feed_skipped_evaluation` | the lifecycle is evaluated "on subsequent closed candles" | candles the reconciliation stores are never published, so the strategy skips them |
| `replay_look_ahead` | "Every number the strategy sees must be causally available at that moment in time" | candles of all timeframes are replayed by open time, so a quarter-hour is confirmed by the hour that still contains it |
| `research_stale_checkpoint` | units are reused "only when their full identity matches" | the number of baseline iterations is in neither the identity nor the parameters of a checkpoint |

Every property of a passing run has a mutant in its module, a definition whose comment begins with "Mutant":
put in the place of the definition it mutates, it makes TLC find the property violated.

`CHECK_DEADLOCK FALSE` is set where the modelled system stops: the strategy, the assessments and the figures when their
bounded supply ends, the replay, the validation and the script when they have finished, the dashboard's world when nothing is
left to happen. `MarketFeed` and `SignalDelivery` end in an explicit stuttering step (`Terminated`, `Over`)
instead, so that any other stop would be reported.

### Fairness

Weak fairness only, and only of steps the code is bound to take.

- `MarketFeed`: the engine's steps, because the event loop runs what is ready; `Connect`, `FetchRows` and `ApplyRows`
  because `ws_connect` and the REST client have timeouts; the session's receive step on the condition that
  a frame is there; `SessionError` because `receive_timeout` and the deadline of `_receive_control_response` end a
  silent session; the exchange's answers to control requests, whose absence is the failure `silence`. Nothing
  is assumed of candles, ticks, failures or the shutdown signal.
- `SignalDelivery`: `send()` returns, since every provider `configured_providers` builds has a timeout of 15 seconds; the
  retry delay is a timer; the event loop continues. Nothing is assumed of channels.
- `ResearchRun`: `Step`, since the event loop and the workers go on while the process lives. No failure, death or start is owed.
- `HistoryFetch`: `Engine`, since a request is answered or times out after 20 seconds, delays end and the loop continues. The
  exchange may refuse for ever: five refusals in a row end the fetch of a pair.
- `Monitoring`: a publication in progress goes on; the event stream passes every quarter of a second; the tab's connection
  and timers run. The engine owes nothing else, and readers may hold a file at every attempt.

### Known divergences without a run

Met while modelling, with the line where each bites:

- A REST failure inside `reconcile()` ends the WebSocket task while `main` waits only for the shutdown event
  (`binance_ws.py:93`, `main.py:147`); `DEPLOYMENT-OPERATIONS-GUIDE.md:159` promises a reconnect. A session after a failed first
  attempt is not reconciled (`binance_ws.py:92`).
- A bullish break that was already reported hides a bearish one on the same candle (`csd.py:46`). Reported breaks and failed
  setups are forgotten by a restart (`csd.py:39`).
- An attempt that was delivered but whose answer was lost is repeated (`dispatcher.py:38`).
- An entry is filled at the reference price though the candle only touched the edge of the zone (`exits.py:72`).
- Of two equal legs filled on one candle both get the number of the first, since `legs.index` compares by value
  (`exits.py:99`): a stop that is to move after the second stays where it was, although `PATCH-02-costs-and-exits.md:171` asks for a
  valid leg number only. In `backtest_trades`, legs of 25, 25 and 50 percent at 1, 1 and 2 R with `BreakevenAfter = 2` and `TimeStop = 3`
  let TLC refute `PessimisticFills`.
- The score is scaled by 10 / 12, the constant sum of the default weights (`scoring.py:70`), and the weights are settings of which
  `load_settings` asks only that they are positive: `README.md:31` of the repository promises "a transparent 0–10 score". In
  `assessment_live`, a CSD weight of 4 instead of 2 lets TLC refute `ScoresStayOnTheScale`.
- A volume ratio minimum below 1, which `load_settings` accepts, lets `score()` raise and end the listener's task
  (`scoring.py:67`). `funding_rate_source` "historical" is accepted by the
  settings and refused by `CostModel.breakdown`.
- A plan signalled at the end of an out-of-sample half and filled only after it counts in no window: its own ends before the fill
  (`phase9.py:206`, `phase9.py:306`, `research_orchestrator.py:299`), and for the next one its signal is in-sample. A trade still open
  at the end of a half counts with the result of a close there (`phase9.py:216`).
- Walk-forward windows of a range that starts on the 29th or later overlap (`walkforward.py:36`). A random candidate that is
  not filled counts as 0 R. A variant with higher-timeframe agreement treats missing data as disagreement. The portfolio drawdown runs
  over the symbols one after another and not over time. `failure_percentage` of the funnel can exceed 1.
- The gate's report from the orchestrator lacks the ratio fields, so that the gate always fails on it; a missing drawdown counts as
  0 and passes; `main` never checks a report's age (`main.py:45`). Without a reported ratio, a report with an `expectancy_r` of 0.2, -0.05 in-sample and
  -0.1 out of sample passes, and fails once the last improves to 0 (`gate.py:45-48`): the threshold is about another key than the ratio. Failures of higher-timeframe units come after completeness was
  decided (`research_orchestrator.py:112`).
- The row of the forming candle, taken before its close and parsed after it, is stored as closed (`binance_rest.py:108`), until a
  later run repairs it. The integrity report covers what was fetched, not what is in the table.
- A killed engine leaves "running" and "connected" behind (`README.md:65-66`), and opening a chart over it shows LIVE for
  five seconds; `updated_at` is shared by all streams, so a stopped stream stays LIVE while another moves. A refused replacement of the
  live file inside `reconcile` is not caught (`main.py:127`), though the comment at `binance_ws.py:193` says publication must never
  affect the engine; the health file is replaced without a retry. After a reconnect older queued frames may move the relay
  back behind the REST seed. `is_stale` of the live store is used by nobody.

## 4. What is proved

| Module | Theorem | Statement |
|---|---|---|
| `MarketFeed_proofs` | `SessionHasNoGap` | `Spec => []ReconciledSessionHasNoGap` |
| | `EvaluationInOrder`, `EvaluationIsFinal` | `[]EvaluatedOnceInOrder`, `[]EvaluatedStaysFinal` |
| | `AcknowledgedIsDelivered`, `DatabaseIsClosedLast` | `[]AcknowledgedMeansDelivering`, `[]DatabaseOutlivesTask` |
| `CsdStrategy_proofs` | `TypeCorrect`, `SignalsOnce`, `FailureIsFinal` | `Spec => []TypeOK`, `[]OneSignalPerTrigger`, `[]FailedTriggerNeverSignals` |
| | `RetestIsTheFirst` | `Spec => []RetestIsFirstReturn` |
| | `ContractHolds` | `Spec => ImplementsContract`: the engine refines `SetupContract` |
| `SignalDelivery_proofs` | `AlertsBounded`, `RowsAreTrue`, `NoProviderSkipped` | `Spec => []AlertsAreBounded`, `[]RowsTellTheTruth`, `[]EveryProviderTried` |
| `Assessment_proofs` | `ConfirmationIsCausal`, `ConfirmationIsNewest` | on the live feed, `[]CausallyAvailable` and `[]ConfirmationIsCurrent` |
| | `ScoreKeepsItsScale` | with weights that add up to at most 12, `[]ScoresStayOnTheScale` |
| | `RestartIsCautious` | `Spec => []RestartNeverAddsSignals` |
| `Backtest_proofs` | `RunnerIsTheSimulator`, `GrossIsWhatFillsPaid` | `Spec => []RunnerMatchesSimulator`, `[]GrossMatchesFills` |
| | `StopComesFirst` | if no two legs are equal, `[]PessimisticFills` |
| | `LossStaysWithinRisk` | if the breakeven offset is at least -1 R, `[]LossIsBounded` |
| | `OutOfSampleCountsOnce` | if a step is as long as an out-of-sample half, `FiguresSpec => []OutOfSampleOnce` |
| | `ResamplingCoheres` | `FiguresSpec => []ResamplingIsCoherent` |
| | `GateIsMonotoneExceptForLosses` | `FiguresSpec => OnlyAShrinkingLossFails` |
| `ResearchRun_proofs` | `UnitsAreDurable` | `Spec => []DurableProgress` |
| | `ReuseIsSound`, `ReadinessIsSound` | with one iteration count, `[]ReusedUnitsMatchInputs` and `[]ReadyMeansEvidence` |
| `HistoryFetch_proofs` | `DownloadsAreComplete`, `ReportsAreDurable`, `ExitZeroIsUsable` | `Spec => []RangeIsComplete`, `[]ReportedIsDurable`, `[]ExitZeroMeansUsable` |
| `Monitoring_proofs` | `FilesAreCurrent`, `ChartsAreNotMixed` | `Spec => []FilesMatchTheEngine`, `[]ChartShowsItsMarket` |

All for every value of the constants that the named assumptions of their modules allow. Eight theorems name one hypothesis more,
because the code allows what they exclude (see the runs that TLC refutes and the known divergences):

| Hypothesis | Theorems | Why it is needed |
|---|---|---|
| `Feed = "live"` | `ConfirmationIsCausal`, `ConfirmationIsNewest` | `replay_look_ahead` refutes the first in a replay |
| `WeightsAddUp` | `ScoreKeepsItsScale` | a setup can score more than 10 otherwise; `load_settings` asks of a weight that it is positive |
| `LegsDiffer` | `StopComesFirst` | the stop may not move after one of two equal legs; `load_settings` accepts them |
| `BreakevenKeepsStop` | `LossStaysWithinRisk` | a stop moved past the first one loses more; `load_settings` does not look at the offset |
| `WindowsMeet` | `OutOfSampleCountsOnce` | with shorter steps windows overlap, with longer ones the trades between them count nowhere; `rolling_windows` takes any numbers, and every caller its defaults 6, 2 and 2 (`walkforward.py:20`) |
| `OneCount` | `ReuseIsSound`, `ReadinessIsSound` | `research_stale_checkpoint` refutes the first |

**Feed.** `FeedInv` has seven parts besides the types, and they need each other. `Frames` is about what is in flight: a frame never
tells of a candle before it is formed, frames of a stream come in the order of their candles, none goes back behind what was
evaluated, and over an open connection an intrabar frame of a candle that has closed is followed by the closing one. From
that, a late frame cannot put an unfinished version over an evaluated candle, and the candle published next is later
than those before. `RowsInFlight` says that nothing is evaluated between the capture and the storing of REST rows, which is why a
row cannot go behind the strategy either; it is the one place where the order of `reconcile()` and the receive loop matters.
`NothingMissed` is the invariant behind a session without gaps: every recent candle of a stream already reconciled is stored as
closed or its closing frame is in flight, and so is every candle that closed since the rows now in flight were captured.
`Connection` and `Acknowledgement` tie the health record to what the exchange delivers, `MainAndTask` the program
counters of `main` and the client. The three kinds of ending (a caught error, an uncaught one, a stop) share `Over`, since all run
the same `finally` block.

**Strategy.** None of the first four is inductive alone. That a trigger gives one retest signal holds because a setup leaves the
state in which it can be retested and its trigger never opens another; so the invariant must say what the engine
remembers. `IInv` conjoins `TypeOK` with `WaitBound` (a pending setup has waited at most `MaxWait` candles),
`SetupWasEmitted` (its trigger is in `_emitted_breaks`), `FailuresRemembered` (so is that of every setup that failed in this
run, and it is not pending), `SignalsRemembered` (so is that of every signal of this run, and the current setup has given
its retest signal only if its status says so), and the two properties. `HandlersEvaluate` reduces the three handler actions to
one step predicate that names what can change. The refinement needs two facts of it: an opened trigger is fresh, and a pending
setup has not used up its patience. `Swings`, `LatestSwing` and `Csd` enter only by `LatestSwingIsABar` and `CsdIsNew`. For the retest, `Anchored` says where
the start and the end of the setup lie among the candles seen, and `OutcomeOfABar` what the three comparisons of `RetestEngine`
tell of one candle.

**Delivery.** `CursorBound` and `CursorRows` describe the dispatch under way by its cursor: the provider at hand was given at most
one message per attempt, those before it have their row, those after it nothing. `OnlyStored` says that a signal not stored was never
sent, which makes the next start of the process harmless: a stored signal is not dispatched again, so a kill may leave a signal with
fewer rows, but never adds an attempt. `TriedOrUnderWay` is `EveryProviderTried` with the dispatch under way left out.

**Assessment.** `LiveInv` is about the order of the candles: whatever was given closed no later than whatever was not, and the
indicators kept of a timeframe are those of the newest candle given of it. `ScoreInv` says how the last assessments were computed;
the rest is arithmetic of rounded shares (`Share`, `ShareGrows`): each quality is a percentage, one that knows more
timeframes is no smaller, and a weighted sum of percentages is at most the sum of the weights.

**Backtest.** The invariant says that every trade of the runner, pending or stored, is the one its signal would have
alone over the candles of its pair that followed it (`RunnerInv`). Then anything true of a trade alone is true of every trade, and a
trade alone is followed candle by candle: `Good` is `Sound` (what is left is 100 minus what was filled, and the stop is the first one
or the moved one), `Covered` (an open trade has not met its first stop, a closed one left no worse) and `Pessimist` (each
fill was on a candle that stayed off the stop in force). `Fair` is what remains of it at the end of the data. The result of a trade
is bounded from `Covered` by what each leg pays.

**Figures.** The properties of `ResearchFigures` follow from what the figures are computed from having the right type, and there being no more replays than windows
(`FiguresTyped`), so the work is in the operators. *Windows*: up to the 28th, adding months moves a date by whole months and keeps its day (`EarlyDayStays`,
`ShiftsAdd`), so the k-th cursor is the first date and k - 1 steps (`CursorSteps`); the out-of-sample halves are then consecutive pieces of
one line: no day is in two of them, every day from the first to the last in one (`HalvesApart`, `HalvesCover`), and the sizes of sets with nothing in
common add up (`SizesAddUp`). *Resampling*: a sum does not depend on the order of its members
(`ReorderedIs`); after any number of rounds the loop of `_drawdown_and_streak` holds the level, the highest level and the deepest fall so far
(`CurveFollows`), and the last of these is what `Fall` defines without a loop (`DrawdownIsFall`). *Percentiles*: an ascending order
exists (`SortExists`, by taking out a highest member) and ties do not matter, because how many values exceed a threshold is the same in every
order (`SortedExceeds`); the value at the nearest rank exceeds it exactly if more than the complementary share does (`RankExceeds`,
`PercentileTells`). *Random entries*: the samples at or below and at or above the strategy cover all (`RandomCovers`). *Gate*: an
improvement makes no figure worse, nor the one that is looked at where a key falls back on another (`BetterIsNoWorse`, `ReportedImproves`),
so the other criteria still fit (`OthersStillFit`); the ratio goes on fitting over a growing profit whatever its limit
(`ProfitKeepsRatio`), which leaves the loss (`RatioStillFits`).

**Validation.** `FileInv` says that a manifest never names newer candles than the payload beside it was computed from, and
the payload none newer than there are (`FilesInOrder`): the payload is replaced first. A manifest of the current candles
therefore stands beside a payload of the current candles, which is why the crash between the two files is harmless. That the
payload also has the right number of iterations needs the hypothesis `OneCount` (every run asks for the same number): without it
`research_stale_checkpoint` is a counterexample. `ReadinessIsSound` adds that a unit that is done has its result unless it failed.

**History.** `RangeInv`: nothing but candles of the range is collected and none before the cursor is missing. `NothingSkipped` is
the step a reader would doubt: after a full page the next cursor is its last candle's close, and any listed candle before it was in
the page. `DurableInv` adds that collected candles which had closed are final, that what is no longer to be saved is in both views
of the table, and that reported ranges lie in the past, so that no later fetch can store one of their candles unfinished. For exit code 0, `UsableInv` adds that a pair found
clean has no hole wider than `check_integrity` accepts among the rows of its range, and that the range of a later fetch cannot touch them (`Stock`):
`HasNoWideHole` states of all pairs of neighbours what the code computes for each candle and the next.

**Monitoring.** `HealthIsOnItsWay`: a health file that is not up to date has its publication in `work`, unless the engine
is inside a `reconcile()`, which ends with one. For the chart, nothing on its way to it (stream, pending candle) may belong
to another market.

**Induction.** The library's induction theorems take an operator, which no installed prover instantiates. `Backtest_proofs`
uses a form without one: a set of numbers that holds 0, and with a number its successor, holds all (`Induction`, from the theorems on
finite sets), and the same over the size of a finite set (`SizeInduction`). With it a recursive function of a `LET` is shown
to exist and to unfold (`AdvanceExists`, `AfterExists`, `FilterExists`), and a sum over a set not to depend on its order
(`SumInAnyOrder`).

Model-checked only:

- Liveness under fairness (`ShutdownCompletes`, `ReconnectsUnlessTaskEnded`, `ShutdownEnds`, `RunEnds`, `ScriptEnds`, `ReadersNeverStopTheFeed`,
  `DeadEngineIsNotLive`, `NewestIsDrawn`), which needs ENABLED and is beyond the prover.
- The runs that TLC refutes.

## 5. What is not modelled

- The decimal arithmetic of indicators, targets and statistics (`indicators/engine.py`, `risk.py`, confidence intervals), message
  texts and page rendering.
- Sequential helpers over finished trades and their files: `robustness.py`, `parity.py`, `report.py`, `signal_diagnostic.py`,
  `metrics.py`, cost-stress scenarios, the lifecycle funnel, series integrity as a report of its own.
- Symbol validation's error kinds, schema migration, repositories that nothing of the above depends on.
- `health_check`, the dashboard's SQLite endpoints, manual analysis (one pass over fetched candles), and the other scripts.
- Several symbols in the strategy: no key reads another's setup.
- In `SignalDelivery` a run may produce an id of its own again, more than `CsdStrategy` allows: the properties hold even so.
- Targets may be filled on the candle that enters a trade; `exits.py` does so, and no text says otherwise.

## 6. Plan

The modules of section 2 exist, and every safety and action property that a passing run checks is proved. What is left is `Engine`:
feed, strategy and delivery composed, where `EvaluatedOnceInOrder` discharges the strategy's environment.
