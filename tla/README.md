# ArbCore in TLA+

ArbCore is a triangular-arbitrage bot: it keeps order books from an exchange
feed, looks for profitable cycles of three trades, and sends each one as a
*plan* of three legs to an execution subsystem. This directory holds a TLA+
model of its concurrent core, the configurations that check it with TLC, and
proofs about it for TLAPS.

Five parts are modelled: **views**, from three books to the strategy
(`crates/marketdata/src/triview.rs`), **planning**, from a view to plans whose
quantities can be traded (`crates/strategy/src/tri_arbitrage.rs`, `planner.rs`),
**plans**, from an opportunity to the end of its plan
(`crates/strategy/src/engine.rs`, `crates/execution/src/mock.rs`), **order
books**, from the exchange to the book of one symbol (`crates/adapters`,
`crates/marketdata`, `crates/orderbook`), and the **registry** that gives every
symbol its worker and every update its way there (`crates/marketdata`).

## Inventory

```
 exchange --ws--> Binance adapter --mpsc--> forwarder --mpsc(2048)--> worker of a symbol --> OrderBook
    ^                 |               (adapter_wiring)               |  ^
    |                 |                                              v  | snapshots
    +--- REST --------+--------------- REST snapshot ------- snapshot provider
                      |
                      | three REST snapshots per tick (the demo's SnapshotGetter)
                      v
               TriView builder --mpsc(64)--> forwarder --mpsc--+ views
                                              (demo)           v
   mock execution  <--plan_q--   strategy engine (detector: detection, checks, planner;
   (workers,       <--cancel_q--                  monitor; inflight table)
    canceller)     --report_q-->                  --insert_fill--> storage
```

The order books of the workers have no reader: the demo's builder asks the
exchange, through the adapter, and not the books.

| Component | Source | State | Operations | What is hard | What makes it correct |
|---|---|---|---|---|---|
| Strategy engine | `strategy/src/engine.rs` | `inflight` (HashMap under a mutex), metrics, three channels | `detector_loop`, `handle_exec_report`, `scan_timeouts`, `execution_monitor_loop` | two tasks, the lock is released between check and use, an await in the middle of the handling of a report, timeouts | the concurrency limit holds; each plan is closed and counted once; a plan is not forgotten while it may trade; disk and memory agree; no plan stays in flight for ever |
| Mock execution | `execution/src/mock.rs` | `cancel_map`, per plan a worker and a one-shot channel | plan loop, worker, canceller | cancel against registration, cancel against timer, a one-shot channel read in a loop | fills are reported once; the map does not leak; a cancelled plan stops; every worker ends |
| Demo wiring | `demo/src/mock_execution_demo.rs` | forwarder tasks | links unbounded and bounded channels | circular shutdown | order is kept, nothing is lost |
| Storage | `stroage/src/*.rs` | table `trade_fills` | `insert_fill`, queries | an insert that fails | what is on disk was traded |
| Order book | `orderbook/src/orderbook.rs` | bids, asks, `last_seq`, `resync_required` | `apply_snapshot`, `apply_delta_with_gap_tolerance`, reads | sequence numbers at the boundary | the book is the exchange's book at `last_seq`, as deep as the snapshot reached |
| Per-symbol worker | `marketdata/src/manager.rs` | `snapshot_applied`, `buffered` | `per_symbol_worker`, `fetch_snapshot_for` | snapshots that arrive late, failed fetches, gaps, a full buffer | the same, and a stale book is flagged |
| Symbol registry | `marketdata/src/manager.rs` | `symbol_senders`, `snapshot_providers` | `ensure_symbol_with_snapshot_provider`, `get_sender` | check-then-act under a lock that is released; a lock held across HTTP | one worker, hence one writer, per symbol; every wired name finds its worker |
| Adapter wiring | `marketdata/src/adapter_wiring.rs` | none | `wire_adapter_to_manager`, `map_adapter_update_to_message` | batches, head-of-line blocking, names in two spellings | updates of a symbol stay in order |
| Binance adapter | `adapters/src/binance_spot.rs` | connection, backoff | `connect_ws`, `get_snapshot` | lost events, reconnects | a gap in the stream is visible downstream |
| TriView builder | `marketdata/src/triview.rs` | the snapshots of the tick; a channel of 64, a one-shot | `subscribe_triangle`, `build_triview_from_snapshots` | three concurrent requests, a slow subscriber, a send that is tried twice, a select with a shutdown | a view is of one tick and not older than the view before; views come in order and once; all tasks end after a shutdown |
| Detection | `strategy/src/tri_arbitrage.rs` | none (pure) | `detect_triangular_opportunities` | sides, directions and fees of three trades in a row | the legs earn the estimated profit; no profitable way round is missed |
| Planner | `strategy/src/planner.rs`, `engine.rs` | none (pure) | `pre_trade_checks`, `build_trade_plan`, `round_qty_to_step` | rounding at `min_size`, legs rounded one by one | lot rules are met; a leg cannot spend much more than the one before brings |
| Configuration | `strategy/src/config.rs` | none | parsing, `validate` (no caller) | limits nothing reads | - |
| WebSocket helper | `marketdata/src/ws_client.rs` | none | `run_ws_with_reconnect` (no caller) | - | - |

The steps at which this code can go wrong in a way a unit test would hardly
reach are listed, each with its line and the properties that watch it, under
`hazards` in `PROJECT.json`.

## Modules

| Module | What it is |
|---|---|
| `PlanLifecycle` | abstract specification: a plan is admitted below the limit, and closed once, in one of three ways |
| `StrategyEngine` | the two tasks of the engine, the in-flight table, the metrics, the channels; the properties of the engine |
| `AnyExecutor` (+ `MC`) | the engine with the most general execution subsystem |
| `MockExecution` | the mock execution subsystem |
| `PaperTrading` (+ `MC`) | the engine wired to the mock, as in the demo; the properties of both together |
| `OrderBook` | book, sequence check, resync flag |
| `SymbolWorker` | the worker of a symbol, on top of `OrderBook` |
| `MarketFeed` (+ `MC`) | exchange, websocket, adapter mapping and worker; the properties of the book |
| `SymbolRegistry` (+ `MC`) | the two maps and locks of the manager, the wiring task and forwarder of each adapter, the life of the workers |
| `ViewStream` | abstract specification: views accepted and received in order, once, and then the end |
| `TriViewFeed` (+ `MC`) | one triangle subscription, the demo's forwarder, the receiving end of the detector |
| `Fractions` | exact fractions, for prices and quantities |
| `Detection` | the two ways round the triangle |
| `Planner` | the checks in front of a plan, lot rules, the quantities of its legs |
| `Planning` (+ `MC`) | from a view to verdicts on its opportunities; the properties of detection and planner |
| `StrategyEngineProofs` | the inductive invariant, and that each engine step preserves it and refines `PlanLifecycle` |
| `AnyExecutorProofs` | the theorems about `AnyExecutor!Spec` |
| `StorageProofs` | that disk and memory agree in `AnyExecutor!Spec` |
| `PaperTradingProofs` | the theorems about `PaperTrading!Spec` |
| `MarketFeedProofs` | the theorems about `MarketFeed!Spec` |
| `SymbolRegistryProofs` | the theorems about `SymbolRegistry!Spec` |
| `TriViewFeedProofs` | the theorems about `TriViewFeed!Spec` |
| `PlanningProofs` | the theorems about `Planning!Spec`, with the facts on the order of fractions and on floors they rest on |

A definition named `X_Y` next to `X` is a mistake one could have made in `X`.
Nothing uses it; it is put in the place of `X` to see that a property notices
(`PROJECT.json`, `mutants`).

### Plans

A step of the model is what a task does between two points where another task
can see or disturb it: the release of the mutex, an await, a channel operation.

| Code | Model |
|---|---|
| `detector_loop`, a view received (engine.rs:166-200) | `RecvView`, `DetectorExit` |
| limit read under the lock, checks, plan built (203-235) | `RejectBusy`, `RejectOp`, `BuildPlan` |
| `infl.insert` under the lock taken again (237-247) | `Register` |
| `exec_tx.send` (249-260) | `Submit` then `CountSubmitted`, or `SubmitFailed` |
| `handle_exec_report`: lookup, awaited insert, lock taken again, counter (326-414) | `RecvReport`, `Persist`, `ApplyUnknown` / `ApplyFill` / `ApplyClose`, `CountExecuted` |
| `scan_timeouts` (303-323) | `ScanTimeouts`, then `CancelOverdue` for each plan collected |
| the monitor's loop ends (431-434) | `MonitorExit` |
| `submitted_at` + `timeout_ms` pass | `TimeOut` |

`dpc` and `mpc` say where each task stands. `issued` is the number of plans
built: the k-th plan has id k, where the code draws a UUID. `filled`,
`inflight` and `timed_out` together are the HashMap. `found`, `aborted` and
`lost` are history variables. What `pre_trade_checks` and `build_trade_plan`
decide is a free choice, since their arithmetic reads none of the shared state.
Quantities count lots. A plan that becomes overdue is a step of its own, which
can happen at any time; only the order is kept (all plans have the same
timeout). This includes the 20 and 200 ms of the mock against any timeout.

The detector's limit check is stale by the time it inserts. It holds all the
same because the detector is the only task that inserts; the model shows this
rather than assumes it.

`MockExecution` has the plan loop (`Accept`), the canceller, and a worker per
plan: `RegisterCancel`, a check before each leg (`CheckCancelled`,
`CheckClear`), `FillTaker`, `ExpirePassive`, `CancelPassive`, `Cleanup`. The
one-shot channel is `empty`, `sent` or `taken`; polling it again after it was
taken panics (tokio's `Receiver`), and this is the state `panicked`.
`cfg.aggression` makes either all legs taker or all passive.

`AnyExecutor` stands for what else could be plugged in: it reports on accepted
plans in any order, repeatedly or never, on legs that do not exist, ignores
cancels, and may drop either channel. What it may not do is contradict itself
in one report (`WellFormed`).

### Order books

`MarketFeed` has an exchange whose book changes one level at a time; `history`
holds every version. An event (`Publish`) covers all updates since the last
one, carries final sizes and the id of the last update, and is lost while the
websocket is down. `DeltaMessage` is what the adapter and
`map_adapter_update_to_message` make of it: `prev_sequence` is
`sequence - 1` whatever the event covers. `ServeSnapshot` answers the REST
request of the worker with the best levels of each side (`Served`: 100 in the
code, `Depth` here); updates and events may overtake the answer. `rx` is the
worker's channel with the adapter's channel and the forwarder in front of it,
all FIFO for one symbol.

`SymbolWorker` waits for a snapshot in three places (`boot`, `overflow`,
`resync`), which differ in what a failure does (`FetchFails`), and otherwise
receives: `RecvSnapshot`, `BufferDelta`, `OverflowBuffer`, `RecvDelta`,
`DetectGap`. Buffered deltas are never replayed by the code, so only their
number is kept. A level is a side and the rank of a price, 1 being the best, so
that bids and asks are treated alike.

What a book is worth depends on its past, which no variable of the code keeps.
`MarketFeed` has it in history variables: `taken` (the last delta the book was
asked to apply), `base` (the last snapshot applied), `unbroken` (no update is
missing between that snapshot and the deltas applied since) and the id of an
event's first update, which Binance sends and the adapter drops. They are set by
the four actions in which the worker's steps take part (`GetSnapshot`, `GetDelta`,
`LeaveDelta`, `GetNothing`).

`BookIsAVersion` is what `manager.rs:129` promises: the book is at all times the
exchange's book at `last_seq`, but for levels the last snapshot did not reach and
no event changed since (`OutOfSight`). It does not hold (finding 4).
`BookCatchesUp` is what does, with any tolerance: deltas older than a snapshot may
be applied on top of it, and the book is then wrong, but once the deltas have come
past the snapshot it is right again, because each carries the final sizes of all
levels it covers. Only an update that is missing between two deltas, and small
enough to be tolerated, spoils the book until the next snapshot.

### The registry

`SymbolRegistry` is about how workers come to be and how updates reach them;
what a worker does with one is `SymbolWorker`'s matter, so here it only may or
may not have to fetch a snapshot afterwards.

| Code | Model |
|---|---|
| `ensure_symbol_with_snapshot_provider`, sender found, lock kept while the second is awaited (manager.rs:78-86) | `FindSender`, `Override` |
| the same, no sender: lock released, taken again to insert, provider stored, worker spawned (87-117) | `MissSender`, `Insert`, `Store`, `Spawn` |
| `wire_adapter_to_manager`: all symbols, then the connection (adapter_wiring.rs:21-50) | one `Wiring` task for each adapter, `Connect` |
| the forwarder: `get_sender`, then a send that waits for room (54-81) | `Route`, `Deliver` |
| `fetch_snapshot_for`, the lock on the providers kept across the request (manager.rs:228-243) | `StartFetch`, `FetchReturns` |
| the worker's loop, which ends when the last sender is dropped (132-226) | `Handle`, `End` |

A lock is a variable only in so far as it is held across an await: by a wiring
task between `FindSender` and `Override`, by a worker during a fetch. A worker
is named by the call that made it, so two workers of one symbol can be told
apart. `Referenced` lists the places where a sender of a worker can be; the
caller drops the one it gets. Every call supplies a provider, as the only caller
in the code does.

A symbol is the string that names it, as in the two maps: `btcusdt` and `BTCUSDT`
are two symbols. `ReportedAs` is the name under which the adapter sends the
updates of a symbol, `to_uppercase` (binance_spot.rs:109). `UpdatesFindWorker` is
about the names an adapter is wired for; updates under another name have a sender
only if somebody else registered it (finding 6).

### Views

`TriViewFeed` has three books that change at any time; a book is the number of
its changes, since the builder copies levels without reading them.

| Code | Model |
|---|---|
| `ticker.tick()` wins the select, three requests go out (triview.rs:112-120) | `Tick` |
| a joined request returns | `FetchOk`, `FetchErr` |
| `try_send`, or a send for 100 ms, or the tick is dropped (139-151) | `TrySend`; `TrySendFails`, then `SendWaited` or `DropTick` |
| one fetch failed (155-158) | `NoView` |
| the one-shot resolves (163-166) | `Shutdown` |
| the subscriber sends or drops `shutdown` | `StopSubscription` |
| the demo's forwarder (mock_execution_demo.rs:162-169) | `Forward`, `ForwardFails`, `ForwarderExit` |
| the detector receives, panics on a price of zero, ends (engine.rs:174) | `Detect`, `DetectorPanics`, `DetectorExit` |

`nr` and `from` in a view are history: its number and the books when its tick
began. What is queued is dropped with the receiver that held it.

`ViewStream` is what the subscriber relies on. `TriViewFeed` implements it with
the two queues as `pending`; `Forward` is then no step at all.

### Planning

`Planning` is the body of the detector's loop for one view, without the table:
`Detect`, then a verdict on each opportunity, `FailChecks`, `FailPlan` or `Plan`.
`StrategyEngine` has the table and leaves the verdicts open; here they are
computed. Numbers are exact fractions; `rust_decimal` has 28 digits, and what it
rounds away beyond them is left out. Prices are positive and configurations are
such as `validate` accepts, although nothing in the code calls it. As the demo
wires it, ab is BTC in USDT, bc ETH in USDT and ac ETH in BTC. (The example at
`triview.rs:18` has another order, for which the formulas would be wrong.)

The properties do not repeat the formulas. `OpportunitiesPayOff` follows the
legs through a wallet (`Spends`, `Brings`, `Chain`); `NoneMissed` searches the
ways round the triangle among all orders and sides of three trades (`Ways`).

## Runs

| Run | Instance | Question and answer |
|---|---|---|
| `any_executor` | 1 concurrent plan, 2 plans, 2 legs, 1 view, 2 reports of which 1 may wait, failing storage, channels that close | Whatever the executor reports: types, `ConcurrencyCap`, `StorageMatchesMemory`, `Accounting`, `OpportunitiesAccounted` and `ImplementsLifecycle` hold and, under fairness, `PlansClose` |
| `paper_trading` | 2 concurrent plans of 2 legs, 1 view | With the mock: `FillsConserved` (what was traded is in the table or in exactly one report on its way), `DiskIsReal`, `CancelMapExact`, `ForgottenPlansAreCancelled`, and, under fairness, `WorkersEnd` and `KeepsPromise` (the engine implements `PlanLifecycle` with its liveness) |
| `market_feed` | 2 prices of one side, 1 of them in a snapshot, sizes 0 and 1, 4 updates, buffer of 1, a tolerance of 1 | `BookCatchesUp` and `FreshUnlessFlagged` hold |
| `symbol_registry` | two adapters wired at once, both for BTCUSDT, one for ETHUSDT and the other for ethusdt; channels of 1, 2 updates each | `UpdatesFindWorker` and `ProviderBeforeBoot` hold and, under fairness, `UpdatesDrain` and `ReplacedWorkersEnd` |
| `triview` | 3 symbols that change once, a channel of 1, 2 views | `BooksOfOneRound` and `ImplementsViewStream` hold and, under fairness, `AcceptedViewsArrive` and `ShutdownDrains` |
| `planning` | 2 or 3 prices a book and empty sides, 12 fee maps (fees of 0, 1/4 and 3), 4 sets of lot rules, 3 pairs of limits (one allows a loss) | `OpportunitiesPayOff`, `NoneMissed`, `OneWayAtMost`, `LotsRespected`, `ShortByAStepAtMost`, `PctErrsOneWay` hold |
| `cancelled_plan_trades` | 1 plan of 3 legs | `CancelStopsPlan` is **violated** (finding 1) |
| `cancelled_legs_unreported` | the same | `RemainingLegsReported` is **violated** (finding 2) |
| `late_fills_not_persisted` | the same | `TradesPersisted` is **violated** (finding 3) |
| `tolerated_gap` | as `market_feed`, with snapshots of the whole book and `MaxGap = 1000`, the default | `BookIsAVersion` is **violated** (finding 4) |
| `two_workers` | two adapters, both for BTCUSDT, one for ETHUSDT; 1 update each | `OneWorkerPerSymbol` is **violated** (finding 5) |
| `lower_case_symbols` | one adapter, wired for btcusdt, ethbtc and ethusdt | `UpdatesRouted` is **violated** (finding 6) |

**Bounds.** Two plans are enough for the table to be full, for a slot to be
freed and reused while reports on its previous plan are under way, and for the
monitor to hold an overdue plan while the detector inserts another; a view of up
to two opportunities lets one be rejected beside a plan, and a second plan be built
when the first was closed. Two legs are enough for "all legs filled" to differ from "a leg filled". Two reports let a
report be repeated or contradict the first; that only one may wait in the channel
(`MaxWaiting`) loses little, since a second one can be sent as soon as the first
was taken: what is left out is two of them waiting when the channel closes.
`MaxConcurrent = 1` makes the limit bite on the second plan; `paper_trading` lets two workers run. Four updates
are enough for a delta to be queued behind an older one while a snapshot that
contains both is fetched, and for a batch after a loss. With a tolerance of 1 some
gaps are passed over and others refused, which a tolerance of 1000 would need
thousands of updates for; with a depth of 1 the second price of the side is hidden
behind the first until the first is gone. In `symbol_registry` the shared symbol
lets one wiring overtake the other between any two of its steps, the second
symbol lets a forwarder be held up by a worker that is not the one its next
update is for, the lower-case name of the other adapter has a sender for its
updates or not, depending on how far the first adapter is, and two updates per adapter
overfill a channel of 1. The adapters are not alike there, so no symmetry is used. In `triview` two views and a channel
of 1 suffice for one view to wait for room behind the other, to be sent late or
dropped, and to be lost in any queue; beyond the second view fetches only fail,
so that the builder's loop goes on for ever, as in the code, and a shutdown has
to win against it. One change of each book tells "before the tick", "during" and
"after" apart. In `planning` the prices, fees and steps were chosen so that each
way round is sometimes profitable and sometimes not, both are when a loss is
allowed, quantities are raised to `min_size`, rounded down, rounded to nothing
and too small, and a rounded leg asks for more than the one before it brings. A
fee of 3 on two symbols is what `NoFeeAboveOne` in `OneWayAtMost` is for: each
takes more than the whole amount, the two negative rests multiply into a gain,
and both ways round are found. No exchange charges it, but `validate` accepts it.

**Deadlock.** Every run checks for it. `AnyExecutor` says where the system may
stop (`Finished`), and so does `SymbolRegistry` (`Idle`).

**Fairness.** tokio polls every task that is ready, so each task gets weak
fairness on its steps (`EngineFairness`, `Fairness`). The clock runs, so an
in-flight plan eventually is overdue (`WF` on `TimeOut`). `ScanTimeouts` gets
strong fairness: the monitor may be away from its `select!` handling reports, so
the tick is not continuously enabled, but `tokio::select!` without `biased`
polls its branches in random order, so the tick is not starved for ever. The
executor of `AnyExecutor` gets no fairness: `PlansClose` holds although it may
stay silent. `PlansClose` excludes a monitor that has exited: after the reports
channel closes (engine.rs:431) nothing closes plans any more. No fairness is
assumed of the market feed, where only safety is claimed. In `SymbolRegistry`
the wiring, the forwarders and the workers are polled, and a request for a
snapshot is answered in the end, by a book, an error or a broken connection; this
last is assumed of the exchange, since the HTTP client sets no timeout. Nothing
obliges an adapter to send. `UpdatesDrain` and `ReplacedWorkersEnd` say that the
state they describe is reached again and again, which is the final state once
the bounded number of updates is used up. In `TriViewFeed` the three tasks are
polled and requests are answered in the end, as above. `Shutdown` gets strong
fairness because the select of the builder, which has no `biased`, polls its two
branches in random order: a shutdown that is ready each time the builder comes
back to the select is not passed over for ever. Weak fairness would not do, since
the select is left and entered again. Nothing obliges the detector to panic or
the subscriber to stop.

## Findings

1. `mock.rs:24` says a cancel stops the plan. The worker reports one leg
   `Cancelled` and continues; the one-shot channel is used up, so the next check
   sees no cancel and the next taker leg is filled (`mock.rs:73-84`).
2. For a passive plan the next leg polls the used-up receiver, which panics: its
   remaining legs are never reported (`mock.rs:115`).
3. `engine.rs:352` says fills are persisted if storage is configured. The data
   to persist is looked up among plans in flight, so a fill that comes after its
   plan timed out, or was closed by an earlier leg, is dropped.
4. `manager.rs:129` says the worker ensures sequence correctness. With the
   tolerance of 1000 that `MarketDataManager::new` always uses, and a gap that is
   an absolute difference (`orderbook.rs:137`), deltas older than the book are
   applied on top of it, `last_seq` goes back, and the book is none the exchange
   ever had. `BookCatchesUp` says what remains, and `RightOnceCaughtUp` proves it
   for every tolerance.
5. `manager.rs:71` says the existing sender is returned if a worker exists, and
   `manager.rs:129` calls the worker the single writer of its book. Lookup and
   insertion are under separate acquisitions of the lock (`manager.rs:78-95`), so
   two wirings that share a symbol can both start a worker for it. The one whose
   sender was replaced ends once no sender of it is left (`ReplacedWorkersEnd`);
   until then both maintain a book and fetch snapshots.
6. `adapter_wiring.rs:16` gives `["btcusdt", "ethbtc", "ethusdt"]` as the symbols
   to wire, and line 20 says that updates are forwarded into the manager. Senders
   are kept under the caller's strings (`manager.rs:94`), updates carry upper-case
   names (`binance_spot.rs:109`): none of them finds its sender, and all are
   dropped with a warning (`adapter_wiring.rs:71-72`). The books show their first
   snapshots for ever. The demo spells its symbols in upper case
   (`mock_execution_demo.rs:53`) and is not affected.

Other places where the code and its comments disagree, met on the way and not
checked: the comment at `manager.rs:44` says 100; `snapshot_wait_ms` is never
read; `plans_executed` also counts cancelled and rejected plans, where
`engine.rs:419` says "all legs filled"; `plans_created` is never incremented; a
cancel that reaches the mock before its worker has registered is dropped
(`mock.rs:45-47`), so that the plan trades in full after it timed out; a report
that one leg was cancelled closes the whole plan without a cancel request for the
others (`engine.rs:389-391`), which is right only for an executor that cancels
plans as a whole (with the mock, `ForgottenPlansAreCancelled` holds, since it
reports `Cancelled` only after a request).

In the views: `triview.rs:1` calls them consistent and `src/README.md:90`
synchronized, but the three books are fetched by separate requests and can be of
different moments of the tick (`BooksOfOneRound` says what does hold);
`triview.rs:70` calls the shutdown sender optional, but dropping it stops the
subscription, and so does any use of the handle that moves only `rx` out of it
and lets the rest go out of scope; when the receiver is dropped the builder goes
on polling: each send then fails at once, and the tick is dropped.

In planning: `config.rs:60` calls `min_profit_pct` a percentage (0.001 is 0.1 %),
but `engine.rs:274` divides the profit by `qty * implied_price` of the first leg,
which is the start amount over the price of the first leg, about: with Bitcoin
at 50000 the threshold is 50000 times too easy. `PctErrsOneWay` shows that this
errs to one side as long as that price is above what a unit becomes on its way
round. `planner.rs:69` uses the same amount. `max_notional`, `depth_fill_factor`
and `triangle` are read nowhere: every cycle starts with 10000 (tri_arbitrage.rs:51,
116) whatever is in the books, whose sizes are not looked at. Legs are rounded one
by one, so a leg can ask for up to a step more than the one before brings
(`ShortByAStepAtMost`), and for any amount more where a quantity is raised to
`min_size`.

## Proofs

Proved for every value of the constants, with any executor
(`AnyExecutorProofs`):

| Theorem | Statement |
|---|---|
| `Invariance` | `Spec => []IInv` |
| `TypeCorrect` | `Spec => []TypeOK` |
| `CapHolds` | `Spec => []ConcurrencyCap` |
| `AccountsBalance` | `Spec => []Accounting` |
| `Refinement` | `Spec => ImplementsLifecycle` |
| `OpportunitiesBalance` | `Spec => []OpportunitiesAccounted` |
| `StorageAgrees` (`StorageProofs`) | `Spec => []StorageMatchesMemory` |

with the mock executor of the repository (`PaperTradingProofs`):

| Theorem | Statement |
|---|---|
| `Invariance` | `Spec => []PInv` |
| `TypeCorrect` | `Spec => []TypeOK` |
| `CancelMapIsExact` | `Spec => []CancelMapExact` |
| `DiskTellsTheTruth` | `Spec => []DiskIsReal` |
| `NoFillLost` | `Spec => []FillsConserved` |
| `NoneForgotten` | `LegQty # 0 \|- Spec => []ForgottenPlansAreCancelled` |
| `Refinement` | `Spec => ImplementsLifecycle` |

of the market feed (`MarketFeedProofs`) and the registration of symbols
(`SymbolRegistryProofs`):

| Theorem | Statement |
|---|---|
| `TypeCorrect` (both) | `Spec => []TypeOK` |
| `FreshOrFlagged` | `Spec => []FreshUnlessFlagged`, for every tolerance |
| `RightOnceCaughtUp` | `Spec => []BookCatchesUp`, for every tolerance and depth |
| `UpdatesAlwaysFindWorker` | `Spec => []UpdatesFindWorker` |
| `ProviderAlwaysBeforeBoot` | `Spec => []ProviderBeforeBoot` |

of a subscription (`TriViewFeedProofs`):

| Theorem | Statement |
|---|---|
| `TypeCorrect` | `Spec => []TypeOK` |
| `RoundsInOrder` | `Spec => []BooksOfOneRound` |
| `StreamRefinement` | `Spec => ImplementsViewStream` |

and of planning (`PlanningProofs`), for any views, prices, fees and lot rules:

| Theorem | Statement |
|---|---|
| `LoopInvariant` | `Spec => []LoopInv` |
| `OpportunitiesGain` | `Spec => []OpportunitiesPayOff` |
| `EveryWayFound` | `Spec => []NoneMissed` |
| `OneWayFound` | `Spec => []OneWayAtMost` |
| `PctNeverTooStrict` | `Spec => []PctErrsOneWay` |
| `PlansRespectLots` | `Spec => []LotsRespected` |
| `PlansFallShortByAStep` | `Spec => []ShortByAStepAtMost` |

The assumptions are the ones declared with the constants: limits and bounds are
naturals, switches are Boolean.

`IInv` is `TypeOK /\ Control /\ ConcurrencyCap /\ Accounting`. The limit is not
inductive by itself: a detector at `register` would insert into a full table.
`Control` says that it was below the limit when the plan was built *and still
is*, which is preserved because every other step that changes the table removes
plans. It also says that the plan being registered is new, without which neither
the size of the table nor `Accounting` could be followed through the insertion,
and that a report being persisted names a plan and a leg, without which the
update of `db` could leave its type. `Accounting` needs the size of the table to
be a number, hence that it is finite, which is why `TypeOK` bounds `inflight` by
`1..issued`; the library's facts on cardinalities do the rest (`TableFinite`,
`DropSize`, `AddSize`).

`StrategyEngineProofs` is about `EngineInit` and `EngineNext` only, with one
lemma per task, and `ExecutorStep` / `ExecutorRefines` say that a step which
leaves the engine's own state alone and keeps the channels typed preserves `IInv` and
stutters in `PlanLifecycle`. So the theorems about another composition of the
engine follow from the same lemmas.

`OpportunitiesAccounted` is inductive with one addition (`Ledger`): between views
no opportunity is in hand.

`StorageMatchesMemory` (`StorageProofs`) needs more, because the lookup of a
report's plan and the application of the report are under separate locks, with
the insert between them. That the plan has left the table in between does no
harm. A plan that *entered* it in between would, since its report would be
counted without having been persisted. `Provenance` excludes it: reports are
about plans that were sent, plans are sent after they were registered, and none
is registered twice. `Agree` is the property at every moment, with the quantity in
the monitor's hand (`InHand`) between the insert and the application; `Untouched`
says that nothing was persisted for plans not yet registered, so that a new plan
starts in agreement.

`PaperTradingProofs` adds `MInv` to `IInv`. `Fresh` says that each plan is sent
once and has no worker before it is taken, so that a worker is never started
twice; `Signals` that a cancel signal was heard and belongs to a worker that has
registered; with both, `CancelMapExact` survives each of the three tasks that
touch the map. A report says the truth (`Told`): it is about a leg its worker has
left behind, with the quantity that leg traded. `Talk` says this of the reports in
the channel and of the one in the monitor's hand, that no leg is reported twice,
and that none of them is on disk already; so what `Persist` adds to `Disk` is
added to 0. `ForgottenPlansAreCancelled` follows step by step from these: the plan
leaves the table with a cancel request (`EngineUntracks`), or after a report that
it heard one, or when all its legs are filled, in which case its worker has left
them all behind (`Disk`). The last case needs `LegQty # 0`: with empty legs the
first fill would close the plan.

`SymbolRegistryProofs` rests on `RegInv`. `Calls` says that each symbol an adapter
is wired for waits to be registered, is being registered, or has its sender, and
which of the two maps has it at each point of the call; `Lives` that a worker has
not started before its call spawns it, that its symbol then has a provider, and
that the worker whose sender is in the map has not ended. A call that replaces the
sender another call has just inserted keeps all of this, since it puts its own
worker there, which has not started.

`MarketFeedProofs` rests on `FInv`, of which `FreshUnlessFlagged` is a part.
`Queue` says that each message in the channel describes a version of the
exchange's book (`WellMade`: a snapshot has what is served of it, a delta has its
sizes wherever they differ from any version since the event before) and that they
are in order and not older than the last one taken; `Answer` that a snapshot under
way has every delta taken so far, as the request was made after it; `Progress`
relates where the worker is to whether its book was initialised.

`BookCatchesUp` is not inductive: while old deltas are applied on top of a newer
snapshot the book is no version at all, and the property says nothing of it. `Made`
says what it then is. Each level is either the exchange's at `last_seq`, or has not
been touched since the snapshot (`Untouched`), because the exchange did not change
it from the version at which the first of those deltas began, which is not after
the snapshot, up to `last_seq`. A delta without a hole before it keeps this: it
sets what it covers, and a level it does not cover did not change in the versions
it adds (`DeltaPut`). Once `last_seq` has come past the snapshot, `base` lies among
the versions over which an untouched level stayed the same, so the level is right,
or is one that the snapshot hid (`MadeIsAVersion`). The tolerance appears nowhere
in the argument, only the hole does (`unbroken`).

`TriViewFeedProofs` rests on `RInv`. `Order` says that the views received and
under way, taken as one line, are each of one round, in order, and not ahead of
the exchange; `Round` that what the builder holds comes after all of them, which
holds when a tick begins and cannot be spoiled, since the builder does nothing
else until the view is out of its hands; `Sent` is the number of the last view
that can be in the line, one less while a view waits to be sent, and this is why
a view offered twice would break the proof. `Ends` says that a task that ended left
nothing behind and ended after the one before it. Views are lost from the end or
the middle of the line only, which keeps it in order (`DropMiddle`).

`NoFillLost` adds `FillInv` to `PInv`. Its heart is `Counted`: for a plan in
flight, a leg about which a report is queued or in hand (`Awaited`) has nothing in
the table, and any other leg has there what it traded. A report moves from one
side to the other when it is applied, and does so whole, because `Talk` says that
no other report names its leg. A worker puts a report on its way and the trade
into `outcome` in one step, and its leg had nothing in the table before, since it
is not behind the worker (`NotReached`). The insertion of a plan with an empty
row of fills is right because the plan was not sent yet: its worker does not
exist (`Fresh`), is at its first leg (`Idle`) and has traded nothing (`Ahead`).
`Hand` says that no report is in hand when the next one is taken, or it would be
overwritten. Plans that leave the table need no argument; what becomes of their
late fills is finding 3.

`PlanningProofs` rests on `LoopInv`, which is all that must be known of the past:
the opportunities are what the detector finds in the view, and each verdict was
computed from its own opportunity. The properties are then statements about
products and quotients of prices, quantities and fees, proved over exact fractions
from a small order algebra (`AtMostTransitive`, `TimesMonotone`, `OverMonotone`,
`MinusOrder`, `TimesOver`, `TimesDistributes`), so that the provers never see a
product of six numbers at once:

- `OpportunitiesGain` follows the three legs of each way through the wallet;
  `EveryWayFound` first shows that only two of the many orders and sides of three
  trades chain from usdt to usdt (`TwoWays`).
- `OneWayFound`: fees that are shares of the whole only take (`ForwardBound`,
  `BackwardBound`), and without them, if the first way round gains, the second one
  takes back at the worse side of each book what the first one traded
  (`NotBothWays`). It is here that a fee above one would break the argument, and
  TLC shows that it then breaks the property.
- `PctNeverTooStrict`: the amount the profit is divided by is at most `Start` when
  the first price is not below the implied one, so the quotient is at least the
  percentage of `Start`.
- `PlansRespectLots`: `DivUnique` and `DivBounds` characterise the floor of a
  fraction, `RoundedDown` and `LotRespected` carry this to `round_qty_to_step` and
  `LotQty`.
- `PlansFallShortByAStep`: a leg is rounded down from what the leg before it brings
  unrounded, which is at most a step of that leg more than it brings rounded.

Only model-checked: everything under fairness (`PlansClose`, `WorkersEnd`,
`KeepsPromise`, `UpdatesDrain`, `ReplacedWorkersEnd`, `AcceptedViewsArrive`,
`ShutdownDrains`), which is out of the prover's reach. Every invariant and action
property that a passing run checks is stated by a theorem, and so is the safety
half of `KeepsPromise` (`Refinement` in `PaperTradingProofs`).

## Not modelled

`list_inflight` and `remove_inflight` have no caller and cannot have one once
`start` has consumed the engine. Parsing, logging, HTTP, SQL and configuration
files have no behaviour the properties could tell apart. `apply_delta` (the
strict variant) and `run_ws_with_reconnect` are not called. The reads of an order
book (`best_bid`, `top_n`, `estimate_fill_price`) change nothing and have no
caller. The demo's forwarders between engine and mock are
folded into the channels they link; its printing and the end of `main`, which
cuts off whatever is still running, are left out. Of the adapter's reconnect loop
only its effect is modelled, the loss of events: its backoff is a length of time,
and its going on after the receiver is gone cannot be seen by anyone.

## Plan

Done: all modules above. What is left:

1. The depth of the books in `Detection`, should the code come to use it.
