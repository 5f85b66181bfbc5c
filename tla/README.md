# Verification of the futures order path

TLA+ models, TLC configurations and TLAPS proofs for the automated futures
system in this repository. They cover the part where a mistake costs money at
once: sending a live bracket order exactly when the system may and knowing
afterwards whether a position exists (`OrderSubmission`), holding that position
with a stop, closing it and booking it once (`OpenTrade`), and what stands
around the two: from an alert to the rows of the day's journal (`DayBook`), the
broker session every call needs (`BrokerSession`), the daily gate in front of
live orders (`LivePreflight`), the paper broker's fills (`PaperBroker`), and the
evidence the paper lanes leave behind (`EvidenceLane`).

## 1. The system and its parts

A TradingView alert reaches the FastAPI application (`webhook/app.py`), which
runs one alert at a time, under a lock, through `process_alert`
(`webhook/runner.py`): market state, strategies, risk gates, a candidate order,
and `broker.execute_bracket`. With `BROKER=tradovate` that is
`execution/tradovate_broker.py`. Two things run beside it in the same process:
the reconciler (`webhook/reconciler.py`, a loop in a worker thread that does
*not* take the alert lock) and the session supervisor.

| part | state it keeps | operations | why it is hard |
|---|---|---|---|
| submission store (`execution/order_submission_store.py`) | one JSON record per client order id, on disk | reserve, transition, mark, reconcile with evidence, entry block | written by two threads, survives restarts, a write can fail after it took effect |
| order entry (`TradovateBroker.execute_bracket`) | none that survives; the broker holds the orders | guard, POST, classify the answer, confirm the fill, cancel, verify the children, liquidate | lost and late answers, entries that fill while they are cancelled |
| recovery pass (`_recover_durable_submissions`, `submission_evidence`) | none | list unresolved ids, read orders, fills, executions and position, decide, write | its reads are not atomic and race the handler |
| startup gate (`webhook/startup_gate.py`) | a process-wide latch | note the startup result | must not miss a store it could not read |
| journal (`journal/journal_logger.py`) | JSONL rows per day | claim a bar, TRADE, OUTCOME, rebuild the day | two writers, lost rows, prior-day trades |
| protective stop (`replace_stop`, `flatten_position`, `execution/trailing.py`, `day_only_exit.py`) | local copy of the stop | move, confirm, liquidate | the modify may happen unconfirmed |
| broker session (`_SharedAuth`, `execution/tradovate_supervisor.py`) | token, failure count, cooldown, readiness | login, renew, heartbeat | shared by every broker object and thread |
| alert intake (`webhook/app.py`, `dedupe.py`) | recent alert keys, the queue behind the alert lock | accept, drop, answer before the work | redelivery, restarts, midnight |
| the day (the state `process_alert` rebuilds, `_compute_daily_state`, `claim_bar`) | nothing that survives; the day files do | rebuild, claim, resolve, limit, enter | files split by day under positions that live across midnight; lost and cut rows |
| paper broker (`execution/paper_broker.py`) | one position or pending entry | enter, resolve a bar, rebuild from the TRADE row | order of tests within a bar, what a rebuilt broker no longer knows |
| live preflight (`execution/live_preflight.py`) | one state file, replaced whole | check, arm, disarm, ask | no lock: a check waits for the broker between its read and its write; midnight |
| paper lanes (`context/session_22c_paper_lane.py`, `asia_d_ema_paper_cohort.py`) | a state file and an evidence file each | resolve, open, journal one bar | two files that must tell the same story through failed writes, cut lines and crashes |
| risk engine, post-fill validation | none | pure checks that drop a candidate or ask for a liquidation | arithmetic at boundaries |

The parts interact through the store's files (handler and recovery pass), the
journal's files (handler and reconciler), the latch (startup pass and handler)
and the broker. Strategies, context, options products, the alert ranker,
notifications, replay and research either only drop a candidate before this
path or never send a futures order. `PROJECT.json` lists every part with its
status, and every hazard of this code with the properties that cover it.

What makes each part correct:

* store: one send per id; nothing unresolved is lost, hidden or cleared without
  evidence; something settled does not block for ever;
* order entry: never a second entry on top of one that is or may be live;
* recovery: reads that straddle a change of the market lead to no wrong verdict;
* startup gate and journal: what one process could not establish is not
  forgotten by the other gates;
* protective stop: a position always has a live stop, which only tightens;
* session: no more failed logins than the limit before the cooldown, no order on
  a dead session;
* intake and day: a bar is decided once, what was accepted and is fit is decided, and the
  limits of a day hold whatever rows were lost and wherever the process stopped;
* preflight: no live order on a day that did not pass, none after the operator
  switched live trading off;
* paper broker: a fill is one the bar offered, its label tells what it made, and
  the broker rebuilt for a bar agrees with the one that saw all bars, each with
  the exceptions that the properties name;
* paper lanes: nothing is journaled or traded twice, and the evidence has what
  the state went through.

## 2. Modules

| module | what it is |
|---|---|
| `SubmissionStore` | the record's states and legal transitions, what a note can leave on disk, and the decision `reconcile_with_evidence` takes: pure operators |
| `OrderSubmission` | the system: handler, recovery pass, startup gate, journal's open trade, the broker, restarts |
| `SubmissionLifecycle` | the abstract promise: reserved before sent, sent once, one unresolved at a time, never unresolved again |
| `MCOrderSubmission` | the model-checking instance with its symmetry |
| `OpenTrade` | one journaled trade from its TRADE row to its OUTCOME row: the bar, the scheduled fallback, the sweep, the broker, restarts, the end of the day and of the broker's session |
| `TradeLedger` | the abstract promise of a trade's booking: a row is written only of a trade that is over, says of its end what the broker did, and is the only one of its path |
| `MCOpenTrade` | the liveness instance of `OpenTrade` |
| `OpenTradeProofs` | type correctness, the booking properties and the stop properties of `OpenTrade`, and its refinement of the ledger |
| `OrderSubmissionProofs` | type correctness, single sends, single unresolved record, refinement of the lifecycle; one open trade at a time |
| `ExposureProofs` | exposure is tracked; recovery clears only what is dead and unfilled, and adopts only what is protected; entries never stack; what the journal shows open has arrived |
| `DayBook`, `MCDayBook` | from an alert to the rows of the day: dedupe, queue, rebuilt day, bar claim, open paper position, limits, entry rows, failing writes, restarts, midnights |
| `DayBookProofs` | type correctness and the four invariants of the day |
| `BrokerSession` | the shared token, failure count, cooldown and lock, the supervisor and its readiness gate, any number of other callers |
| `BrokerSessionProofs` | type correctness and the three session invariants |
| `PaperBroker`, `MCPaperBroker` | entries and exits of the paper broker, kept over bars (replay) next to rebuilt for every bar (webhook) |
| `PaperBrokerProofs` | type correctness and the six invariants of the paper broker |
| `LivePreflight`, `MCLivePreflight` | the file of the daily gate under overlapping checks, the operator, the entries that ask it, midnight and restarts |
| `LivePreflightProofs` | type correctness and the two gate properties |
| `EvidenceLane`, `MCEvidenceLane` | one paper lane: its state, its evidence file, the events written ahead between the two |
| `EvidenceLaneProofs` | type correctness, one story per setup, and the bound on what a torn line loses |

`OrderSubmission` ends where `OpenTrade` begins: its `Journal` step writes the
TRADE row that is `OpenTrade`'s initial state, and its one step `ResolveOpen`
stands for the whole of `OpenTrade`. Each side proves what the other takes for
granted. `OpenTrade` has one trade, alone, with its entry settled: no request
leaves while the journal shows one (`EntryIsAlone`), the journal shows one only
after it showed none (`TradesDoNotOverlap`), and the order behind it is no longer
on its way (`JournaledHasArrived`). `OrderSubmission` lets `ResolveOpen` end a
trade only with the account flat, and once: `BookedTradeIsFlat` and
`OpenTradeImplementsLedger` are that, but for the second row that the path
without the lock may add. The hand-over is this argument, not a composed module:
the product of the two would be beyond TLC.

### How `OrderSubmission` corresponds to the code

* `rec[i]` is the record file of id `i`; `open` is the open TRADE row. These two
  are durable: `Crash` keeps them and loses everything of the process.
* `order`, `filled`, `bracket`, `closed`, `liquidated` are the broker's books of
  each id. The account shows only the net position (`NetPosition`). Stop and
  target are one `bracket`: the code asks for both to be live and reads either
  one's fill as the exit.
* `pc` is where `process_alert` and `execute_bracket` are: two re-check reads
  (`orders?`, `position?`), the guard, the POST, its answer, the confirmation
  ladder (`confirm`, `cancelling`), the child check (`verify`) and the journal
  row. Any read may fail; any gate that drops a candidate is the branch to
  `idle` of `Recheck`.
* `rpc` is where the recovery pass is, for one id at a time: order rows
  (`RecReadOrders`), then fills, executions and position (`RecReadAccount`),
  then the decision, then its writes one by one. Other steps happen in between.
* `latch` is the startup gate or the journal's write-failure latch; both end
  with the process.
* A store that cannot be read is an outcome of every step that reads it, not a
  state: files may be damaged and repaired between two reads.
* An id may be presented again at any time: by a repeated alert, or after a
  restart.
* `Flatten` is `flatten_position`: the liquidation may or may not take effect
  and may or may not be believed, and any subset of the account's orders ends up
  cancelled.

Four variables are history. `posts` counts requests. `quiet` says the pass read
its record while nobody was sending it. `bootTrusted` says the store was
readable at startup. `unproven` collects the ids whose record was closed on
evidence that proves nothing: a pass that raced the send, the ladder's last
rung, and an entry cancelled after a partial fill. `race` and `CancelIsProven`
in "What the runs found", and the remark on partial fills there, are about
those; the positive properties say that *nothing else* goes wrong.

### How `OpenTrade` corresponds to the code

* Initial states are what `process_alert` leaves after the TRADE row: a filled
  entry with its bracket, the handler about to write the ORDER_IDS row; or a
  row for a request that was never entered (`entered` is FALSE).
* `pc` is where the holder of the alert lock is, `job` who it is (a bar or the
  fallback endpoint), `h` what it carries: its copies of the journal's stop and
  order ids, the position it still believes in, the exit it is about to book.
  `Bar`, `Resolve`, `Liquidate`, `CancelWorking`, `ConfirmFlat`, `AskTrail`,
  `ConfirmStop`, `LogStop` and `BookBar` are the order of `process_alert`'s first
  step, with `resolve_position`, `flatten_position` and `replace_stop` inlined.
* `rpc` and `r` are the sweep (`reconcile_open_position`), which takes no lock:
  flat read, entry look-up, the resolver called three times on one client,
  the look for live orders, the OUTCOME.
* `ids`, `mode`, `jstop` are the last ORDER_IDS row, `booked` the OUTCOME rows
  of the trade, `prior` that the row's day is over. They are what a restart
  finds. `Complete` is `_position_is_complete` on a row whose target
  `get_open_position` removed.
* `held`, `exit`, `listed`, `entryListed` are the broker's position and what its
  fill list shows: a closing fill appears later than the position goes flat
  (`FillListed`), and the list starts over with the session (`SessionRoll`).
* `mixed` says that the session's fills have one of another trade near this
  trade's target or stop. `resolve_position` prefers the fills of its own order
  ids and falls back on a match by price (`Unrelated`), so such a fill passes for
  the exit while the own one is not listed, or when there is none.
* `mods` are stop modifications accepted and not yet applied. Each is applied
  in turn, or lost. `closing` is a liquidation accepted and not yet done, which
  may also do nothing.
* A bar's broker client is made for the bar, so its count of unmatched reads
  starts at none and never reaches three; the sweep's three calls share one.
* `BarsReadFirstStop` (proved) is why `Risk` may use the constant `FirstStop`
  where `compute_trailed_stop` takes the journaled stop: a moved stop is
  recorded together with the mode that keeps every later bar from reading it.

### How `DayBook` corresponds to the code

* `Deliver` is `receive_alert`: the key is recorded (`seen`), the bar goes to
  `queue` and the answer goes out. `TakeLock` takes the alert lock for the first
  bar of the queue, and the early returns of `process_alert` come next. `TurnAway`
  is the data-quality gate (a price that is none, high below low, a time that does
  not parse, a stale bar) and the timeframe guard: a plain row of today, nothing
  more. `KeepInLane` is the one-minute and the five-minute lane, which write no
  row of the journal. `Begin` is every other bar: a file that does not parse ends
  it with an exception (`Readable`), otherwise the day is `Rebuilt` from the files.
* `Unfit` are the bars that never get past these returns and `Feed` those of the
  two lanes with sound data. A one-minute bar is in both; a five-minute one is in
  `Feed` only, since it goes on when a setup is armed or when its strategies are
  established on five minutes. Which it does is a choice.
* `ClaimBar` is `claim_bar`, `Resolve` the open position's own bar, `Blocked`
  the gates that read the day, `Intend`, `NotFilled`, `Open` and `Evidence` the
  rows of an entry, `NoEntry` every other way a bar ends.
* A day file is what its readers make of it: the bars its rows claim (`claims`),
  the totals `_compute_daily_state` folds from it (`book`), and whether a line of
  it parses (`unreadable`).
* `WriteRow` is a critical row with its one retry. Both attempts may fail with
  nothing written (`lost`), fail after part of a line (`cut`), or the second may
  go through behind the part the first one left (`merged`), which is not an
  error to the writer and a line that does not parse to every reader.
* `decided`, `taken`, `lost`, `closed` and `lossRun` are history.

### How `BrokerSession` corresponds to the code

* `left`, `fails`, `cooldown` and `lock` are `_SharedAuth`; `bound[u]` says the
  header of instance `u` carries a token of the session the broker still honours.
* A call is `authenticate_result` under the lock (`UseToken`, `HeldBack`, `Ask`,
  `Renews`, ..., `LoginFails`), and for the supervisor and the preflight
  `reliability_heartbeat` after it, which takes no lock (`Heart...`). The two are
  interleaved with every other instance's.
* `state`, `age`, `wait` and `seenActive` are `ReliabilitySnapshot`; `OrderReady`
  is the gate. `SupervisorStep` is one turn of the supervisor's loop.
* A call outlasts at most two ticks of `Minute`, because each of its requests
  times out in seconds. That is what bounds how old an answer can be when it is
  booked as new (`MarkHealthy`).

### How `PaperBroker` corresponds to the code

* `kept` is the broker a replay keeps; `row` is the webhook's TRADE row, from
  which a broker is made for every bar. Both take the same order and bars.
* `StaticExit` is `resolve_position` with fixed exits, in the order of its tests;
  `RunnerExit` the runner; `Triggered` the pending stop entry. `Seed` is what
  `process_alert` tells a rebuilt runner.
* `EndOfDay` is the day-only close. Its label is measured from the entry its
  caller hands in: the webhook the row's, the replay the one `execute_bracket`
  answered with (`AnsweredEntry`), which for a pending stop entry is the plan's.
  Its P&L is always that of the position.
* `ResolveKept` is one turn of the replay's loop over the forward bars, and
  `Abandon` its two breaks: once the date has changed or it is 16:00 ET, it turns
  away from a day-only trade. A pending entry is cancelled, a position is left open,
  noted as `EodBarMissing`, and not carried to the next day. The webhook has no such
  break (`WebBar`) and goes on resolving.
* `ForceClose` is the webhook's safety net: a position of another price scale, or
  one that is too old, ends at the close of its bar if nothing else ended it.
* `Clocks` says what the time makes of a bar: the closing bar of a day-only trade,
  a bar after its day, a bar that finds the position stale.
* `Mode` is the configuration an order is opened with: a proof lane makes its own
  broker, with market entry and runner exit, whatever the settings say.

### How `LivePreflight` corresponds to the code

* `file` is `live_preflight_state.json`. Every party has a copy of it between its
  read and its write: a check in `check[c].copy`, the operator's request in
  `desk.copy`. `Loaded` is `load_state`, `Result` what `run_preflight` makes of
  its copy, `Saved` the replacing write.
* `Begin`, `ReadPositions`, `ReadOrders` and `SaveResult` are `run_preflight` on
  its worker thread, one broker call each. `DeskLoad` with `Arm`, `RefuseArm` or
  `Disarm` are the two requests on the event loop, which never overlap each
  other. `LetThrough` is the gate in `execute_bracket`.
* `stale`, `flat`, `off`, `armedOn` and `passed` are history: whether the gate
  was shut since a check read the file, whether the account was flat at some time
  in the course of a check, and what the operator and the checks did last.

### How `EvidenceLane` corresponds to the code

* `state` is the state file (`seen`, `positions`, `pending_events`), `lines` the
  evidence file, line by line, `job` is `process_bar` between two of its steps.
* `Start` loads the state and looks up which pending events are in the file;
  `AppendEvent` and `ClearPending` are `_flush_pending`, for the replay and for
  the bar's own events; `Decide` is everything in between, ended by `Commit`, the
  write of the state that holds the bar's events. `job.written` is the `written`
  set of `_flush_pending`: read from the file (`Written`), then grown by every
  event that was appended; `IsNext` is the next event the loop does not skip.
* `AppendTears` is an append that stops half-way: a part of the event, or all of
  it without its end. The next line is then written behind it. `Stops` is every
  exception and every crash; a crash is the same, because nothing is kept in
  memory between two bars.

### Abstractions of `DayBook`, `BrokerSession`, `PaperBroker` and the two above

* `LivePreflight`: what the account holds is nothing, a working order or a
  position; each other check (health, heartbeat, readable lists, drift) passes or
  fails. Reasons, names and times in the record are left out.
* `EvidenceLane`: which candidates a bar offers, which pass the lane's filters,
  what fills and when a position ends are choices. `seen` keeps 2000 keys and
  the look-up 512 lines, which no day and no bar comes near. The lane is handed
  its bars one at a time, under the alert lock.

* `DayBook`: the position is a paper one, which is its TRADE row (a live one is
  `OpenTrade`). A BREAKEVEN is to these totals what a WIN is. What a
  lane does with its bar is left out, except that it is not the day's journal. The
  dedupe window is at least as long as a bar is fresh: 600 seconds are both its constant and
  the `max_staleness_seconds` of `risk_rules.yaml:288`. A bar sees one midnight
  while it is fresh. A plain row (one attempt, never raises) matters only by the
  part of a line it may leave. P&L, per-session counts and balances are left out.
* `BrokerSession`: `fails` stops at `MaxFails`, where the code goes on counting;
  nothing reads it beyond the limit. Ages beyond `Freshness` are not told apart.
  `Weather` may change reach, credentials and market at any time.
* `PaperBroker`: LONG; SHORT mirrors every comparison. Prices count half ticks.
  One trade: every exit leaves the broker as before. The balance, `execute_bracket`
  on an occupied broker, the refusal of a fill that fails the post-fill validation
  (`paper_broker.py:316-336`, a CANCELLED like `Refused`) and the inverse lane's
  own broker are left out. A bar closes at its low or at its high. What makes a
  position stale, and whether a bar of a day-only trade is on time, are choices. A
  position that the replay hands over to the next day's file is restored with
  its entry, bracket and best price, so it stays the same `kept`. The bar history
  holds 200 bars; no trade here is longer. The history's decision bar counts for
  the runner's seed, as the code
  means it to (`journal_logger.py:926-928`).

### Abstractions of `OpenTrade`

* One trade, LONG, one contract, the production cap; a SHORT mirrors it. A stray
  child working on a flat account is left out, and of other trades of the
  instrument everything but a fill of theirs (`mixed`). So is the paper path,
  which never asks the broker.
* Prices count half ticks: the trail of half the risk can land between ticks,
  which is what `_round_to_tick` is for. `NewHigh` only rises: the trade is no
  longer than the sixty bars the trail looks at. In a longer one the best price
  can leave the window, and a move computed from a lower one loosen a stop that
  was never confirmed: `StopOnlyTightens` is about shorter trades.
* A moved stop keeps its order id. (The code also accepts a new one.)
* An entry that fills after its row was written is in `OrderSubmission`, not
  here: `entered` is settled at the start.
* The day and the broker's session each end at most once; the sweep looks back
  seven days and the trade modelled is never older.
* Who closes the position is remembered (`exit`), as the fill list does by order
  id. Without ids the code matches prices, so a listed exit may or may not be
  found: both are allowed.

### Abstractions of `OrderSubmission`

* One instrument and direction. Prices, contract symbols and the record's other
  fields are left out; ids match by client order id.
* A list the broker returns is truthful when read; failing reads are modelled.
* Fills, executions and the position are read in one step. The gap that matters,
  between the order rows and those, is kept.
* The production path always carries a client order id; the path without one
  (no record at all) is not modelled.
* An application rejection and a rejected order row are both `rejected`.
  `submission_evidence` never sets the fields that
  `reconcile_with_evidence` tests for linked rejections and contradictions, so
  these branches are left out.
* `children_resolved` follows from the children being readable in the same list
  as their parent.
* `ResolveOpen` stands for booking the open trade once the account is flat. It
  does not look at the orders: a row of an earlier day, and a bar that matched a
  price, are booked without that look.
* Variables with no meaning at a program point are reset, to keep the state
  space small.

## 3. What is checked

| run | instance | question |
|---|---|---|
| `safety` | 2 ids, 1 contract, 1 crash, symmetry; 1.46 million states | `TypeOK`, `SendOnce`, `OneUnresolved`, `ExposureIsTracked`, `NoStackedEntry`, `AdoptionIsProtected`, `RecoveryClearSound`, and `ImplementsLifecycle` |
| `progress` | 1 id, 2 contracts, 1 crash, fairness; 93 thousand states | `ConclusiveUnblocks`, with partial fills |
| `trade_safety` | risk of three ticks, two highs, 2 moves in flight, 1 crash; 4.79 million states | `TypeOK`, `BookedIsFlat`, `ClearedOnlyBlind`, `JournaledStopRests`, `StopOnlyTightens`, and `ImplementsLedger` |
| `trade_progress` | no trail, no legacy flag, 1 crash, fairness; 552 thousand states | `ClosedIsBooked` |
| `daybook_safety` | 3 bars of 2 instruments (the second's of a feed), 3 days, look-back 1, 3 deliveries, 1 failed write, 1 crash, symmetry; 2.43 million states | `TypeOK`, `DecidedAgainOnlyAfterBoth`, `OnePosition`, `DailyCapacity`, `BookBalances` |
| `daybook_progress` | 3 bars (a fit one, one of a feed, an unfit one), 2 days, 1 failed write, 1 crash, fairness; 659 thousand states | `AcceptedIsDecided` |
| `session` | the supervisor and one other caller, times shortened in their order, 1 eviction; 914 thousand states | `TypeOK`, `NoNeedlessSession`, `BreakerHolds`, `GateIsBacked`, and `GateReopens` under fairness |
| `paper` | all 24 configurations, one bracket on a seven-tick ladder, every bar on it, a view; 341 thousand states | `TypeOK`, `HeldInBracket`, `ResultTellsTruth`, `PessimisticWin`, `ExitWasOffered`, `RebuiltAgrees`, `SeededHoldsNoLonger` |
| `preflight` | 2 overlapping checks, 2 days, symmetry; 4.10 million states | `TypeOK`, `LetThroughAfterPass`, `OnlyStaleCheckReopens` |
| `lane` | 1 sub-lane, 2 setups, 4 bars over 3 days, 1 cut line, symmetry; 6.67 million states | `TypeOK`, `OneStoryPerSetup`, `LossIsBounded` |
| `race` | 1 id | `RecoveryNeverClearsLive`, which the code says and does not keep |
| `daybook_carry` | a limit of one loss, 2 days, no fault | `LossLockout`, the same |

Bounds. Two ids are what the stacking and hiding questions need: the one being
sent and the one it could be stacked on. One contract is the production cap; two
are the least at which an entry can be partly filled. One crash separates a
process that reserved from the one that finds the record; the second process
goes through every step the first one can. In `OpenTrade` the two highs give
two different stops, one of them off the tick grid before rounding, so that a
late first move and a second one can meet; two moves in flight are the least at
which their order matters, and a trail is repeated after the crash because the
journal did not record it. The liveness run has no highs: the trail neither
closes nor books anything. It leaves out the legacy flag too (`MCOpenTrade`):
without a high such a trade differs from one with the exit mode only in that
bars read its row, and from a static one only in that it has no target.

In `DayBook` two bars of one instrument are a position and the bar that closes
it; the third is a bar that may see its position and may not close it. Three
days with a look-back of one are the least in which a position is forgotten and
another one entered. Three deliveries are two bars and a repetition. One write
fails and one process ends, in any order and at any row. The liveness run asks
its question of one fit bar, behind an unfit one, a bar of a feed that may hold the
position, and its own repetitions. `LastDay`,
`MaxDeliveries`, `MaxFaults` and `MaxCrashes` are its bounds in guards.
In `BrokerSession` every time constant is at least one and they keep the order
they have in the code (`Buffer < Life`, `Every <= Freshness`); two failures are
the least limit at which the first one does not trip the breaker; `MaxDrops`
bounds evictions. In `PaperBroker` seven ticks leave room on both sides of a
bracket in which 1R is reached before the target wherever the entry fills: a bar
may open, dip and rise anywhere on the ladder, and lie wholly beyond the stop or
the target. There is no bound in a guard. The run has a view (`MCPaperBroker`):
once an order is decided the configuration counts only as that order's own, and
the bar history only for a runner that is seeded with it. The run also passes
without slippage (`Slip = 0`).
In `LivePreflight` two checks are the least that overlap, and one midnight
separates the day that was armed from the one that was not (`LastDay`). In
`EvidenceLane` one sub-lane is enough because two share only the order of their
rows; two setups are the least of which one fills and the other does not, four
bars the least with a day before the epoch, a day of two bars and the next one
(`LastBar`); one line is cut (`MaxTears`), and the evidence file is unreadable
once (`unread`).

Integers are small and unbounded in `OrderSubmission` and `OpenTrade`;
`MaxCrashes`, and `MaxMods` on moves in flight, are their only bounds in guards.
`CHECK_DEADLOCK FALSE` is said where the system may really come to rest: no
signal left, a booked trade, the last bar. `session` checks for deadlock: three
parties share one lock, and nobody may wait for ever.

Each property of a passing run has a mutant, a plausible defect of the code
under which TLC finds that property violated: an acknowledged record that does
not block, a send without the re-check, a refused answer presumed from silence,
adoption without a stop, a working order taken for a dead one, a table of
transitions that is not enforced; and for the trade a liquidation sent taken for
a position closed, the last fill taken for the liquidation's, an unreadable list
taken for an empty one, a modification accepted taken for one made, a trail
that follows the last bar instead of the best, a resolver called once. For the
others: a dedupe window shorter than a bar is fresh, an OUTCOME filed under the
day it is written on, a row lost without a latch, a cancelled attempt that
always gives its count back, a bar turned away that keeps the lock; a breaker that
is not asked, a login after any failed renewal, a token taken for a healthy
broker; a stop that never gaps, a target with priority, a trail that always wins;
a check that arms when it passes or leaves armed when it fails, a file of
yesterday taken for today's; a replay that appends what is there, one whose
failure does not hold the bar back, a setup used up only if it could be traded.

### Fairness

`OrderSubmission`'s `Fairness` asks something of the recovery pass only.
`run_reconciler_loop` runs for as long as the process lives, so its own steps
are weakly fair; reads of the broker and writes of the store may fail any number
of times, but not for ever (strong fairness of the successful ones). Nothing is assumed of the market, the
handler or the operator. `ConclusiveUnblocks` holds under it: once the broker's
books of an order settle the question, its record leaves the blocking states.
Records that no read can settle (a liquidated or manually closed position) are
not covered, and the code has no path that clears them.

`OpenTrade`'s `Fairness` asks that the handler that opened the trade finishes,
that the day ends, that the sweep's loop starts and ends its passes (it runs for
as long as the process lives), and that its flat read, its resolver and its
write do not fail for ever (strong fairness: each is only enabled now and then).
Nothing is assumed of a bar, of the fallback or of the market: with the broker
flat, the trade is booked even if no bar ever comes. That the day ends matters:
an order book that never clears stops the phantom clearing of the same day, and
only a prior day's row goes straight to the resolver.

`DayBook`'s `Spec` asks that the handler takes a step when it can: the event
loop wakes the next task that waits for the lock, and a task that runs goes on.
Nothing is assumed of deliveries, clocks or writes. `BrokerSession`'s asks that
the loop wakes the supervisor, that minutes pass, and that a call that can go on
does (every request times out). Nothing is assumed of the broker: `GateReopens`
states what follows if it can be reached from some time on.

### What the runs found

Sixteen statements in comments, docstrings or messages are not kept. The first
two are runs, with the quotation under "findings" in `PROJECT.json`. The others
are run by hand: each formula is defined in its module, and TLC finds it
violated when it takes the place of the properties in the configuration named
here: a state predicate as INVARIANT, an action formula as PROPERTY.

1. `race`: a pass that runs during the request clears the record of an order
   that then lands.
2. `daybook_carry`: a loss of a position that was carried over midnight is filed
   under the day it was opened, and counted for today only in the memory of the
   bar that booked it. The next bar rebuilds today without it, and enters.

With `OrderSubmission_race.cfg`:

3. `CancelIsProven`: the ladder's last rung calls an entry dead after an
   unconfirmed cancel and a flat position.
4. `UntrustedStartupStaysBlocked`: a store that cannot be read at startup does
   not set the startup latch; a process that can read it later sends orders.
5. `HeldIsJournaled`: a fill whose answer was lost is adopted as OPEN, which does
   not block, and no journal row shows it. Only the broker re-check is left
   between it and a second entry (`NoStackedEntry` holds because of it).

With `OpenTrade_runner.cfg` (the last with `MaxCrashes = 1`):

6. `BarResolvesOpenRow`: `runner.py:1393` says that each instrument's own next
   bar resolves its own position. With `EXIT_MODE=runner_live` the journal's row
   has no target, no bar reads it as complete, and the position is never
   resolved, trailed or flattened by a bar.
7. `CancelAfterLiquidation`: a rejected liquidation is followed by the
   cancellation of the position's protective orders.
8. `NoGuess`: the sweep books a close at the entry price while the stop's or the
   target's fill is only not listed yet.
9. `OnlyPhantomsCleared`: an entered trade is cleared as a phantom when its
   order ids were lost, or when the fill list starts over before the UTC day
   does. `ClearedOnlyBlind` says that these two are the only ways.
10. `PricedFromOwnFill`: `reconciler.py:54-55` says that the sweep "never prices
    from an unrelated fill". A trade that was never entered is booked, by the
    sweep once its day is over (or by a bar before that), with the exit of another
    trade of the session that filled near its target or stop: the resolver
    matches by price when its own order ids have no fill.

With `PaperBroker_proof.cfg`:

11. `ProofRunnerTrails`: the runner of a proof lane is rebuilt as a runner
    whatever the settings, but its best price is seeded (`runner.py:1485-1489`)
    only with `runner_mode` configured, which is off by default. Its trail starts
    over with every bar.

With `PaperBroker_fills.cfg` and `MCPaperBroker`:

12. `DayOnlyLabelIsTrue`: "result and P&L are independently deterministic"
    (`day_only_exit.py:150-151`). They are measured from two entries. A replay
    with `stop_market` labels the day-only close from the planned entry and prices it
    from the triggered one: with a trigger that gapped, a close between the two is
    booked as a WIN that lost money. `ResultTellsTruth` says that no other exit
    is labelled so.

With `LivePreflight_gate.cfg` and `MCLivePreflight`:

13. `DisarmHolds`: "Live trading switched OFF — live orders are blocked"
    (`live_preflight.py:354`) lasts until a check that was waiting for the broker
    replaces the file with the armed copy it read before. The same check undoes
    the failure of another one. `OnlyStaleCheckReopens` says that nothing else
    does.
14. `ArmedToday`: "only after today's preflight passed and the operator
    explicitly armed the bot" (`live_preflight.py:3-4`). A check that straddles
    midnight writes yesterday's armed flag under today's date; nobody armed today.
15. `PassMetFlat`: a check reads the positions first and the orders second. An
    order that fills in between is in neither list, and the check passes on an
    account that was never flat.

With `EvidenceLane_replay.cfg` and `MCEvidenceLane`:

16. `ReplayMakesGood`: `asia_d_ema_paper_cohort.py:288-291` says that a crash in
    the middle of the appends is recovered by the next call. If it cut a line
    short, the replay writes behind it, and the two become one line that nobody
    can parse: the replayed event is then lost for good. `LossIsBounded` says
    that no more than that is. An evidence file that cannot be read counts as
    empty (`:266-269` of the lane), so a replay then repeats what is there;
    `OneStoryPerSetup` is about the other cases.

An entry of several contracts cancelled after one fill is noted `NO_FILL` too;
the cap of one contract hides it, and `ExposureIsTracked` sets such ids apart.
The bar and the sweep can each book the same trade (two OUTCOME rows); one row
for each of the two is the bound that holds (`TradeLedger`,
`CountedAtMostTwice`).

Further remarks, from reading and from counterexamples to stronger formulas:

* A bar can be decided twice, but only after a restart *and* a midnight:
  `claim_bar` looks into today's file alone. A crash after the answer loses the
  bar: the sender was told 200. A part of a line blocks every later bar that
  reads that day's file, until somebody repairs it.
* A position older than the look-back of seven days is forgotten: another one is
  entered beside it. `OnePosition` says how far apart the two then are.
* A result handed in with its entry (`Evidence`) counts in the totals of the day
  and has no TRADE row.
* The webhook's rebuilt paper broker has no breakeven stop and does not wait for
  a stop entry's trigger: the row carries neither. `config/settings.py:343` calls
  the first "paper/replay only", but only the replay does it. `RebuiltAgrees`
  names the configurations in which the two agree.
* An exit on the runner's stop fills at the stop even if the bar opened beyond
  it, which no bar offered: only fixed exits look for gaps. The target is paid
  by a bar that opens, or lies wholly, above it, which offered more.
  `ExitWasOffered` bounds these two on one side only.
* A day-only trade whose closing bar never came is open for ever in the replay and
  noted as an issue, while the webhook resolves it on a later bar or by its safety
  net. `RebuiltAgrees` and `SeededHoldsNoLonger` except it.
* A breakeven stop that slips is labelled BREAKEVEN though it lost the slippage. A
  moved stop hit by a gap, or together with the target, is labelled LOSS even
  where, without slippage, it lost nothing (`ResultTellsTruth`).
* A login that times out may have opened a session, and the retry opens another:
  the breaker counts rejections only. A dead token passes for valid until the
  next heartbeat.

## 4. What is proved

For any set of ids, any positive number of contracts and any bound on
crashes, from `QtyAssumption` (`Qty` is a positive natural), `NoneAssumption`
(`None` is no id) and `CrashAssumption`:

| theorem | statement |
|---|---|
| `TypeCorrect` | `Spec => []TypeOK` |
| `SentOnce` | `Spec => []SendOnce` |
| `NeverTwoUnresolved` | `Spec => []OneUnresolved` |
| `SystemImplementsLifecycle` | `Spec => ImplementsLifecycle` |
| `EntryIsAlone` | `Spec => [][posts' # posts => open = None /\ ~latch]_vars` |
| `TradesDoNotOverlap` | `Spec => [][open' \notin {open, None} => open = None]_vars` |
| `ExposureTracked` | `Spec => []ExposureIsTracked` |
| `ClearsOnlyUnfilled` | `Spec => RecoveryClearSound` |
| `EntriesNeverStack` | `Spec => NoStackedEntry` |
| `AdoptsOnlyProtected` | `Spec => AdoptionIsProtected` |
| `JournaledHasArrived` | `Spec => [][open' \notin {open, None} => order[open'] # "inflight" \/ open' \in unproven]_vars` |

The argument. `TypeOK` is not inductive: a fill could exceed `Qty`, and a
recovery write could leave the legal states. `Parts` adds, in named conjuncts,
that the books balance (`closed + liquidated <= filled`, an order that has not
landed filled nothing), that a pass holding an id holds a record that exists,
and that a request is still to be sent only while its id has no post (`SendInv`).
`SendInv` together with "a reservation needs `NoRecord`, and a record is never
deleted" gives single sends. `PartsStep` has one case per action.

`ExposureInv` adds two conjuncts. `TrackedInv` says who answers for an exposure:
the handler that is sending it, a blocking or OPEN record, or `unproven`.
`PassInv` says what a look-up still in hand proves *now* although it was read
*then*: the broker's books only age in one direction (`BrokerAges`,
`HandlerAges`: an order that is dead and unfilled stays so unless it is sent
again, and an id with a record is not), so a verdict of "dead with nothing
filled" stays true until its write. `PlanClears` ties the verdict to
`reconcile_with_evidence`, and `WriteIsPlanned` the write to the verdict.

`EntryInv` adds four more. `SenderAlone`: while the handler is at an id, nobody
else's record is unresolved, because it started when none was and only it makes
new ones. `LandedInv`: children, and a record that says OPEN, belong to an order
that has landed. `AloneInv`: after the first look at the account no other order
is in the market, for one on its way would be unresolved or landed; after the
second none can be held, and neither comes back. So the two looks, taken one
after the other, are enough. `RelyInv`: what the pass has read as protected is
still safe when it writes, since a position with a live child ends with that
child; the handler, which could kill it, is alone with another id or not sending.

The three of the hand-over rest on two more invariants. `SoloInv`: a handler
at work began when the journal showed no open trade and the latch was not set,
and nobody but itself can change either before it ends. `ArrivedInv`: its order
is on its way between the request and its answer at most. Before, it starts with
an id whose record does not block, and that one is gone, landed or `unproven`
(`ResolvedHasArrived`); after, only an acknowledged order goes on to the journal,
and every other answer ends the handler.

For one trade, any prices with the stop below the entry (`PriceAssumption`), any
set of highs and any bounds on moves and restarts (`BoundAssumption`):

| theorem | statement |
|---|---|
| `TradeTypeCorrect` | `Spec => []TypeOK` |
| `BookedTradeIsFlat` | `Spec => []BookedIsFlat` |
| `PathsBookOnce` | `Spec => []EachPathBooksOnce` |
| `CountedAtMostTwice` | `Spec => [](Len(booked) <= 2)` |
| `EnteredClearedBlind` | `Spec => []ClearedOnlyBlind` |
| `JournalNeverAhead` | `Spec => []JournaledStopRests` |
| `StopNeverLoosens` | `Spec => StopOnlyTightens` |
| `BarsReadFirstStop` | `Spec => [](h.stop = FirstStop)` |
| `OpenTradeImplementsLedger` | `Spec => ImplementsLedger` |

Each rests on what is true *between* a read and the write that uses it.
`FlatInv`: whoever holds an exit to book has read the position flat, and nothing
re-enters the trade. `WarrantInv`: what it is about to write is still what the
broker did, because what closed a position does not change any more
(`ExitSettles`); with `FlatInv` and `OnceInv` every write is then a `Book` of the
ledger and every other step a `Close` or a stutter (`LedgerStep`). `OnceInv`: a path at work saw the row open when it began,
so the rows written since are the other path's. `BlindInv`: the sweep's copy of
the ids is the journal's, because it starts after their writer is done, and a
session that is over stays over. `MovesRise`: the moves in flight form a rising
sequence between the resting stop and what the best price allows, so that taking
the first one, applied or lost, leaves the rest above the stop (`TakenMoveRises`)
and a new one goes on top (`AppendedMoveRises`); the two price lemmas
(`RoundIsMonotone`, `TrailIsMonotone`) are why. `RecordRests`: what is about to
be recorded has been seen resting. The frame lemmas say what each actor leaves
alone and keep the invariance proofs to the steps that matter.

For any set of bars with any days and instruments, any limits and any number of
deliveries, failed writes and restarts, from `BarAssumption`, `LimitAssumption`
and `BoundAssumption`:

| theorem | statement |
|---|---|
| `DayTypeCorrect` | `Spec => []TypeOK` |
| `DecidesOnce` | `Spec => []DecidedAgainOnlyAfterBoth` |
| `HoldsOnePosition` | `Spec => []OnePosition` |
| `CapacityIsKept` | `Spec => []DailyCapacity` |
| `BooksBalance` | `Spec => []BookBalances` |

That a bar is decided again only across both a midnight and a restart needs to
know where an accepted bar is. `IntakeInv` says it: a decided bar is in the
claims of its day (`ClaimedInv`), one that waits, is worked on or was decided by
this process is in the dedupe window or stale (`SeenInv`), a bar that is not stale is in one place at most, the
queue, the handler or the decided (`PlaceInv`), and the bar about to be claimed
was not decided yet (`NewInv`). `DayInv` carries the limits through a handler: no file of a day to come has a position (`FutureInv`),
what was taken on a day is what its rows count and what was lost of them
(`TotalsInv`), a handler works with the counters and the open position of the
day it was rebuilt from (`Carried`), and what is about to be sent passed the
gates (`Sending`). The look-back needs the largest
day of a set, which exists by well-foundedness (`LatestDay`), not by induction.

For any other instances that share the token, any times in the order
`TimeAssumption` states and any number of evictions, with `UserAssumption`:

| theorem | statement |
|---|---|
| `TypesHold` | `Spec => []TypeOK` |
| `NoSessionIsNeedless` | `Spec => []NoNeedlessSession` |
| `BreakerIsKept` | `Spec => []BreakerHolds` |
| `OpenGateIsBacked` | `Spec => []GateIsBacked` |

The lock is why: whoever renews or logs in holds it (`AskerHoldsLock`), so what
it read under the lock (the token, the cooldown) is still so when it asks. A live
session leaves a token to renew from (`LiveLeavesToken`). A healthy snapshot was
answered by the broker no longer ago than it is old (`HealthyIsBacked`), so the
age test of the gate bounds the age of the answer.

For any price ladder, slippage and tolerance (none included), brackets and subset
of the settings, from `PriceAssumption`, `PlanAssumption` and `SettingsAssumption`:

| theorem | statement |
|---|---|
| `BrokerTypeCorrect` | `Spec => []TypeOK` |
| `HoldsInBracket` | `Spec => []HeldInBracket` |
| `ResultsAreTrue` | `Spec => []ResultTellsTruth` |
| `WinsAreClean` | `Spec => []PessimisticWin` |
| `ExitsWereOffered` | `Spec => []ExitWasOffered` |
| `RebuiltBrokerAgrees` | `Spec => []RebuiltAgrees` |
| `SeededIsNoLooser` | `Spec => []SeededHoldsNoLonger` |

`BrokerInv`: what is held is the order's, lies in its bracket, and every fill is
sound for the bar that made it; one lemma per way to enter and to leave. A
stop entry is paid at its trigger or beyond (`TriggerInv`), so the planned entry
that a day-only label is measured from is never above the paid one, and a trade
that has ended is not held again (`EndedInv`).
`AgreeInv`: where nothing is remembered but the TRADE row, the rebuilt broker
equals the kept one bar by bar. `SeedInv`: the best price told to the rebuilt
runner is never below the one the kept runner saw, as far as the trail can tell,
so that its stop is never the looser one.

For any set of checks and any number of days, from `DayAssumption` and
`NoneAssumption`:

| theorem | statement |
|---|---|
| `GateTypeCorrect` | `Spec => []TypeOK` |
| `GateNeedsPass` | `Spec => []LetThroughAfterPass` |
| `OnlyStaleReopens` | `Spec => OnlyStaleCheckReopens` |

Every copy of the record, in the file or in anybody's hands, is `Good`: it says
pass only of a day that passed, and armed only if the operator ever armed. So it
does not matter for the first two who overwrites whom. For the third, a check
whose armed copy is not out of date agrees with an open gate (`CheckOK`), and a
write either leaves the gate open or puts every check in flight out of date
(`SavedChecks`).

For any sub-lanes, setups and epoch start, and any bounds on bars and torn
lines, from `BarAssumption`, `TearAssumption`, `FiniteAssumption` (lanes and
setups are finite sets), `NoneAssumption` and `GarbledAssumption` (`None` is no
position, `Garbled` no event):

| theorem | statement |
|---|---|
| `LaneTypeCorrect` | `Spec => []TypeOK` |
| `SetupsToldOnce` | `Spec => []OneStoryPerSetup` |
| `LossBounded` | `Spec => []LossIsBounded` |

Neither property is about the state alone: the file, the pending events and what
the bar in hand takes for written all matter. `StoryInv` says how they agree.
Whatever is in the file or pending was told with a saved state (`ToldInv`);
whatever was told concerns a setup that is used up, in the order fill, outcome
(`OnceInv`); of a setup that is held only the fill was told (`HeldInv`), so its
outcome is new when it comes; the pending events stand in that order too
(`PendingInv`); a flush that could read the file knows every pending event that
is in it (`KnownInv`); and no event has two lines (`LineInv`). `LossInv` is a
potential: the events spoiled so far plus the one that the last, unended line
would still spoil are at most twice the lines cut short.

Only model-checked: the liveness properties (`ClosedIsBooked`,
`ConclusiveUnblocks`, `AcceptedIsDecided`, `GateReopens`), which are beyond this
prover.

## 5. Plan

Done: the submission path (`SubmissionStore`, `OrderSubmission`,
`SubmissionLifecycle`), the life of the open trade (`OpenTrade`, `TradeLedger`), the alert
intake and the day (`DayBook`), the broker session (`BrokerSession`), the live
gate (`LivePreflight`), the paper broker (`PaperBroker`) and the evidence of a
paper lane (`EvidenceLane`), each with its proofs. Left, in this
order:

1. The rate limits and the contract identity in front of every broker call.
2. The risk gates and the post-fill validation as operators against reference
   definitions.
3. Operator recovery of a record no read can settle, and the partly filled
   record that alternates between two states (`order_submission_store.py:354`).

## 6. Not modelled

Strategies, the adaptive layer, market context, the alert ranker, the options
and stocks products, replay, research, reports, notifications and the site:
numeric or advisory code, or code that never sends a futures order. Rate-limit
arithmetic and contract resolution: a request they refuse is, here, one that was
not answered or not sent.

## 7. Running

    tlc -config OrderSubmission_safety.cfg MCOrderSubmission
    tlc -config OrderSubmission_progress.cfg OrderSubmission
    tlc -config OpenTrade_safety.cfg OpenTrade
    tlc -config OrderSubmission_race.cfg OrderSubmission
    tlc -config OpenTrade_progress.cfg MCOpenTrade
    tlc -config DayBook_safety.cfg MCDayBook
    tlc -config DayBook_progress.cfg DayBook
    tlc -config DayBook_carry.cfg DayBook
    tlc -config BrokerSession_all.cfg BrokerSession
    tlc -config PaperBroker_fills.cfg MCPaperBroker
    tlc -config LivePreflight_gate.cfg MCLivePreflight
    tlc -config EvidenceLane_replay.cfg MCEvidenceLane
    tlapm OrderSubmissionProofs.tla
    tlapm ExposureProofs.tla
    tlapm OpenTradeProofs.tla
    tlapm BrokerSessionProofs.tla
    tlapm PaperBrokerProofs.tla
    tlapm DayBookProofs.tla
    tlapm LivePreflightProofs.tla
    tlapm EvidenceLaneProofs.tla
