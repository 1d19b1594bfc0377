# nom-indexer-go in TLA+

nom-indexer-go follows the Network of Momentum (Zenon) chain through a node's
RPC and stores momentums, account blocks and everything derived from them in
PostgreSQL. An API process serves the tables over REST and WebSocket, an MCP
process serves them to tools, and webhooks announce new data. This directory
models the parts of it in which the order of events matters, checks them with
TLC on small instances, and proves what is most important with TLAPS.

## Inventory

| Part | Code | State | Operations | Hard behaviour | Here |
| --- | --- | --- | --- | --- | --- |
| Catch-up and live session | `internal/indexer/indexer.go` (`Run`, `sync`, `runSubscriptionLoop`, `runSubscriptionSession`), `retry.go` | active client, `restartSubCh`, pillar map, loop variables; `MAX(height)` is the only persisted cursor | sync in batches, subscribe, receive, swap client, signal restart | lost and replaced connections, signals drained and sent at the same time, nodes behind each other, crashes, errors in the middle of a batch | `MomentumSync` |
| `processMomentum` transaction | `internal/indexer/processor.go` | rows of a height, additive counters, pending events | collect, commit or roll back, emit | blocks skipped on an error, commit repeated, crash between commit and emit | `MomentumSync` (presence, completeness and number of commits) |
| Backfill | `Backfill`, `backfillMomentumDirect`, `cmd/backfill`, `cmd/indexer` | list of missing heights | scan, process, insert directly | two processes on one table | `MomentumSync` |
| Node pool, watchdog | `watchdog.go`, `nodepool.go`, `StartupSwap`, start-up probe of `cmd/indexer` | active index, streaks, chain identifier, status row | probe, classify, react, fail over, fail back, publish | nodes change between probe, choice and swap; state lost at a restart | `Watchdog` |
| Stream hub | `internal/api/stream/hub.go` | subscribers, per-subject counts, hub state, channels | connect, dispatch, subscribe, unsubscribe, close all | three parties close one channel; state changed outside the lock; full channels | `MomentumStream` |
| Momentum stream handler | `internal/api/handlers/momentums_stream.go` | last height sent | replay, live | events arrive while the database is read | `MomentumStream` |
| Transaction stream handler | `transactions_stream.go` | cursor of height and hashes | replay, live, filter | several events per height, caps that cut a momentum, a cursor without its map | `TransactionStream` |
| Webhook dispatcher | `internal/webhooks/dispatcher.go` | queue, closed flag | emit, deliver with retries, stop | full queue, stop during delivery, endpoints that do not answer | `WebhookDispatcher`; when `Emit` is called is in `MomentumSync` |
| Bridge synchronisation | `indexer.go` (`syncBridgeData` and below), `repository/bridge*.go`, `handlers/bridge.go` | wrap and unwrap requests, configuration, guardians, challenges | page newest first, upsert, sweep what is gone; four lists | interrupted first run, pages that shift while they are read, one upsert of several failing | `BridgeTables`, `BridgeSync` |
| Contract handlers, rewards, decoder | `processor.go`, `embedded.go`, `rewards.go`, `decoder.go`, `repository/*` | accounts, blocks, pillars, delegations, stakes, fusions, HTLCs, tokens, votes, rewards, balances | one handler per contract call, queued and executed in one transaction | late or repeated heights, skipped blocks, lookups made before the transaction | `Repository`, `Ledger` |
| Cached data and cron | `updateCachedData`, `cron.go` | pillar map, pillars, sentinels, projects, swap assets, daily statistics | refresh on a timer, one statement per row | lists older than the momentums committed meanwhile; two writers of one row | `CachedData`; the pillar map also in `MomentumSync` |
| REST API | `internal/api/handlers`, `httpx/query.go`, list queries of `repository/*` | none that outlives a request | lists with pages and totals, lookups, voting report | pages read while rows are added, joins that must agree with each other | `Queries`, `RestApi`, composed in `Explorer` |
| Readiness | `internal/api/router/router.go`, `internal/health` | none of their own | read the watchdog's row or snapshot | rows of a tick that swapped, of a failed upsert, of a process that is gone | `Watchdog` |
| MCP, authentication, configuration, migrations, generated server, scripts | `internal/mcp`, `internal/auth`, `cmd/*`, `scripts` | none that outlives a request | queries | none for a model checker | not modelled |

How they interact: the watchdog swaps the client under the session and signals
it through `restartSubCh`; the session and the backfill write through
`processMomentum`; its transaction carries the NOTIFY that the hub of the API
process receives; after the commit it hands events to the webhook dispatcher;
the readiness endpoints read the row the watchdog publishes; the refresh loop,
the cron jobs and the bridge loop write beside it, and the REST handlers read
what all of them leave. `MomentumSync` takes
any swap the watchdog could decide; `Watchdog` takes any progress the session
could make; `MomentumStream` takes any sequence of commits `MomentumSync` could
produce (skipped, late and repeated heights included), and so does `Ledger`,
in which any height of the node may be processed next.

What makes each part correct: the session loses only what `NoOtherLoss` names;
the ledger's tables say what the indexed blocks say; the counters agree with
the rows; what is closed stays closed; a clean bridge pass is as fresh as the
node; a connection gets every frame once and in order; every accepted event is
delivered or exhausted; the watchdog stays on its chain and moves when it must.

`PROJECT.json` lists the hazards of each part with the line where each bites.

## Modules

### MomentumSync

One indexer process, the nodes it may be connected to, the database, and a
`cmd/backfill` process beside it. A momentum is its height; `frontier[n]` is how
much of the chain node `n` has; `stored[h]` is `absent`, `partial` (row without
all its blocks) or `full`; `applied[h]` counts committed transactions of `h`,
because the account, token and momentum counters are added on every commit;
`emitted` holds the heights whose events reached the dispatcher.

`pc` is the main goroutine: `prime`, `readDb`, `frontier`, `fetch`, `process`,
`emit` are one round of `sync`; `drain`, `load`, `subscribe` start a session;
`live` and the three `live...` positions handle a received momentum; `backoff` is
the pause after an error. A connection has a number, `link`; the session
remembers the one it subscribed on, `sub`, and the node keeps pushing into it until the
connection is lost. `owed` counts goroutines that have replaced the client or
connection and have not yet sent their signal: the two steps are separate in the
code. A momentum that the node gets while nobody is subscribed is in nobody's channel: `Window`,
the SDK's side of `ToMomentums`, is marked external.

Faults: every RPC or database call may fail (`Fault`, at most `MaxFaults` times)
or meet a lost connection; the process may crash between any two steps.

### Watchdog

One goroutine, its tick split at every probe and swap, and nodes that change in
between. `classify` compares heights and times with thresholds, so the model
keeps the outcomes: a node is down, behind or at head, the database near or
far, progress recent or stale. Streaks are only compared with two thresholds
and saturate at `MaxStreak`. `client` is what the process uses, `active` what
`syncState` says; `good` is a history of failback probes. `row` is
`indexer_sync_status`: the node and what the API's `readyz` makes of state,
streak and age (ready, drift, or inactive once it is older than
`syncStatusStaleAfter`); `HealthSnapshot` is the verdict of the indexer's own
endpoint.

### MomentumStream

The database, NOTIFYs on their way, `Hub.Run`, and one handler per connection.
`Subscribe` is two steps, since the hub changes `state` without taking the
mutex; `Subscriber.Close` is three (flag, unsubscribe, close). `closeAllSubs` is
one critical section. `late` and `beyond` are histories: heights stored below
one already there, and heights already stored that a capped replay leaves out; a
replay that is not capped leaves none out, so what is committed between its two
queries has to come as a live event. `closes[c] = 1` says
the hub closed the channel; a handler at `closeCh` is about to close it.

A replay reads the latest height in one step, the range and its frames in
another; live frames are one step, from taking the event to having written it. A
malformed payload, which `queueMomentumNotify` does not produce, is left out.

### TransactionStream

One connection of the account-block stream over what it sees of its hub: an
ordered flow of notifications that is dropped when the channel is full and may
be closed. A block is the number of its hash in the order of hashes. The cursor
has the code's two fields and `made`, whether its map exists: a write to the nil
map is the position `panic`. The query is the set of answers PostgreSQL may
give (`ListByMomentumHeightRange`): the first rows of the range by height and
hash, at most `TxReplayMax`, so a momentum may be cut in two. `txLate`,
`txBeyond` and `txAhead` are histories. `MCMomentumStream` takes either stream
for a behaviour; they share nothing but the commits.

### Repository, Ledger, CachedData, Queries, RestApi and Explorer

`Repository` has one operator per statement of `internal/repository`: it takes a
table, a function from the primary key to a row, and returns the table it
leaves (`ON CONFLICT`, `COALESCE`, `GREATEST` and the WHERE clauses included).

`Ledger` is `processMomentum`. `ProcessMomentum` takes a height; each block is
fetched (or skipped on an error), decoded and its statements queued, with what
the code looks up while it queues (pillar cache, project ids, withdraw
addresses) read from the committed tables at that moment; the queue then
executes on `stage`, and is committed or dropped as a whole. `world` is the
chain: what a node would answer about every block at every height.
`journal` is a history of what was indexed and which balances were read.

Every request loads the client anew, and after a failover or a restart it may be
that of a node which is behind what was read before. So an answer is as of any
frontier up to `tip`, the highest one: a block as of one that has its momentum,
balances and lists as of any (`Frontiers`). A height may be processed
before the pillar map was ever published, as the start-up backfill does.

`CachedData` adds `updateCachedData` and the cron jobs: a list is fetched in one
step, its rows are written by one step each, while momentums are processed. A
count of delegators that fails is stored as 0, as in `snapshotPillarStats`.

`Queries` and `RestApi` are the read side: pagination, sorting, totals, lookups
with their 404, and the voting report with its joins. ORDER BY a column that is
not unique leaves rows of one value in any order, so a page is the set of rows
that may be on it and the set of those that must be.

`Explorer` composes writers and readers and adds a client that pages through
the momentums while they are written.

### BridgeTables and BridgeSync

`BridgeTables` is the bridge part of the repository and its four lists.
`BridgeSync` is the loop: wraps, unwraps, then the configuration. A page is
fetched in one step, each row is a step, and each call and statement may fail
(logged and passed over, as in the code) or the process may crash before it. The
node accepts requests, finalizes them and changes its configuration at any
time, so pages shift under the reader. The unwrap loop is the twin of the wrap
loop and has the same actions, with its own table and stop height.

All pages of a pass come from one node. The code loads the client for every page
(`indexer.go:1059`, `:1134`): a swap between two pages to a node that is behind
shifts the list the other way and may pass over requests, which `NoHoles`
does not speak of. A pass ends after the first page with a request at or below the
stop height; the comment at `indexer.go:1121`, "Stops early only when an entire
page...", does not describe this.

### WebhookDispatcher and EventFeed

`Emit` (check of the flag, then the send), any number of `Stop` calls through
their `sync.Once`, and the worker: its select, the loop over the endpoints and the
retries of one delivery. Events are numbered as the queue accepts them; `posts`
counts the requests made for an event at an endpoint. Both branches of the select
are possible whenever both channels are ready, as in Go.

`EventFeed` is what an endpoint may rely on: it is sent accepted events that it
wants, in order, each at most `MaxRetries + 1` times. The dispatcher is shown to
implement it with `kind` and `posts` as they are; dropped events are simply not
accepted, and a stop is a feed that ends.

## Runs

| Run | Instance | Shows |
| --- | --- | --- |
| `sync` | 2 nodes, 3 heights (one with blocks), batches of 2, 2 connections, 1 fault, 1 crash, 1 `cmd/backfill` | `StaleSessionSignalled`, `PrimedBeforeProcessing`, `NoOtherLoss`, `StartupBackfillRepairs`, `CatchUpAppends` |
| `sync_live` | 2 nodes, 2 heights, 3 connections, 1 fault, 1 crash | `StaleSessionEnds`, `CatchUpReaches` |
| `sync_gap` | 1 node, no fault | a hole below `MAX(height)` without any failure (against `MaxIsReliableCursor`) |
| `sync_partial` | 1 node, 2 connections | a committed momentum without its blocks (against `StoredMomentumsComplete`) |
| `sync_reprocess` | 2 nodes, `cmd/backfill` | a height committed twice (against `CountersAddedOnce`) |
| `sync_events` | 1 node, 1 crash | a stored height whose events never fire (against `EventsAtLeastOnce`) |
| `watchdog` | 3 nodes on 2 chains, streaks of 2, 1 error | `StaysOnChain`, `FailbackEarned`, `FailsOver`, `FailsBack`, `ReadyzFollows` |
| `watchdog_chain` | the same, no error | a failover to another chain before one was recorded (against `NoCrossChain`) |
| `stream` | momentums: 2 connections of one subject, channels of 1, cap 1, replay of 2; closing and counting in one set of behaviours, frames of up to 5 heights in another; transactions: 3 heights, 4 blocks, 2 filters, channel of 2, replay of 2 | `ChannelsCloseOnce`, `CapExact`, `NoOrphans`, `GapFree`, `LaggedNoticed`, `TxExact`, `TxPanicsOnlyAhead` |
| `webhooks` | 3 endpoints (one with an invalid URL), 2 types, 3 events, queue of 2, 1 retry, 2 callers of `Stop` | `DeliveredOrExhausted`, `QuietAfterStop`, `FeedSpec` (refinement of `EventFeed`), `StopReturns` |
| `ledger` | 10 short chains, one story each (below), 2 to 4 commits, up to 2 refreshes, skipped blocks, answers of nodes behind or crashes | `InOrderExact`, `BooksBalance`, `PairedSymmetric`, `DelegationHistory`, `ClosedStaysClosed`, `BalancesCurrent`, `ReportMatchesHistory`, `PagesComplete` |
| `bridge` | 3 wraps with 2 faults, or 3 unwraps with 1, or 2 changes of the configuration with 2; pages of 2 requests and 1 network | `NoHoles`, `CleanPartRefreshes`, `Converges` |

What some of the properties say of the code:

- `InOrderExact`: processed in the order of the chain, with heights left out,
  blocks skipped and momentums repeated, stakes, fusions, HTLCs, votes and
  delegations are what the indexed blocks say. A backfilled height breaks the
  order, and then only `DelegationHistory` and `ClosedStaysClosed` are claimed. So does a
  momentum processed again with one of its blocks skipped this time (`Follows`): an
  earlier vote of that momentum is written over the later one (`Revising`). A call
  that names an entry before the block that creates it is left out (`Since`): the
  chain refuses it, the indexer's second pass over the momentum does not. A
  vote that names no project is not stored and not claimed.
- `BooksBalance`: counters equal the rows while no momentum is processed twice,
  and are never below them afterwards (`sync_reprocess` shows the cause). After a second time
  the cumulative table may have a key no reward has: the reward's source is
  looked up in tables that have changed meanwhile, its row stays as it is and the
  amount goes to the other type.
- `GapFree`: momentums committed between the two queries of a replay are not
  excepted; only those stored late and, when the cap applied, those already stored
  above it.
- `PairedSymmetric`: the upsert of a block overwrites its stored pair with what the node
  says (`account_block.go:81-84`). A send that is processed last, or again, through a node
  without the receive is left with no pair while the receive names it; the
  property says that this is the only disagreement, and that it ends when either of the two is
  processed again (`Unpaired`).
- `BalancesCurrent`: the balance upsert is unconditional too (`balance.go:34-42`), so
  the API shows the last reading committed, in the sense of "last observed" in
  docs/schema/balances.md. It is what the address holds as long as no
  momentum above the reading's frontier touches the address; a node
  that is behind may put an older reading over a newer one.
- In both cases nothing in the indexer comes back by itself: catch-up starts above
  `MAX(height)` and the start-up backfill looks for missing and incomplete momentums only. A pair
  stays blank until one of its momentums is processed again, a balance stays old
  until a momentum that touches the address is.
- `ReportMatchesHistory`, `PagesComplete`: statements with their own joins, and
  pages read one after the other, agree. A vote whose code is none of the three is
  in a pillar's history and in no list of the report; the property says that this
  is the only way an active pillar is in none of the lists.
- `NoHoles` needs `faults = 0`: a first synchronisation that is interrupted
  leaves a hole for good, since the next pass stops at the highest stored height
  or at the oldest open request. It also needs that no three requests of a list
  share a height: the pages of a pass may reach the first of them, with the
  others arriving meanwhile, and the next pass stops at the height of the
  third without having fetched the second. `CleanPartRefreshes` and `Converges` say what
  holds nevertheless. Both except requests that share a height with another: a page can cut
  between them, and the stop height is a height.
- `ReadyzFollows`: a node that stays bad turns the API's `/readyz` to 503 for
  good, one that stays well to 200. In between lies an indexer that only lags:
  its ticks leave the streak alone, so `/readyz` keeps the verdict it had,
  although `router.go:178` counts "consecutive non-"synced" ticks".
- `TxPanicsOnlyAhead`: a request that begins above everything stored gets a cursor at
  the height before, without a map. If a block of exactly that height is
  delivered then, `mark` writes to the nil map and the connection ends without a
  close code. The property shows that this is the only way there.

The five runs that end in a violation state what a document or a comment of the repository
says; `PROJECT.json` quotes each line under "findings". `NoOtherLoss` is the
other side of `sync_gap`: the holes the session leaves are the only ones, and
`StartupBackfillRepairs` says what closes them.

### Bounds

- Heights. Three are the least for which a batch of two is followed by another
  one, a hole has a neighbour on both sides, and a live momentum arrives above
  a gap. Nothing in the code depends on a height beyond order and successor.
- Connections. Two let one session be left stale; the liveness run has three, so
  that a session can be left stale twice.
- One fault, one crash, one tool run. Their order among each other and among all
  other steps is free; each recovery path is entered from every position.
- Three nodes. The failover loop passes over a node, and the failback loop has an
  earlier candidate it must reject (the pool mixes two chains).
- Queue of two with three events: it is full while the worker is busy, and an
  event is accepted behind another. One retry separates first, repeated and last attempt.
- Channels and cap of one, replay of two with five heights. Every limit is reached;
  replays begin at height 2 (0 asks for none), are cut by the cap or not, with momentums
  above and between their two queries. The two connections are interchangeable, hence the symmetry set; there is no
  liveness property in that run. A cap of one means that two connections meet
  when one is closing while the other registers, which is where the counts
  could drift; larger caps are covered by the theorem.

- Ledger worlds. `Delegating` (a pillar registers, a delegator moves to it),
  `Leaving` (undelegation and revocation), `Locking` (stakes and fusions),
  `Swapping` (two HTLCs, a sentinel), `Voting` (by name and by producer, changed,
  on a phase), `Revising` (two votes of one momentum, which is processed again with a
  block skipped), `Rewards` (a pillar's, a delegator's and the treasury's, and a swap claim), `Burning` (sums beyond
  a BIGINT column, here `MaxInt64` = 10), `Lagging` (a payment and its
  receipt, asked of nodes up to two momentums behind), `Reading` (a paging client). Handlers of
  different contracts touch different tables, so stories are separate chains;
  two to four commits allow late and repeated heights, and pages of one make every list
  longer than a page. A world has its bounds with it: commits, other events (skips, refreshes,
  failed reads, answers that are not of the tip) and how far a node may be behind:
  two momentums in `Lagging`, one in `Leaving` and `Burning`, none in the others. The run
  has 825 366 states. `BalanceLimit` = 6, so that three chains
  have a momentum too large for the balance update.
- Bridge. Three requests with pages of two: the list needs a second page, and a
  request that arrives meanwhile shifts it. Three versions of the configuration
  add and remove guardians, networks, tokens and challenges. The three parts of
  a pass share nothing but the loop, so a behaviour is busy with one of them.
- Transaction stream. A momentum with two blocks listed against the order of
  their hashes, one before and one after it; the replay's limit of two cuts it.

### Deadlock

`sync` and its kind stop when the chain has reached `MaxHeight` and nothing is
left to fail; `stream` and `webhooks` stop after a shutdown. These are real ends of the
instance, so deadlock checking is off there. `ledger` stops after its last
commit. The `watchdog` and `bridge` runs check it.

### Fairness

`MomentumSync`: weak fairness of the goroutines (`Sync`, `Live`, the start-up
backfill), of the SDK's automatic reconnection, of the pending signal, and of
`Startup` (the compose file restarts the container unless it was stopped).
Nothing is assumed of nodes, errors or operators. `Watchdog`: weak fairness of
the tick (a `time.Ticker` loop) and of `Startup`. `FailsOver` and `FailsBack` are
stated as "not stuck for ever in", so a node that flickers does not refute them. `WebhookDispatcher`: weak fairness of
the worker (every request ends, by its timeout at the latest) and of each call
of `Stop`; the choice of the select is not assumed fair. `BridgeSync`: weak
fairness of the pass (a `time.Ticker` loop whose calls end by their timeouts);
nothing is assumed of the node, and faults are finitely many.

## Proofs

All theorems hold for every value of the constants that satisfies the named
assumptions of the modules. `SyncAssumption`, `WatchdogAssumption`,
`StreamAssumption`, `DispatcherAssumption`, `LedgerAssumption`,
`CachedDataAssumption`, `PageSizeAssumption` and `MaxInt64Assumption` ask for
positive sizes and members of the right sets, nothing else. The others say what
the node vouches for: `TxAssumption` that blocks are finitely many and each is of
one momentum; `WorldsAssumption` that momentums list blocks by their hashes, each
block once, that amounts are natural numbers, that a send is received at most once and that a
contract receives what was sent to it; `ListsAssumption` that the columns lists are
sorted by are numbers; `BridgeAssumption` and `ConfigAssumption` that a
configuration lists a network once. The MC modules extend these, so TLC evaluates every
assumption on the chains of the runs.

`NatOrder` has least and greatest elements of sets of numbers. The library's
induction theorems with an operator as parameter are out of reach, but those about
well-founded relations are stated for sets, and give a least element.

`MomentumSync_proofs`. `IInv` is the conjunction of the type invariant, the
properties and four strengthenings: `LoopInv` ties the loop variables to `MAX(height)` at
each position (this makes `CatchUpAppends` follow: `process` is entered only with
`next - 1` on top); `LinkInv` keeps a subscription behind its node; `LossInv`
says that everything below what a session has dealt with is stored or given up
(without it a hole could appear when the next momentum is stored); `BackfillInv`
says that a list contains, until something fails, every height that needs work,
also while the other process writes. Theorems: `TypeCorrect`,
`StaleSessionsAreSignalled`, `AlwaysPrimed`, `OnlySessionsLose`,
`StartupBackfillIsComplete` and, as an action property, `CatchUpOnlyAppends`.

`Watchdog_proofs`. `IInv` adds `TickInv` (the tick's copies of index and chain
agree with the state until the tick publishes, and a candidate has passed
the chain test) and `StateInv` (client and state agree; the streak of a node before
the active one is exactly what failback probes have seen). Theorems: `TypeCorrect`,
`OneChain`, `FailbackIsEarned` and, as an action property, `EndpointsAgree`:
`ReadyInv` says that between its decision and its record a tick has the streak
it decided on, or none when it has swapped, so row and state give one verdict.

`Stream_proofs`, of `MomentumStream`: `RegistryInv` has `MutexInv` (who is inside `Subscribe`
and that the cap was checked), `CloseInv` (whoever sets the flag closes the
channel), `HubInv` (a hub that listens no more is not in state running, and has no
subscriber once they were closed; this needs the mutex, because a `Subscribe`
in progress must be waited for) and `LagInv`. Theorems: `NoDoubleClose`,
`SubjectCap`, `NoOrphanSubscribers`, `LagIsNoticed`. `FramesInv` follows the
frames of a live connection: until it loses an event, a stored momentum it is
still owed is above the last frame and on its way, in the channel or in transit,
with nothing greater before it. Between the two queries of a replay the same holds of everything
stored above its range that the cap did not leave out (`Owed`), which is what makes the step to the
live loop go through. Together
with `RegistryInv` it is inductive and gives `TypeCorrect` and `NoGap`.

Of `TransactionStream`: `IInv` adds `StartInv` (nothing is written and the
cursor is untouched before the live loop) and `CursorInv`: the cursor is at or
above every frame's height, has the hashes of all frames at its own height, and
is without a map only at height 0 or in a request that began above the tip.
With it, a block the cursor has not seen is neither written before nor below
what was written. The query's answers are shown to be ordered sequences of
blocks (`RowsType`), the rest is one lemma per step. Theorems:
`PanicsOnlyAhead` and `FramesOrdered`. `TxFramesInv` adds what is owed: a stored block
of the filter that was not written, stored late or left out by the caps is not below the cursor and is
in the queue with no greater height before it. Between the two queries of a
replay the same holds of everything stored above its end; without that conjunct
the step to the live loop could not be shown. Theorem: `Exact`, both halves of `TxExact`.

`WebhookDispatcher_proofs`. `IInv` has `QueueInv` (the queue holds exactly the
last events accepted, in order, and the worker the one before them), `PostInv`
(nothing has been posted beyond the worker's position, and at it as often as the
loop variable says), `StopInv` and `RoomInv`. `QueueInv` and `PostInv` are what
makes every request a `Post` of `EventFeed`. Theorems: `TypeCorrect`,
`DeliveryIsThorough`, `StopIsQuiet`, `Refinement`.

`Explorer_proofs`. First what each statement of `Repository` does to the tables,
then what the statements a handler queues do together (`Writes`), then a
transaction, a refresh and the cron jobs, which only combine them.
`ExplorerInv` is `ProcessInv` (positions and queue of `processMomentum`),
`RefreshInv` (the list being copied), `TablesInv` (`Fine` holds of the committed tables
and of the image a transaction builds, and the image reopens nothing of the
committed ones) and `PairsInv`: pairs agree in both images but for the sends left without one,
by the journal for the committed tables, by the journal and the executed part of the queue for the
image (`UnpairedBy`); a queued block has the right pair or none (`PairedRight`), and
a queue has every block once (`BatchOnce`), so the last word on a send is well defined. The image needs its own conjuncts because
the property is about commits and every step before them only changes `stage`.
Theorems: `Reachable`, `TypeCorrect`, `DelegationsConsistent`, `PairsSymmetric`
and, as an action property, `NeverReopened`.

- `BalancesAreCurrent`: `BalancesInv` says that a queued reading is what the address held
  at the frontier it was made at (`ReadRight`), and that the rows of an address are those of the last
  reading in the journal (`JournalShown`) or, in the image, in the executed part of the
  queue (`BatchShown`), for an address not read there in the journal (`Unread`). Nothing is
  assumed of the order of frontiers. That the holdings do not change while
  no momentum touches the address (`SameHoldings`) is used at the end only.
- `PagesAreComplete`: `ListNumbers` and `TableNumbers` say that columns lists are sorted
  by are numbers and that tables are finite. `WalkInv` says of a momentum that the paging
  client is due and has not seen that at least as many rows are ahead of it as were on
  the pages read: rows stored late only push it back, and momentums are never
  dropped. It has fewer rows ahead than the total, so the client cannot stop before it.
- `ReportsAgree`: stated for tables with `PillarsDistinct`: names are unique, active pillars have
  different producers, no owner is the empty address. The chain guarantees this
  (docs/schema/pillars.md), the tables do not: their key is the owner, and a `Revoke` of
  a pillar that is not stored inserts a row with the name the call gives.
  TLC finds `PillarsDistinct` true in all states of the `ledger` run.

`Exactness_proofs` goes on with the tables.

- `InOrderIsExact`: the property speaks of the committed tables between two
  momentums; `OrderInv` says the same of the image while a transaction works
  through its blocks. `TablesSay(d, xs, P)` says what the rows of `d` are after the
  calls `xs`, with the calls `P` still to come. A momentum processed again first takes
  its tables back: its first vote overwrites its last one, so half-way a row is what the last
  call says among those not yet to be repeated (`Decides`, `Due`). Since the
  second pass repeats every call of the first, nothing is due at the
  end, and the last call of all decides. Without `P` the invariant is false, and
  without the hypothesis that a repetition is complete the property is
  (`Revising`). The five tables are independent: one
  lemma per statement and table, then one per contract (`Only` names the tables a
  contract may write), then the step of a block.
- `BooksAreBalanced`: `BooksInv` says that every stored block is of a committed
  momentum, so a momentum processed for the first time only adds rows, each with its count
  and its amount, and the counters stay equal (`BooksEqual`); any other adds to
  the counters what it may not add to the rows, and they stay above (`BooksCover`). The
  transaction's image has the same conjuncts. That a sum over a set grows by
  the amount of a new member needs an induction over the set's size; it is obtained from a
  least counterexample (`NatOrder`), with the sum as a fold whose defining equation is a fact
  about a function and not about an operator.

`BridgeSync_proofs`. `NodeInv` says that the node's lists are ordered and only grow
at their new end (`Grown`); `StoredInv` that a table holds requests of the node
under their ids; `PassInv`, `FetchInv` and `RowsInv` where a pass is. Since lists grow at the
new end, a page begins at or above the place where the one before it ended, so what a
pass has covered is an interval down to `Floor`. From this: `HolesInv` (if nothing
failed, nothing above the floor is missing below something stored, and everything up to
the stop height was stored before), `FreshInv` (everything above the floor is stored and as final as the node had it
when the part began), and `ConfigInv` with `TablesInv` and `KeepInv` (rows written
so far, and what the sweeps may remove). Theorems: `TypeCorrect`, `ListsWithoutHoles` and, as
an action property, `CleanPartsRefresh`. The proof of `ListsWithoutHoles` failed
while `NoHoles` did not mention three requests of one height; TLC confirms the
hole with pages of one request and five requests, three of them of one height, which the
bounds of the run do not reach.

Only model-checked:

- `StaleSessionEnds`, `CatchUpReaches`, `FailsOver`, `FailsBack`, `ReadyzFollows`,
  `StopReturns`, `Converges`: liveness under fairness is outside the prover's reach.

`ReportMatchesHistory` is proved under `PillarsDistinct`, and model-checked without.

## Abstractions

- The connection of the process does not change during the start-up backfill,
  before the watchdog runs, except that calls may fail.
- The chain has no forks: the code stores whatever height a node serves and has
  no handling of reorganisations.
- Retries within one call (`withRetry`) are one call that succeeds or fails.
- A WebSocket client is a connection that may go away at any step; ping and
  write timeouts are such departures.
- One momentum is processed at a time, and one refresh pass runs at a time. A single
  statement of another writer comes before or after the executing transaction. The momentums of
  a `cmd/backfill` beside the session come in between in any order, with answers as old
  as any node's; its own database look-ups are not older than its predecessor's commit.
- A momentum's timestamp is its height; both grow together.
- Columns no property tells apart (data, public keys, signatures, URLs,
  descriptions) are left out of the rows.
- A queue entry is the statements of one block; within a transaction nobody else
  sees the difference.

## Not modelled

- The generated OpenAPI server, the DTOs' field-by-field copies, JSON and logging.
- The unfiltered list of account blocks: its total is the planner's estimate.
- `snapshotBridgeStats`: four sums over one day of the bridge tables.
- MCP tools and authentication: stateless queries and library calls.
- Configuration, connection pool, migrations: start-up I/O; the schema appears
  through keys and defaults of the tables.
- The scripts: operator tools run once.
- The database ping and the schema version in front of the readiness verdict.

## Plan

1. Done: all modules, their runs, and the proofs above.
2. Every safety property of the passing runs is proved, `ReportMatchesHistory` under
   `PillarsDistinct`. That hypothesis is not an invariant of the code for every chain the
   node may serve: a refresh writes one row at a time, so two pillars that
   exchange a producer share it in between, and a `Revoke` inserts a row with the
   name its call gives. It would follow from assumptions on the history of the
   names and producers, which nothing in this repository states.
3. Left to model, if the code grows in that direction: the MCP tools' queries and
   `snapshotBridgeStats`.
