# A verification project for explorer-v2-backend

The repository is the backend of the Harmony explorer.  An indexer follows the
shards of the chain through RPC nodes and stores blocks, transactions, logs and
tokens in one PostgreSQL database per shard; an API serves what is stored.  What
has to be right is the indexer: it runs for months, several loops at a time, over
nodes that lag and fail and a database that may be lost in the middle of a batch,
and it keeps no journal but one number per loop.  Every loop relies on its number,
the pointer, to say that everything below it has been dealt with.  This project
states what the pointers really promise, checks it on small instances with TLC,
and proves all of it but liveness for every instance with TLAPS.

Paths below are relative to `src/src/`.

## 1. The system

### Components, their state and their operations

| Component | State | Operations | Module |
|---|---|---|---|
| Block indexer (`indexer/indexer/BlockIndexer.ts`) | tables blocks, transactions, staking_transactions, internal_transactions, contracts; pointer `blocks`; in memory: batchCount, the block it was created for, the batch at hand | `loop`: read the pointer, ask for the height, ask for up to batchCount ranges and their traces, insert in five stages, set the pointer, sleep or go on | BlockSync, BatchSize |
| Log indexer (`LogIndexer.ts`) | table logs; pointer `logs`; batchCount | `loop`: as above, one stage, each range stored as soon as it is answered | LogSync, BatchSize |
| Contract indexer (`contracts/ContractIndexer.ts`, one per type of token) | tables erc20, erc721, erc1155 and their holdings, `need_update` marks; pointer `<type>_contracts`; the cached list of contracts, the tokens whose totals are due | `loop`: register contracts of a range, mark the holdings its transfers touch, update what is marked, count totals, set the pointer | ContractSync |
| Pointers (`store/postgres/Indexer.ts`, table indexer_state) | one number per loop, the chain id | read, set | part of each of the above |
| Removal of old internal transactions (`store/postgres/index.ts`) | a timer | read the block pointer, delete, sleep a day | Retention |
| Daily metrics (`indexer/metrics/stats.ts`, `store/postgres/Metrics.ts`) | tables metrics_daily, metrics_top | a round of daily series every four hours; exchange of the top lists in a transaction | DailyStats (the round), TopStats (the exchange) |
| Query layer and pool (`store/postgres/index.ts`) | connections, waiting queries | run a query, retry it once | TopStats (pool, retry) |
| Repair of missing blocks (`cli/fixMissingBlocks.ts`) | none | find missing blocks, run a block loop on each | BlockSync (FixMissing) |
| Repair of internal transactions (`cli/fixMissingInternal.ts`) | per shard: the batch | blocks and traces of a batch, insertion of what the indexer left out | MissingInternal |
| Migration of contract events (`cli/migrateContractEvents.ts`) | maps of the tokens, the batch | read logs, parse them per type and event, insert chunks, exit on a failure | EventMigration |
| Reindexing by the administrator (`api/controllers/admin.ts`) | none | run a block loop and a log loop on one block | BlockSync, LogSync (Reindex) |
| Start (`indexer/index.ts`) | none | compare chain ids, start the loops | restarts in the modules above |
| RPC client and transports (`indexer/rpc/`) | statistics per url; WebSocket connections | choose a url, send, time out, try again | RpcCalls; for the loops, an answer of some node or a failure |
| API cache (`api/controllers/cache/`) | an LRU of answers with a maxAge each | look up, ask, store, prune, warm up before the servers start | ApiCache |
| API controllers, REST routes, validators (`api/controllers/`, `api/rest/`, `utils/validators/`) | none | turn parameters into a query, validate, put the key together | ApiCache (the tables of methods and routes) |
| Prices (`api/controllers/price.ts`) | none of their own | three cached questions to other services | ApiCache (the cache before them) |
| One-wallet metrics, transfers monitor, info server, address relations, token iteration, signatures, gRPC and WebSocket servers, configuration, logging | see section 8 | | not modelled |

### How they interact

* Loops do not call one another.  They share the tables and the pointers: the
  contract indexer stays 30 blocks below the lower of the block and the log
  pointer, the removal task reads the block pointer and deletes what the block
  indexer inserted, repair loops insert beside the service's loop.
* Every query of one process and shard goes through one pool of connections.  The
  API has pools of its own and only reads, apart from `reindexBlock`.
* Every question to the API goes through one cache, whose keys are put together from
  a name and the arguments; several methods share a name.
* The scripts are started by hand, beside the service or without it, and started
  again when they end too early.
* Every call of a loop may be answered by any url of its shard.  Nodes are at
  different heights, so two consecutive calls may see different chains' ends.

### What is hard

* A batch is dozens of promises under `Promise.all`; the first rejection ends the
  batch while the others go on.  Their insertions land during the retry.
* Nothing encloses a batch in a transaction.  A crash leaves any part of it.
* The height and the data come from different nodes.  A short answer is not an
  error, and a missing trace is not one either (over WebSocket; over HTTP the
  transport turns a null answer into a failed request, `http/fetch.ts:83-89`).
* `extraMark` of a transaction is computed from the trace at hand and never
  corrected, since rows are inserted `on conflict do nothing`.
* `processExactBlock` is tested for truth, so block 0 does not count as one.
* Balances are read as of the height of the node, not of the block at hand.
* The contract indexer has no catch clause; the handler of unhandled rejections
  keeps the process alive without it.
* BEGIN and COMMIT are sent to a pool.
* A url is chosen by numbers that are counted up in one place and down in another, on
  each of the ways an attempt can end.
* Requests for one key overlap: both miss, both ask, both store, in any order.
* The scripts keep no record of how far they came; an error leaves part of a batch.

`PROJECT.json` lists the hazards one by one with the line each bites at and the
properties that would catch it.

### What makes each part correct

* Block indexer: everything up to the pointer is stored in all five tables, or the
  answer of a node did not hold it; parents are inserted before children; the
  pointer does not go back; the end of the chain is reached; with one node nothing
  is missed; what was missed can be repaired.
* Log indexer: the same, with the gap that its code leaves after a full batch; and
  its pointer does go back, but only to a height a node reported.
* Contract indexer: every holding below the pointer is stored as of its last
  transfer or later; every token is registered or refused to answer; totals follow.
* Removal: it changes nothing the block indexer relies on.
* Top lists: a list is exchanged whole; nobody else's rows are lost with it.
* Daily series: each day of the window gets one value of each kind, the days an
  earlier round left out included.
* RPC calls: the load a url is chosen by is its load; no call gives up on the shard
  while one of its nodes has answered everything; every call ends.
* API cache: an answer is of the question asked and no older than its maxAge allows;
  "not found" is never remembered.
* Scripts: a run that went to its end has done all it was there for.

## 2. Modules

| Module | What it is |
|---|---|
| `BatchSize` | `increaseBatchCount` and `decreaseBatchCount`, the rounding of JavaScript's products included |
| `BlockSync` | the block indexer: the service's loop and loops on one block |
| `LogSync` | the log indexer, in the same shape |
| `Retention` | BlockSync and the removal task, EXTENDS BlockSync and states that it implements it |
| `ContractSync` | the contract indexer of one type behind the other two |
| `TopStats` | the exchange of the top lists, other tasks, and the pool between them |
| `RpcCalls` | the choice of a url, its statistics, attempts over HTTP, connections of WebSocket |
| `ApiCache` | routes, validators, keys and the cache |
| `EventMigration`, `MissingInternal` | the two scripts that fill tables |
| `DailyStats` | the round of the daily series |
| `SideJobs` | the last four in one specification, one of them at work in each behaviour |
| `MC*` | the values the runs give to constants that are not plain numbers: small chains, queries, logs |
| `LoopFacts` | theorems about the batch counts and about the least and greatest of a set of numbers, for all loops |
| `*_proofs` | the theorems of the module of that name |

`Retention` EXTENDS BlockSync and implements it; BlockSync and LogSync EXTEND `BatchSize`.
The last four share nothing a step of one could disturb in another, which is why
`SideJobs` INSTANCEs them as alternatives: it spares four runs, it is no composition.
It declares the constants of all four with their assumptions; `MCSideJobs` gives them values.

### Correspondence

`PROJECT.json` maps every definition to its lines.  In general an action is the code
from one `await` to the next.  The modules keep every branch, every early return and
every failure and abstract the data:

* **BlockSync.**  `rows[t]` is the set of blocks whose rows table t holds; a write
  `<<t, b>>` is the insertion of all of block b's rows into t.  `pc` is the stage a
  loop is in, `pend` the ranges whose answer is awaited, `todo` the insertions of the
  stage that have not settled, `late` those of failed batches that are still under
  way.  ReadPointer (lines 74-84), GetLatest (85-109), AnswerRange (111-128),
  TraceBlocks, Write and Advance (the five stages), FinishExact, Commit (the
  pointer), Fail (the catch clause: smaller batch, sleep, again).  `marked` is the
  `extraMark`.  A node answers a range with those of its blocks it has; a lagging
  node answers a short list.  `Crash` loses the memory of the process and lets any
  part of the insertions under way land.  The foreign keys are guards on Write
  (a violation is an error of the query, hence of the batch).  The rows of one block in one
  table are one write: where the code inserts them in several queries and one of them fails,
  some of them may land in the code and none does here (`Abandoned`); either way the block
  does not count as stored, and the batch is done again.
* **LogSync.**  The same with one table; each answer is written at once.
  `missed` and `unasked` are history: blocks the pointer passed with an answer of a
  node that lacks them, and blocks that were in no range.
* **ContractSync.**  A holding is a token, an id and an owner; `asOf` is the height
  as of which its value was answered.  `indexed` is the lower of the two pointers it
  reads and may fall back, as the log pointer does.  AddContract and
  RefuseContract, RefreshCache, Mark, Update, KeepMetadata and GiveUp, UpdateToken,
  Commit, Die and Restart.  erc1155 totals are never written and TransferBatch is
  never parsed, in the code as in the module.  `Transfers` are the logs that decode, since the
  others are skipped, and one from the zero address to itself touches no holding.  Where the block pointer is still 0
  the code falls back to the configured height, and there is nothing to do either way.
* **Retention.**  ReadLatest, Delete, Wake, TaskFails.  The code starts the task
  from the first query of the process, which waits for the first deletion; the
  module lets both run side by side, which is more than the code does.
* **TopStats.**  A task sends a query, which takes a connection (Acquire: the one
  that became idle last, else a new one, else the task waits), takes effect on it
  (Answer) and gives it back.  A query that fails closes its connection and is sent
  again once.  PostgreSQL and the pool are external and modelled as used: what an
  open transaction has not committed is kept per connection, row locks make a query
  wait (Blocked), the unique key of metrics_top makes an insertion fail (KeyExists).
  A list whose selection finds no row is not exchanged (`NothingToStore`).
  The other tasks are loops of two writes, rows first and then the pointer.
* **RpcCalls.**  `transport` is the configured one; `responseTime`, `failedRequests`
  and `queriesCount` are the fields of RPCUrls, `pc`, `url` and `left` of each
  call its stage, its url and the attempts it has.  HttpStart, HttpAnswer, HttpRefuse
  (an error of the node: no retry), HttpFail (time limit, broken connection, falsy
  answer: retried at a url chosen anew).  WsStart, WsWake, WsAnswer, WsFail: a call
  stays at its url, and `queriesCount` drifts there, since an answered call never
  reports.  OnOpen, OnClose, OnError are the handlers of the connection.  Times are
  whole milliseconds.  As in the code, a url that failed stays behind for good: each
  failure counts for ten milliseconds and nothing ever takes it back.
* **ApiCache.**  Each controller is a record with a row per method, as the source has it: the
  validator of each parameter, the name in the key, whether the shard is in it, and
  maxAge.  `Method` finds the row of a name; `Routes` are the queries REST clients can make.
  A parameter is a kind and a name; the database is a version that the indexer moves on, 0 being
  nothing found.  Each version is one more thing found, in a block of its own.
  A request looks up (Hit, Miss), asks (Read, the snapshot) and stores (Fill) what is
  not empty.  Two handlers go on after their first answer (`GoesOn`, `Then`): `ethGetLogs` first
  asks for the latest block (`Latest`), which may come from the cache, and finds no log above it
  (`Found`, `UpTo`), so its logs are as old as that is (`DataOf`); and a hash that
  is not found in one column is looked for in the other; of the two hashes of a
  transaction, "h" and "g", each is in one column only (`OtherKind`).  Evict stands
  for the LRU's limit and for prune, Tick for the clock.
* **EventMigration.**  LoadMap (three queries, one after the other), GetLogs, WriteChunk,
  Error, Again; a contract indexer may register tokens meanwhile (Register).  `unwritten` has
  the rows each parse of the batch has yet to insert; a chunk is any of them, of the size
  the code cuts, since their order is that of the logs.  `Wanted` are the events there are, by
  signature, type and token, however they are looked for; `PassedOver` are those the script does not see:
  of tokens with an empty symbol, because its maps hold the symbols and are asked for a true
  value, and logs whose decoding throws, because the catch clause is empty.  The
  process ends with code 1 after a whole run, too; `completed` tells the two apart.
* **MissingInternal.**  One loop per configured shard, all of which work on shard 0's
  blocks, as the code does.  Check, GetBlocks (a lagging node answers less), GetTraces,
  WriteChunk, WriteFails (any part of the chunk is stored), RequestFails, NextBatch, Again.  The last block, BLOCK_TO, is
  not part of the range; `QuietBlocksFilled` says so.
* **DailyStats.**  Wake, Count (the select of one kind), Insert, Error; Midnight moves the
  window under a round.  A value counted before all rows of its day had come is
  never corrected.

## 3. Runs

Run one with `tlc -workers 2 -config X.cfg M`.  States are distinct states.

| Run | Instance | Shows |
|---|---|---|
| `block_sync` | 2 nodes, chain to block 3, ranges of 2, counts 1..3, one failure or crash; 0.74 M states, with fairness | TypeOK, ParentsFirst, PrefixCovered, PointerStored, HeadReached |
| `block_repair` | the script beside the service, 2 nodes, chain to 2, one failure or crash; 0.16 M states, with fairness | IndInv, PointerMonotone, GapsRepaired |
| `log_sync` | 2 nodes, chain to block 3, first block 2, a second loop on block 2 or one failure or crash; 0.25 M states, with fairness | TypeOK, LogsCovered, SkipsOneBlock, BackOnlyWithTheNode, HeadReached |
| `retention` | one node, the removal task, a loop on block 0 or 1, one failure or crash; 1.26 M states | RTypeOK, IndexerUndisturbed, BatchKept, and SingleNodeGapless and MarkedWithTrace of BlockSync |
| `contract_sync` | 2 tokens, 2 owners, chain to 4, threshold and lag 1, one failure, crash or step back; every type; 0.12 M states, with fairness | TypeOK, HoldingsFresh, TokensRegistered, MarkedAreRegistered, TotalsFollow, CatchesUp |
| `top_stats` | 2 loops and the top lists, 2 connections, one of which may be lost; 0.51 M states, with fairness | TypeOK, UpdateWhole, NoneLeftOpen, RowsBelowPointer, PointersAdvance |
| `rpc_calls` | one or two urls, 3 calls, either transport, answers after 0.1 s or 4 s, 2 broken connections, any number of failed attempts; 1.0 M states, with fairness | TypeOK, LoadExact, EveryUrlTried, CallsEnd |
| `side_jobs` | one job per behaviour: 2 requests, a clock to 4 s, one write; a migration over 3 blocks in batches of 2 with one error; a repair of 4 blocks by 2 loops with one error; 4 days of 2 series with one error; 1.87 M states up to a renaming of requests | TypeOK, RightAnswer, BoundedStaleness, NotFoundIsFresh, EventsMigrated, QuietBlocksFilled, DaysCounted |
| `log_gap` | one node, no failure | violates ProcessedIsStored |
| `retention_window` | one node, no failure | violates SevenDaysKept |
| `retention_daily` | fairness, one failing query | violates RemovedEveryDay |
| `top_stats_empty` | one loop, no fault | violates TopAlwaysThere |

### The bounds, and why they are enough

* **Chain.**  Two batches of at least two ranges fit into the chains, so a batch that
  ends in the middle of a range, a full batch, a batch cut short by the height, and a
  batch after a failed one all occur.  `Content` gives some blocks rows in all
  tables and others in few, so an omitted stage is noticed.
* **Batch count.**  The count starts above the ceiling in the block runs (as
  `mainnet.env.example` does), shrinks on failure and grows to 2.  The rounding of
  larger counts is proved, not enumerated (`LoopFacts`).
* **Nodes.**  Two nodes at independent heights give every disagreement between the
  height and an answer, and between two answers.
* **Faults.**  One failure or crash at any await, with any number of its
  insertions still under way, is followed by undisturbed retries; more faults
  are covered by the proofs, which have no bound.
* **Loops.**  One second loop suffices for every pair of steps.  `block_sync` has none:
  `block_repair` has the script's loops, and `retention` one of the administrator's, on
  block 0 too; `PrefixCovered` with such loops is left to its theorem.  In `log_sync` the second
  loop and the fault occur in different behaviours (`MCNext`); together, and with a
  loop on block 0, they are covered by the proofs, and for the block indexer by `retention`.
* **TopStats.**  Two connections are the least that make a transaction miss its
  connection, and three tasks on two connections make one wait.  Two updates are
  needed for a list that is exchanged.
* **RpcCalls.**  Three calls at two urls make the load prefer the slower one, and one call
  alone can spend its five attempts; two faults break the connection twice.  The two
  times are a fast and a slow answer.
* **ApiCache.**  The queries are chosen from the tables (`SharedNames` and `Alone` of MCSideJobs):
  every two methods that share a name in their keys, with the arguments that come
  nearest to one another, two queries of one method that differ in one argument, and
  one query of each kind of handler.  The clock passes the shortest maxAge values (1 s,
  2 s); a longer maxAge is never exceeded in 4 s, but its entry is stored and found.  The
  doubled bound of eth_getLogs is 6 s and so beyond the clock; for it `BoundedStaleness` rests on
  its theorem, `StalenessIsBounded`.
* **Scripts and series.**  A last batch that is not full, a batch without logs, chunks of
  one row, blocks of each kind before one whose trace is looked for; a window of two
  days in four, so that a day leaves it.
* **CHECK_DEADLOCK FALSE** stands in the TopStats configurations, where the bounds end
  every task and a query that waits for a row lock of an abandoned transaction waits for
  good, in PostgreSQL as here; in RpcCalls.cfg, since each call is made once and ends;
  and in SideJobs.cfg, since scripts end and the clock has a bound.  Elsewhere the
  loops sleep and try again, so a deadlock would be an error and is looked for.

### Fairness

`FairSpec` has weak fairness of each loop's next step (JavaScript's event loop runs
every continuation that is ready, every await is answered or rejected: HTTP calls time
out, loops come back after a sleep) and of each node's growth (nodes follow the
chain).  It has none of failures, crashes, late insertions, requests of the
administrator, or the restart of a process, and none is strong except in
`RepairSpec`: the operator runs the script again for each block other than 0 as long as it is
missing, which is the premise of the claim.  (Block 0 is left to the service.  `loop()` on it
resolves after its first batch, so the script goes on to its next ten blocks, but the loop it
started sets a timer for the next batch and never ends; in the model it would keep one of
the `Workers` for good.)  In TopStats, weak fairness of sending and answering:
a blocked answer is not enabled, so waiting for a lock is never fair by assumption.
ContractSync's `CatchesUp` has to allow for a dead loop, because nothing in the
code starts it again.  RpcCalls has weak fairness of each call's step (timers end every
attempt) and of a closed connection opening (`max_reconnects: 0`, without an end); it
has none of starting a call.  The four side jobs have safety properties only.

## 4. Properties worth knowing

* `PrefixCovered`: below the block pointer each block is stored with all of its rows,
  or its absence from an answer was recorded by the history variables `skipped` and
  `untraced`.  It holds with any number of loops side by side, including a loop
  on block 0 that moves the pointer back.
* `PointerStored`: the block the pointer names is complete; the pointer is set to the
  highest block *answered*, not to the height.
* `ParentsFirst`: no insertion, not even one of an abandoned batch, is sent before
  the rows its foreign keys name.
* `SingleNodeGapless`, `MarkedWithTrace`: with one node nothing is missed.  So every
  gap in the tables is the work of nodes that disagree.
* `GapsRepaired`: the script closes them, although the first run of it may be
  answered by a node that lags again and report success.
* `HoldingsFresh`: `blocksThreshold` is what makes a lagging node harmless.  The
  constant `MaxLag <= Threshold` is the assumption; with a node that lags further
  the property fails.
* `TotalsFollow`: totals can only be left behind by a crash between holdings and
  totals.  `unfinished` names those tokens.
* What ContractSync loses it names and does not rule out, because nothing in the code does: a
  token whose call was refused at registration (`refused`, excepted by `TokensRegistered`), an
  erc721 asset whose call failed (`givenUp`, excepted by `HoldingsFresh`), a loop an await
  has ended (`dead`, excepted by `CatchesUp`).
* `IndexerUndisturbed`: Retention implements BlockSync under the mapping that puts the
  deleted rows back, so every property of BlockSync carries over.
* `RowsBelowPointer`: the rows another indexer inserts while a top list is exchanged
  may become part of its transaction, and be rolled back with it, while the pointer
  (on another connection) stays: this is the only way a loop's rows are lost.
* `LoadExact`: over HTTP the count by which urls are compared is exact on all five paths
  an attempt can take.  It is not over WebSocket, where nothing reports a success.
* `EveryUrlTried`: five attempts at a dead node are never all a call gets while another
  node answers.  It rests on numbers: a failed attempt puts the mean time of the
  url above 5 s and counts 10 ms more, so a node whose answers take less than about half
  the time limit is preferred from then on (`AnswersQuick`).  With answers of 9 s it does
  not hold; nor with three urls (`mainnet.env.example` lists two at most): answers to other
  calls bring the mean times of two urls that fail down again, and the third is passed over.
* `CallsEnd`: over WebSocket it is the timer beside the request that ends what was sent
  over a connection that closed; without it (`WsFailUntimed`) a loop would stop for good.
* `RightAnswer`: `getUserERC20Balances` is stored under the name of `getAllERC20`,
  `getERC20TransferInfo` under that of `getERC20TokenHolders`, and others likewise; the
  number of arguments and the validators keep them apart for the REST routes.
* `BoundedStaleness`: also when the older of two overlapping answers is stored last.
* `NotFoundIsFresh`: a client that polls for its transaction finds it as soon as it is
  there, since nothing empty is kept and the two columns are asked one after the other.  It does
  not hold of eth_getLogs, whose range ends at a latest block that is cached for 2 s: a log of a
  block stored since then is not found.  The property says how long that may last.
* `EventsMigrated`: a whole run leaves out the events of tokens without a symbol and of logs that do not
  decode, and nothing else; `PassedOver` is part of the property and not of what is wanted.
* `EventsMigrated`, `QuietBlocksFilled` and `DaysCounted` say what a run, a loop or a round that went to
  its end has done, whatever the ones before it left behind.

## 5. Findings

* `log_gap`, `LogIndexer.ts:105`: the end of a full batch is one more than the end of
  its last range.  After every full batch one block's logs are never requested.
  `SkipsOneBlock` says it is never more than one.
* `retention_window`, `store/postgres/index.ts:186`: the cutoff that is logged is not
  the one passed on, and everything below the pointer is deleted.
* `retention_daily`, `store/postgres/index.ts:187`: one failed query ends the daily task.
* `top_stats_empty`, `store/postgres/Metrics.ts:306`: the transaction is not one; the
  list is empty for readers between the deletion and the insertion when another
  query takes the connection of the BEGIN.

Two more places where the code does less than one would expect have no run of their own; the
properties named here except them explicitly, and fail without the exception:

* `api/controllers/log.ts:112-137`: the range of eth_getLogs up to "latest" ends at a number cached for
  2 s, so a log that was stored before the request may be answered with `[]`
  (the exception of `NotFoundIsFresh`).
* `cli/migrateContractEvents.ts:75,279`: the maps keep the symbol of each address and `!!erc20Map[l.address]`
  asks whether it is true, so the events of a token whose symbol is the empty string are not
  migrated; the header (lines 4-8) speaks of "all erc20, 721, 1155 contract addresses"
  (the exception of `EventsMigrated`).

## 6. Proofs

Every invariant and every action property of the passing runs is proved with TLAPS for all
values of the constants; what is left to TLC is liveness (end of this section).  The proofs
rest on the named assumptions of the modules and on nothing else: `MaxBatchCountAssumption`,
`BlockSyncAssumption`, `LogSyncAssumption`, `ContractSyncAssumption`, `RetentionAssumption`,
`TopStatsAssumption`, those of RpcCalls (`UrlsAssumption`, `CallsAssumption`, `OkTimesAssumption`,
`MaxFaultsAssumption`) and of SideJobs (`ApiAssumption`, `ScriptAssumption`, `MigrationAssumption`,
`InternalAssumption`, `StatsAssumption`).  Most of it is types of constants, sets that are not empty
and what the chain is like (a block with internal transactions has transactions).  Two
assumptions say more: `MaxLag <= Threshold` of ContractSync, and `OkTimes \subseteq
0..FetchTimeout` of RpcCalls, since an answer that takes longer is a failure.  TLC evaluates
all of them in the runs.  The runs `block_repair` and `log_sync` restrict the steps of their
module, so what is proved of all steps holds of theirs.

| Module | Theorems |
|---|---|
| `LoopFacts` | `BatchCountsClosed`, `BatchCountsMove` |
| `BlockSync_proofs` | `BlockSyncTypes`, `IndInvHolds`, `PrefixIsCovered`, `PointerIsStored`, `ParentsComeFirst`, `PointerIsMonotone`, `SingleNodeIsGapless`, `MarkedWithTraceHolds` |
| `LogSync_proofs` | `LogSyncTypes`, `LogsAreCovered`, `OneBlockSkipped`, `PointerBackOnlyWithTheNode` |
| `ContractSync_proofs` | `ContractSyncTypes`, `HoldingsAreFresh`, `TokensAreRegistered`, `MarksHaveTokens`, `TotalsFollowHoldings` |
| `Retention_proofs` | `RetentionTypes`, `RemovalRefines`, `BatchIsKept`, `CoveredBesideRemoval`, `GaplessBesideRemoval`, `MarkedBesideRemoval`, `MonotoneBesideRemoval` |
| `TopStats_proofs` | `TopStatsTypes`, `UpdateInvHolds`, `NoTransactionLeftOpen`, `UpdateIsWhole`, `RowsAreBelowPointer` |
| `RpcCalls_proofs` | `RpcCallsTypes`, `LoadIsExact`, `EveryUrlIsTried` |
| `SideJobs_proofs` | `SideJobsTypes`, `AnswersAreRight`, `StalenessIsBounded`, `NotFoundIsNotCached`, `EventsAreMigrated`, `QuietBlocksAreFilled`, `DaysAreCounted` |

**BlockSync.**  `PrefixCovered` is not inductive: when the pointer moves, nothing in
it says that the blocks of the batch were stored.  `IndInv` adds, for each loop, what
its stage says of the batch: `Served`, the rows of every answered block are stored,
or in `todo`, or in a table a later stage writes; `TodoPlanned`, what is in `todo` was
planned for an answered block whose parents are there; `GotAbove`, no answer lies
below the batch; `BelowStart`, everything below the batch is covered wherever the
pointer has gone since.  `PointerOrder` relates the batch of the service's loop to the
pointer as long as no loop was started on block 0, and yields `PointerMonotone`.
Parents of late writes stay because no action removes rows.  At Commit all tables are
written, hence each block of the batch is complete or was in no answer, which is
what `skipped` and `untraced` record.

With one node n, `OneNodeInv` adds what each loop knows of it.  The height a loop read is
one n still has (`HeadsGrow`), so a range is answered whole (`AnswerRangeKnows`) and a
block of the batch is answered or lies in a range that is awaited; `RangeOf` finds that
range by arithmetic, as the first one that ends above the block.  At Commit no range is
awaited and every block up to the highest answer lay in one, hence nothing is skipped
(`OneNodePassesNothing`).  Traces are complete for the same reason, and `MarksKept` carries
them to the marks: transactions are inserted one block after another, so a failed batch
leaves none on its way (`OneNodePlans`), and those a crash lands were traced.

**LogSync.**  The same with one stage.  `EverythingAsked` shows by arithmetic alone that
the ranges of a batch contain every block from its start to `SyncedTo`, except
`SyncedTo` itself after a full batch; both `LogsCovered` and `SkipsOneBlock` rest on it.

**ContractSync.**  An update stores a value as of a height h of the node, and h is at
least `tip - MaxLag`, hence `tip - Threshold`, hence the end of the batch (`BatchBelowTip`), hence
the block of any transfer in it (`AnswerReflects`).  `BatchHoldings` follows each
holding through the stages: still to mark, marked, or stored.  For tokens that are
registered in this batch nothing below the pointer is owed, because their first
transfer is not before their deployment.  The cached list of contracts is only
refreshed when its length differs; `Known` keeps it a subset of the registered ones,
and a subset of equal cardinality is the whole set (`CacheIsRegistered`).

**Retention.**  The removal implements the block indexer under the mapping that puts the
deleted rows back (`RowsEver`).  A deletion leaves `RowsEver` as it is (`DeleteRefined`); an
insertion commutes with it (`WriteRefined`, `LandLateRefined`, `CrashRefined`); and what the
indexer reads of the tables is never about internal transactions: they are
nobody's parents (`SameParents`) and no block is missing for lack of them (`SameMissing`).
The theorems of BlockSync are then instantiated under that mapping (`Facts`) and read for the
rows that are really there: `CoveredBesideRemoval` has one exception more than `PrefixCovered`, the
rows that were deleted; gaps, marks and the pointer are as without the task.
`BatchKept` is about the rows that are there, and no mapping helps.  Its invariant `KeptInv` keeps
the parts of `IndInv` that speak of one batch and adds that the cutoff, once read, is not above
the pointer, hence below the batch (`PointerOrder`).  Both hold until a loop on block 0
takes the pointer back, and such a loop lasts until the restart, which restarts the task as well.

**RpcCalls.**  `LoadExact` relates a number per url to a set of calls.  `IndInv` adds that a
call that is trying has attempts left and a configured url, and that nothing is connected
over HTTP.  An attempt that ends takes its call out of one set and one off one number
(`EndKeepsLoad`); one that begins does the opposite (`StartKeepsLoad`); a retry does
both, at the same url or at two (`RetryKeepsLoad`).  For `EveryUrlTried`, `RetryInv` says that a
url that never failed has the mean time of an answer, and that a call that has failed
before is at such a url or there is none: with two urls, the one that has just failed
weighs more than half the time limit and ten milliseconds, the other less.

**TopStats.**  `Books` says that the pool loses no connection and keeps no task waiting while
one is free; it is the larger part of the type invariant.  `UpdateInv` follows the exchange: at
each of its statements exactly one connection has a transaction, which holds the deletion and the
insertion so far and nothing else, and the next statement comes to it (`AtHand`):
the connection that became idle last is the one that is taken next, unless a task was
waiting for it, and then it comes back.  A query of another task or a lost connection in the
middle of an update sets `disturbed`; from then on the invariant, as the two properties, says nothing.
`RowsInv` extends `RowsBelowPointer` to the pointers a transaction has not committed
yet and to what each loop is about to write, because the query of the pointer may end up in
the transaction of an update as well as that of the rows.

**SideJobs.**  A step of the specification is a step of the job at work and leaves the variables of
the others alone (`StepOf`); each job has an invariant of its own.
`RoundInv` says for which kinds a round has a value for each day it found due.
`MigrationInv` compares the events of a range of blocks (`Expected`) with what is stored and with
what is still to be inserted (`Ahead`), behind the batch and in it; `BatchesJoin` puts
the two ranges together.  `InternalInv` has the shape of a batch of each shard at each stage;
the loops of several shards insert the same rows of shard 0, so a step of one is shown to
keep the shapes of the others (`OneShard`, `ShardKept`).
For the cache, what has to be shown of the tables of methods and routes is that two routes' queries
with one key are one query (`KeysDiffer`): from a name and a number of arguments `MethodOf`
finds the method again, since no two methods that share a name have the same number of
arguments.  `CacheInv` keeps each entry under its query's key, never empty, and no longer than its
maxAge and the time of its query allow.  `RequestInv` says that a request under way rests on
nothing older than itself; only the logs of "latest" may rest on a latest block from the
cache, and be cached in turn, hence the factor of two in `BoundedStaleness`.  For `NotFoundIsFresh`
`Behind` says that a latest block after which something was stored was read before it was,
so what is missed for its sake is younger than the entry; and `SecondFinds` that the second query for a
transaction only comes up empty when there was nothing before the request.

**Only model-checked.**  The liveness properties (`HeadReached` of the block and of the log
indexer, `GapsRepaired`, `CatchesUp`, `PointersAdvance`, `CallsEnd`): they rest on fairness and on
ENABLED, which the backends do not reach.  That `CeilTimesOnePointOne` equals what doubles compute is a
translation; it agrees with IEEE double arithmetic for every count below 100 (at 100 the
ceiling decides), and `Decreased` for every count up to 5000.

## 7. Plan

What is left, in order of what it adds:

1. LogSync and ContractSync composed, for the logs that arrive below the contract
   indexer's pointer after the log pointer went back.
2. The check of the chain ids, where every answer is compared with the id read before the
   first was stored.

## 8. What is not modelled, and why

* **Contents** of blocks, transactions, logs and metadata, the parsing of bytecode
  and of filters, and what queries return: no property here depends on them.
* **Reorganisations**: the code has none; it never removes or replaces a block.
* **The chain-id check** and the lazy start of the store: the id is written once, before
  any loop starts.
* **Address relations**: `addAddresses` is defined in the block indexer and never
  called.  **One-wallet metrics** and the **transfers monitor** are not started; **token
  iteration** (`EntityIterator`) and the list of **signatures** have no caller.
* The **info server** reports the pointer, a node's height and the time, and has no effect.
* The **gRPC and WebSocket servers**: the WebSocket API passes a client's arguments on as
  they are, so the arguments that keep methods of one key name apart need not have their
  number or kind there; `RightAnswer` is about the REST routes.  A service configured
  without the cache (`isCacheEnabled`) asks the database each time.
* **Limits on rates, prometheus, configuration, key management, logging**: input, output and
  values that stay constant.
* `migrate()` is commented out (`store/postgres/index.ts:97`), so the
  service itself never seeds indexer_state; `InitialPointer` of LogSync stands for what
  the table was seeded with.
* Poisoned rows: a row the contract indexer cannot process stops its loop again after
  every restart; `CatchesUp` counts it as a dead loop.
