# Specifications of cosmwasm-etl

cosmwasm-etl reads the blocks of a Cosmos chain, parses the events of its DEX
contracts into tables, and aggregates the tables into statistics. This directory
holds TLA+ models of the parts that run concurrently or have to survive
failures and of the parsing itself, the TLC runs that check them, and TLAPS
proofs of their main safety properties.

## 1. The system

Three kinds of processes share one PostgreSQL database.

| part | state it keeps | operations | talks to |
|---|---|---|---|
| collector (`collector/`) | blocks, pool snapshots, `collector_synced_heights` | `collectHeights`, `CollectHeight`, `SaveHeight` | the node; its tables are the parser's preferred source |
| parser (`cmd/parser/dex`, `parser/dex`) | `synced_height` (cursor and validation cursor), `parsed_tx`, `pair`, `pool_info`, `parse_quarantine`, `pair_validation_exception`; in memory the pair map, flagged assets, heights of the last Run | `Run`: replay quarantines, parse and insert heights; the validation worker goroutine | collector tables or the node; target application; database |
| target applications (`parser/dex/dezswap`, `starfleit`, `terraswap/*`) | pair map, flagged assets, rule finders of the current height | `ParseTxs`, `UpdateParsers` | event log matching (`pkg/eventlog`, `pkg/dex`) |
| aggregator (`aggregator/`) | `lp_history`, `price`, `route`, `pair_stats_*`, `account_stats_30m`; positions of tasks in memory | one goroutine per task; a task waits for the height of its parents | parser tables |
| price and router (`pkg/dex/price`, `pkg/dex/router`) | routes, prices | route search, direct and route prices | aggregator |
| checkpoint builder (`cmd/parser/checkpoint`, `parser/checkpoint`) | none | `Build`: compare the node's pools with the parsed rows, insert the difference, move the cursor | node, the parser's tables |
| tools: diagnose, legacy collectors, data store | none | one-off | node, S3, database |

What is hard, and so what the models are about:

* a crash, a failed transaction or an unacknowledged commit between any two
  steps of `Run`: a height must be stored once and as a whole;
* the quarantine: an ambiguous transaction lets the parser go on and is replayed
  later, by another process, with another build, a later pair map and later
  token exceptions;
* memory against database: the pair map is loaded once and is written before the
  block that creates a pair commits;
* two goroutines and one cursor without a lock: `Run` and the validation worker;
* wakeups that coalesce, validations that fail and have to be retried;
* several collectors on one chain;
* one movement of tokens that shows in several events, found by several rule
  finders, with refunds, fees and taxes: it has to become one row, whatever else
  is in the transaction and in whatever order the logs come;
* three writers around `parsed_tx`: the parser, the replay that stores rows at
  old heights, and the checkpoint builder, beside the aggregator that sums them;
* the aggregator's tasks, one goroutine each: they find their place in the
  tables after a restart, poll each other's positions, write some results row by
  row, and stop all together when one fails.

PROJECT.json lists each hazard at its line with the properties that watch it.

## 2. Modules

| module | models | properties |
|---|---|---|
| `ParsedLedger` | the promise of the parser, without machinery: blocks are consumed one by one and as a whole; a transaction is stored, held or flagged; a held one may be released once | implemented by `ParserRun` |
| `ParserRun` | main loop, `Run`, quarantine replay, `Insert`, `ResolveParseQuarantine`, the choice of the source height | see below |
| `MCParserRun` | a chain of three blocks with one transaction of every kind | |
| `ParserRunProofs` | theorems about `ParserRun` | |
| `ValidationWorker` | the main thread as far as it concerns validation, the worker goroutine, the cursor | see below |
| `MCValidationWorker`, `ValidationWorkerProofs` | instances and theorems | |
| `Collector` | `collectHeights`, `SaveHeight`, any number of processes | see below |
| `MCCollector`, `CollectorProofs` | instances and theorems | |
| `AggregatorTasks` | the aggregator's process, schedulers, tasks and tables | see below |
| `MCAggregatorTasks`, `AggregatorTasksProofs` | instances and theorems | |
| `EventLog` | the pattern matcher of `pkg/eventlog` and the mapper mixin | used below |
| `DexRows` | what the target applications share: rules, mappers, de-duplication, quarantine | used below |
| `DexRowsProofs` | theorems about the matcher, the de-duplication and the order of the logs, for every rule and log | |
| `DezswapApp`, `StarfleitApp`, `ColumbusV1App`, `ColumbusV2App`, `PhoenixApp` | each application's rules, mappers, `ParseTxs` and `UpdateParsers` | used below |
| `DexChain` | external: users, the contracts' events and their effect on the pools | used below |
| `TxParsing` | composes them: a transaction is executed, turned into logs and parsed, block after block | see below |
| `TxParsingProofs` | theorems about `TxParsing` | |
| `PoolRows`, `Checkpoint`, `LpHistory` | rows as amounts; the checkpoint builder; the sums of the liquidity history | used below |
| `PoolTables` | composes `Checkpoint` and `LpHistory` with a coarse parser on the same tables | see below |
| `MCPoolTables` | an instance of it | |
| `PoolTablesProofs`, `LpHistoryProofs` | lemmas about sums of rows; theorems about the checkpoint builder and about the liquidity history | |

### ParserRun

State. The database: `synced` is `synced_height.height`; `copies[t]` counts how
often the rows of transaction `t` were inserted (a count, so that a double
insertion is visible); `form[t]` how those rows record its use of a pair;
`quarantine[t]` its `parse_quarantine` row; `dbPairs`, `snapshots`, `exceptions`
the tables `pair`, `pool_info`, `token_parse_exception`. The process: `pc`, the
pair map `pairs`, `lastSrc`, `sameCount`, `retried` and `errCount` under the
names of the code. The locals of a Run are separate and forgotten when it ends.

Actions. One action is the stretch between two database transactions or source
reads: `BeginRun` (token exceptions and pending quarantines are read),
`ReplaySkips`, `ReplayErrs`, `ReplayResolves`, `ReplayDone`, then `SourceBehind`,
`NoNewHeight` or `ReadHeights`, then per height `ParseHeight` or `ParseFails`,
and `CommitHeight`; `RunDone` ends it. `Failures` are a failing read, a crash
anywhere, an insert that rolls back, and an insert or a resolution that commits
while the process only sees an error. `Environment` is the chain, a collector
that saves its next height, and an operator who registers a token exception.

Abstraction. What a build makes of a transaction is the constant
`Outcome[t][build][x]`, where `x` says whether its token was registered when Run
began: parsed, ambiguous (held in quarantine), partial (stored in part, with a
`partial_` quarantine entry) or an error. A transaction creates at most one pair
and acts on at most one pair. What depends on the pair map at the time --
whether that use is found as a pair action or only as a transfer -- is computed,
because the map is what goes stale. Rows, amounts and log formats are left out.
`CausalityAssumption` says that a contract is not used before it exists.

### ValidationWorker

The code's mutex, channel of capacity one and cursor become `latest`, `signal`
and `cursor`. An action is one critical section, one channel operation or one
database call: `Record` and `Send` are the two halves of `signalValidation`,
`GetCursor` and `SetCursor` those of `triggerValidation`, `Take`, `ReadCursor`,
`ReadPools`, `ComparePair`, `Conclude`, `Advance`, `More` the loop of the worker.
A pool differs from the node's because a taxed transfer was recorded at its face
value (`TaxedAt`, which also flags the token, `TokenOf`) or because a transaction
is still in quarantine (`HeldAt`). `passed` is a history variable. The cursor is
a number below `Modulus`, the analogue of the width of a uint64.

`validate` is three actions. `ReadPools` takes the node's pools, the sums of the
rows and the exempted pairs together: the node answers for a height and the
worker alone writes exemptions, so that only the rows can change between the
three calls, and they are read once. `ComparePair` decides about one pair that
differs, with the tokens flagged by then, and commits its exemption by itself: a
failure on the way leaves the earlier ones in the table. `Conclude` returns the
verdict. The mismatches are told apart as in the code. A pair the node lists
(`Expected`) and the rows do not have (`Missing`, because the transaction that
created it is held) fails the validation unless it was exempted before, and no
flagged token excuses it. Where the node lists no pair there is none to differ,
which is the early return. Rows of a pair the node does not list do not occur: a
pair is parsed from the block that creates it.

### Collector

`local`, `height` and `target` are the variables of `collectHeights`, one set per
process; `tip` and `indexed` say what the node reports and what it can serve.
An error ends the process and `Start` brings it back.

### AggregatorTasks

State. `parsed` is the parser's cursor, `now` the clock; a block's height is its
timestamp. Of the tables the model keeps the heights in `lp_history` (`lp`), the
number of rows per height in `price` (`prices`) and `pair_stats_recent`
(`recent`), and the number of times a window is in the table of a task
(`stats`): numbers, so that what is stored twice shows. Of the process it keeps
`mode` (down, in `DeleteDuplicates`, or running), the context (`cancelled`), the
error channel and the goroutine that reads it, and per task its place `pc`, its
`lastProcessedHeight` (`pos`) and the height it waits for or works on (`goal`).
`torn` and `cut` are history variables: heights whose prices a failure broke off,
and the moment before which recent statistics are deleted.

What a block holds is a constant: `Activity[h]` says which queries of the tasks
see its rows -- the liquidity history every row, the statistics all but
transfers, the price task swaps and first provisions -- and `PriceRows[h]` how
many rows of `price` it yields. A height may have a swap and no price, when an
amount is zero or no route leads to the price token.

Actions. `LpBegin` to `LpWrite` are `lpHistoryTask.Execute`, a batch at a time.
`PriceNext` is the search for the next height, `Reached` the end of
`waitUntilReachingHeight`, `PriceWrite` one row, `PriceRan` the assignment of the
position after the last one, `PriceDone` the fallback to the highest price in the
table. `RecentBegin` reads the three heights of the recent statistics,
`RecentWrite` is the transaction that inserts and deletes. `WindowInit`,
`WindowCaughtUp`, `WindowBegin` and `WindowWrite` are the scheduler and `Execute`
of a predetermined time, for pair and account statistics alike: they differ in
that pair statistics are inserted and account statistics replaced. `GivesUp` is
the timeout or the cancelled context, `Fails` any other error, the
`...Unacknowledged` actions a write that is committed and reported as failed.
`Delete` is one of the five deletes of `DeleteDuplicates`, between any two of
which the process may die.

What is not in it: values of prices and statistics, the router task (which
writes routes nothing here waits for). The sums of the liquidity history, and
the rows a replay stores at heights the task has passed, are in `PoolTables`.

### TxParsing

A transaction is a sequence of operations (a swap, a provide, a withdrawal, a
gift of tokens or coins, a pair creation, taxed and fee-taking transfers, an
unreadable transfer and others). `DexChain` says what events an operation emits
in each mode -- application, contract version, format of the events -- and what
it does to the pools. `Execute` adds an operation; `Parse1` is the source store's
grouping of the events by type and the application's `ParseTxs`; `NextHeight` is
`UpdateParsers` with the exceptions registered meanwhile. The logs are parsed in
any order, because the code groups them in a Go map.

The applications are translated rule by rule: a rule is a list of keys with
filters on values, a match a sequence of attributes, a row the fields that decide
what it does to a pool. Loops of the code that carry a state are functions of the
number of rounds, with one operator for a round: `MatchItem` tries one item of a
rule, `SearchAt` one position of a log, `TakeTransfer` one transfer of the
de-duplication. A mapper's early returns are a chain of IF and ELSE. Amounts are small integers, different for each operation,
so that a row shows where it comes from. Addresses are model values.

Facts a reader of the model will ask about:

* `KnownMisread` excepts from `RowsAddUp` two kinds of transactions the parser
  misreads: on columbus, where the row of a withdrawal has no amounts, a
  withdrawal beside another action of the token's pair (`tx_dedup` shows it),
  and two equal taxed swaps in a format without message index;
* `SortResult` keeps attributes of one key in their order. The code's
  `sort.Slice` does so for sections of at most 12 attributes, and no section of
  an event in the model is longer;
* the tax deduction of columbus v2 reads amounts as int64 and drops the error
  (`app.go:214`); amounts from 2^63 on, which would be compared as that limit, do
  not occur in the model, nor does an outflow of zero, whose "-0"
  `RemoveDuplicatedTxs` (`dex.go:738`) would not take for "0";
* a pair that sends a token it does not trade makes the transfer mappers index an
  array with -1, which ends the process: no operation does it;
* `burn_from` is matched by no rule; the actions of a pair in the block that
  creates it are found as transfers only, since the filter is built before;
* a transfer from one dezswap or starfleit pair to another is recorded for the
  sender only, so the operation that does it is offered on terraswap alone;
* on dezswap an empty amount is an error and keeps the parser at its height,
  starfleit skips any match that fails `CheckResult`; starfleit reads a token's
  transfer by position; its factory filter is the configured chain id
  (`starfleit/app.go:29`);
* contracts are assumed to emit mint and burn attributes in the order the
  application's rules expect, and starfleit pairs not to refund tokens;
* the `ParsableRules` of a configuration are not modelled.

### PoolTables

`pool[h][p]` is the node's pool of a pair at a height: two assets and the LP
tokens. A block changes one pool. `rows`, `pairs`, `synced` and `held` are the
parser's tables with the quarantined heights, `lp` the table `lp_history`. The
parser is coarse here -- `ParserRun` has it in detail -- but keeps the two steps
that matter: `BeginRun` reads the cursor, `ParserInsert` or `Quarantine` writes
rows and moves the cursor if it is where it was; `Replay` stores a quarantined
block at its old height. Quarantined blocks here do not create pairs.

`Checkpoint` is `Builder.Build`, one action per read or transaction:
`validateAndGetDbHeight`, `generateCheckpointData`, `Insert`, which the database
refuses (`InsertRefused`) when a pair is there already or an amount is no number.
`StoredAmt` is what `toParsedTxModel` makes of the LP amount: a withdrawal's gets
a minus sign, so a positive one is stored negative and a negative one not at all.
`LpHistory` is `lpHistoryTask.Execute` with the batches of
`GetParsedTxsWithLimit` and the running sums of `generateHistory`; the task may
stop anywhere, its last write committed or not. `hist` holds history variables:
the rows that came too late for the history, what was quarantined when the last
checkpoint was made and stored, the pairs whose row it misstated, and whether two
inserts overlapped.

`PoolsAddUp` names all that can make the sums wrong while inserts do not
overlap: what is quarantined is missing, unless a checkpoint took it in, and
what a checkpoint took in counts twice after its replay. It leaves out the pairs
the last checkpoint misstated: if LP tokens were missing in the tables but no
asset was, the row is a withdrawal of a positive LP amount, and stored negative.
That takes four blocks on one pair -- one sends tokens and is quarantined, a
checkpoint takes it in, its replay counts it twice, and the next ones provide
no more than that -- so the run does not meet it; the proof did. `LpHistoryIsExact` says
the history leaves out exactly the rows that were stored below what it had
passed. `CheckpointSettles` says a checkpoint repairs whatever was wrong before.

## 3. Runs

| run | instance | shows |
|---|---|---|
| `parser` | 3 blocks, 6 transactions, 2 builds, retry mode every_run, then startup from build 2 on, 2 faults | `ExactPrefix`, `RowsHaveTheirPair`, `EarlierPairsAreFound`, `PairMapIsFresh`, `ResolvedIsFinal`, `NoNewHeightHidesNothing`, the refinement `ImplementsLedger`, `CatchesUp`, `QuarantineDrains` |
| `parser_replay` | retry mode every_run, 1 fault | `DeterministicReplay` is violated |
| `validation` | 8 heights, boundaries 3 and 6, a tax at 2, a pair whose creation at 5 is held, 1 fault, a cursor that overflows at 9 | `NoLostWakeup`, `PassedStaysCorrect`, `CursorFollowsValidation`, `EveryBoundaryIsValidated`, `FailedValidationIsRetried` |
| `validation_skips` | 1 fault | `NoBoundaryIsSkipped` is violated |
| `validation_restart` | 1 fault | `RestartContinuesValidation` is violated |
| `collector` | an endless and a bounded collector, 2 faults | `NoHoles`, `SyncedMovesByOne`, `RangeIsCollected` |
| `aggregator_restart` | 2 blocks, pair statistics, windows of one block, no `startts`, 1 fault | `PricesAreComplete`, `LiquidityBeforePrice`, `RecentExact`, `WindowsOnce`, `OneStopsAll`, `EveryWindowIsDone` |
| `aggregator_clean` | 3 blocks (two prices, none, one), `startts` at block 2, `cleandups`, 2 faults | `LiquidityBeforePrice`, `WindowsOnce`, `StatsArePriced`, with `DeleteDuplicates` interrupted anywhere (the other invariants are proved for this configuration too) |
| `tx_rows` | every application, version and format; transactions of up to two operations, block after block, with any order of logs | `RowsAddUp`, `PartialKeepsTheRest`, `OnlyForeignAssetsBlock`, `LogOrderDoesNotMatter` |
| `tx_dedup` | the same instance | `ActionsConsumeTheirOwn` is violated |
| `pool_tables` | 3 blocks, 2 pairs, batches of 2 rows, one quarantined block, 1 fault | `PoolsAddUp`, `LpHistoryIsExact`, `CheckpointSettles`, `CursorMovesForward` |
| `checkpoint_saved` | the same without quarantine and faults | `CheckpointIsSaved` is violated |

Bounds. `MaxHeight` bounds the chain, `MaxFaults` the failures, `MaxBuild` the
deployments. For the parser three blocks are the least with a block that creates
and uses a pair, one that uses it later, and another after the held ones; two
faults allow a crash during the recovery from a failure. In the validation runs the heights
give two boundaries below the last one, so that wakeups of two of them coalesce.
The aggregator's three blocks are the least with a height that can be broken off,
one that yields no price, and a later one that waits for both; with two faults
`DeleteDuplicates` is interrupted and the process that repeats it fails again.
One window task is enough, since window tasks do not wait for each other.
Two operations in a transaction are the least in which one may consume the
transfer of the other; that it holds for one transaction after another shows that
a filter or an exception of a later block changes nothing else. In `pool_tables`
three blocks are the least with a pair that exists, one that is created inside
the range of a checkpoint, and a batch that could end inside a height; the blocks
swap, withdraw or send both tokens, which together give a pool with the same
assets and fewer LP tokens.
The proofs do without the bounds: `MaxHeight` and `MaxFaults` are arbitrary
numbers there.

Fairness. `Progress` (any step of the process that needs no failure) and `Start`
are weakly fair: the loops only sleep, and a supervisor restarts the process
(`docker-compose.yml` runs it as a service). A collector that has begun goes on,
an operator registers a token that fails. Failures are bounded and never fair.
The two threads of the validation model are fair separately, as the Go scheduler
is, and the chain grows. In the aggregator each task is one goroutine and fair by
itself. `Stop` is strongly fair: a scheduler that waits for its timer selects the
cancelled context, but may be executing whenever one looks. A wait with a
cancelled context ends; a timeout is a fault and never has to happen.

Deadlock is checked in every run but those of `TxParsing`: `NoNewHeight`, polling,
a waiting thread or the next start of a tool always leaves a step. In `TxParsing`
a transaction that is an error keeps the parser at its height, and nothing more
happens.

## 4. Disagreements with comments in the code

* `parser_replay`: `dex.go:186` promises a deterministic replay. The replay uses
  the pair map as it is later: a transaction whose own block created its pair is
  recorded as a pair action after the replay and as a transfer in its block.
* `validation_skips`: `dex.go:122` wants to avoid skipping a validation. If the
  cursor cannot be read or written at the first boundary, the next boundary
  becomes the cursor and the first is never validated.
* `validation_restart`: `dex.go:459` says restarts continue at the unresolved
  height. The flagged assets are lost with the process that saw the taxed
  transfer, and the boundary fails although nothing else is wrong. Only another
  taxed transfer of the token, parsed by the new process, would flag it again;
  the run has none, and nothing in the code waits for one.
* `tx_dedup`: `dex.go:731` says that an action consumes no more transfers than it
  produced. A token transfer that a pair sends matches any entry of its token, so
  on columbus the transfer of a withdrawal is consumed by a swap's entry and its
  row is lost.
* `checkpoint_saved`: the flow in the checkpoint tool's README ends with the
  checkpoint saved. If a pool has lost assets and LP tokens, its row is a
  withdrawal with LP amount "-500" (so `builder_test.go:360`), which is stored as
  "--500", and the insert fails. The comment in `createDiffTx` says that equal
  assets with a changed share are made a provide; the test for "none positive"
  that follows makes them a withdrawal again, and they fail the same way.

Not against any comment, but worth knowing: a checkpoint over a quarantined
transaction contains its effect, and the replay adds it again
(`PoolsAddUp`); the tool must not run beside a parser that inserts, since neither
checks whether the cursor moved; rows replayed at old heights never enter the
liquidity history. Statistics wait for the height of the
last parsed row of any kind, while the price task only moves to heights that
yield prices and falls back to the last of them. When the last rows before the
end of a window yield none, the wait ends in its timeout, and that error stops
the whole aggregator. `EveryWindowIsDone` is therefore stated under
`LastIsPriced`; without it TLC finds the timeout. And a height whose prices are
broken off between two rows is never completed: `PricesAreComplete` has to except
`torn`.

## 5. Proofs

The theorems hold for every chain, every outcome, every retry mode and every
number of heights, faults and builds that meet the assumptions on the constants.

`ParserRunProofs`. `IInv` joins the properties with `RunIsInStep`: while Run
parses or inserts, `cur` is the height after the cursor (which makes the
conditional update of the cursor succeed and `Insert` exact); at the insert the
filter holds every pair of the table and the map every pair of the filter and
the block; entries still to replay are pending; the map has created pairs only.
The properties alone are not inductive: nothing in `ExactPrefix` keeps a Run
from inserting the same height twice, and `EarlierPairsAreFound` needs the
filter. The proof has one step per action. The refinement maps `CommitHeight` and
`CommitUnacknowledged` to `ConsumeBlock`, `ReplayResolves` and
`ReplayUnacknowledged` to `Release`, everything else to a stutter.

`ValidationWorkerProofs`. `ThreadsAgree` says that neither thread's copy of the
cursor is stale although nothing locks it: the main thread writes only while the
cursor is unset and the worker only while it is set to the height it validates
(`CursorsAgree`). `RowsAgree` says the same of the rows the worker has read: what
differs at the height is exempt or still to be decided about, whatever was
committed since, and no pair that is exempt or to be decided about lacks its rows.

`CollectorProofs`. `NobodyJumps` says that a process may be behind the database
but never ahead of it by more than the height it collects.

`AggregatorTasksProofs`. The properties of the state and the action property are
proved for every chain, any length of window and range, with and without
`startts` and `cleandups`, and for any number of failures. The invariant `IInv`
has one part per table. `PriceWalk`: everything below the block the price task is
at is settled and nothing above it is priced, which is why a search from the
highest price in the table misses nothing. `LpPrefix`: liquidity is known without
gaps up to the positions of the liquidity and the price task and up to every
price; while prices that `cleandups` is about to delete are still there, only
below the start. `RecentWalk`: the recent rows have no gap either and none lies
beyond the position, so that what is written next is new; this is where the
three comparisons of heights in `Execute` enter. `WindowWalk`: no window from the
next one on is stored. `WaitedFor`: when the wait of a window task is over, the
swaps up to its goal are settled. The lemma `OwnSteps` states once what each
task's steps leave alone; the proof of each part then goes through the steps of
the task that owns the table, and the steps of the process.

Sums of rows (the first part of `PoolTablesProofs`). The sums are folds over
finite sets of rows. The lemmas give
what a reader expects of a sum: it does not depend on the order of rows, one row
more adds that row, two disjoint sets add up (`TotalUnion`), equal rows give
equal sums. Induction over a set is done by a smallest counterexample: strict
inclusion among the subsets of a finite set is well-founded (`SmallestSet`).

`PoolTablesProofs`, for any chain of swaps, provisions, withdrawals and gifts,
any number of pairs, blocks and failures. The inductive invariant is
`IInv == Typed /\ MakesUp /\ OnlyReplays /\ PoolsAddUp`. `Typed` has a part per
group of variables; of the cursor it says that the builder goes on only with a
target above the cursor it read, which together with the conditional update gives
`CursorMovesForward`. `MakesUp`: from the moment the builder has added up the
rows until it inserts its own, these make up, pair by pair, for the difference
between what it counted and the node's pool. `OnlyReplays`: as long as the cursor
stays where the builder read it, nothing but replays of what was in quarantine
at that moment is stored. `PoolsAddUp` alone is not inductive, because the
builder's insert is right or wrong by what it read several steps before; the two
parts carry that reading to the insert. `CheckpointSettles` follows from the
same invariant. `DiffRowSettles` takes any two pools and says when the row of a
checkpoint, as it is stored, brings the sums to the node's pool: in every case
but one, when no asset grew and the LP tokens changed.

`LpHistoryProofs`, on top of that. `LpInv == LpRows /\ Task /\ LateRows /\ Latest
/\ Batch /\ LpHistoryIsExact`. `Task`: at work, the position is the end of the
history. `Latest`: the sums the task starts from are those of all rows it passed.
`Batch`: what it read is everything stored at that time between the end of the
history and the last height of the batch -- here the fact enters that a batch
never ends inside a height -- and what was stored there since is late. The step
that writes a batch shows that the running sums, started from the former ones,
are the sums from the first row on (`StoresBatch`).

`DexRowsProofs`. Theorems about the code that all applications share, for
every rule, every log and every list of transfers. `MatchesAreFound`: the
attributes of a match fit the items of the rule in order, in one message, with at
most one skipped key before each, and are followed by the rest up to the rule's
`until`; no attribute is in two matches; and no place where the rule fits is
missed unless an earlier match reaches into it. `TransfersTakeAmountsOnce`: each
transfer takes the first amount it equals among those no earlier transfer took,
and exactly the transfers that take none are kept, in their order. A loop is a
function of the number of rounds; `StepByStep` shows that the function exists,
`AfterEveryStep` that what holds at the start and is kept by a round holds after
every round. What is kept is `Matching` for the items of a rule, `Extended` for
the rest of a match, `Searched` for the positions of a log and `Settled` for the
transfers. The proof of the matcher found CASE expressions in the model whose
arms overlapped: which arm counts is then open, where the code takes the first.
They are chains of IF and ELSE now.

The last part of the module is about the order of the logs. `SameFound`: a rule
looks at logs of one type only, so with one log per type its matches do not
depend on the order. `GatherInAnyOrder`: the rows a stage has collected after
`i` logs are those of the only log of its type if it was among them (`Only`), and
the error is "none" as long as no stage failed on any of them (`FirstOf`); after
all logs that is the same for every order. Which of two errors is reported, and
so whether a failing transaction is ambiguous or an error, may depend on the
order of logs in general; that it does not for what a user can do is the last
part of `OnlyForeignAssetsBlock`, which TLC checks.

`TxParsingProofs`: `LogOrderIsFree`, that is `Spec => []LogOrderDoesNotMatter`,
for every application, contract version and format of events, any constants, and
transactions of any length in any number of blocks. The argument has three
parts. (1) For each application, its parsers are stages of one type each and
give rows (`...Reads`, `...StagesAre`), and what `ParseTxs` stores is a function
of what these stages gather (`...Is`); so two orders of the same logs have the
same outcome (`...InAnyOrder`). The five modules share `DexRows` by EXTENDS, and
an INSTANCE gives each its own copy of the definitions, which `...Copies`
identifies. (2) Every operation of a user emits events with sequences of
attributes (`EventsAre`), and the source's grouping makes of them one log per
type, in any order (`SourceTxsAre`, `SameLogsInAnyOrder`). (3) `IInv`: what was
parsed is what the application in force makes of the transaction in some order
of its logs. It is needed because the property compares the stored result with
what other orders would have given, in a later state; it was checked with TLC on
the instance of `tx_rows` before it was proved. The terraswap applications also
flag tokens, by the matches in the logs they read, which `SameFound` covers.

Only model-checked. Liveness (`CatchesUp`, `QuarantineDrains`,
`EveryBoundaryIsValidated`, `FailedValidationIsRetried`, `RangeIsCollected`,
`OneStopsAll`, `EveryWindowIsDone`): it rests on fairness, and ENABLED is out of
the prover's reach. The other invariants of `TxParsing`: whether the rows
of a transaction add up, what an unreadable transfer costs and which operations
block the parser depends on the values in the events of every contract in every
format and on the rules of every application, which TLC enumerates; its
`TypeOK` also says which pairs and tokens the application can come to know, and
rests on the same values. What is proved there are the matcher, the
de-duplication and the order of the logs. The library's induction theorems take an
operator as parameter and cannot be instantiated here; where a proof needs
induction it argues by a smallest counterexample, as above.

## 6. Not modelled

* The SQL of the statistics and the values of prices: decimal arithmetic over
  groups of rows. When a window is calculated and which heights it contains is
  modelled; what a late parser leaves out of a window is not stated as a
  property, because nothing in the code bounds how far it lags.
* The route search (`pkg/dex/router`) and the router task: a search without
  state whose result nothing waits for.
* The concurrent access of the worker and `Run` to the map of flagged assets:
  the map is one atomic value in the models, an abort of the process is a crash.
* The content of `pool_info` that the checkpoint builder writes for new pairs,
  and the builder's errors for pools whose assets do not match
  (`builder.go:128`): its pools have the assets of their rows.
* Rows of a pair the node does not list in the validation (`unexpected_pool`): a
  pair is parsed from the block that creates it.
* Two transactions in a block of `TxParsing` and a quarantined pair creation in
  `PoolTables`; `ParserRun` has both as outcomes.
* Conversions between rows and DTOs beyond the sign of amounts, logging,
  configuration, migrations, the gRPC, LCD and S3 adapters, the diagnose report,
  the import of an archived chain.
