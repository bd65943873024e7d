# Verification of the block monitoring indexer

The program is a NestJS process that follows an Ethereum node and keeps three
tables in PostgreSQL: the blocks it has seen with their finality status, the
reorganisations it has noticed, and the contract events of the blocks. This
directory holds a TLA+ model of its indexing core, TLC runs on small instances,
and proofs that TLAPS checks for every value of the constants.

## The system

| Component | State | Operations | Model |
|---|---|---|---|
| Realtime worker (`block.service.ts`, `blockchain-ws.service.ts`) | `blockQueue`, `isProcessingQueue`, `lastProcessedBlockNumber/Hash`, the socket | the newHeads listener pushes headers and starts the worker; `handleNewBlock` compares the parent hash, logs and rolls back, saves the row, collects events | `HeaderWorker` |
| Polling validation (`handlePollingValidation`) | `isPolling`, `lastProcessedSafeBlock`, `lastProcessedFinalizedBlock`, local lists | copy the safe and finalized tags into the rows, compare every row that is not FINALIZED with the RPC answer, correct it, find gaps, fill them | `PollingValidation` |
| Initial sync (`syncInitialBlocks`) | locals; writes `lastProcessedBlock*` | choose a range from the stored and the network head, save it, refresh `lastProcessedBlock*` | `InitialSync` |
| `saveBlocksInRange` (called by the poll and the sync) | position in the range, pending promises | chunks of concurrent get-and-save jobs, `Promise.all`, event collection for the chunk | `RangeSync` |
| Contract events (`contract-event.service.ts`) | recursion over ranges | `fetchAndSaveEventsForBlock` with dynamic chunking, `rollbackEvents` | `ContractEvents` |
| Tables | `block_records`, `contract_event_records`, `reorg_logs` | the statements of the three repositories | `BlockTable`, `EventTable`, set `reorgLogs` |
| RPC client (`blockchain-rpc.service.ts`) | `blockCache` | `getBlockByNumber`, `getCurrentBlock`, `getLogs`, `retryOperation` | `RpcClient`; for the other modules `cache` and a call that answers or fails |
| Block list (`GET /blocks`: controller, `findAll`) | none; a count, left out, and a page | a client walks through the pages while rows are written | `BlockApi` |
| Ethereum node (outside the repository) | canonical chain, head, tags | new blocks, reorganisations, tags | `EthNode` |
| Process | all of the memory | start, crash, restart | `Indexer` |
| The other reads of the HTTP API, configuration, logging, wiring | none | reads of one statement, formatting | not modelled |

Worker, poll and sync run concurrently on one event loop. They share the tables
(every statement is a round trip), `blockCache`, and `lastProcessedBlock*`
(worker and sync). Nothing locks a row, and no transaction spans two statements
of a service. What makes the code hard is what may happen between one `await`
and the next: another activity saves the row that was selected, the sync
overwrites the block the worker compares with, the chain reorganises, a call
fails, the socket closes, the process dies.

What makes each part correct:

* worker: no header is stranded or lost; reorg logs name real blocks; the block
  the worker compares with is stored;
* poll: finality is not marked early, FINALIZED rows are not verified, a poll
  ends, rows converge to the RPC answer, gaps are filled;
* sync: the window is full and its events are collected when the sync says so;
* events: what is rolled back because its block was abandoned stays rolled back;
* tables: the gap query reports every hole between pending rows, updates never lower a
  status, rows are a ledger of mined blocks whoever writes them; a walk through the list
  misses no row;
* RPC client: an answer is one the node could have given, or a block it once had
  and the client remembers; every call ends; the cache is bounded (it is not).

## From code to model

**Steps.** The process is single-threaded, so code between two awaits runs
alone. An action consumes the answer an activity waits for, runs to the next
await, and lets the statement or call issued there take effect at once; the
answer then stays in a variable until the activity resumes at some later time.
Taking effect at issue loses no behaviour that matters here: a later effect is
an earlier step of the others. `pc[task]` names what an activity waits for:

| `pc` | the await (`block.service.ts` unless noted) |
|---|---|
| worker: `loop` | top of the `while`, 193 |
| `reorgLogged` | `handleReorg`, 242 (poll: `logged`, 341) |
| `rolledBack` | `rollbackEvents`, 251 (poll: 354) |
| `selected` | SELECT of `repo.save`, 266 (poll: 352) |
| `fetch`, `logs` | `fetchAndSaveEventsForBlock`: a range is next, `getLogs` answered (`contract-event.service.ts`:99) |
| poll: `safeTag`, `finalizedTag` | `getBlockByNumber` of the tags, 313-314 |
| `safeUpdated`, `finalizedUpdated` | `updateStatusUpToBlock`, 319 and 325 |
| `verify` | top of the verification loop, 337 |
| `block`, `saved` | `getBlockByNumber`, 338; UPDATE of `repo.save`, 352 |
| `gaps` | top of the gap loop, 365 |
| `range`, `chunk` | `saveBlocksInRange`: loop head 146, `Promise.all` 170 |
| sync: `start`, `latest`, `network`, `refresh` | 99, its answer, 100, 127 |
| `done`, `idle`, `down` | finished; not running; no process |

**Rows.** TypeORM's `save` is two statements. `SelectRow` is the first;
`SaveRow` is the second, an INSERT, or an UPDATE of the columns that differ from
the row selected. `SaveConflicts` is the INSERT that meets a row inserted since.

**Abstractions.** A hash names its block: number and branch. A timestamp is named by
the hash of its block. An event is named by its transaction: `<<number, branch>>`,
or `<<number, 0>>` when every branch includes the transaction; its decoded columns
are functions of its log and are left out. A header on the socket counts
as queued. Messages, logging and timers carry no state; a delay is the
freedom to resume later. `MaxFaults` bounds how many statements or calls fail after
their retries, and the loss of the socket is one of them. The calls of a chunk are issued
together, and each is answered at a time of its own: until a job goes on,
`AnsweredLater` may replace its answer by one of the present chain. A null answer is
skipped (`NothingReceived`). When the INSERT of a reorg log fails after the block has been
received, the cache keeps the block (`FailedCache`).
`BloomUtil.isRelevant` has no path that answers false and is no guard.

**External code.** `EthNode` is the only part with no line in the
repository: the chain grows or reorganises above the finalized block, a
reorganisation announces its tip (several announced blocks are a short branch
that grows), the tags advance one at a time, and with
`NodeMayLag` a backend answers null for a block or a tag it does not know (a missing
tag ends the poll: its number is logged before it is compared with null), and
`getLogs` without the logs of such blocks. `safeSeen` is a history of the safe tag, which a
reorganisation sets back. A range
with more than `MaxLogs` logs is refused. The node never reorganises a finalized
block.

## Modules

```
EthNode   BlockTable   EventTable                EthNode -- RpcClient -- RpcClientProofs
      \        |        /                                      :
         IndexerState                                     BlockSource
              |
        ContractEvents
         /          \
  HeaderWorker     RangeSync
        |          /       \
        | PollingValidation  InitialSync
         \         |        /
               Indexer
                  |
         IndexerProperties -- MCIndexer     BlockTable -- MCBlockTable -- BlockApi
          :       |       :                     |                            |
 BlockLedger      |   HeaderQueue        BlockTableLemmas ----------- BlockTableProofs
                  |
            IndexerProofs -- ChainProofs -- PipelineProofs -- SyncProofs
```

Lines are EXTENDS; dotted lines lead to an abstract specification that the module
above implements (INSTANCE ... WITH).

`IndexerState` declares the variables, the types and what a fault and a fresh memory
are. Every activity module defines one action per stretch between awaits, and a step
and a fault operator with its frame. `Indexer` composes them with new blocks,
the loss of the socket, crash and boot. `IndexerProperties` states what is claimed.
`IndexerProofs` extends the two modules of lemmas too: `BlockTableLemmas`, what the
statements on the table change, and `EthNodeLemmas`, what the chain is and how it
grows, which `RpcClientProofs` shares.

Operators named `X_Y` next to an `X` are mutated forms: `X` with a plausible bug.
With it in place of `X`, TLC finds a property of a run violated, which shows that
the property depends on that code; `PROJECT.json` lists the pairs.

## Runs

The instances are small: numbers up to 2 or 3 (4 for the tables alone), one
reorganisation, chunks of two blocks. That is enough for every shape the code
distinguishes: a next number, a duplicate, a past and a skipped number; a row
stored, absent, or inserted between the two statements of a save; rows of each
status at once; a chunk that is full, clipped, or the last of several; a gap
below and above other rows. One reorganisation gives two blocks per number. A third
branch matters for one hazard only (columns of three blocks in one row), which no run
covers.

| Run | Question | Properties |
|---|---|---|
| `realtime_poll` | headers, a reorganisation and polls on an endpoint that may lag interleave | `KeepsLedger`, `StoredHashesWereMined`, `NoStrandedHeader`, `VerificationSparesFinalized` |
| `sync_realtime` | the initial sync races the worker from an empty or a short table; two chunks, one reorganisation, ranges with too many logs | `HandlesHeadersInOrder`, `NoHeaderLost`, `ReorgLogsAreReal`, `NoFalseAlarm`, `LastProcessedIsStored`, `SyncFillsWindow`, `SyncCollectsEvents`, `AbandonedStayRolledBack` |
| `crash_restart` | one fault and one crash with restart at any point; then worker, poll, sync and pending saves write at once | `TypeOK`, `NoPrematureFinality`, `NoFalseAlarm`, `LastProcessedIsStored`, `SyncFillsWindow` |
| `live_poll` | two faults at any point; a dropped header leaves a hole | `HandlesHeadersInOrder`, `PollingEnds`, `QueueDrains`, `GapsGetFilled` |
| `live_rows` | polling across a reorganisation | `RowsConvergeToCache` |
| `block_table` | the repository's statements on every table over five numbers, and a client that turns the pages of the list meanwhile | `GapsCoverHoles`, `WalkSeesStoredRows`, `UpdatesNeverDemote` |
| `rpc_client` | two callers of `getBlockByNumber` across a reorganisation, with refused calls, retries and evictions | `ClientTypeOK`, `AnswersComeFromTheNode`, `EveryCallReturns` |

The passing runs have between some tens of thousands and 1.4 million distinct states
and take up to two minutes each with two workers. `NoHeaderLost` holds
until something fails: an error in `handleNewBlock` drops its header, and no header
comes from a socket that is closed.
`SyncFillsWindow` and `SyncCollectsEvents` are about a growing chain: after a
reorganisation to a lower head the numbers above it do not exist. Both are also about
an endpoint that does not lag: a number answered with null is skipped without an error, and
nothing notices a log that a backend did not have yet. The window is stated without the
code's `StartBlock`: those of the last `InitialSyncBlockCount` numbers that are above every
stored row.
`AbandonedStayRolledBack` is about blocks the chain has left: an answer of `getLogs` from
before the reorganisation may be saved after the rollback. The event of a block that is
canonical should come back, and does not (`claim_events_restored`). The run has the worker
and the sync, and no lagging `getLogs`; that the poll and incomplete answers bring no
abandoned event back either is a theorem.
`GapsGetFilled` says of each number that misses between two rows that it is stored in the
end, or that the row next to the hole has become FINALIZED: the gap query does not see such
a hole, and it stays. The run meets both ends.
`NoFalseAlarm` is the converse of `ReorgLogsAreReal` on a growing chain: nothing is
logged and no event rolled back where there was no reorganisation, although worker,
poll, sync and cache hold blocks of different ages.
`GapsCoverHoles` says exactly what the gap query reports, which is more and less than the
holes (see the differences below).
`WalkSeesStoredRows` is about the list without a filter, and a client that starts at the
page the query has by default, 0, and goes on until a page is not full: a row that leaves the filter moves the others one place up,
and one that stops at the `total` of its first page misses the rows that inserts
have pushed down since.

`rpc_client` has a cache of two entries, so that each further block evicts, two
attempts, two callers, and one tag: `safe` stands for the three, which take the same
path.

`CHECK_DEADLOCK FALSE` is set only where the cron job never fires (`Cron = FALSE`)
and the indexer is at rest when the chain has reached its bound, and the sync is over.

**Abstract specifications.** Three modules say in a few lines what a part promises,
and TLC checks that the part implements them, step by step:

* `BlockLedger` (`KeepsLedger`): the rows, seen as entries with a hash and a status.
  An entry holds the hash of a mined block, is never removed, and its status
  rises to SAFE or FINALIZED only as far as the node has ever called its blocks that. It stands for five writers with overlapping
  statements.
* `HeaderQueue` (`HandlesHeadersInOrder`): the queue and the header in hand, seen as one
  sequence. Headers are appended at the end and leave at the front; the one
  that leaves is stored, or a failure or an end of the process has used it up.
* `BlockSource` (`AnswersComeFromTheNode`): a call of the RPC client, seen without cache,
  attempts and other callers. It ends with what the node offered at some time since
  the call began, with an error, or, for a number and not for a tag, with
  a block the node once had.

**Fairness.** `FairSpec` asks for weak fairness of the steps of worker, poll, sync
and pending jobs, none of it of the node, of faults or of crashes. A step is the
answer to a pending await: `retryOperation` ends after four attempts, statements
and timers complete, and the cron job fires again. Weak fairness of `PollStep`
includes the start of the next poll. In `RpcClient` a pending call is answered or
refused (a connection has a timeout), a delay passes, and an answer is consumed.

### Where the documents and the code differ

Each of these runs checks one sentence of a document or comment; TLC finds
the behaviour that contradicts it.

| Run | Claim | What the code does |
|---|---|---|
| `claim_finalized_canonical` | a FINALIZED block is never reorganised (`block-record.entity.ts`:14) | the status is set by number before the hash is verified |
| `claim_rows_converge` | rows are compared with the node periodically (`BUSINESS_LOGIC.md`:34) | they are compared with `blockCache`, which no reorganisation clears |
| `claim_events_restored` | the state is restored at once (`260422_103840_walkthrough.md`:24) | `orIgnore` leaves a soft-deleted event deleted |
| `claim_sync_events` | the initial sync stores the events with the blocks, without omission (`2604160956_implementation_plan.md`:55) | a save that loses the race for a row ends the sync before the events of the chunk are collected |
| `claim_cache_bounded` | old entries are deleted above 1000 (`260422_104628_walkthrough.md`:13) | one entry is deleted for two that are added |

The model has further behaviours that differ from what is written, for which no run
is kept: the worker's upsert sets a FINALIZED row back (`block-record.repository.ts`:74
says such a row never changes), and saves of a poll that has ended run next to the next
one (`block.service.ts`:33 says polls do not overlap); the upsert replaces a hash without a reorg log
(`block-record.entity.ts`:27) and without rolling events back
(`BUSINESS_LOGIC.md`:48); no common ancestor is looked for (`BUSINESS_LOGIC.md`:25);
a duplicate header sets the status back (`block.service.ts`:213); a corrected row keeps
the timestamp of the abandoned block (`DB_SCHEMA.md`:30); the gap query does not see
a hole next to the last FINALIZED row, and reports FINALIZED rows between pending ones as
missing, which are then fetched again and set back (`BUSINESS_LOGIC.md`:37 and
`block-record.repository.ts`:123 speak of missing blocks); pages count from 0
(`block-record-query.dto.ts`:24), so that a client that starts at page 1, as
`API_SPEC.md`:42 has it, never sees the newest rows; the worker reads
`lastProcessedBlockNumber` again after it has logged the reorganisation, and when the sync
has set it back meanwhile it rolls back events of canonical blocks, from a lower number than
the log names (`block.service.ts`:251; `sync_realtime` with `EventHeights = {0, 1}` reaches
it); there are four attempts with three delays,
not four retries with delays up to 16 s (`blockchain-rpc.service.ts`:102).

## Proofs

Every safety property that a passing run checks is a theorem: invariants, action
properties, and the three refinements. The theorems hold for every value of the constants that
satisfies the named assumptions (`NodeAssumption`, `IndexerAssumption` and the
`NullAssumption` of `IndexerState`; `ClientAssumption` and the `NullAssumption` of
`RpcClient`; `MaxNumberAssumption` and `ApiAssumption` for the table): any
height, any number of reorganisations, any chunk size, page size, cache size and
number of callers, with faults, crashes, lag and overlapping polls. The assumptions say
which constants are numbers, sets and Booleans, that sizes are positive, and that
`Null` is no block, row or request. No theorem about a specification has a further hypothesis; `SyncFillsWindow`,
`SyncCollectsEvents` and `NoFalseAlarm` say themselves when they apply.

A step's proof has one step per action, grouped in one lemma per activity, and the
invariants build on each other in the order below: `TypeInv` is used by all, `MinedInv` by
the modules that follow it.

### Types, finality, queue and events (`IndexerProofs`)

* `TypeCorrect`: `Spec => []TypeOK`. `TypeOK` is not inductive: the
  worker may use `header` only where one is at hand, and an UPDATE has a type
  only when the selected row is still there. `TypeInv == TypeOK /\ Links` adds
  that: the header and the RPC block exist where they are used, a row that was
  selected (by worker, poll or a pending job) or is to be verified is in the table,
  and `logs` is answered only for a range.
* `FinalityIsNeverEarly`: `Spec => []NoPrematureFinality`.
  `FinalityInv` adds `poll.finalized <= finalized`: the tag a poll holds is one
  the node had. `StepFinalizes` shows that a step makes a row FINALIZED only up
  to the tag of the poll: saves write UNFINALIZED or leave the status
  (`SaveFinalizesNothing`), the updates stop at the tag (`UpdateFinalizesUpTo`).
  `TagIsOld` shows that the tag is the node's or an older one.
* `WorkerNeverSleepsOnHeaders`: `Spec => []NoStrandedHeader`, inductive together
  with `TypeInv`.
* `NoAbandonedEventReturns`: `Spec => AbandonedStayRolledBack`, an action
  property. Only two statements write events: the rollback deletes, and the insert
  leaves what is there (`SaveEventsBulk` ignores conflicts).
* `HalvesPartitionRange`: dynamic chunking cuts a range into two shorter
  ranges that cover it and share no block, so it ends and misses nothing.

### What is held was mined (`ChainProofs`)

* `OnlyMinedBlocksAreStored`: `Spec => []StoredHashesWereMined`. A row is written from a
  header, an RPC answer, a cached block or a pending save, each of which was taken
  some awaits earlier, perhaps from a chain the node has left. `MinedInv` says of each of them
  that the node had it: the canonical chain and the parent of every mined
  block, queue and header, `lastProcessedBlock*`, what the sync read, the block
  and the records of the poll, rows, cache and jobs. It also says that a poll starts
  with nothing left of the one before (`PollStartsClean`).
* `TableIsALedger`: `Spec => KeepsLedger`, the refinement of `BlockLedger`. Both
  statements of each save, by worker, poll or job, map to one `Store` of a mined
  block or to a stutter, each UPDATE of the finality status to one `Raise`, and every
  other step leaves the entries alone. It takes `MinedInv` for the hash, `FinalityInv` for the
  finalized tag and `SafetyInv` for the safe tag: a poll's tag is not above `safeSeen`,
  though a reorganisation may have set `safe` back since.
* `ReorgLogsNeverLie`: `Spec => []ReorgLogsAreReal`. The worker's log takes the old hash from
  `lastProcessedBlock*` and the new one from the parent hash of the header, the poll's
  from its record and the answer; both of each pair are mined by `MinedInv`.
* `FinalizedRowsAreSpared`: `Spec => VerificationSparesFinalized`. Needs `TodoOpen`: no
  record that is still to be verified has been finalized since the query. Only the
  UPDATE of the finalized tag finalizes a row, and in its poll that comes before the query.

### The realtime path (`PipelineProofs`)

* `WhatIsRememberedIsStored`: `Spec => []LastProcessedIsStored`. `StoredLinks` adds the two
  places `lastProcessedBlock*` is copied from: the header whose events are being
  collected, and the latest row the sync has read, are stored.
* `WorkerIsAQueue`: `Spec => HandlesHeadersInOrder`, the refinement of `HeaderQueue`.
  `DownOrUp` says that a process that is down holds nothing and listens to nothing, so that `up` is
  one flag; `WorkerHolds`, that a worker between two headers has none at hand, so
  that taking a header leaves `pending` as it is. `WorkerSteps` then sorts the steps of the worker:
  take, handle (the number is stored), fail, or no change.
* `EveryNewNumberIsAwaited`: `Spec => []NoHeaderLost`. `AwaitedInv` says that until something
  fails the process is up, subscribed, and awaits every number mined since the start. A
  reorganisation announces its tip only; that the numbers below it are awaited needs `NewNumbers`:
  a reorganisation mines no number but its tip's for the first time.

### The initial sync (`SyncProofs`)

* `SyncLeavesNoHole`: `Spec => []SyncFillsWindow`. `RangeInv` ties the range to the
  window (`WindowBounds`: what has to be fetched lies between `StartBlock` and the head), `WindowInv` is the loop invariant of `saveBlocksInRange`: what lies below
  the rest of the range is stored, and each number of the current chunk is stored or has a
  pending save that is waited for. A save that fails aborts the range, a number can be stored
  by another activity first, and saves that nobody waits for any more may still run.
* `GrowthIsNoReorg`: `Spec => []NoFalseAlarm`. `FirstBranch` says that before the first
  reorganisation every mined hash is of branch 0, no event is deleted, and neither worker
  nor poll is in the code of a reorganisation. With `MinedInv`, two hashes of one number are equal.
* `SyncMissesNoEvent`: `Spec => []SyncCollectsEvents`. `EventsInv` follows the recursion over
  ranges: each block of the chunk is collected, or lies in a range still to be fetched, or (as no
  backend lags) its logs are in the answer at hand. A range is removed from that list in three ways (it was
  saved, it was cut in two by `Halves`, or the chunk ends), and `FirstBranch` shows that no
  rollback undoes what was collected.

### The RPC client (`RpcClientProofs`)

* `ClientTypeCorrect`: `Spec => []ClientTypeOK`.
* `ClientImplementsSource`: `Spec => AnswersComeFromTheNode`, the refinement of
  `BlockSource`. `ClientInv` says that the cache remembers a block under a number
  only if it had that number when it was mined, although one call adds two entries and evicts
  one; that a call knows no more than the node has offered since it began, or a remembered
  block; and that `window` holds the present offer. Refused attempts, delays and cache updates
  are stutters of `BlockSource`.

### The block table and its list (`BlockTableProofs`, `BlockTableLemmas`)

* `GapsAreMaximal`: `Spec => []GapsCoverHoles` for tables of
  any height: the ranges of the query are the maximal runs of numbers without a pending row,
  between pending rows. The neighbours of a number are the greatest pending number below and the
  least above it (`HasMax`, `HasMin`, by well-founded induction of the library).
* `StatusOnlyRises`: `Spec => UpdatesNeverDemote`, from the type of the table.
* `ApiRunsTable`: `ApiSpec => Spec`. The client of the list does not touch the table, so the two
  theorems above hold of the run's specification as well.
* `WalkMissesNoRow`: `ApiSpec => []WalkSeesStoredRows`. `WalkInv` says where a row is that the
  client has not seen: at or behind the offset of the page it asks for next. The list is in descending
  order, so `Position` of a row is the number of rows above it; inserts only move it back, and
  the page that is read holds exactly `Limit` positions (`FS_` theorems on cardinalities).
* `UpdateStatusResult` and the other lemmas of `BlockTableLemmas` say what each statement on
  the table changes; the proofs above cite them.

### Only model-checked

Liveness: `PollingEnds`, `QueueDrains`, `GapsGetFilled`, `RowsConvergeToCache` and
`EveryCallReturns`. Fairness, `ENABLED` and induction over data are out of the prover's
reach. The claims that do not hold are shown by counterexamples, not by proofs.

## Not modelled

* `GET /blocks/:blockNumber` and `GET /reorgs`, each one read; the `total` of the list,
  which no query reads back; the DTOs but for the default page, the interceptor
  and the filter, which validate and format without a state.
* Configuration, logging and module wiring. `contract.module.ts` imports files the
  repository does not hold; the model follows `contract-event.service.ts` and its
  repository, which it does hold.
* `deleteBlocksFrom`, `onEvent`, `removeAllListeners`: no caller.
* Several instances of the process on one database.
* Decoding of logs into columns: it is a function of the log, and a log that is not
  decoded is skipped on its own.
* The capacity of `blockCache` inside the composition: 1000 entries are far more than
  the numbers of an instance, so its `cache` never evicts. `RpcClient` has the
  eviction, and `RowsConvergeToNode` the consequence of entries that stay.
* Rows with columns of two blocks (`repo.save` writes only the columns that differ from
  the row it selected): that takes three branches of one number, and no run has
  `MaxFork = 2`.

## Plan

Done: node, tables, worker, range saves, poll, sync, composition, the RPC client with
its cache and retries, the block list; abstract specifications of the rows, the header
queue and the RPC client; the runs above; a theorem for every safety property they check.

Left:

1. A refinement between parts: `Indexer` uses `cache` and a call that answers or fails where
   `RpcClient` has the code. That the calls of `Indexer` behave like `BlockSource` is argued
   in *Abstractions*, not checked.
2. Rows with columns of two blocks (`MaxFork = 2`), if an instance can be kept small.
3. A run of the rollback from another number than the logged one, once a document says which
   events a reorganisation rolls back.
4. A property of what is left after the socket has closed or a collection was cut off by a
   crash: today no document promises anything there, and the hazards say so.
