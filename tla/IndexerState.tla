---------------------------- MODULE IndexerState ----------------------------
(***************************************************************************)
(* The state of one indexer process, its database and its node.            *)
(*                                                                         *)
(* The process is single-threaded: code runs without interleaving from one *)
(* await to the next.  An action is such a stretch: it consumes the answer *)
(* the activity waits for, runs to the next await and lets the statement   *)
(* or call issued there take effect; the answer stays in a local variable  *)
(* until the activity resumes, any time later.  pc names what an activity  *)
(* waits for.  Three activities run concurrently, and so do the saves that *)
(* saveBlocksInRange starts, one job for each block of a chunk:            *)
(*   worker  processBlockQueue and handleNewBlock                          *)
(*   poll    handlePollingValidation                                       *)
(*   sync    syncInitialBlocks                                             *)
(***************************************************************************)
EXTENDS EthNode, BlockTable, EventTable, Sequences

CONSTANTS
    ChunkSize,             \* chunkSize of saveBlocksInRange
    InitialSyncBlockCount, \* INITIAL_SYNC_BLOCK_COUNT
    Listening,             \* are CONTRACT_ADDRESSES and CONTRACTS_TOPICS set?
    Cron,                  \* does POLLING_CRON_TIME ever fire?
    NewHeads,              \* does the node push newHeads messages?
    StoredHeads,           \* last blocks earlier runs may have stored; -1: none
    SyncOver,              \* start when the initial sync is over, all being stored?
    MaxFaults,             \* bound: failing statements, calls and connections
    MaxCrashes             \* bound: crashes of the process

ASSUME IndexerAssumption ==
    /\ ChunkSize \in Nat \ {0}
    /\ InitialSyncBlockCount \in Nat
    /\ {Listening, Cron, NewHeads} \subseteq BOOLEAN
    /\ StoredHeads \subseteq -1..InitHead
    /\ SyncOver \in BOOLEAN /\ (SyncOver => StoredHeads = {InitHead})
    /\ MaxFaults \in Nat
    /\ MaxCrashes \in Nat

VARIABLES
    \* the database
    blocks,         \* block_records
    events,         \* contract_event_records
    reorgLogs,      \* reorg_logs
    \* fields of the services
    subscribed,     \* is the newHeads listener attached to a live socket?
    queue,          \* blockQueue
    last,           \* lastProcessedBlockNumber and lastProcessedBlockHash
    lastSafe,       \* lastProcessedSafeBlock
    lastFinalized,  \* lastProcessedFinalizedBlock
    cache,          \* blockCache, the entries keyed by number
    \* local variables of the activities
    pc,             \* what each activity waits for
    header,         \* the header handleNewBlock works on
    selected,       \* the row TypeORM's save has selected, of worker and poll
    fetch,          \* ranges whose logs fetchAndSaveEventsForBlock has yet to get
    logs,           \* answer of getLogs
    poll,           \* local variables of handlePollingValidation
    sync,           \* local variables of syncInitialBlocks
    range,          \* blocks saveBlocksInRange has yet to start, of poll and sync
    jobs,           \* its pending saves
    \* counters of the bounds
    faults,
    crashes

dbVars       == <<blocks, events, reorgLogs>>
wsVars       == <<subscribed, queue>>
finalityVars == <<lastSafe, lastFinalized>>
fetchVars    == <<fetch, logs>>
rangeVars    == <<range, jobs>>
budgetVars   == <<faults, crashes>>

vars == <<nodeVars, dbVars, wsVars, last, finalityVars, cache, pc, header,
          selected, fetchVars, poll, sync, rangeVars, budgetVars>>

Tasks == {"worker", "poll", "sync"}

PcLabels ==
    {"down", "idle", "loop", "reorgLogged", "rolledBack", "selected", "fetch", "logs",
     "safeTag", "finalizedTag", "safeUpdated", "finalizedUpdated", "verify",
     "block", "logged", "saved", "gaps", "range", "chunk",
     "start", "latest", "network", "refresh", "done"}

Rows     == BlockRecord(Hashes)
FetchRanges == [from : Nat, to : Int]
Ranges   == [from : Nat, to : -1..MaxHeight]
NoRange  == [from |-> 0, to |-> -1]
NoPoll   == [safe |-> 0, finalized |-> 0, todo |-> EmptyTable, rpcBlock |-> Null, gaps |-> {}]
NoSync   == [latest |-> Null, network |-> 0]
LastSeen == [number : Heights, hash : Hashes]
Syncs    == [latest : LastSeen \cup {Null}, network : Heights]

IsTable(t) == DOMAIN t \subseteq Heights /\ t \in [DOMAIN t -> Rows]

IsPoll(p) ==
    /\ p = [safe |-> p.safe, finalized |-> p.finalized, todo |-> p.todo,
            rpcBlock |-> p.rpcBlock, gaps |-> p.gaps]
    /\ p.safe \in Heights /\ p.finalized \in Heights
    /\ IsTable(p.todo)
    /\ p.rpcBlock \in Blocks \cup {Null}
    /\ p.gaps \subseteq Heights \X Heights

\* eth_getBlockByNumber
Answer(n, lagging) == IF Known(n, lagging) THEN Block(n) ELSE Null

\* A pending save of saveBlocksInRange: the block is fetched first unless the
\* cache holds it; block is the node's answer as it stands.  The job is awaited
\* until its Promise.all is rejected.
Jobs == [owner : {"poll", "sync"}, awaited : BOOLEAN, number : Heights,
         stage : {"get", "save"}, block : Blocks \cup {Null}, selected : Rows \cup {Null}]

ReorgLog == [blockNumber : Heights, oldHash : Hashes, newHash : Hashes]

ASSUME NullAssumption == Null \notin Rows \cup Blocks \cup LastSeen

\* isProcessingQueue and isPolling
IsProcessingQueue == pc["worker"] # "idle"
IsPolling == pc["poll"] # "idle"

Goto(task, label) == pc' = [pc EXCEPT ![task] = label]

\* A statement or call fails; MaxFaults bounds how often.
Fault == faults < MaxFaults /\ faults' = faults + 1

\* The memory of a process that has just started or is not running.
FreshMemory(labels) ==
    /\ queue' = <<>>
    /\ last' = Null
    /\ lastSafe' = 0 /\ lastFinalized' = 0
    /\ cache' = [n \in Heights |-> Null]
    /\ pc' = labels
    /\ header' = Null
    /\ selected' = [t \in Tasks |-> Null]
    /\ fetch' = [t \in Tasks |-> <<>>]
    /\ logs' = [t \in Tasks |-> {}]
    /\ poll' = NoPoll /\ sync' = NoSync
    /\ range' = [t \in Tasks |-> NoRange]
    /\ jobs' = {}
=============================================================================
