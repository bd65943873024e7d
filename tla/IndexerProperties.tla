-------------------------- MODULE IndexerProperties -------------------------
(***************************************************************************)
(* What the indexer promises.  First what holds, then what the comments    *)
(* and documents of the repository say and the code does not do; a run of  *)
(* TLC shows the behaviour that contradicts each of the latter.            *)
(***************************************************************************)
EXTENDS Indexer

Numbers == DOMAIN blocks

MinedHash(n, hash) == \E b \in mined : b.number = n /\ b.hash = hash

Quiet == ~IsProcessingQueue /\ ~IsPolling /\ pc["sync"] = "done" /\ jobs = {}

(***************************************************************************)
(*                        Properties that hold                             *)
(***************************************************************************)

\* A row is marked FINALIZED only when the node has finalized its number,
\* whatever saves of other activities fall between the reading of the tag and
\* the UPDATE, and whatever tags earlier polls have read.
NoPrematureFinality ==
    \A n \in Numbers : blocks[n].status = FINALIZED => n <= finalized

\* Every reorg log names two different blocks that were both mined with its
\* number, although the worker takes the number and the old hash from
\* lastProcessedBlock*, the new hash from the parent of another block, and the
\* sync overwrites lastProcessedBlock* meanwhile.
ReorgLogsAreReal ==
    \A l \in reorgLogs :
        /\ l.oldHash # l.newHash
        /\ MinedHash(l.blockNumber, l.oldHash)
        /\ MinedHash(l.blockNumber, l.newHash)

\* There is no false alarm: while the chain only grows, no reorg is logged and no
\* event is rolled back, although the worker compares a header with a
\* lastProcessedBlock* the sync may have set back or moved on, the poll a row
\* with a block it fetched before, and either may start again after a crash.
NoFalseAlarm ==
    chain[MaxHeight] = 0 => reorgLogs = {} /\ DOMAIN events = Live(events)

\* Every stored hash and every cached block belongs to a block that was mined
\* with that number: no interleaving of worker, poll, sync and pending saves
\* writes a block under the number of another.
StoredHashesWereMined ==
    /\ \A n \in Numbers : MinedHash(n, blocks[n].blockHash)
    /\ \A n \in Heights : cache[n] # Null => cache[n] \in mined /\ cache[n].number = n
    /\ \A j \in jobs : j.block # Null => j.block \in mined /\ j.block.number = j.number

\* The worker never sleeps on a queue with headers: a header that arrives
\* while it stops is either seen by it or wakes it up.
NoStrandedHeader == ~IsProcessingQueue => queue = <<>>

\* Does the node push its headers to a process that has met no failure so far?
Unfaulted == NewHeads /\ faults = 0 /\ crashes = 0

\* The number of every block mined since the start is queued, being handled, or
\* stored, until something fails.  A save that loses the race for the row (the
\* INSERT conflicts) drops the header, but not the number.
NoHeaderLost ==
    Unfaulted =>
        \A n \in InitHead + 1 .. MaxHeight :
            (\E b \in mined : b.number = n) =>
                \/ n \in Numbers
                \/ header # Null /\ header.number = n
                \/ \E i \in DOMAIN queue : queue[i].number = n

\* lastProcessedBlock* never names a number that is not stored, so that what
\* the worker compares a parent hash with is a block it or the sync stored.
LastProcessedIsStored == last # Null => last.number \in Numbers

\* The poll corrects no FINALIZED row: between the query for the rows to
\* verify and the UPDATE of one of them, nothing finalizes it.
VerificationSparesFinalized ==
    [][pc["poll"] = "selected" /\ pc'["poll"] = "saved"
       => \A n \in Numbers : blocks[n].status = FINALIZED => blocks'[n] = blocks[n]]_vars

\* Events are never removed, and a rolled-back event of a block the chain has
\* left is not brought back by an answer of getLogs from before, which another
\* activity saves after the rollback.  (That those of canonical blocks should
\* come back is CanonicalEventsAreRestored.)
AbandonedStayRolledBack ==
    [][\A l \in DOMAIN events :
          /\ l \in DOMAIN events'
          /\ events[l] = "Y" /\ l # LogAt(l[1]) => events'[l] = "Y"]_vars

\* The table is a ledger: whoever writes a row, and however the two statements
\* of the saves overlap, an entry names a mined block, is never removed, and its
\* status rises to SAFE or FINALIZED no further than the node has ever called
\* blocks safe or finalized.
Ledger == INSTANCE BlockLedger WITH
    entries <- [n \in Numbers |-> [hash   |-> blocks[n].blockHash,
                                   status |-> blocks[n].status]],
    mined   <- {<<b.number, b.hash>> : b \in mined},
    safe    <- safeSeen

KeepsLedger == Ledger!Spec

\* The worker handles the headers it is sent once each and in order, and leaves
\* none before its number is stored, unless a statement fails or the process
\* ends; the listener, other activities and a row they insert do not matter.
Pipeline == INSTANCE HeaderQueue WITH
    Headers  <- Blocks,
    up       <- pc # Down,
    pending  <- (IF header = Null THEN <<>> ELSE <<header>>) \o queue,
    stored   <- Numbers,
    failures <- faults

HandlesHeadersInOrder == Pipeline!Spec

\* What the initial sync has to fetch: those of the last INITIAL_SYNC_BLOCK_COUNT
\* blocks of the node that are newer than every stored one.
Window ==
    {n \in 0..sync.network :
        /\ n > sync.network - InitialSyncBlockCount
        /\ sync.latest # Null => n > sync.latest.number}

\* While the chain only grows and no backend lags, the initial sync leaves no
\* hole in that window: all of it is stored when lastProcessedBlock* is
\* refreshed, wherever the range starts, however it falls into chunks, whatever
\* the worker stores meanwhile, and whichever save fails (the sync has been
\* abandoned then).
SyncFillsWindow ==
    RangeDone("sync") /\ chain[MaxHeight] = 0 /\ ~NodeMayLag => Window \subseteq Numbers

\* ... and unless a call or a statement has failed, so are the events of the
\* window: the collection for a chunk misses none of its blocks.
SyncCollectsEvents ==
    RangeDone("sync") /\ chain[MaxHeight] = 0 /\ ~NodeMayLag /\ faults = 0 /\ Listening
        => \A n \in Window : Logs(n, n) \subseteq Live(events)

\* A poll ends, whatever fails: isPolling is not left set.
PollingEnds == IsPolling ~> ~IsPolling

\* Every header in the queue is taken out in the end.
QueueDrains == queue # <<>> ~> queue = <<>>

\* A number that is missing between two rows is stored in the end, unless the
\* row next to the hole on one side has become FINALIZED: the gap query does not
\* see that hole, and it stays (BUSINESS_LOGIC.md C.3 makes no such exception).
Beside(n, m) ==
    /\ m \in Numbers
    /\ n \notin Numbers
    /\ \A k \in Numbers : ~(n < k /\ k < m) /\ ~(m < k /\ k < n)

Hole(n) ==
    /\ \E m \in Heights : m < n /\ Beside(n, m)
    /\ \E m \in Heights : n < m /\ Beside(n, m)

Sealed(n) == \E m \in Heights : Beside(n, m) /\ blocks[m].status = FINALIZED

GapsGetFilled == \A n \in Heights : Hole(n) ~> n \in Numbers \/ Sealed(n)

\* Polling brings every row that is not FINALIZED to the block the RPC layer
\* answers for its number, as long as that answer is the cached one: its hash
\* and, although only the hashes are compared, its parent hash.
RowsConvergeToCache ==
    <>[](\A n \in Numbers :
            blocks[n].status # FINALIZED /\ cache[n] # Null
            => /\ blocks[n].blockHash = cache[n].hash
               /\ blocks[n].parentHash = cache[n].parentHash)

(***************************************************************************)
(*              Claims of the repository that do not hold                  *)
(***************************************************************************)

\* block-record.entity.ts:13-14: a FINALIZED block is never reorganised, so it
\* is no longer polled.  The status is set by number before the hash of the
\* row has been compared with the node.
FinalizedRowsAreCanonical ==
    Quiet =>
    \A n \in Numbers : blocks[n].status = FINALIZED => blocks[n].blockHash = HashAt(n)

\* BUSINESS_LOGIC.md C.2: rows that are not FINALIZED are fetched again
\* periodically, compared with the hash of the node and corrected.  The
\* numeric entries of blockCache are dropped by age only.
RowsConvergeToNode ==
    <>[](\A n \in Numbers :
            blocks[n].status # FINALIZED /\ n <= head => blocks[n].blockHash = HashAt(n))

\* 260422_103840_walkthrough.md: rollbackEvents restores the state at once.
\* INSERT ... ON CONFLICT DO NOTHING never brings a deleted event back.
CanonicalEventsAreRestored ==
    Quiet /\ (\A n \in Numbers : blocks[n].blockHash = HashAt(n))
    => \A l \in DOMAIN events : l[1] <= head /\ l \in Logs(l[1], l[1]) => l \in Live(events)

\* 2604160956_implementation_plan.md:55: when the initial sync has run, the
\* events of the blocks are stored with them, without omission.  A save that
\* meets a row of the worker ends the sync before the events of the chunk are
\* collected, although nothing has failed and the chain only grew.
SyncLeavesNoEventBehind ==
    Quiet /\ faults = 0 /\ chain[MaxHeight] = 0 /\ Listening
    => \A n \in Numbers : Logs(n, n) \subseteq Live(events)
=============================================================================
