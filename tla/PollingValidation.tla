-------------------------- MODULE PollingValidation -------------------------
(***************************************************************************)
(* handlePollingValidation of block.service.ts: copy the finality tags     *)
(* into the table, compare every row that is not finalized with the node   *)
(* (or with the cache in front of it), correct the rows that differ, then  *)
(* fetch the blocks missing between such rows.                             *)
(***************************************************************************)
EXTENDS RangeSync

Without(table, n) == [m \in DOMAIN table \ {n} |-> table[m]]

\* record: blocksToVerify is walked from the highest number down, and todo
\* loses a record when it is done with.
IsCurrent(n) == n \in DOMAIN poll.todo /\ \A m \in DOMAIN poll.todo : m <= n
NoneLeft == DOMAIN poll.todo = {}

\* Mutated form: the latest block is asked for in place of the safe one.
StartPolling_Latest ==
    /\ Cron
    /\ ~IsPolling /\ pc["poll"] # "down"
    /\ poll' = [poll EXCEPT !.safe = head]
    /\ Goto("poll", "safeTag")
    /\ UNCHANGED <<dbVars, finalityVars, cache, selected, fetch, range, jobs, faults>>

StartPolling ==
    /\ Cron
    /\ ~IsPolling /\ pc["poll"] # "down"
    /\ poll' = [poll EXCEPT !.safe = safe]
    /\ Goto("poll", "safeTag")
    /\ UNCHANGED <<dbVars, finalityVars, cache, selected, fetch, range, jobs, faults>>

GetFinalizedTag ==
    /\ pc["poll"] = "safeTag"
    /\ poll' = [poll EXCEPT !.finalized = finalized]
    /\ Goto("poll", "finalizedTag")
    /\ UNCHANGED <<dbVars, finalityVars, cache, selected, fetch, range, jobs, faults>>

\* A tag is null.  Its number is logged before it is compared with null: a
\* TypeError ends the poll.
TagMissing ==
    /\ NodeMayLag
    /\ pc["poll"] = "finalizedTag"
    /\ Abort("poll")
    /\ UNCHANGED <<dbVars, finalityVars, cache, fetch, jobs, faults>>

UpdateSafe ==
    /\ pc["poll"] = "finalizedTag"
    /\ poll.safe > lastSafe
    /\ blocks' = UpdateStatusUpToBlock(blocks, poll.safe, SAFE)
    /\ Goto("poll", "safeUpdated")
    /\ UNCHANGED <<events, reorgLogs, finalityVars, cache, selected, poll, fetch, range, jobs, faults>>

\* The SAFE update has been answered, or was not due.
SafeSettled ==
    \/ pc["poll"] = "safeUpdated"
    \/ pc["poll"] = "finalizedTag" /\ poll.safe <= lastSafe
NextLastSafe == IF pc["poll"] = "safeUpdated" THEN poll.safe ELSE lastSafe

UpdateFinalized ==
    /\ SafeSettled
    /\ lastSafe' = NextLastSafe
    /\ poll.finalized > lastFinalized
    /\ blocks' = UpdateStatusUpToBlock(blocks, poll.finalized, FINALIZED)
    /\ Goto("poll", "finalizedUpdated")
    /\ UNCHANGED <<events, reorgLogs, lastFinalized, cache, selected, poll, fetch, range, jobs, faults>>

FindBlocksToVerify ==
    /\ \/ /\ SafeSettled
          /\ poll.finalized <= lastFinalized
          /\ lastSafe' = NextLastSafe
          /\ UNCHANGED lastFinalized
       \/ /\ pc["poll"] = "finalizedUpdated"
          /\ lastFinalized' = poll.finalized
          /\ UNCHANGED lastSafe
    /\ poll' = [poll EXCEPT !.todo = FindUnfinalizedAndSafeBlocks(blocks)]
    /\ Goto("poll", "verify")
    /\ UNCHANGED <<dbVars, cache, selected, fetch, range, jobs, faults>>

NextRecord(n) ==
    /\ poll' = [poll EXCEPT !.todo = Without(@, n), !.rpcBlock = Null]
    /\ Goto("poll", "verify")

\* Mutated form: the hash of the row is compared with the parent hash.
Differs_Parent(n, rpcBlock) == rpcBlock # Null /\ rpcBlock.parentHash # poll.todo[n].blockHash

\* rpcBlock && rpcBlock.hash !== record.blockHash
Differs(n, rpcBlock) == rpcBlock # Null /\ rpcBlock.hash # poll.todo[n].blockHash

Compare(n, rpcBlock) ==
    IF Differs(n, rpcBlock)
    THEN /\ reorgLogs' = reorgLogs \cup
               {[blockNumber |-> n, oldHash |-> poll.todo[n].blockHash,
                 newHash |-> rpcBlock.hash]}
         /\ poll' = [poll EXCEPT !.rpcBlock = rpcBlock]
         /\ Goto("poll", "logged")
    ELSE NextRecord(n) /\ UNCHANGED reorgLogs

VerifyCached(n) ==
    /\ pc["poll"] = "verify"
    /\ cache[n] # Null
    /\ Compare(n, cache[n])
    /\ UNCHANGED <<blocks, events, finalityVars, cache, selected, fetch, range, jobs, faults>>

RequestBlock(n) ==
    /\ pc["poll"] = "verify"
    /\ cache[n] = Null
    /\ \E lagging \in Lags({n}) :
          poll' = [poll EXCEPT !.rpcBlock = Answer(n, lagging)]
    /\ Goto("poll", "block")
    /\ UNCHANGED <<dbVars, finalityVars, cache, selected, fetch, range, jobs, faults>>

VerifyReceived(n) ==
    /\ pc["poll"] = "block"
    /\ cache' = IF poll.rpcBlock = Null THEN cache ELSE [cache EXCEPT ![n] = poll.rpcBlock]
    /\ Compare(n, poll.rpcBlock)
    /\ UNCHANGED <<blocks, events, finalityVars, selected, fetch, range, jobs, faults>>

SelectRecord(n) ==
    /\ pc["poll"] = "logged"
    /\ selected' = [selected EXCEPT !["poll"] = SelectRow(blocks, n)]
    /\ Goto("poll", "selected")
    /\ UNCHANGED <<dbVars, finalityVars, cache, poll, fetch, range, jobs, faults>>

\* Mutated forms: the two hashes are swapped; the new parent is not assigned.
Corrected_Swapped(record, rpcBlock) ==
    [record EXCEPT !.blockHash = rpcBlock.parentHash, !.parentHash = rpcBlock.hash,
                   !.status = UNFINALIZED]
Corrected_KeepsParent(record, rpcBlock) ==
    [record EXCEPT !.blockHash = rpcBlock.hash, !.status = UNFINALIZED]

\* The record keeps the timestamp it was read with.
Corrected(record, rpcBlock) ==
    [record EXCEPT !.blockHash = rpcBlock.hash, !.parentHash = rpcBlock.parentHash,
                   !.status = UNFINALIZED]

\* Rows are never deleted, so the row was selected and this is an UPDATE.
SaveRecord(n) ==
    /\ pc["poll"] = "selected"
    /\ blocks' = SaveRow(blocks, n, Corrected(poll.todo[n], poll.rpcBlock),
                         selected["poll"])
    /\ selected' = [selected EXCEPT !["poll"] = Null]
    /\ Goto("poll", "saved")
    /\ UNCHANGED <<events, reorgLogs, finalityVars, cache, poll, fetch, range, jobs, faults>>

RollBackRecord(n) ==
    /\ pc["poll"] = "saved"
    /\ RollbackEvents(n)
    /\ Goto("poll", "rolledBack")
    /\ UNCHANGED <<blocks, reorgLogs, finalityVars, cache, selected, poll, fetch, range, jobs>>

CollectRecord(n) ==
    /\ pc["poll"] = "rolledBack"
    /\ BeginFetch("poll", n, n)
    /\ UNCHANGED <<dbVars, finalityVars, cache, selected, poll, range, jobs, faults>>

RecordDone(n) ==
    /\ Fetched("poll")
    /\ NextRecord(n)
    /\ UNCHANGED <<dbVars, finalityVars, cache, selected, fetch, range, jobs, faults>>

VerifyStep ==
    \E n \in Heights :
        /\ IsCurrent(n)
        /\ \/ VerifyCached(n) \/ RequestBlock(n) \/ VerifyReceived(n) \/ SelectRecord(n)
           \/ SaveRecord(n) \/ RollBackRecord(n) \/ CollectRecord(n) \/ RecordDone(n)

FindGaps ==
    /\ pc["poll"] = "verify" /\ NoneLeft
    /\ poll' = [poll EXCEPT !.gaps = FindMissingBlockGaps(blocks)]
    /\ Goto("poll", "gaps")
    /\ UNCHANGED <<dbVars, finalityVars, cache, selected, fetch, range, jobs, faults>>

\* The query names no order: any gap may come next.
TakeGap ==
    /\ pc["poll"] = "gaps"
    /\ \E gap \in poll.gaps :
          /\ poll' = [poll EXCEPT !.gaps = @ \ {gap}]
          /\ SaveBlocksInRange("poll", gap[1], gap[2])
    /\ UNCHANGED <<dbVars, finalityVars, cache, selected, fetch, jobs, faults>>

GapDone ==
    /\ RangeDone("poll")
    /\ range' = [range EXCEPT !["poll"] = NoRange]
    /\ Goto("poll", "gaps")
    /\ UNCHANGED <<dbVars, finalityVars, cache, selected, poll, fetch, jobs, faults>>

PollDone ==
    /\ pc["poll"] = "gaps" /\ poll.gaps = {}
    /\ poll' = NoPoll
    /\ Goto("poll", "idle")
    /\ UNCHANGED <<dbVars, finalityVars, cache, selected, fetch, range, jobs, faults>>

\* The cache when a call for a block, or the INSERT of the log that its answer
\* calls for, has failed.
FailedCache(n) ==
    IF pc["poll"] = "block" /\ IsCurrent(n) /\ Differs(n, poll.rpcBlock)
    THEN {cache, [cache EXCEPT ![n] = poll.rpcBlock]} ELSE {cache}

\* A statement or call fails and the catch ends the poll.  When it is the one
\* after the SAFE update, lastProcessedSafeBlock has been set.
PollFails ==
    /\ pc["poll"] \in {"safeTag", "finalizedTag", "safeUpdated", "finalizedUpdated",
                       "verify", "block", "logged", "selected", "saved"}
    /\ Fault
    /\ Abort("poll")
    /\ lastSafe' \in {lastSafe, NextLastSafe}
    /\ \E n \in Heights : cache' \in FailedCache(n)
    /\ UNCHANGED <<dbVars, lastFinalized, fetch, jobs>>

PollFrame == UNCHANGED <<nodeVars, wsVars, last, header, logs, sync, crashes>>

PollStep ==
    \/ /\ \/ StartPolling \/ GetFinalizedTag \/ TagMissing \/ UpdateSafe \/ UpdateFinalized
          \/ FindBlocksToVerify \/ VerifyStep
          \/ FindGaps \/ TakeGap \/ GapDone \/ PollDone
       /\ PollFrame
    \/ FetchStep("poll")
    \/ /\ \/ StartChunk("poll")
          \/ ChunkSaved("poll")
          \/ NoneLeft /\ NextChunk("poll")
       /\ ChunkFrame

PollFault == PollFails /\ PollFrame
=============================================================================
