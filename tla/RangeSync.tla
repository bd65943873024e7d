----------------------------- MODULE RangeSync ------------------------------
(***************************************************************************)
(* saveBlocksInRange of block.service.ts, which poll and sync call.  It    *)
(* cuts the range into chunks, and for each chunk starts one job per       *)
(* block, waits for all of them (Promise.all), collects the events of the  *)
(* chunk and pauses.  A caller goes to "range" and takes over again there  *)
(* when nothing is left of the range.                                      *)
(***************************************************************************)
EXTENDS ContractEvents

SaveBlocksInRange(task, from, to) ==
    /\ range' = [range EXCEPT ![task] = [from |-> from, to |-> to]]
    /\ Goto(task, "range")

\* Mutated form: "<" in the loop over the range.
RangeDone_Early(task) == pc[task] = "range" /\ range[task].from >= range[task].to

RangeDone(task) == pc[task] = "range" /\ range[task].from > range[task].to

ChunkEnd(r) == IF r.from + ChunkSize - 1 < r.to THEN r.from + ChunkSize - 1 ELSE r.to

\* A number the cache holds needs no call: its job has already selected its row.
NewJob(task, n, lagging) ==
    IF cache[n] # Null
    THEN [owner |-> task, awaited |-> TRUE, number |-> n, stage |-> "save",
          block |-> cache[n], selected |-> SelectRow(blocks, n)]
    ELSE [owner |-> task, awaited |-> TRUE, number |-> n, stage |-> "get",
          block |-> Answer(n, lagging), selected |-> Null]

\* The calls of a chunk travel in one batch.
StartChunk(task) ==
    /\ pc[task] = "range" /\ ~RangeDone(task)
    /\ LET numbers == range[task].from .. ChunkEnd(range[task])
       IN  \E lagging \in Lags(numbers) :
              jobs' = jobs \cup {NewJob(task, n, lagging) : n \in numbers}
    /\ Goto(task, "chunk")
    /\ UNCHANGED <<fetch, range>>

ChunkSaved(task) ==
    /\ pc[task] = "chunk"
    /\ \A j \in jobs : ~(j.owner = task /\ j.awaited)
    /\ BeginFetch(task, range[task].from, ChunkEnd(range[task]))
    /\ UNCHANGED rangeVars

\* Mutated form: the next chunk starts one block too late.
NextChunk_SkipsOne(task) ==
    /\ Fetched(task)
    /\ range' = [range EXCEPT ![task].from = @ + ChunkSize + 1]
    /\ Goto(task, "range")
    /\ UNCHANGED <<jobs, fetch>>

NextChunk(task) ==
    /\ Fetched(task)
    /\ range' = [range EXCEPT ![task].from = @ + ChunkSize]
    /\ Goto(task, "range")
    /\ UNCHANGED <<jobs, fetch>>

ChunkFrame == UNCHANGED <<nodeVars, dbVars, wsVars, last, finalityVars, cache, header,
                          selected, logs, poll, sync, budgetVars>>

\* Mutated form: isPolling is reset at the end of the try, not in finally.
Abort_NoFinally(task) ==
    /\ Goto(task, "done")
    /\ poll' = IF task = "poll" THEN NoPoll ELSE poll
    /\ sync' = IF task = "sync" THEN NoSync ELSE sync
    /\ selected' = [selected EXCEPT ![task] = Null]
    /\ range' = [range EXCEPT ![task] = NoRange]

\* handlePollingValidation and syncInitialBlocks catch every error.  The jobs
\* they waited for go on, and nobody waits for them.
Abort(task) ==
    /\ Goto(task, IF task = "poll" THEN "idle" ELSE "done")
    /\ poll' = IF task = "poll" THEN NoPoll ELSE poll
    /\ sync' = IF task = "sync" THEN NoSync ELSE sync
    /\ selected' = [selected EXCEPT ![task] = Null]
    /\ range' = [range EXCEPT ![task] = NoRange]

\* Mutated form: Promise.allSettled.
Rejected_Settled(j) ==
    /\ jobs' = jobs \ {j}
    /\ UNCHANGED <<pc, poll, sync, selected, range, blocks, cache>>

Rejected(j) ==
    /\ IF j.awaited
       THEN /\ jobs' = {IF i.owner = j.owner THEN [i EXCEPT !.awaited = FALSE] ELSE i :
                         i \in jobs \ {j}}
            /\ Abort(j.owner)
       ELSE /\ jobs' = jobs \ {j}
            /\ UNCHANGED <<pc, poll, sync, selected, range>>
    /\ UNCHANGED <<blocks, cache>>

\* A call of the batch is answered after others, or has to be tried again: it
\* is the chain of that time that counts.
AnsweredLater(j) ==
    /\ j.stage = "get"
    /\ \E lagging \in Lags({j.number}) :
          jobs' = (jobs \ {j}) \cup {[j EXCEPT !.block = Answer(j.number, lagging)]}
    /\ UNCHANGED <<blocks, cache, pc, poll, sync, selected, range>>

\* A null block is skipped.
NothingReceived(j) ==
    /\ j.stage = "get" /\ j.block = Null
    /\ jobs' = jobs \ {j}
    /\ UNCHANGED <<blocks, cache, pc, poll, sync, selected, range>>

\* getBlockByNumber stores the answer in the cache, and save selects the row.
BlockReceived(j) ==
    /\ j.stage = "get" /\ j.block # Null
    /\ cache' = [cache EXCEPT ![j.number] = j.block]
    /\ jobs' = (jobs \ {j}) \cup
                 {[j EXCEPT !.stage = "save", !.selected = SelectRow(blocks, j.number)]}
    /\ UNCHANGED <<blocks, pc, poll, sync, selected, range>>

BlockSaved(j) ==
    /\ j.stage = "save"
    /\ ~SaveConflicts(blocks, j.number, j.selected)
    /\ blocks' = SaveRow(blocks, j.number, NewRecord(j.block), j.selected)
    /\ jobs' = jobs \ {j}
    /\ UNCHANGED <<cache, pc, poll, sync, selected, range>>

BlockConflicts(j) ==
    /\ j.stage = "save"
    /\ SaveConflicts(blocks, j.number, j.selected)
    /\ Rejected(j)

JobFrame == UNCHANGED <<nodeVars, events, reorgLogs, wsVars, last, finalityVars, header,
                        fetchVars, crashes>>

JobStep ==
    /\ \E j \in jobs :
          \/ AnsweredLater(j) \/ NothingReceived(j)
          \/ BlockReceived(j) \/ BlockSaved(j) \/ BlockConflicts(j)
    /\ UNCHANGED faults
    /\ JobFrame

JobFault == (\E j \in jobs : Rejected(j)) /\ Fault /\ JobFrame
=============================================================================
