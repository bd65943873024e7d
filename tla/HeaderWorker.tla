---------------------------- MODULE HeaderWorker ----------------------------
(***************************************************************************)
(* The realtime path of block.service.ts: the listener of newHeads puts    *)
(* headers in a queue, processBlockQueue takes them out one at a time and  *)
(* handleNewBlock stores each.                                             *)
(***************************************************************************)
EXTENDS ContractEvents

\* Mutated form: a busy worker makes the listener return before the push.
OnBlockHeader_BusyDrops(block) ==
    IF subscribed /\ ~IsProcessingQueue
    THEN queue' = Append(queue, block) /\ Goto("worker", "loop")
    ELSE UNCHANGED <<queue, pc>>

\* Mutated form: unshift in place of push.
OnBlockHeader_Unshift(block) ==
    IF subscribed
    THEN /\ queue' = <<block>> \o queue
         /\ IF IsProcessingQueue THEN UNCHANGED pc ELSE Goto("worker", "loop")
    ELSE UNCHANGED <<queue, pc>>

\* The listener: push, and start the worker unless it runs.  A header still
\* on the socket counts as queued.
OnBlockHeader(block) ==
    IF subscribed
    THEN /\ queue' = Append(queue, block)
         /\ IF IsProcessingQueue THEN UNCHANGED pc ELSE Goto("worker", "loop")
    ELSE UNCHANGED <<queue, pc>>

\* Mutated form: the number is not compared.
IsReorg_AnyNumber(block) == last # Null /\ block.parentHash # last.hash

\* The block has the next number, and another parent than the last one seen.
IsReorg(block) ==
    /\ last # Null
    /\ block.number = last.number + 1
    /\ block.parentHash # last.hash

SelectForSave(block) ==
    /\ selected' = [selected EXCEPT !["worker"] = SelectRow(blocks, block.number)]
    /\ Goto("worker", "selected")

\* shift, then handleNewBlock up to its first statement.
TakeHeader ==
    /\ pc["worker"] = "loop" /\ queue # <<>>
    /\ queue' = Tail(queue)
    /\ header' = Head(queue)
    /\ IF IsReorg(Head(queue))
       THEN /\ reorgLogs' = reorgLogs \cup
                  {[blockNumber |-> last.number, oldHash |-> last.hash,
                    newHash |-> Head(queue).parentHash]}
            /\ Goto("worker", "reorgLogged")
            /\ UNCHANGED selected
       ELSE SelectForSave(Head(queue)) /\ UNCHANGED reorgLogs
    /\ UNCHANGED <<blocks, events, last, fetch, faults>>

\* lastProcessedBlockNumber is read again here, after an await.
RollBackRealtime ==
    /\ pc["worker"] = "reorgLogged"
    /\ RollbackEvents(last.number)
    /\ Goto("worker", "rolledBack")
    /\ UNCHANGED <<blocks, reorgLogs, queue, last, header, selected, fetch>>

ForgetLast ==
    /\ pc["worker"] = "rolledBack"
    /\ last' = Null
    /\ SelectForSave(header)
    /\ UNCHANGED <<dbVars, queue, header, fetch, faults>>

SaveHeader ==
    /\ pc["worker"] = "selected"
    /\ ~SaveConflicts(blocks, header.number, selected["worker"])
    /\ blocks' = SaveRow(blocks, header.number, NewRecord(header), selected["worker"])
    /\ selected' = [selected EXCEPT !["worker"] = Null]
    /\ BeginFetch("worker", header.number, header.number)
    /\ UNCHANGED <<events, reorgLogs, queue, last, header, faults>>

\* Mutated form: the worker takes one header and stops.
RememberHeader_OnlyOne ==
    /\ Fetched("worker")
    /\ last' = [number |-> header.number, hash |-> header.hash]
    /\ header' = Null
    /\ Goto("worker", "idle")
    /\ UNCHANGED <<dbVars, queue, selected, fetch, faults>>

\* The block is stored and its events collected.
RememberHeader ==
    /\ Fetched("worker")
    /\ last' = [number |-> header.number, hash |-> header.hash]
    /\ header' = Null
    /\ Goto("worker", "loop")
    /\ UNCHANGED <<dbVars, queue, selected, fetch, faults>>

\* handleNewBlock catches every error: the header is dropped.
DropHeader ==
    /\ header' = Null
    /\ selected' = [selected EXCEPT !["worker"] = Null]
    /\ Goto("worker", "loop")
    /\ UNCHANGED <<dbVars, fetch>>

SaveHeaderConflicts ==
    /\ pc["worker"] = "selected"
    /\ SaveConflicts(blocks, header.number, selected["worker"])
    /\ DropHeader
    /\ UNCHANGED <<queue, last, faults>>

QueueEmpty ==
    /\ pc["worker"] = "loop" /\ queue = <<>>
    /\ Goto("worker", "idle")
    /\ UNCHANGED <<dbVars, queue, last, header, selected, fetch, faults>>

\* The statement an activity waits for, or the next one, fails.
HeaderFails ==
    /\ Fault
    /\ DropHeader
    /\ \/ pc["worker"] = "loop" /\ queue # <<>> /\ queue' = Tail(queue) /\ UNCHANGED last
       \/ pc["worker"] \in {"reorgLogged", "selected"} /\ UNCHANGED <<queue, last>>
       \/ pc["worker"] = "rolledBack" /\ last' = Null /\ UNCHANGED queue

WorkerFrame == UNCHANGED <<nodeVars, subscribed, finalityVars, cache, logs, poll, sync,
                           rangeVars, crashes>>

WorkerStep ==
    \/ /\ \/ TakeHeader \/ RollBackRealtime \/ ForgetLast \/ SaveHeader
          \/ SaveHeaderConflicts \/ RememberHeader \/ QueueEmpty
       /\ WorkerFrame
    \/ FetchStep("worker")

WorkerFault == HeaderFails /\ WorkerFrame
=============================================================================
