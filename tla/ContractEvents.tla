--------------------------- MODULE ContractEvents ---------------------------
(***************************************************************************)
(* contract-event.service.ts: fetchAndSaveEventsForBlock and               *)
(* rollbackEvents, called by each of the activities.  An activity that     *)
(* calls the first goes to "fetch" and is back in its caller when no range *)
(* is left.  BloomUtil.isRelevant never answers false, so it is no guard.  *)
(***************************************************************************)
EXTENDS IndexerState

\* The service does nothing when no contract is configured.
RangesToFetch(from, to) == IF Listening THEN <<[from |-> from, to |-> to]>> ELSE <<>>

BeginFetch(task, from, to) ==
    /\ Goto(task, "fetch")
    /\ fetch' = [fetch EXCEPT ![task] = RangesToFetch(from, to)]

Fetched(task) == pc[task] = "fetch" /\ fetch[task] = <<>>

GetLogs(task) ==
    /\ pc[task] = "fetch" /\ fetch[task] # <<>>
    /\ LET r == Head(fetch[task])
       IN  \E answer \in LogAnswers(r.from, r.to) :
              /\ LogsFit(answer)
              /\ logs' = [logs EXCEPT ![task] = answer]
    /\ Goto(task, "logs")
    /\ UNCHANGED fetch

\* Mutated form: the second half starts one block too late.
Halves_SkipsOne(r) ==
    LET mid == (r.from + r.to) \div 2
    IN  IF r.from < r.to
        THEN <<[from |-> r.from, to |-> mid], [from |-> mid + 2, to |-> r.to]>>
        ELSE <<>>

\* Dynamic chunking: a range whose logs cannot be had is cut in halves; the
\* error of a single block is caught and logged.
Halves(r) ==
    LET mid == (r.from + r.to) \div 2
    IN  IF r.from < r.to
        THEN <<[from |-> r.from, to |-> mid], [from |-> mid + 1, to |-> r.to]>>
        ELSE <<>>

SplitRange(task) ==
    /\ pc[task] = "fetch" /\ fetch[task] # <<>>
    /\ fetch' = [fetch EXCEPT ![task] = Halves(Head(@)) \o Tail(@)]
    /\ UNCHANGED <<pc, logs>>

TooManyLogs(task) ==
    /\ SplitRange(task)
    /\ LET r == Head(fetch[task])
       IN  \E answer \in LogAnswers(r.from, r.to) : ~LogsFit(answer)

GetLogsFails(task) == SplitRange(task) /\ Fault

EndOfRange(task) ==
    /\ pc[task] = "logs"
    /\ fetch' = [fetch EXCEPT ![task] = Tail(@)]
    /\ logs' = [logs EXCEPT ![task] = {}]
    /\ Goto(task, "fetch")

SaveEvents(task) ==
    /\ EndOfRange(task)
    /\ events' = SaveEventsBulk(events, logs[task])

\* The INSERT fails; the error is caught and logged.
SaveEventsFails(task) == logs[task] # {} /\ EndOfRange(task) /\ Fault /\ UNCHANGED events

FetchStep(task) ==
    /\ \/ GetLogs(task) /\ UNCHANGED events
       \/ TooManyLogs(task) /\ UNCHANGED events
       \/ SaveEvents(task)
    /\ UNCHANGED <<nodeVars, blocks, reorgLogs, wsVars, last, finalityVars, cache,
                   header, selected, poll, sync, rangeVars, budgetVars>>

FetchFault(task) ==
    /\ \/ GetLogsFails(task) /\ UNCHANGED events
       \/ SaveEventsFails(task)
    /\ UNCHANGED <<nodeVars, blocks, reorgLogs, wsVars, last, finalityVars, cache,
                   header, selected, poll, sync, rangeVars, crashes>>

\* rollbackEvents never throws: a failing UPDATE is logged.
RollbackEvents(n) ==
    \/ events' = InvalidateEventsFromBlock(events, n) /\ UNCHANGED faults
    \/ Fault /\ UNCHANGED events
=============================================================================
