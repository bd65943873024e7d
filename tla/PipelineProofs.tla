--------------------------- MODULE PipelineProofs ---------------------------
(***************************************************************************)
(* The realtime path, for every value of the constants: what               *)
(* lastProcessedBlock* names is stored, the worker implements HeaderQueue, *)
(* and until something fails no new number is left out.                    *)
(***************************************************************************)
EXTENDS ChainProofs

(***************************************************************************)
(*                  What is at hand is stored                              *)
(***************************************************************************)

StoredLinks ==
    /\ pc["worker"] \in {"fetch", "logs"} => header.number \in Numbers
    /\ sync.latest # Null => sync.latest.number \in Numbers
    /\ LastProcessedIsStored

LEMMA LatestIsStored ==
    ASSUME TypeInv, GetLatestBlock(blocks) # Null
    PROVE  GetLatestBlock(blocks).number \in DOMAIN blocks
<1>1. blocks \in [DOMAIN blocks -> BlockRecord(Hashes)] /\ DOMAIN blocks \subseteq 0..MaxHeight
      /\ DOMAIN blocks # {}
  BY DEF TypeInv, TypeOK, DatabaseTypeOK, IsTable, Rows, Heights, GetLatestBlock
<1> QED BY <1>1, GetLatestBlockResult, NodeAssumption

LEMMA WorkerStored ==
    ASSUME TypeInv, StoredLinks, DOMAIN blocks \subseteq DOMAIN blocks',
           WorkerStep \/ WorkerFault \/ FetchFault("worker")
    PROVE  StoredLinks'
<1> USE DEF StoredLinks, LastProcessedIsStored, Numbers
<1>1. pc \in [Tasks -> PcLabels] /\ "worker" \in Tasks
  BY TheTasks DEF TypeInv, TypeOK, ActivityTypeOK
<1>2. sync' = sync
  BY DEF WorkerStep, WorkerFault, WorkerFrame, FetchStep, FetchFault
<1>3. CASE SaveHeader
  <2>1. header' = header /\ last' = last /\ pc'["worker"] = "fetch"
    BY <1>1, <1>3 DEF SaveHeader, BeginFetch, Goto
  <2>2. header.number \in DOMAIN blocks'
    BY <1>3 DEF SaveHeader, SaveRow, PutRow
  <2> QED BY <1>2, <2>1, <2>2
<1>4. CASE RememberHeader
  <2>1. last' = [number |-> header.number, hash |-> header.hash] /\ pc'["worker"] = "loop"
        /\ pc["worker"] = "fetch"
    BY <1>1, <1>4 DEF RememberHeader, Fetched, Goto
  <2> QED BY <1>2, <2>1
<1>5. CASE FetchStep("worker") \/ FetchFault("worker")
  <2>1. header' = header /\ last' = last /\ pc["worker"] \in {"fetch", "logs"}
    BY <1>5 DEF FetchStep, FetchFault, GetLogs, TooManyLogs, SplitRange, SaveEvents, EndOfRange,
                GetLogsFails, SaveEventsFails
  <2> QED BY <1>2, <2>1
<1>6. CASE TakeHeader \/ RollBackRealtime \/ ForgetLast \/ SaveHeaderConflicts \/ QueueEmpty
           \/ HeaderFails
  <2>1. last' = last \/ last' = Null
    BY <1>6 DEF TakeHeader, RollBackRealtime, ForgetLast, SaveHeaderConflicts, QueueEmpty, HeaderFails
  <2>2. pc'["worker"] \notin {"fetch", "logs"}
    BY <1>1, <1>6 DEF TakeHeader, SelectForSave, RollBackRealtime, ForgetLast, SaveHeaderConflicts,
                      DropHeader, QueueEmpty, HeaderFails, Goto
  <2> QED BY <1>2, <2>1, <2>2
<1> QED BY <1>3, <1>4, <1>5, <1>6 DEF WorkerStep, WorkerFault

LEMMA SyncStored ==
    ASSUME TypeInv, StoredLinks, DOMAIN blocks \subseteq DOMAIN blocks', SyncStep \/ SyncFault
    PROVE  StoredLinks'
<1> USE DEF StoredLinks, LastProcessedIsStored, Numbers
<1>1. header' = header /\ pc'["worker"] = pc["worker"]
  BY WorkerUntouched DEF SyncStep, SyncFault, SyncFrame, FetchStep, ChunkFrame
<1>2. sync = [latest |-> sync.latest, network |-> sync.network]
  BY DEF TypeInv, TypeOK, ActivityTypeOK, Syncs
<1>3. CASE GetLatestStored \/ RefreshLast
  <2>1. sync'.latest = GetLatestBlock(blocks) /\ last' = last
    BY <1>2, <1>3 DEF GetLatestStored, RefreshLast
  <2> QED BY <1>1, <2>1, LatestIsStored
<1>4. CASE ~(GetLatestStored \/ RefreshLast)
  <2>1. sync'.latest \in {sync.latest, Null}
    BY <1>2, <1>4 DEF SyncStep, SyncFault, GetCurrentBlock, ChooseRange, SyncDone, NoSync, Abort,
                      FetchStep, ChunkFrame
  <2>2. last' = last \/ (sync.latest # Null /\ last' = sync.latest)
    BY <1>4 DEF SyncStep, SyncFault, GetCurrentBlock, ChooseRange, SyncDone, FetchStep, ChunkFrame
  <2> QED BY <1>1, <2>1, <2>2
<1> QED BY <1>3, <1>4

LEMMA StoredLinksStep ==
    TypeInv /\ MinedInv /\ StoredLinks /\ [Next]_vars => StoredLinks'
<1> SUFFICES ASSUME TypeInv, MinedInv, StoredLinks, [Next]_vars PROVE StoredLinks'
  OBVIOUS
<1>1. DOMAIN blocks \subseteq DOMAIN blocks'
  BY TableGrows
<1> USE DEF StoredLinks, LastProcessedIsStored, Numbers
<1>2. CASE WorkerStep \/ WorkerFault \/ FetchFault("worker")
  BY <1>1, <1>2, WorkerStored
<1>3. CASE SyncStep \/ SyncFault
  BY <1>1, <1>3, SyncStored
<1>4. CASE PollStep \/ PollFault \/ JobStep \/ JobFault \/ FetchFault("poll") \/ FetchFault("sync")
  <2>1. pc'["worker"] = pc["worker"]
    BY <1>4, WorkerUntouched
  <2>2. UNCHANGED <<header, last>>
    BY <1>4 DEF PollStep, PollFault, PollFrame, JobStep, JobFault, JobFrame, FetchStep, FetchFault, ChunkFrame
  <2>3. sync' = sync \/ sync' = NoSync
    <3>1. CASE JobStep \/ JobFault
      BY <3>1, JobCases DEF AnsweredLater, NothingReceived, BlockReceived, BlockSaved, Rejected, Abort
    <3>2. CASE PollStep \/ PollFault \/ FetchFault("poll") \/ FetchFault("sync")
      BY <3>2 DEF PollStep, PollFault, PollFrame, FetchStep, FetchFault, ChunkFrame
    <3> QED BY <1>4, <3>1, <3>2
  <2> QED BY <1>1, <2>1, <2>2, <2>3 DEF NoSync
<1>5. CASE NewBlock
  <2>1. UNCHANGED <<blocks, header, last, sync>>
    BY <1>5 DEF NewBlock, dbVars
  <2>2. pc'["worker"] \in {pc["worker"], "loop"}
    BY <1>5, TheTasks DEF NewBlock, OnBlockHeader, Goto, TypeInv, TypeOK, ActivityTypeOK
  <2> QED BY <2>1, <2>2
<1>6. CASE AdvanceTags \/ DropSocket \/ UNCHANGED vars
  BY <1>6 DEF AdvanceTags, DropSocket, vars, dbVars
<1>7. CASE Crash \/ Boot
  <2>1. \E labels \in {Down, Started} : FreshMemory(labels)
    BY <1>7 DEF Crash, Boot
  <2> QED BY <2>1, TheTasks DEF FreshMemory, NoSync, Down, Started
<1> QED BY <1>2, <1>3, <1>4, <1>5, <1>6, <1>7 DEF Next, TaskFault

LEMMA InitStored ==
    Init => StoredLinks
<1> SUFFICES ASSUME Init PROVE StoredLinks
  OBVIOUS
<1>1. TypeInv
  BY InitTypes
<1> QED BY <1>1, LatestIsStored
        DEF Init, Started, NoSync, StoredLinks, LastProcessedIsStored, Numbers

\* The hash the worker compares a parent with belongs to a number it, or the
\* sync, has stored: a header whose save fails is never remembered, and the
\* query that refreshes lastProcessed* reads rows that stay.
THEOREM WhatIsRememberedIsStored ==
    Spec => []LastProcessedIsStored
<1>1. StoredLinks => LastProcessedIsStored
  BY DEF StoredLinks
<1> QED BY <1>1, InitTypes, TypeInvStep, InitMined, MinedInvStep, InitStored, StoredLinksStep, PTL
        DEF Spec

(***************************************************************************)
(*              The process is up, or holds nothing                        *)
(***************************************************************************)

HoldsNothing == pc = Down /\ jobs = {} /\ ~subscribed /\ queue = <<>> /\ header = Null

DownOrUp == (\E t \in Tasks : pc[t] = "down") => HoldsNothing

\* The worker holds a header exactly while it handles one.
WorkerHolds == pc["worker"] \in {"idle", "loop"} => header = Null

LEMMA DownLabels ==
    ASSUME pc = Down
    PROVE  \A t \in Tasks : pc[t] = "down"
  BY DEF Down

\* No label an activity goes to is "down".
LEMMA NobodyGoesDown ==
    ASSUME TypeInv, [Next]_vars, ~Crash, NEW t, t \in Tasks, pc'[t] = "down"
    PROVE  pc[t] = "down"
<1> SUFFICES ASSUME pc[t] # "down" PROVE FALSE
  OBVIOUS
<1>1. pc \in [Tasks -> PcLabels]
  BY DEF TypeInv, TypeOK, ActivityTypeOK
<1>2. ASSUME NEW task, NEW label, Goto(task, label) PROVE label = "down"
  BY <1>1, <1>2 DEF Goto
<1>3. CASE WorkerStep \/ WorkerFault
  BY <1>2, <1>3
     DEF WorkerStep, WorkerFault, TakeHeader, RollBackRealtime, ForgetLast, SaveHeader, SelectForSave,
         BeginFetch, SaveHeaderConflicts, RememberHeader, QueueEmpty, HeaderFails, DropHeader,
         FetchStep, GetLogs, TooManyLogs, SaveEvents, SplitRange, EndOfRange
<1>4. CASE VerifyStep
  BY <1>2, <1>4
     DEF VerifyStep, VerifyCached, RequestBlock, VerifyReceived, SelectRecord, SaveRecord,
         RollBackRecord, CollectRecord, RecordDone, Compare, NextRecord, BeginFetch
<1>5. CASE PollStep /\ ~VerifyStep
  BY <1>2, <1>5
     DEF PollStep, StartPolling, GetFinalizedTag, TagMissing, Abort, UpdateSafe, UpdateFinalized,
         FindBlocksToVerify, FindGaps, TakeGap, SaveBlocksInRange, GapDone, PollDone, StartChunk, ChunkSaved,
         NextChunk, BeginFetch, FetchStep, GetLogs, TooManyLogs, SaveEvents, SplitRange, EndOfRange
<1>6. CASE SyncStep
  BY <1>2, <1>6
     DEF SyncStep, GetLatestStored, GetCurrentBlock, ChooseRange, RefreshLast, SyncDone,
         SaveBlocksInRange, StartChunk, ChunkSaved, NextChunk, BeginFetch, FetchStep, GetLogs,
         TooManyLogs, SaveEvents, SplitRange, EndOfRange
<1>7. CASE PollFault \/ SyncFault
  BY <1>2, <1>7 DEF PollFault, PollFails, SyncFault, Abort
<1>8. CASE FetchFault("worker") \/ FetchFault("poll") \/ FetchFault("sync")
  BY <1>2, <1>8 DEF FetchFault, GetLogsFails, SplitRange, SaveEventsFails, EndOfRange
<1>9. CASE JobStep \/ JobFault
  <2>1. pc' = pc \/ \E j \in jobs : Abort(j.owner)
    BY <1>9, JobCases DEF AnsweredLater, NothingReceived, BlockReceived, BlockSaved, Rejected
  <2> QED BY <1>2, <2>1 DEF Abort
<1>10. CASE NewBlock
  BY <1>2, <1>10 DEF NewBlock, OnBlockHeader
<1>11. CASE AdvanceTags \/ DropSocket \/ UNCHANGED vars
  BY <1>11 DEF AdvanceTags, DropSocket, vars
<1>12. CASE Boot
  <2>1. pc' = Started
    BY <1>12 DEF Boot, FreshMemory
  <2> QED BY <2>1 DEF Started, Tasks
<1> QED BY <1>3, <1>4, <1>5, <1>6, <1>7, <1>8, <1>9, <1>10, <1>11, <1>12 DEF Next, TaskFault

\* A process that is not running does nothing.
LEMMA DownIsIdle ==
    ASSUME TypeInv, [Next]_vars, HoldsNothing
    PROVE  NewBlock \/ AdvanceTags \/ Boot \/ UNCHANGED vars
<1>1. pc["worker"] = "down" /\ pc["poll"] = "down" /\ pc["sync"] = "down"
      /\ jobs = {} /\ ~subscribed /\ pc = Down
  BY TheTasks, DownLabels DEF HoldsNothing
<1>2. ~FetchStep("worker") /\ ~FetchStep("poll") /\ ~FetchStep("sync")
      /\ ~FetchFault("worker") /\ ~FetchFault("poll") /\ ~FetchFault("sync")
  BY <1>1 DEF FetchStep, FetchFault, GetLogs, TooManyLogs, SaveEvents, SplitRange, EndOfRange,
              GetLogsFails, SaveEventsFails
<1>3. ~WorkerStep /\ ~WorkerFault
  BY <1>1, <1>2
     DEF WorkerStep, WorkerFault, TakeHeader, RollBackRealtime, ForgetLast, SaveHeader,
         SaveHeaderConflicts, RememberHeader, Fetched, QueueEmpty, HeaderFails
<1>4. ~VerifyStep
  BY <1>1 DEF VerifyStep, VerifyCached, RequestBlock, VerifyReceived, SelectRecord, SaveRecord,
         RollBackRecord, CollectRecord, RecordDone, Fetched
<1>5. ~PollStep /\ ~PollFault
  BY <1>1, <1>2, <1>4
     DEF PollStep, PollFault, StartPolling, GetFinalizedTag, TagMissing, UpdateSafe, UpdateFinalized,
         SafeSettled, FindBlocksToVerify, FindGaps, TakeGap, GapDone, RangeDone, PollDone, PollFails,
         StartChunk, ChunkSaved, NextChunk, Fetched
<1>6. ~SyncStep /\ ~SyncFault
  BY <1>1, <1>2
     DEF SyncStep, SyncFault, GetLatestStored, GetCurrentBlock, ChooseRange, RefreshLast, RangeDone,
         SyncDone, StartChunk, ChunkSaved, NextChunk, Fetched
<1>7. ~JobStep /\ ~JobFault /\ ~Crash /\ ~DropSocket
  BY <1>1 DEF JobStep, JobFault, Crash, DropSocket
<1> QED BY <1>2, <1>3, <1>5, <1>6, <1>7 DEF Next, TaskFault

LEMMA DownOrUpStep ==
    TypeInv /\ DownOrUp /\ [Next]_vars => DownOrUp'
<1> SUFFICES ASSUME TypeInv, DownOrUp, [Next]_vars, NEW t \in Tasks, pc'[t] = "down"
             PROVE  HoldsNothing'
  BY DEF DownOrUp
<1>1. CASE Crash
  BY <1>1 DEF Crash, FreshMemory, HoldsNothing
<1>2. CASE ~Crash
  <2>1. pc[t] = "down"
    BY <1>2, NobodyGoesDown
  <2>2. HoldsNothing
    BY <2>1 DEF DownOrUp
  <2>3. NewBlock \/ AdvanceTags \/ Boot \/ UNCHANGED vars
    BY <2>2, DownIsIdle
  <2>4. ~Boot
    <3>1. ASSUME Boot PROVE pc' = Started
      BY <3>1 DEF Boot, FreshMemory
    <3> QED BY <3>1 DEF Started, Tasks
  <2>5. UNCHANGED <<pc, jobs, subscribed, queue, header>>
    BY <2>2, <2>3, <2>4
       DEF NewBlock, OnBlockHeader, HoldsNothing, AdvanceTags, vars, wsVars, rangeVars
  <2> QED BY <2>2, <2>5 DEF HoldsNothing
<1> QED BY <1>1, <1>2

LEMMA InitUp ==
    Init => pc # Down /\ DownOrUp /\ WorkerHolds
<1> SUFFICES ASSUME Init PROVE pc # Down /\ DownOrUp /\ WorkerHolds
  OBVIOUS
<1>1. \A t \in Tasks : pc[t] # "down"
  BY DEF Init, Started, Tasks
<1>2. header = Null
  BY DEF Init
<1> QED BY <1>1, <1>2, DownLabels, TheTasks DEF DownOrUp, WorkerHolds

(***************************************************************************)
(*                  What a step may do to the queue                        *)
(***************************************************************************)

Takes == header = Null /\ queue # <<>> /\ header' = Head(queue) /\ queue' = Tail(queue)

\* A header is done with: its number is stored.
Handles ==
    /\ header \in Blocks /\ header.number \in DOMAIN blocks
    /\ header' = Null /\ queue' = queue

\* The error of a statement drops the header, before or after it was taken out.
Fails ==
    /\ faults' = faults + 1
    /\ header' = Null
    /\ \/ header \in Blocks /\ queue' = queue
       \/ header = Null /\ queue # <<>> /\ queue' = Tail(queue)

LEMMA WorkerSteps ==
    ASSUME TypeInv, StoredLinks, WorkerHolds, WorkerStep \/ WorkerFault \/ FetchFault("worker")
    PROVE  /\ \/ UNCHANGED <<queue, header>>
              \/ Takes
              \/ Handles /\ UNCHANGED <<blocks, faults>>
              \/ Fails /\ UNCHANGED blocks
           /\ WorkerHolds'
<1>1. pc \in [Tasks -> PcLabels] /\ "worker" \in Tasks
  BY TheTasks DEF TypeInv, TypeOK, ActivityTypeOK
<1>2. CASE TakeHeader
  <2>1. Takes
    BY <1>2 DEF TakeHeader, WorkerHolds, Takes
  <2>2. pc'["worker"] \in {"reorgLogged", "selected"}
    BY <1>1, <1>2 DEF TakeHeader, SelectForSave, Goto
  <2> QED BY <2>1, <2>2 DEF WorkerHolds
<1>3. CASE SaveHeaderConflicts
  <2>1. header \in Blocks /\ header.number \in DOMAIN blocks
    BY <1>3 DEF SaveHeaderConflicts, SaveConflicts, TypeInv, Links
  <2>2. header' = Null /\ UNCHANGED <<queue, blocks, faults>>
    BY <1>3 DEF SaveHeaderConflicts, DropHeader, dbVars
  <2> QED BY <2>1, <2>2 DEF Handles, WorkerHolds
<1>4. CASE RememberHeader
  <2>1. header \in Blocks /\ header.number \in DOMAIN blocks
    BY <1>4 DEF RememberHeader, Fetched, TypeInv, Links, StoredLinks, Numbers
  <2>2. header' = Null /\ UNCHANGED <<queue, blocks, faults>>
    BY <1>4 DEF RememberHeader, dbVars
  <2> QED BY <2>1, <2>2 DEF Handles, WorkerHolds
<1>5. CASE HeaderFails
  <2>1. faults' = faults + 1 /\ header' = Null /\ UNCHANGED blocks
    BY <1>5 DEF HeaderFails, Fault, DropHeader, dbVars
  <2>2. CASE pc["worker"] = "loop"
    BY <1>5, <2>1, <2>2 DEF HeaderFails, WorkerHolds, Fails
  <2>3. CASE pc["worker"] # "loop"
    <3>1. header \in Blocks /\ queue' = queue
      BY <1>5, <2>3 DEF HeaderFails, TypeInv, Links
    <3> QED BY <2>1, <3>1 DEF Fails, WorkerHolds
  <2> QED BY <2>2, <2>3
<1>6. CASE RollBackRealtime \/ ForgetLast \/ SaveHeader
  <2>1. UNCHANGED <<queue, header>>
    BY <1>6 DEF RollBackRealtime, ForgetLast, SaveHeader
  <2>2. pc'["worker"] \in {"rolledBack", "selected", "fetch"}
    BY <1>1, <1>6 DEF RollBackRealtime, ForgetLast, SelectForSave, SaveHeader, BeginFetch, Goto
  <2> QED BY <2>1, <2>2 DEF WorkerHolds
<1>7. CASE QueueEmpty
  BY <1>7 DEF QueueEmpty, WorkerHolds
<1>8. CASE FetchStep("worker") \/ FetchFault("worker")
  <2>1. UNCHANGED <<queue, header>>
    BY <1>8 DEF FetchStep, FetchFault, wsVars
  <2>2. pc'["worker"] \in {"logs", "fetch"}
    BY <1>1, <1>8 DEF FetchStep, FetchFault, GetLogs, TooManyLogs, SaveEvents, SplitRange, EndOfRange,
                      GetLogsFails, SaveEventsFails, Goto
  <2> QED BY <2>1, <2>2 DEF WorkerHolds
<1> QED BY <1>2, <1>3, <1>4, <1>5, <1>6, <1>7, <1>8 DEF WorkerStep, WorkerFault

\* The other activities, the tags and the socket.
LEMMA OtherSteps ==
    ASSUME TypeInv, [Next]_vars,
           ~(WorkerStep \/ WorkerFault \/ FetchFault("worker")), ~NewBlock, ~Crash, ~Boot
    PROVE  UNCHANGED <<queue, header>> /\ pc'["worker"] = pc["worker"]
<1>1. CASE PollStep \/ PollFault \/ SyncStep \/ SyncFault \/ JobStep \/ JobFault
           \/ FetchFault("poll") \/ FetchFault("sync")
  <2>1. header' = header
    BY <1>1 DEF PollStep, PollFault, PollFrame, SyncStep, SyncFault, SyncFrame, JobStep, JobFault, JobFrame,
                FetchStep, FetchFault, ChunkFrame
  <2> QED BY <1>1, <2>1, WorkerUntouched
<1>2. CASE AdvanceTags \/ DropSocket \/ UNCHANGED vars
  BY <1>2 DEF AdvanceTags, DropSocket, vars, wsVars
<1> QED BY <1>1, <1>2 DEF Next, TaskFault

LEMMA FaultsAreCounted ==
    ASSUME [Next]_vars
    PROVE  faults' = faults \/ Fault
<1>1. faults' = faults \/ Fault
  <2>1. CASE WorkerStep
    BY <2>1 DEF WorkerStep, TakeHeader, RollBackRealtime, RollbackEvents, Fault, ForgetLast, SaveHeader,
                SaveHeaderConflicts, RememberHeader, QueueEmpty, FetchStep, budgetVars
  <2>2. CASE PollStep
    BY <2>2 DEF PollStep, StartPolling, GetFinalizedTag, TagMissing, UpdateSafe, UpdateFinalized,
                FindBlocksToVerify, VerifyStep, VerifyCached, RequestBlock, VerifyReceived, SelectRecord,
                SaveRecord, RollBackRecord, RollbackEvents, Fault, CollectRecord, RecordDone, FindGaps, TakeGap,
                GapDone, PollDone, FetchStep, ChunkFrame, budgetVars
  <2>3. CASE TaskFault
    BY <2>3 DEF TaskFault, FetchFault, GetLogsFails, SaveEventsFails, WorkerFault, HeaderFails,
                PollFault, PollFails, SyncFault, JobFault, Fault
  <2>4. CASE ~(WorkerStep \/ PollStep \/ TaskFault)
    BY <2>4 DEF Next, NewBlock, AdvanceTags, DropSocket, Fault, SyncStep, SyncFrame, FetchStep,
                ChunkFrame, JobStep, Crash, Boot, vars, budgetVars
  <2> QED BY <2>1, <2>2, <2>3, <2>4
<1> QED BY <1>1

LEMMA FaultsGrow ==
    ASSUME TypeInv, [Next]_vars
    PROVE  faults <= faults'
<1>1. faults \in Nat
  BY DEF TypeInv, TypeOK
<1> QED BY <1>1, FaultsAreCounted DEF Fault

LEMMA WorkerHoldsStep ==
    TypeInv /\ StoredLinks /\ WorkerHolds /\ [Next]_vars => WorkerHolds'
<1> SUFFICES ASSUME TypeInv, StoredLinks, WorkerHolds, [Next]_vars PROVE WorkerHolds'
  OBVIOUS
<1>1. CASE WorkerStep \/ WorkerFault \/ FetchFault("worker")
  BY <1>1, WorkerSteps
<1>2. CASE NewBlock
  <2>1. header' = header
    BY <1>2 DEF NewBlock
  <2>2. pc' = pc \/ pc["worker"] = "idle"
    BY <1>2 DEF NewBlock, OnBlockHeader, IsProcessingQueue
  <2> QED BY <2>1, <2>2 DEF WorkerHolds
<1>3. CASE Crash \/ Boot
  BY <1>3 DEF Crash, Boot, FreshMemory, WorkerHolds
<1>4. CASE ~(WorkerStep \/ WorkerFault \/ FetchFault("worker") \/ NewBlock \/ Crash \/ Boot)
  BY <1>4, OtherSteps DEF WorkerHolds
<1> QED BY <1>1, <1>2, <1>3, <1>4

(***************************************************************************)
(*               The worker implements HeaderQueue                         *)
(***************************************************************************)

Pending == (IF header = Null THEN <<>> ELSE <<header>>) \o queue

LEMMA OneInFront ==
    ASSUME NEW q, q \in Seq(Blocks), NEW h, h \in Blocks
    PROVE  /\ <<h>> \o q # <<>> /\ Head(<<h>> \o q) = h /\ Tail(<<h>> \o q) = q
           /\ <<h>> \o q \in Seq(Blocks)
           /\ <<>> \o q = q
<1>1. <<h>> \in Seq(Blocks) /\ Len(<<h>>) = 1 /\ <<h>>[1] = h
  OBVIOUS
<1>2. <<h>> \o q \in Seq(Blocks) /\ Len(<<h>> \o q) = 1 + Len(q)
  BY <1>1, ConcatProperties
<1>3. \A i \in 1..(1 + Len(q)) : (<<h>> \o q)[i] = IF i <= 1 THEN h ELSE q[i - 1]
  BY <1>1, ConcatProperties
<1> DEFINE s == <<h>> \o q
<1> HIDE DEF s
<1>4. s \in Seq(Blocks) /\ Len(s) = 1 + Len(q) /\ Len(q) \in Nat
      /\ \A i \in 1..(1 + Len(q)) : s[i] = IF i <= 1 THEN h ELSE q[i - 1]
  BY <1>2, <1>3, LenProperties DEF s
<1>5. s # <<>> /\ Head(s) = h
  BY <1>4, EmptySeq
<1>6. Tail(s) \in Seq(Blocks) /\ Len(Tail(s)) = Len(q)
      /\ \A i \in 1..Len(q) : Tail(s)[i] = s[i + 1]
  BY <1>4, <1>5, HeadTailProperties
<1>7. \A i \in 1..Len(q) : Tail(s)[i] = q[i]
  <2> TAKE i \in 1..Len(q)
  <2>1. i + 1 \in 1..(1 + Len(q)) /\ ~(i + 1 <= 1) /\ (i + 1) - 1 = i
    BY <1>4
  <2> QED BY <1>4, <1>6, <2>1
<1>8. Tail(s) = q
  BY <1>6, <1>7, SeqEqual
<1> QED BY <1>4, <1>5, <1>8, ConcatEmptySeq DEF s

LEMMA HeadInFront ==
    ASSUME NEW q, q \in Seq(Blocks), q # <<>>
    PROVE  Head(q) \in Blocks /\ <<Head(q)>> \o Tail(q) = q
<1>1. /\ Len(q) \in Nat /\ Len(q) > 0 /\ Head(q) = q[1]
      /\ Tail(q) \in Seq(Blocks) /\ Len(Tail(q)) = Len(q) - 1
      /\ \A i \in 1..(Len(q) - 1) : Tail(q)[i] = q[i + 1]
  BY HeadTailProperties, LenProperties, EmptySeq
<1>2. Head(q) \in Blocks
  BY <1>1, ElementOfSeq
<1> DEFINE h == Head(q)
           t == Tail(q)
           s == <<h>> \o t
<1>3. /\ s \in Seq(Blocks) /\ Len(s) = 1 + Len(t)
      /\ \A i \in 1..(1 + Len(t)) : s[i] = IF i <= 1 THEN h ELSE t[i - 1]
  <2> HIDE DEF h, t
  <2>1. h \in Blocks /\ t \in Seq(Blocks)
    BY <1>1, <1>2 DEF h, t
  <2>2. <<h>> \in Seq(Blocks) /\ Len(<<h>>) = 1 /\ <<h>>[1] = h
    BY <2>1
  <2>3. /\ <<h>> \o t \in Seq(Blocks) /\ Len(<<h>> \o t) = Len(<<h>>) + Len(t)
        /\ \A i \in 1..(Len(<<h>>) + Len(t)) :
              (<<h>> \o t)[i] = IF i <= Len(<<h>>) THEN <<h>>[i] ELSE t[i - Len(<<h>>)]
    BY <2>1, <2>2, ConcatProperties
  <2>4. \A i \in 1..(1 + Len(t)) : i <= 1 => i = 1
    OBVIOUS
  <2> QED BY <2>2, <2>3, <2>4
<1> HIDE DEF s
<1>4. \A i \in 1..Len(q) : s[i] = q[i]
  <2> TAKE i \in 1..Len(q)
  <2>1. CASE i = 1
    BY <1>1, <1>3, <2>1
  <2>2. CASE i # 1
    <3>1. i - 1 \in 1..(Len(q) - 1) /\ (i - 1) + 1 = i /\ ~(i <= 1) /\ i \in 1..(1 + Len(t))
      BY <1>1, <2>2
    <3> QED BY <1>1, <1>3, <3>1
  <2> QED BY <2>1, <2>2
<1>5. s = q
  BY <1>1, <1>3, <1>4, SeqEqual
<1> QED BY <1>2, <1>5 DEF s

LEMMA PendingOfEmpty ==
    ASSUME queue \in Seq(Blocks), header = Null
    PROVE  Pending = queue
  BY ConcatEmptySeq DEF Pending

LEMMA PendingOfHeader ==
    ASSUME queue \in Seq(Blocks), header \in Blocks
    PROVE  Pending # <<>> /\ Head(Pending) = header /\ Tail(Pending) = queue
<1>1. Pending = <<header>> \o queue
  BY NullAssumption DEF Pending
<1> QED BY <1>1, OneInFront

LEMMA ArrivesLast ==
    ASSUME queue \in Seq(Blocks), header \in Blocks \cup {Null}, NEW block, block \in Blocks,
           queue' = Append(queue, block), header' = header
    PROVE  Pending' = Append(Pending, block)
<1> DEFINE front == IF header = Null THEN <<>> ELSE <<header>>
<1>1. front \in Seq(Blocks) /\ <<block>> \in Seq(Blocks)
  OBVIOUS
<1>2. Pending = front \o queue /\ Pending' = front \o Append(queue, block)
  BY DEF Pending
<1> HIDE DEF front
<1>3. Append(queue, block) = queue \o <<block>>
  BY AppendIsConcat
<1>4. front \o (queue \o <<block>>) = (front \o queue) \o <<block>>
  BY <1>1, ConcatAssociative
<1>5. front \o queue \in Seq(Blocks)
  BY <1>1, ConcatProperties
<1>6. (front \o queue) \o <<block>> = Append(front \o queue, block)
  BY <1>5, AppendIsConcat
<1> QED BY <1>2, <1>3, <1>4, <1>6

LEMMA PipelineStep ==
    TypeInv /\ MinedInv /\ StoredLinks /\ DownOrUp /\ WorkerHolds /\ [Next]_vars
    => [Pipeline!Next]_(Pipeline!vars)
<1> SUFFICES ASSUME TypeInv, MinedInv, StoredLinks, DownOrUp, WorkerHolds, [Next]_vars
             PROVE  Pipeline!Next
  OBVIOUS
<1> USE DEF Pipeline!Next, Pending, Numbers
<1>1. /\ queue \in Seq(Blocks) /\ header \in Blocks \cup {Null}
      /\ queue' \in Seq(Blocks) /\ header' \in Blocks \cup {Null}
  BY TypeInvStep DEF TypeInv, TypeOK, ServiceTypeOK, ActivityTypeOK
<1>2. DOMAIN blocks \subseteq DOMAIN blocks' /\ faults <= faults'
  BY TableGrows, FaultsGrow
<1>3. ASSUME ~Crash, ~Boot
      PROVE  (pc' # Down) = (pc # Down)
  <2>1. CASE pc = Down
    <3>1. HoldsNothing
      BY <2>1, TheTasks, DownLabels DEF DownOrUp
    <3> QED BY <1>3, <2>1, <3>1, DownIsIdle DEF NewBlock, OnBlockHeader, HoldsNothing, AdvanceTags, vars
  <2>2. CASE pc # Down
    <3>1. ASSUME pc' = Down PROVE FALSE
      <4>1. \A t \in Tasks : pc'[t] = "down"
        BY <3>1 DEF Down
      <4>2. pc["worker"] = "down"
        BY <1>3, <4>1, TheTasks, NobodyGoesDown
      <4> QED BY <2>2, <4>2, TheTasks DEF DownOrUp, HoldsNothing
    <3> QED BY <2>2, <3>1
  <2> QED BY <2>1, <2>2
<1>4. CASE Crash
  <2>1. /\ pc # Down /\ pc' = Down /\ queue' = <<>> /\ header' = Null
        /\ UNCHANGED <<blocks, faults>>
    BY <1>4 DEF Crash, FreshMemory, dbVars
  <2>2. Pipeline!Stop
    BY <2>1 DEF Pipeline!Stop
  <2> QED BY <2>2
<1>5. CASE Boot
  <2>1. HoldsNothing
    BY <1>5, TheTasks, DownLabels DEF Boot, DownOrUp
  <2>2. /\ pc' = Started /\ queue' = <<>> /\ header' = Null /\ UNCHANGED <<blocks, faults>>
    BY <1>5 DEF Boot, FreshMemory, dbVars, budgetVars
  <2>3. pc' # Down
    BY <2>2, TheTasks DEF Started, Down, Tasks
  <2>4. Pipeline!Start
    BY <1>5, <2>1, <2>2, <2>3 DEF Pipeline!Start, HoldsNothing, Boot
  <2> QED BY <2>4
<1>6. CASE NewBlock /\ ~Crash /\ ~Boot
  <2> DEFINE tip == Tip'
  <2>1. tip \in Blocks
    BY <1>6, NewBlockTypes, NextTipIsBlock DEF TypeInv, TypeOK
  <2>2. UNCHANGED <<blocks, faults, header>> /\ ~Crash /\ ~Boot
    BY <1>6 DEF NewBlock, dbVars, budgetVars
  <2>3. CASE subscribed
    <3>1. queue' = Append(queue, tip)
      BY <1>6, <2>3 DEF NewBlock, OnBlockHeader
    <3>2. pc # Down
      BY <2>3, TheTasks, DownLabels DEF DownOrUp, HoldsNothing
    <3> HIDE DEF tip
    <3>3. Pending' = Append(Pending, tip)
      BY <1>1, <2>1, <2>2, <3>1, ArrivesLast
    <3>4. Pipeline!Arrive(tip)
      BY <1>3, <2>2, <3>2, <3>3 DEF Pipeline!Arrive
    <3> QED BY <2>1, <3>4
  <2>4. CASE ~subscribed
    <3>1. queue' = queue
      BY <1>6, <2>4 DEF NewBlock, OnBlockHeader
    <3> QED BY <1>2, <1>3, <2>2, <3>1 DEF Pipeline!Others
  <2> QED BY <2>3, <2>4
<1>7. CASE ~Crash /\ ~Boot /\ ~NewBlock
  <2>1. \/ UNCHANGED <<queue, header>>
        \/ Takes
        \/ Handles /\ UNCHANGED <<blocks, faults>>
        \/ Fails /\ UNCHANGED blocks
    BY <1>7, WorkerSteps, OtherSteps
  <2>2. CASE UNCHANGED <<queue, header>>
    BY <1>2, <1>3, <1>7, <2>2 DEF Pipeline!Others
  <2>3. CASE Takes
    <3>1. Pending = queue
      BY <1>1, <2>3, PendingOfEmpty DEF Takes
    <3>2. Pending' = <<Head(queue)>> \o Tail(queue)
      BY <1>1, <2>3, HeadInFront, NullAssumption DEF Takes
    <3>3. Pending' = Pending
      BY <1>1, <2>3, <3>1, <3>2, HeadInFront DEF Takes
    <3> QED BY <1>2, <1>3, <1>7, <3>3 DEF Pipeline!Others
  <2>4. CASE Handles /\ UNCHANGED <<blocks, faults>>
    <3>1. Pending # <<>> /\ Head(Pending) = header /\ Tail(Pending) = queue
      BY <1>1, <2>4, PendingOfHeader DEF Handles
    <3>2. Pending' = queue
      BY <1>1, <2>4, ConcatEmptySeq DEF Handles
    <3>3. Pipeline!Handle
      BY <1>3, <1>7, <2>4, <3>1, <3>2 DEF Pipeline!Handle, Handles
    <3> QED BY <3>3
  <2>5. CASE Fails /\ UNCHANGED blocks
    <3>1. Pending # <<>> /\ Pending' = Tail(Pending)
      <4>1. CASE header = Null
        BY <1>1, <2>5, <4>1, PendingOfEmpty, ConcatEmptySeq, NullAssumption DEF Fails
      <4>2. CASE header # Null
        BY <1>1, <2>5, <4>2, PendingOfHeader, ConcatEmptySeq DEF Fails
      <4> QED BY <4>1, <4>2
    <3>2. Pipeline!Fail
      BY <1>3, <1>7, <2>5, <3>1 DEF Pipeline!Fail, Fails
    <3> QED BY <3>2
  <2> QED BY <2>1, <2>2, <2>3, <2>4, <2>5
<1> QED BY <1>4, <1>5, <1>6, <1>7

LEMMA PipelineInit ==
    Init => Pipeline!Init
<1> SUFFICES ASSUME Init PROVE Pipeline!Init
  OBVIOUS
<1>1. pc # Down /\ queue = <<>> /\ header = Null
  BY InitUp DEF Init
<1> QED BY <1>1 DEF Pipeline!Init

\* The realtime path implements HeaderQueue: with whatever rows other activities
\* insert first, whichever statement fails, and across crashes, every header is
\* handled once and in the order of its arrival, and none is done with before
\* its number is stored unless a failure is counted.
THEOREM WorkerIsAQueue ==
    Spec => HandlesHeadersInOrder
<1>1. Init => DownOrUp /\ WorkerHolds
  BY InitUp
<1>2. Spec => [](TypeInv /\ MinedInv /\ StoredLinks /\ DownOrUp /\ WorkerHolds)
  BY <1>1, InitTypes, TypeInvStep, InitMined, MinedInvStep, InitStored, StoredLinksStep,
     DownOrUpStep, WorkerHoldsStep, PTL DEF Spec
<1> QED BY <1>2, PipelineInit, PipelineStep, PTL DEF Spec, HandlesHeadersInOrder, Pipeline!Spec

(***************************************************************************)
(*                         No header is lost                               *)
(***************************************************************************)

Awaited(n) ==
    \/ n \in Numbers
    \/ header # Null /\ header.number = n
    \/ \E i \in DOMAIN queue : queue[i].number = n

AllAwaited == \A n \in InitHead + 1 .. MaxHeight : (\E b \in mined : b.number = n) => Awaited(n)

\* Until something fails the process is up and listens.
AwaitedInv == Unfaulted => subscribed /\ pc # Down /\ AllAwaited

\* A new block has the number that is announced, or one that was mined before.
LEMMA NewNumbers ==
    ASSUME TypeInv, MinedInv, NewTip, NEW b \in mined', b \notin mined
    PROVE  b.number = head' \/ \E c \in mined : c.number = b.number
<1>1. head \in Nat /\ head + 1 \in Nat
  BY HeightsAreNumbers DEF TypeInv, TypeOK, NodeTypeOK
<1>2. \A m \in 0..head : Block(m) \in mined /\ Block(m).number = m
  BY DEF MinedInv, ChainMined, Block
<1>3. CASE Extend
  BY <1>1, <1>3 DEF Extend, Block
<1>4. CASE \E n, h \in Heights : Reorg(n, h)
  <2>1. PICK n \in Heights, h \in Heights : Reorg(n, h)
    BY <1>4
  <2>2. n \in Nat /\ h \in Nat /\ h <= head + 1 /\ head' = h
    BY <2>1, HeightsAreNumbers DEF Reorg
  <2>3. PICK m \in n..h : b = Block(m)'
    BY <2>1 DEF Reorg
  <2>4. b.number = m
    BY <2>3 DEF Block
  <2>5. m = h \/ m \in 0..head
    BY <1>1, <2>2, <2>3
  <2> QED BY <1>2, <2>2, <2>4, <2>5
<1> QED BY <1>3, <1>4 DEF NewTip

LEMMA QueuedIsAwaited ==
    ASSUME queue \in Seq(Blocks), queue # <<>>, NEW i \in DOMAIN queue
    PROVE  queue[i] = Head(queue) \/ \E k \in DOMAIN Tail(queue) : Tail(queue)[k] = queue[i]
<1>1. /\ DOMAIN queue = 1..Len(queue) /\ Len(queue) \in Nat /\ Head(queue) = queue[1]
      /\ DOMAIN Tail(queue) = 1..(Len(queue) - 1)
      /\ \A k \in 1..(Len(queue) - 1) : Tail(queue)[k] = queue[k + 1]
  BY HeadTailProperties, LenProperties
<1>2. CASE i = 1
  BY <1>1, <1>2
<1>3. CASE i # 1
  <2>1. i - 1 \in 1..(Len(queue) - 1) /\ (i - 1) + 1 = i
    BY <1>1, <1>3
  <2> QED BY <1>1, <2>1
<1> QED BY <1>2, <1>3

\* A step that is no failure, crash or new block keeps every number awaited.
LEMMA AwaitedKept ==
    ASSUME TypeInv, DOMAIN blocks \subseteq DOMAIN blocks', NEW n, Awaited(n),
           \/ UNCHANGED <<queue, header>>
           \/ Takes
           \/ Handles /\ UNCHANGED <<blocks, faults>>
    PROVE  Awaited(n)'
<1>1. queue \in Seq(Blocks)
  BY DEF TypeInv, TypeOK, ServiceTypeOK
<1>2. CASE UNCHANGED <<queue, header>>
  BY <1>2 DEF Awaited, Numbers
<1>3. CASE Takes
  <2>1. header = Null /\ header' = Head(queue) /\ queue' = Tail(queue) /\ queue # <<>>
    BY <1>3 DEF Takes
  <2>2. Head(queue) # Null
    BY <1>1, <2>1, HeadInFront, NullAssumption
  <2>3. CASE \E i \in DOMAIN queue : queue[i].number = n
    BY <1>1, <2>1, <2>2, <2>3, QueuedIsAwaited DEF Awaited
  <2> QED BY <2>1, <2>3 DEF Awaited, Numbers
<1>4. CASE Handles
  BY <1>4 DEF Handles, Awaited, Numbers
<1> QED BY <1>2, <1>3, <1>4

LEMMA NewBlockAwaited ==
    ASSUME TypeInv, MinedInv, AllAwaited, subscribed, NewBlock
    PROVE  AllAwaited'
<1> DEFINE tip == Tip'
<1>1. tip \in Blocks /\ tip.number = head'
  BY NewBlockTypes, NextTipIsBlock DEF TypeInv, TypeOK, Tip, Block
<1>2. queue' = Append(queue, tip) /\ UNCHANGED <<blocks, header>> /\ NewTip
  BY DEF NewBlock, OnBlockHeader, dbVars
<1> HIDE DEF tip
<1>3. /\ DOMAIN queue' = 1..(Len(queue) + 1) /\ Len(queue) \in Nat /\ DOMAIN queue = 1..Len(queue)
      /\ \A i \in 1..Len(queue) : queue'[i] = queue[i]
      /\ queue'[Len(queue) + 1] = tip
  BY <1>1, <1>2, AppendProperties, LenProperties DEF TypeInv, TypeOK, ServiceTypeOK
<1>4. ASSUME NEW n, Awaited(n) PROVE Awaited(n)'
  BY <1>2, <1>3, <1>4 DEF Awaited, Numbers
<1>5. \E i \in DOMAIN queue' : queue'[i].number = head'
  <2>1. Len(queue) + 1 \in DOMAIN queue'
    BY <1>3
  <2> QED BY <1>1, <1>3, <2>1
<1> SUFFICES ASSUME NEW n \in InitHead + 1 .. MaxHeight, NEW b \in mined', b.number = n
             PROVE  Awaited(n)'
  BY DEF AllAwaited
<1>6. CASE n = head'
  BY <1>5, <1>6 DEF Awaited
<1>7. CASE \E c \in mined : c.number = n
  BY <1>4, <1>7 DEF AllAwaited
<1> QED BY <1>2, <1>6, <1>7, NewNumbers

LEMMA AwaitedInvStep ==
    ASSUME TypeInv, MinedInv, StoredLinks, DownOrUp, WorkerHolds, AwaitedInv, [Next]_vars
    PROVE  AwaitedInv'
<1> SUFFICES ASSUME Unfaulted' PROVE (subscribed /\ pc # Down /\ AllAwaited)'
  BY DEF AwaitedInv
<1>1. ~Fault /\ NewHeads /\ faults = 0
  BY FaultsAreCounted DEF Unfaulted, Fault, TypeInv, TypeOK
<1>2. ~Crash /\ crashes = 0
  <2>1. crashes' = crashes \/ Crash
    BY DEF Next, Crash, Boot, NewBlock, AdvanceTags, DropSocket, TaskFault, WorkerStep, WorkerFault, WorkerFrame,
           PollStep, PollFault, PollFrame, SyncStep, SyncFault, SyncFrame, JobStep, JobFault, JobFrame,
           FetchStep, FetchFault, ChunkFrame, budgetVars, vars
  <2>2. crashes' = 0 /\ crashes \in Nat
    BY DEF Unfaulted, TypeInv, TypeOK
  <2> QED BY <2>1, <2>2 DEF Crash
<1>3. subscribed /\ pc # Down /\ AllAwaited
  BY <1>1, <1>2 DEF AwaitedInv, Unfaulted
<1>4. ~Boot
  BY <1>3 DEF Boot
<1>5. subscribed' /\ ~DropSocket
  <2>1. subscribed' = subscribed
    BY <1>1, <1>2, <1>4
       DEF Next, TaskFault, NewBlock, AdvanceTags, DropSocket, WorkerStep, WorkerFault, WorkerFrame, PollStep,
           PollFault, PollFrame, SyncStep, SyncFault, SyncFrame, ChunkFrame, JobStep, JobFault, JobFrame,
           FetchStep, FetchFault, vars, wsVars
  <2> QED BY <1>1, <1>3, <2>1 DEF DropSocket
<1>6. pc' # Down
  <2>1. ASSUME pc' = Down PROVE pc["worker"] = "down"
    BY <1>2, <2>1, DownLabels, NobodyGoesDown, TheTasks DEF Down
  <2> QED BY <1>3, <2>1, TheTasks DEF DownOrUp, HoldsNothing
<1>7. AllAwaited'
  <2>1. CASE NewBlock
    BY <1>3, <2>1, NewBlockAwaited
  <2>2. CASE ~NewBlock
    <3>1. DOMAIN blocks \subseteq DOMAIN blocks' /\ mined' = mined
      BY <2>2, TableGrows, MinedGrows
    <3>2. \/ UNCHANGED <<queue, header>>
          \/ Takes
          \/ Handles /\ UNCHANGED <<blocks, faults>>
          \/ Fails /\ UNCHANGED blocks
      BY <1>2, <1>4, <2>2, WorkerSteps, OtherSteps
    <3>3. ~Fails
      BY <1>1 DEF Fails, Unfaulted
    <3> QED BY <1>3, <3>1, <3>2, <3>3, AwaitedKept DEF AllAwaited
  <2> QED BY <2>1, <2>2
<1> QED BY <1>5, <1>6, <1>7

\* Until something fails, no number is left out: each number the chain has got
\* since the start is queued, being handled, or stored, even when the save of
\* its header meets the row of another activity.
THEOREM EveryNewNumberIsAwaited ==
    Spec => []NoHeaderLost
<1>1. Init => AwaitedInv
  <2> SUFFICES ASSUME Init, NewHeads PROVE subscribed /\ pc # Down /\ AllAwaited
    BY DEF AwaitedInv, Unfaulted
  <2>1. subscribed /\ pc # Down
    BY InitUp DEF Init
  <2>2. \A b \in mined : b.number \in 0..InitHead
    BY DEF Init, NodeInit, Block
  <2>3. \A n \in InitHead + 1 .. MaxHeight : n \notin 0..InitHead
    BY NodeAssumption
  <2> QED BY <2>1, <2>2, <2>3 DEF AllAwaited
<1>2. Init => DownOrUp /\ WorkerHolds
  BY InitUp
<1>3. Spec => [](TypeInv /\ MinedInv /\ StoredLinks /\ DownOrUp /\ WorkerHolds)
  BY <1>2, InitTypes, TypeInvStep, InitMined, MinedInvStep, InitStored, StoredLinksStep,
     DownOrUpStep, WorkerHoldsStep, PTL DEF Spec
<1>4. TypeInv /\ MinedInv /\ StoredLinks /\ DownOrUp /\ WorkerHolds /\ AwaitedInv /\ [Next]_vars
      => AwaitedInv'
  BY AwaitedInvStep
<1>5. AwaitedInv => NoHeaderLost
  BY DEF AwaitedInv, AllAwaited, Awaited, NoHeaderLost
<1> QED BY <1>1, <1>3, <1>4, <1>5, PTL DEF Spec
=============================================================================
