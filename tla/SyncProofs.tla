----------------------------- MODULE SyncProofs -----------------------------
(***************************************************************************)
(* The initial sync, for every value of the constants: as long as the      *)
(* chain only grows and no backend of the node lags, it fills its window,  *)
(* and unless something fails too it collects the events of the window.    *)
(***************************************************************************)
EXTENDS PipelineProofs, FiniteSetTheorems

(***************************************************************************)
(*                       The inductive invariant                           *)
(***************************************************************************)

NoReorgYet == chain[MaxHeight] = 0

\* syncInitialBlocks is in saveBlocksInRange.
Filling == pc["sync"] \in {"range", "chunk", "fetch", "logs"}

Chunk == range["sync"].from .. ChunkEnd(range["sync"])

\* saveBlocksInRange waits for a save of the number, whose block is known.
Saving(n) ==
    \E j \in jobs : j.owner = "sync" /\ j.awaited /\ j.number = n /\ j.block # Null

\* The range ends where the window does, at a block the node has mined.
RangeInv ==
    NoReorgYet => sync.network <= head /\ (Filling => range["sync"].to = sync.network)

\* What lies below the rest of the range is stored; the numbers of the current
\* chunk are stored or being saved, and stored when its events are collected.
\* The range may have moved past the end of the window, hence the bound.
WindowInv ==
    NoReorgYet /\ ~NodeMayLag =>
    /\ Filling => \A n \in Window : n < range["sync"].from => n \in Numbers
    /\ pc["sync"] = "chunk" => \A n \in Chunk : n \in Numbers \/ Saving(n)
    /\ pc["sync"] \in {"fetch", "logs"} => Chunk \subseteq Numbers

(***************************************************************************)
(*                    What the steps do to the sync                        *)
(***************************************************************************)

LEMMA ChainOnlyGrows ==
    ASSUME TypeInv, [Next]_vars, NoReorgYet'
    PROVE  NoReorgYet /\ chain' = chain /\ head <= head' /\ (NewBlock => Extend)
<1>1. chain \in [Heights -> Forks] /\ head \in Nat /\ MaxHeight \in Heights
  BY HeightsAreNumbers, NodeAssumption DEF TypeInv, TypeOK, NodeTypeOK, Heights
<1>2. CASE ~NewBlock
  <2>1. UNCHANGED <<chain, head>>
    BY <1>2 DEF Next, TaskFault, AdvanceTags, AdvanceSafe, AdvanceFinalized, DropSocket, WorkerStep,
                WorkerFault, WorkerFrame, PollStep, PollFault, PollFrame, SyncStep, SyncFault,
                SyncFrame, ChunkFrame, JobStep, JobFault, JobFrame, FetchStep, FetchFault, Crash,
                Boot, vars, nodeVars
  <2> QED BY <1>1, <1>2, <2>1 DEF NoReorgYet
<1>3. ASSUME NEW n \in Heights, NEW h \in Heights, Reorg(n, h)
      PROVE  FALSE
  <2>1. ~(MaxHeight < n) /\ chain[MaxHeight] \in Nat
    BY <1>1, NodeAssumption DEF Heights, Forks
  <2>2. chain'[MaxHeight] = chain[MaxHeight] + 1
    BY <1>1, <1>3, <2>1 DEF Reorg
  <2> QED BY <2>1, <2>2 DEF NoReorgYet
<1>4. CASE NewBlock
  <2>1. Extend
    BY <1>3, <1>4 DEF NewBlock, NewTip
  <2> QED BY <1>1, <2>1 DEF Extend, NoReorgYet
<1> QED BY <1>2, <1>4

SyncKept == sync' = sync /\ pc'["sync"] = pc["sync"] /\ range'["sync"] = range["sync"]

SyncEnds == sync' = NoSync /\ pc'["sync"] \in {"start", "done", "down"}

\* A call that is answered later for a number of the chain has a block still.
SavesKept == ~NodeMayLag => \A n : n <= head /\ Saving(n) => Saving(n)' \/ n \in Numbers'

FetchKept == fetch'["sync"] = fetch["sync"] /\ logs'["sync"] = logs["sync"]

Others ==
    \/ NewBlock \/ AdvanceTags \/ DropSocket
    \/ WorkerStep \/ PollStep
    \/ FetchFault("worker") \/ FetchFault("poll") \/ WorkerFault \/ PollFault
    \/ UNCHANGED vars

LEMMA GotoOther ==
    ASSUME pc \in [Tasks -> PcLabels], NEW task, task \in {"worker", "poll"}, NEW label,
           Goto(task, label)
    PROVE  pc'["sync"] = pc["sync"]
  BY TheTasks DEF Goto

LEMMA FetchOther ==
    ASSUME TypeInv, NEW task, task \in {"worker", "poll"}, FetchStep(task) \/ FetchFault(task)
    PROVE  SyncKept /\ FetchKept /\ jobs' = jobs
<1>1. /\ pc \in [Tasks -> PcLabels] /\ "sync" \in Tasks
      /\ fetch \in [Tasks -> Seq(FetchRanges)]
      /\ logs \in [Tasks -> SUBSET (Heights \X Forks)]
  BY TheTasks DEF TypeInv, TypeOK, ActivityTypeOK
<1>2. pc'["sync"] = pc["sync"]
  BY <1>1, GotoOther
     DEF FetchStep, FetchFault, GetLogs, TooManyLogs, SplitRange, SaveEvents, EndOfRange,
         GetLogsFails, SaveEventsFails
<1>3. FetchKept
  BY <1>1 DEF FetchStep, FetchFault, GetLogs, TooManyLogs, SplitRange, SaveEvents, EndOfRange,
         GetLogsFails, SaveEventsFails, FetchKept
<1>4. UNCHANGED <<sync, range, jobs>>
  BY DEF FetchStep, FetchFault, rangeVars
<1> QED BY <1>2, <1>3, <1>4 DEF SyncKept

LEMMA WorkerLeavesSync ==
    ASSUME TypeInv, WorkerStep \/ WorkerFault \/ FetchFault("worker")
    PROVE  SyncKept /\ FetchKept /\ SavesKept
<1>1. pc \in [Tasks -> PcLabels] /\ fetch \in [Tasks -> Seq(FetchRanges)] /\ "sync" \in Tasks
  BY TheTasks DEF TypeInv, TypeOK, ActivityTypeOK
<1>2. CASE FetchStep("worker") \/ FetchFault("worker")
  BY <1>2, FetchOther DEF SavesKept, Saving
<1>3. CASE ~(FetchStep("worker") \/ FetchFault("worker"))
  <2>1. UNCHANGED <<sync, range, jobs, logs>>
    BY <1>3 DEF WorkerStep, WorkerFault, WorkerFrame, rangeVars
  <2>2. pc'["sync"] = pc["sync"]
    BY <1>1, <1>3, GotoOther
       DEF WorkerStep, WorkerFault, TakeHeader, SelectForSave, RollBackRealtime, ForgetLast, SaveHeader,
           BeginFetch, SaveHeaderConflicts, DropHeader, RememberHeader, QueueEmpty, HeaderFails
  <2>3. fetch'["sync"] = fetch["sync"]
    BY <1>1, <1>3
       DEF WorkerStep, WorkerFault, TakeHeader, RollBackRealtime, ForgetLast, SaveHeader,
           BeginFetch, SaveHeaderConflicts, DropHeader, RememberHeader, QueueEmpty, HeaderFails
  <2> QED BY <2>1, <2>2, <2>3 DEF SyncKept, FetchKept, SavesKept, Saving
<1> QED BY <1>2, <1>3

LEMMA VerifyLeavesSync ==
    ASSUME TypeInv, VerifyStep
    PROVE  pc'["sync"] = pc["sync"] /\ UNCHANGED <<range, jobs>> /\ fetch'["sync"] = fetch["sync"]
<1>1. pc \in [Tasks -> PcLabels] /\ fetch \in [Tasks -> Seq(FetchRanges)] /\ "sync" \in Tasks
  BY TheTasks DEF TypeInv, TypeOK, ActivityTypeOK
<1>2. pc'["sync"] = pc["sync"]
  BY <1>1, GotoOther
     DEF VerifyStep, VerifyCached, RequestBlock, VerifyReceived, SelectRecord, SaveRecord,
         RollBackRecord, CollectRecord, RecordDone, Compare, NextRecord, BeginFetch
<1> QED BY <1>1, <1>2
        DEF VerifyStep, VerifyCached, RequestBlock, VerifyReceived, SelectRecord, SaveRecord,
            RollBackRecord, CollectRecord, RecordDone, BeginFetch

LEMMA PollLeavesSync ==
    ASSUME TypeInv, PollStep \/ PollFault \/ FetchFault("poll")
    PROVE  SyncKept /\ FetchKept /\ SavesKept
<1>1. /\ pc \in [Tasks -> PcLabels] /\ "sync" \in Tasks
      /\ fetch \in [Tasks -> Seq(FetchRanges)] /\ range \in [Tasks -> Ranges]
  BY TheTasks DEF TypeInv, TypeOK, ActivityTypeOK
<1>2. CASE FetchStep("poll") \/ FetchFault("poll")
  BY <1>2, FetchOther DEF SavesKept, Saving
<1>3. CASE VerifyStep /\ PollFrame
  BY <1>3, VerifyLeavesSync DEF PollFrame, SyncKept, FetchKept, SavesKept, Saving
<1>4. CASE (StartChunk("poll") \/ ChunkSaved("poll") \/ NextChunk("poll")) /\ ChunkFrame
  <2>1. pc'["sync"] = pc["sync"]
    BY <1>1, <1>4, GotoOther DEF StartChunk, ChunkSaved, NextChunk, BeginFetch
  <2>2. fetch'["sync"] = fetch["sync"] /\ range'["sync"] = range["sync"] /\ jobs \subseteq jobs'
    BY <1>1, <1>4 DEF StartChunk, ChunkSaved, NextChunk, BeginFetch, rangeVars
  <2>3. SavesKept
    BY <2>2 DEF SavesKept, Saving
  <2> QED BY <1>4, <2>1, <2>2, <2>3 DEF ChunkFrame, SyncKept, FetchKept
<1>5. CASE (StartPolling \/ GetFinalizedTag \/ TagMissing \/ UpdateSafe \/ UpdateFinalized
             \/ FindBlocksToVerify \/ FindGaps \/ TakeGap \/ GapDone \/ PollDone \/ PollFails) /\ PollFrame
  <2>1. pc'["sync"] = pc["sync"]
    BY <1>1, <1>5, GotoOther
       DEF StartPolling, GetFinalizedTag, TagMissing, UpdateSafe, UpdateFinalized, FindBlocksToVerify,
           FindGaps, TakeGap, SaveBlocksInRange, GapDone, PollDone, PollFails, Abort
  <2>2. range'["sync"] = range["sync"] /\ UNCHANGED <<fetch, jobs, logs, sync>>
    BY <1>1, <1>5
       DEF StartPolling, GetFinalizedTag, TagMissing, UpdateSafe, UpdateFinalized, FindBlocksToVerify,
           FindGaps, TakeGap, SaveBlocksInRange, GapDone, PollDone, PollFails, Abort, PollFrame
  <2> QED BY <2>1, <2>2 DEF SyncKept, FetchKept, SavesKept, Saving
<1> QED BY <1>2, <1>3, <1>4, <1>5 DEF PollStep, PollFault

LEMMA OthersLeaveSync ==
    ASSUME TypeInv, Others
    PROVE  SyncKept /\ FetchKept /\ SavesKept
<1>1. CASE NewBlock
  <2>1. pc'["sync"] = pc["sync"]
    BY <1>1, GotoOther DEF NewBlock, OnBlockHeader, TypeInv, TypeOK, ActivityTypeOK
  <2> QED BY <1>1, <2>1 DEF NewBlock, SyncKept, FetchKept, SavesKept, Saving, fetchVars, rangeVars
<1>2. CASE AdvanceTags \/ DropSocket \/ UNCHANGED vars
  BY <1>2 DEF AdvanceTags, DropSocket, vars, SyncKept, FetchKept, SavesKept, Saving, fetchVars, rangeVars
<1> QED BY <1>1, <1>2, WorkerLeavesSync, PollLeavesSync DEF Others

\* A pending save the sync waits for is done, goes on, or ends the sync.
LEMMA JobsAndSync ==
    ASSUME TypeInv, JobStep \/ JobFault
    PROVE  FetchKept /\ (SyncEnds \/ (SyncKept /\ SavesKept))
<1>1. /\ pc \in [Tasks -> PcLabels] /\ "sync" \in Tasks /\ "poll" \in Tasks
      /\ range \in [Tasks -> Ranges] /\ jobs \subseteq Jobs
  BY TheTasks DEF TypeInv, TypeOK, ActivityTypeOK
<1>2. FetchKept
  BY JobCases DEF JobFrame, fetchVars, FetchKept
<1>3. PICK j \in jobs : \/ AnsweredLater(j) \/ NothingReceived(j)
                        \/ BlockReceived(j) \/ BlockSaved(j) \/ Rejected(j)
  BY JobCases
<1>4. j.owner \in {"poll", "sync"} /\ j.awaited \in BOOLEAN
  BY <1>1 DEF Jobs
<1>5. CASE BlockReceived(j)
  <2> DEFINE k == [j EXCEPT !.stage = "save", !.selected = SelectRow(blocks, j.number)]
  <2>1. k.owner = j.owner /\ k.awaited = j.awaited /\ k.number = j.number /\ k.block = j.block
    BY <1>1 DEF Jobs
  <2>2. jobs' = (jobs \ {j}) \cup {k} /\ UNCHANGED <<pc, sync, range>>
    BY <1>5 DEF BlockReceived
  <2> HIDE DEF k
  <2>3. SavesKept
    BY <2>1, <2>2 DEF SavesKept, Saving
  <2> QED BY <1>2, <2>2, <2>3 DEF SyncKept
<1>6. CASE BlockSaved(j)
  <2>1. jobs' = jobs \ {j} /\ UNCHANGED <<pc, sync, range>>
    BY <1>6 DEF BlockSaved
  <2>2. j.number \in Numbers' /\ DOMAIN blocks \subseteq DOMAIN blocks'
    BY <1>6 DEF BlockSaved, SaveRow, PutRow, Numbers
  <2>3. SavesKept
    BY <2>1, <2>2 DEF SavesKept, Saving
  <2> QED BY <1>2, <2>1, <2>3 DEF SyncKept
<1>7. CASE Rejected(j) /\ ~j.awaited
  <2>1. jobs' = jobs \ {j} /\ UNCHANGED <<pc, sync, range>>
    BY <1>7 DEF Rejected
  <2>2. SavesKept
    BY <1>7, <2>1 DEF SavesKept, Saving
  <2> QED BY <1>2, <2>1, <2>2 DEF SyncKept
<1>8. CASE Rejected(j) /\ j.awaited /\ j.owner = "sync"
  BY <1>1, <1>2, <1>8 DEF Rejected, Abort, Goto, SyncEnds
<1>9. CASE Rejected(j) /\ j.awaited /\ j.owner = "poll"
  <2>1. jobs' = {IF i.owner = j.owner THEN [i EXCEPT !.awaited = FALSE] ELSE i : i \in jobs \ {j}}
        /\ Abort("poll")
    BY <1>9 DEF Rejected
  <2>2. SyncKept
    BY <1>1, <2>1, GotoOther DEF Abort, SyncKept
  <2>3. ASSUME NEW i \in jobs, i.owner = "sync" PROVE i \in jobs'
    <3>1. i \in jobs \ {j} /\ i.owner # j.owner
      BY <1>9, <2>3
    <3> QED BY <2>1, <3>1
  <2>4. SavesKept
    BY <2>3 DEF SavesKept, Saving
  <2> QED BY <1>2, <2>2, <2>4
<1>10. CASE AnsweredLater(j)
  <2>1. PICK lagging \in Lags({j.number}) :
            jobs' = (jobs \ {j}) \cup {[j EXCEPT !.block = Answer(j.number, lagging)]}
    BY <1>10 DEF AnsweredLater
  <2> DEFINE k == [j EXCEPT !.block = Answer(j.number, lagging)]
  <2>2. /\ k.owner = j.owner /\ k.awaited = j.awaited /\ k.number = j.number
        /\ k.block = Answer(j.number, lagging)
    BY <1>1 DEF Jobs
  <2>3. ~NodeMayLag /\ j.number <= head => Answer(j.number, lagging) # Null
    <3>1. j.number \in Heights /\ Block(j.number) \in Blocks
      BY <1>1, BlockOfChain DEF Jobs, TypeInv, TypeOK
    <3> QED BY <3>1, NullAssumption DEF Lags, Answer, Known
  <2>4. jobs' = (jobs \ {j}) \cup {k} /\ UNCHANGED <<pc, sync, range>>
    BY <1>10, <2>1 DEF AnsweredLater
  <2> HIDE DEF k
  <2>5. SavesKept
    BY <2>2, <2>3, <2>4 DEF SavesKept, Saving
  <2> QED BY <1>2, <2>4, <2>5 DEF SyncKept
<1>11. CASE NothingReceived(j)
  <2>1. jobs' = jobs \ {j} /\ j.block = Null /\ UNCHANGED <<pc, sync, range>>
    BY <1>11 DEF NothingReceived
  <2>2. SavesKept
    BY <2>1 DEF SavesKept, Saving
  <2> QED BY <1>2, <2>1, <2>2 DEF SyncKept
<1> QED BY <1>3, <1>4, <1>5, <1>6, <1>7, <1>8, <1>9, <1>10, <1>11

(***************************************************************************)
(*                       The window is filled                              *)
(***************************************************************************)

LEMMA SyncFields ==
    ASSUME TypeInv
    PROVE  /\ pc \in [Tasks -> PcLabels] /\ "sync" \in Tasks
           /\ sync = [latest |-> sync.latest, network |-> sync.network]
           /\ sync.network \in Nat /\ head \in Nat
           /\ range \in [Tasks -> Ranges]
           /\ range["sync"].from \in Nat /\ range["sync"].to \in Int
           /\ ChunkEnd(range["sync"]) \in Int
<1>1. sync \in Syncs /\ head \in Heights /\ range \in [Tasks -> Ranges]
      /\ pc \in [Tasks -> PcLabels]
  BY DEF TypeInv, TypeOK, ActivityTypeOK, NodeTypeOK
<1>2. range["sync"] \in Ranges
  BY <1>1, TheTasks
<1>3. range["sync"].from \in Nat /\ range["sync"].to \in Int
  BY <1>2, NodeAssumption DEF Ranges
<1>4. sync = [latest |-> sync.latest, network |-> sync.network] /\ sync.network \in Heights
  BY <1>1 DEF Syncs
<1> QED BY <1>1, <1>2, <1>3, <1>4, TheTasks, HeightsAreNumbers, ChunkEndBound

LEMMA StartIsNumber ==
    ASSUME TypeInv
    PROVE  StartBlock(sync.latest, sync.network) \in Nat
<1>1. sync.latest # Null => sync.latest.number \in Nat
  BY HeightsAreNumbers DEF TypeInv, TypeOK, ActivityTypeOK, Syncs, LastSeen
<1> QED BY <1>1, SyncFields, IndexerAssumption DEF StartBlock

\* The range starts where the window does, or below it.
LEMMA WindowBounds ==
    ASSUME TypeInv, NEW n \in Window
    PROVE  n \in Nat /\ n <= sync.network /\ StartBlock(sync.latest, sync.network) <= n
<1>1. sync.latest # Null => sync.latest.number \in Nat
  BY HeightsAreNumbers DEF TypeInv, TypeOK, ActivityTypeOK, Syncs, LastSeen
<1>2. /\ n \in Nat /\ n <= sync.network /\ n > sync.network - InitialSyncBlockCount
      /\ sync.latest # Null => n > sync.latest.number
  BY SyncFields DEF Window
<1> QED BY <1>1, <1>2, SyncFields, IndexerAssumption DEF StartBlock

LEMMA ChunkOnChain ==
    ASSUME TypeInv, NoReorgYet, RangeInv, Filling
    PROVE  /\ \A n \in Chunk : n \in Int /\ n <= head
           /\ \A n \in Window : n \in Int /\ n <= head
           /\ Chunk \subseteq Int
<1>1. /\ range["sync"].to = sync.network /\ sync.network <= head
      /\ range["sync"].from \in Int /\ range["sync"].to \in Int /\ head \in Int
      /\ ChunkEnd(range["sync"]) \in Int
  BY SyncFields DEF RangeInv
<1>2. ChunkEnd(range["sync"]) <= range["sync"].to
  BY <1>1, IndexerAssumption DEF ChunkEnd
<1> QED BY <1>1, <1>2, SyncFields, WindowBounds DEF Chunk

LEMMA WindowKept ==
    ASSUME TypeInv, ~NodeMayLag, NoReorgYet, RangeInv, WindowInv, DOMAIN blocks \subseteq DOMAIN blocks', SyncKept, SavesKept
    PROVE  WindowInv'
<1>1. Window' = Window /\ Chunk' = Chunk /\ (Filling' <=> Filling)
  BY DEF SyncKept, Window, Chunk, Filling, ChunkEnd
<1>2. pc["sync"] = "chunk" => \A n \in Chunk : n <= head
  BY ChunkOnChain DEF Filling
<1> QED BY <1>1, <1>2 DEF WindowInv, SyncKept, SavesKept, Numbers

LEMMA WindowIdle ==
    ASSUME pc'["sync"] \notin {"range", "chunk", "fetch", "logs"}
    PROVE  WindowInv'
  BY DEF WindowInv, Filling

LEMMA FetchSyncPc ==
    ASSUME TypeInv, FetchStep("sync") \/ FetchFault("sync")
    PROVE  /\ pc["sync"] \in {"fetch", "logs"} /\ pc'["sync"] \in {"fetch", "logs"}
           /\ UNCHANGED <<sync, range, jobs, blocks, chain, head>>
<1>1. pc \in [Tasks -> PcLabels] /\ "sync" \in Tasks
  BY SyncFields
<1>2. UNCHANGED <<sync, range, jobs, blocks, chain, head>>
  BY DEF FetchStep, FetchFault, rangeVars, nodeVars
<1> QED BY <1>1, <1>2
        DEF FetchStep, FetchFault, GetLogs, TooManyLogs, SplitRange, SaveEvents, EndOfRange,
            GetLogsFails, SaveEventsFails, Goto

LEMMA ChunkIsSaving ==
    ASSUME TypeInv, ~NodeMayLag, NoReorgYet, RangeInv, WindowInv, StartChunk("sync"),
           UNCHANGED <<sync, blocks, head>>
    PROVE  WindowInv'
<1>1. range' = range /\ pc["sync"] = "range" /\ pc'["sync"] = "chunk"
  BY SyncFields DEF StartChunk, Goto
<1>2. Window' = Window /\ Chunk' = Chunk
  BY <1>1 DEF Window, Chunk, ChunkEnd
<1>3. sync.network <= head /\ range["sync"].to = sync.network
      /\ \A n \in Window : n < range["sync"].from => n \in Numbers
  BY <1>1 DEF RangeInv, WindowInv, Filling
<1>4. ASSUME NEW n \in Chunk
      PROVE  Saving(n)'
  <2>1. n <= head
    <3>1. ChunkEnd(range["sync"]) <= range["sync"].to
      BY SyncFields, IndexerAssumption DEF ChunkEnd
    <3> QED BY <1>3, <1>4, <3>1, SyncFields DEF Chunk
  <2>2. PICK lagging \in Lags(Chunk) : jobs' = jobs \cup {NewJob("sync", k, lagging) : k \in Chunk}
    BY DEF StartChunk, Chunk
  <2>3. lagging = {} /\ n \in Heights /\ Block(n) \in Blocks
    <3>1. n \in Heights
      <4>1. head \in Heights /\ n \in Nat
        BY <1>4, SyncFields DEF Chunk, TypeInv, TypeOK, NodeTypeOK
      <4> QED BY <2>1, <4>1, NodeAssumption DEF Heights
    <3> QED BY <2>2, <3>1, BlockOfChain DEF Lags, TypeInv, TypeOK
  <2>4. NewJob("sync", n, lagging) \in jobs'
    BY <1>4, <2>2
  <2>5. /\ NewJob("sync", n, lagging).owner = "sync" /\ NewJob("sync", n, lagging).awaited
        /\ NewJob("sync", n, lagging).number = n /\ NewJob("sync", n, lagging).block # Null
    BY <2>1, <2>3, NullAssumption DEF NewJob, Answer, Known
  <2> QED BY <2>4, <2>5 DEF Saving
<1> QED BY <1>1, <1>2, <1>3, <1>4 DEF WindowInv, Numbers

LEMMA ChunkIsStored ==
    ASSUME TypeInv, ~NodeMayLag, NoReorgYet, WindowInv, ChunkSaved("sync"), UNCHANGED <<sync, blocks, head>>
    PROVE  WindowInv'
<1>1. range' = range /\ pc["sync"] = "chunk" /\ pc'["sync"] = "fetch"
  BY SyncFields DEF ChunkSaved, BeginFetch, Goto, rangeVars
<1>2. Window' = Window /\ Chunk' = Chunk
  BY <1>1 DEF Window, Chunk, ChunkEnd
<1>3. \A n : ~Saving(n)
  BY DEF ChunkSaved, Saving
<1> QED BY <1>1, <1>2, <1>3 DEF WindowInv, Filling, Numbers

LEMMA ChunkIsBehind ==
    ASSUME TypeInv, ~NodeMayLag, NoReorgYet, RangeInv, WindowInv, NextChunk("sync"), UNCHANGED <<sync, blocks, head>>
    PROVE  WindowInv'
<1>1. /\ pc["sync"] = "fetch" /\ pc'["sync"] = "range"
      /\ range' = [range EXCEPT !["sync"].from = @ + ChunkSize]
  BY SyncFields DEF NextChunk, Fetched, Goto
<1>2. range'["sync"].from = range["sync"].from + ChunkSize /\ range'["sync"].to = range["sync"].to
  <2>1. range["sync"] \in [from : Nat, to : -1..MaxHeight]
    BY SyncFields DEF Ranges
  <2> QED BY <1>1, <2>1, SyncFields
<1>3. Window' = Window
  BY DEF Window
<1>4. /\ sync.network <= head /\ range["sync"].to = sync.network
      /\ \A n \in Window : n < range["sync"].from => n \in Numbers
      /\ Chunk \subseteq Numbers
  BY <1>1 DEF RangeInv, WindowInv, Filling
<1>5. ASSUME NEW n \in Window, n < range'["sync"].from
      PROVE  n \in Numbers
  <2>1. n \in Int /\ n <= range["sync"].to
    BY <1>4, WindowBounds, SyncFields
  <2>2. n < range["sync"].from \/ n \in Chunk
    BY <1>2, <1>5, <2>1, SyncFields, IndexerAssumption DEF Chunk, ChunkEnd
  <2> QED BY <1>4, <2>2
<1> QED BY <1>1, <1>2, <1>3, <1>4, <1>5 DEF WindowInv, Numbers

LEMMA SyncPaths ==
    ASSUME TypeInv, SyncStep \/ SyncFault \/ FetchFault("sync")
    PROVE  /\ UNCHANGED <<chain, head>>
           /\ \/ /\ pc'["sync"] \in {"latest", "network", "refresh", "done"}
                 /\ sync'.network \in {sync.network, head, 0}
              \/ ChooseRange
              \/ FetchStep("sync") \/ FetchFault("sync")
              \/ (StartChunk("sync") \/ ChunkSaved("sync") \/ NextChunk("sync")) /\ ChunkFrame
<1>1. UNCHANGED <<chain, head>>
  BY DEF SyncStep, SyncFault, FetchFault, SyncFrame, FetchStep, ChunkFrame, nodeVars
<1>2. CASE GetLatestStored \/ GetCurrentBlock \/ RefreshLast \/ SyncDone \/ SyncFault
  <2>1. pc'["sync"] \in {"latest", "network", "refresh", "done"}
    BY <1>2, SyncFields
       DEF GetLatestStored, GetCurrentBlock, RefreshLast, SyncDone, SyncFault, Abort, Goto
  <2>2. sync = [latest |-> sync.latest, network |-> sync.network]
    BY SyncFields
  <2>3. CASE GetLatestStored \/ GetCurrentBlock \/ RefreshLast
    BY <1>1, <2>1, <2>2, <2>3 DEF GetLatestStored, GetCurrentBlock, RefreshLast
  <2>4. CASE SyncDone \/ SyncFault
    BY <1>1, <2>1, <2>4 DEF SyncDone, SyncFault, Abort, NoSync
  <2> QED BY <1>2, <2>3, <2>4
<1> QED BY <1>1, <1>2 DEF SyncStep

LEMMA RangeChosen ==
    ASSUME TypeInv, ChooseRange
    PROVE  /\ sync' = sync /\ pc'["sync"] = "range"
           /\ range'["sync"] = [from |-> StartBlock(sync.latest, sync.network), to |-> sync.network]
           /\ Window' = Window /\ \A n \in Window : ~(n < range'["sync"].from)
<1>1. /\ sync' = sync /\ pc'["sync"] = "range"
      /\ range'["sync"] = [from |-> StartBlock(sync.latest, sync.network), to |-> sync.network]
  BY SyncFields DEF ChooseRange, SaveBlocksInRange, Goto
<1>2. Window' = Window
  BY <1>1 DEF Window
<1> QED BY <1>1, <1>2, SyncFields, StartIsNumber, WindowBounds

LEMMA SyncFillsOn ==
    ASSUME TypeInv, ~NodeMayLag, NoReorgYet, RangeInv, WindowInv,
           SyncStep \/ SyncFault \/ FetchFault("sync")
    PROVE  WindowInv'
<1>1. CASE FetchStep("sync") \/ FetchFault("sync")
  <2>1. /\ pc["sync"] \in {"fetch", "logs"} /\ pc'["sync"] \in {"fetch", "logs"}
        /\ UNCHANGED <<sync, range, jobs, blocks, head>>
    BY <1>1, FetchSyncPc
  <2>2. Window' = Window /\ Chunk' = Chunk
    BY <2>1 DEF Window, Chunk, ChunkEnd
  <2> QED BY <2>1, <2>2 DEF WindowInv, Filling, Numbers
<1>2. CASE ChooseRange
  BY <1>2, RangeChosen DEF WindowInv
<1>3. CASE (StartChunk("sync") \/ ChunkSaved("sync") \/ NextChunk("sync")) /\ ChunkFrame
  <2>1. UNCHANGED <<sync, blocks, head>>
    BY <1>3 DEF ChunkFrame, dbVars, nodeVars
  <2> QED BY <1>3, <2>1, ChunkIsSaving, ChunkIsStored, ChunkIsBehind
<1> QED BY <1>1, <1>2, <1>3, SyncPaths, WindowIdle

LEMMA FreshSync ==
    ASSUME Crash \/ Boot
    PROVE  SyncEnds /\ jobs' = {}
<1>1. \E labels \in {Down, Started} : FreshMemory(labels)
  BY DEF Crash, Boot
<1> QED BY <1>1, TheTasks DEF FreshMemory, SyncEnds, Down, Started

LEMMA RangeInvStep ==
    TypeInv /\ RangeInv /\ [Next]_vars => RangeInv'
<1> SUFFICES ASSUME TypeInv, RangeInv, [Next]_vars, NoReorgYet' PROVE RangeInv'
  BY DEF RangeInv
<1>1. /\ NoReorgYet /\ head <= head' /\ head \in Nat /\ head' \in Nat
      /\ sync.network \in Nat /\ sync.network <= head
  BY ChainOnlyGrows, SyncFields, TypeInvStep, HeightsAreNumbers
     DEF TypeInv, TypeOK, NodeTypeOK, RangeInv
<1>2. SyncEnds => RangeInv'
  BY <1>1 DEF SyncEnds, NoSync, RangeInv, Filling
<1>3. SyncKept => RangeInv'
  BY <1>1 DEF SyncKept, RangeInv, Filling
<1>4. CASE SyncStep \/ SyncFault \/ FetchFault("sync")
  <2>1. head' = head
    BY <1>4, SyncPaths
  <2>2. CASE FetchStep("sync") \/ FetchFault("sync")
    BY <1>1, <2>1, <2>2, FetchSyncPc DEF RangeInv, Filling
  <2>3. CASE ChooseRange
    BY <1>1, <2>1, <2>3, RangeChosen DEF RangeInv
  <2>4. CASE (StartChunk("sync") \/ ChunkSaved("sync") \/ NextChunk("sync")) /\ ChunkFrame
    <3>1. sync' = sync /\ Filling
      BY <2>4 DEF ChunkFrame, StartChunk, ChunkSaved, NextChunk, Fetched, Filling
    <3>2. range'["sync"].to = range["sync"].to
      <4>1. range["sync"] \in [from : Nat, to : -1..MaxHeight]
        BY SyncFields DEF Ranges
      <4> QED BY <2>4, <4>1, SyncFields DEF StartChunk, ChunkSaved, NextChunk, rangeVars
    <3> QED BY <1>1, <2>1, <3>1, <3>2 DEF RangeInv
  <2>5. CASE /\ pc'["sync"] \in {"latest", "network", "refresh", "done"}
             /\ sync'.network \in {sync.network, head, 0}
    BY <1>1, <2>1, <2>5 DEF RangeInv, Filling
  <2> QED BY <1>4, <2>2, <2>3, <2>4, <2>5, SyncPaths
<1>5. CASE JobStep \/ JobFault
  BY <1>2, <1>3, <1>5, JobsAndSync
<1>6. CASE Crash \/ Boot
  BY <1>2, <1>6, FreshSync
<1>7. CASE Others
  BY <1>3, <1>7, OthersLeaveSync
<1> QED BY <1>4, <1>5, <1>6, <1>7 DEF Next, TaskFault, Others

LEMMA InitRange ==
    Init => RangeInv
<1> SUFFICES ASSUME Init PROVE RangeInv
  OBVIOUS
<1>1. sync.network = 0 /\ head \in Nat /\ pc["sync"] \in {"start", "done"}
  BY TheTasks, HeightsAreNumbers, NodeAssumption DEF Init, NodeInit, NoSync, Started
<1> QED BY <1>1 DEF RangeInv, Filling

LEMMA WindowInvStep ==
    TypeInv /\ MinedInv /\ RangeInv /\ WindowInv /\ [Next]_vars => WindowInv'
<1> SUFFICES ASSUME TypeInv, MinedInv, RangeInv, WindowInv, [Next]_vars, ~NodeMayLag, NoReorgYet'
             PROVE  WindowInv'
  BY DEF WindowInv
<1>1. NoReorgYet /\ DOMAIN blocks \subseteq DOMAIN blocks'
  BY ChainOnlyGrows, TableGrows
<1>2. SyncEnds => WindowInv'
  BY WindowIdle DEF SyncEnds
<1>3. SyncKept /\ SavesKept => WindowInv'
  BY <1>1, WindowKept
<1>4. CASE SyncStep \/ SyncFault \/ FetchFault("sync")
  BY <1>1, <1>4, SyncFillsOn
<1>5. CASE JobStep \/ JobFault
  BY <1>2, <1>3, <1>5, JobsAndSync
<1>6. CASE Crash \/ Boot
  BY <1>2, <1>6, FreshSync
<1>7. CASE Others
  BY <1>3, <1>7, OthersLeaveSync
<1> QED BY <1>4, <1>5, <1>6, <1>7 DEF Next, TaskFault, Others

LEMMA InitWindow ==
    Init => WindowInv
  BY TheTasks DEF Init, Started, WindowInv, Filling

\* The initial sync leaves no hole in the window it has to fill, for every chunk
\* size and every stored prefix, whatever the worker and the poll store between
\* its await points and whichever call or save fails, as long as the chain only
\* grows and no backend of the node answers null for a block of the window.
THEOREM SyncLeavesNoHole ==
    Spec => []SyncFillsWindow
<1>1. TypeInv /\ RangeInv /\ WindowInv => SyncFillsWindow
  <2> SUFFICES ASSUME TypeInv, RangeInv, WindowInv, RangeDone("sync"), ~NodeMayLag, NoReorgYet,
                      NEW n \in Window
               PROVE  n \in Numbers
    BY DEF SyncFillsWindow, NoReorgYet
  <2>1. Filling /\ range["sync"].from > range["sync"].to
    BY DEF RangeDone, Filling
  <2>2. range["sync"].to = sync.network /\ (n < range["sync"].from => n \in Numbers)
    BY <2>1 DEF RangeInv, WindowInv
  <2>3. n \in Int /\ n <= sync.network
    BY SyncFields, WindowBounds
  <2> QED BY <2>1, <2>2, <2>3, SyncFields
<1>2. TypeInv /\ MinedInv /\ RangeInv /\ WindowInv /\ [Next]_vars => WindowInv'
  BY WindowInvStep
<1>3. Spec => [](TypeInv /\ RangeInv)
  BY InitTypes, TypeInvStep, InitRange, RangeInvStep, PTL DEF Spec
<1> QED BY <1>1, <1>2, <1>3, MinedInvHolds, InitWindow, PTL DEF Spec

(***************************************************************************)
(*              While the chain only grows, nothing is undone              *)
(***************************************************************************)

Correcting == {"logged", "selected", "saved"}

\* No block has a rival, so that neither the worker nor the poll ever sees a
\* reorganisation, and no event is rolled back.
FirstBranch ==
    NoReorgYet =>
    /\ \A n \in Heights : chain[n] = 0
    /\ \A b \in mined : b.hash = <<b.number, 0>>
    /\ \A l \in DOMAIN events : events[l] = "N"
    /\ pc["worker"] # "reorgLogged"
    /\ pc["poll"] \notin Correcting

LEMMA OneHash ==
    ASSUME FirstBranch, NoReorgYet, NEW n, NEW h1, NEW h2, MinedHash(n, h1), MinedHash(n, h2)
    PROVE  h1 = h2
  BY DEF FirstBranch, MinedHash

LEMMA FirstBranchMined ==
    ASSUME TypeInv, FirstBranch, [Next]_vars, NoReorgYet'
    PROVE  /\ \A n \in Heights : chain'[n] = 0
           /\ \A b \in mined' : b.hash = <<b.number, 0>>
<1>1. NoReorgYet /\ chain' = chain /\ (NewBlock => Extend)
  BY ChainOnlyGrows
<1>2. CASE ~NewBlock
  BY <1>1, <1>2, MinedGrows DEF FirstBranch
<1>3. CASE NewBlock
  <2>1. mined' = mined \cup {Block(head + 1)} /\ head < MaxHeight
    BY <1>1, <1>3 DEF Extend
  <2>2. head + 1 \in Heights /\ ~(head + 1 < 0)
    BY <2>1, NodeAssumption DEF TypeInv, TypeOK, NodeTypeOK, Heights
  <2>3. Block(head + 1).number = head + 1 /\ Block(head + 1).hash = <<head + 1, 0>>
    BY <1>1, <2>2 DEF FirstBranch, Block, HashAt
  <2> QED BY <1>1, <2>1, <2>3 DEF FirstBranch
<1> QED BY <1>2, <1>3

\* A step that rolls nothing back leaves the events or inserts some.
LEMMA EventSteps ==
    ASSUME [Next]_vars, pc["worker"] # "reorgLogged", pc["poll"] # "saved"
    PROVE  events' = events \/ \E logsRead : events' = SaveEventsBulk(events, logsRead)
<1>1. ASSUME NEW task, FetchStep(task) \/ FetchFault(task)
      PROVE  events' = events \/ \E logsRead : events' = SaveEventsBulk(events, logsRead)
  BY <1>1 DEF FetchStep, FetchFault, SaveEvents, SaveEventsFails
<1>2. CASE VerifyStep
  BY <1>2 DEF VerifyStep, VerifyCached, RequestBlock, VerifyReceived, SelectRecord, SaveRecord,
              RollBackRecord, CollectRecord, RecordDone, dbVars
<1>3. CASE (WorkerStep \/ WorkerFault) /\ ~FetchStep("worker")
  BY <1>3 DEF WorkerStep, WorkerFault, TakeHeader, RollBackRealtime, ForgetLast, SaveHeader,
              SaveHeaderConflicts, RememberHeader, QueueEmpty, HeaderFails, DropHeader, dbVars
<1>4. CASE (PollStep \/ PollFault) /\ ~VerifyStep /\ ~FetchStep("poll")
  BY <1>4 DEF PollStep, PollFault, StartPolling, GetFinalizedTag, TagMissing, UpdateSafe,
              UpdateFinalized, FindBlocksToVerify, FindGaps, TakeGap, GapDone, PollDone, PollFails,
              ChunkFrame, dbVars
<1>5. CASE (SyncStep \/ SyncFault) /\ ~FetchStep("sync")
  BY <1>5 DEF SyncStep, SyncFault, SyncFrame, ChunkFrame, dbVars
<1>6. CASE \/ JobStep \/ JobFault \/ NewBlock \/ AdvanceTags \/ DropSocket
           \/ Crash \/ Boot \/ UNCHANGED vars
  BY <1>6 DEF JobStep, JobFault, JobFrame, NewBlock, AdvanceTags, DropSocket, Crash, Boot, vars, dbVars
<1> QED BY <1>1, <1>2, <1>3, <1>4, <1>5, <1>6 DEF Next, TaskFault

\* The worker finds no header that does not fit.
LEMMA WorkerSeesNoReorg ==
    ASSUME TypeInv, MinedInv, FirstBranch, NoReorgYet, queue # <<>>
    PROVE  ~IsReorg(Head(queue))
<1> SUFFICES ASSUME IsReorg(Head(queue)) PROVE FALSE
  OBVIOUS
<1> DEFINE block == Head(queue)
<1>1. block \in mined
  BY TailMined DEF TypeInv, TypeOK, ServiceTypeOK, MinedInv, WorkerHoldsMined
<1> HIDE DEF block
<1>2. last # Null /\ block.number = last.number + 1 /\ block.parentHash # last.hash
  BY DEF IsReorg, block
<1>3. last.number \in Nat /\ MinedHash(last.number, last.hash)
  BY <1>2, HeightsAreNumbers
     DEF MinedInv, WorkerHoldsMined, TypeInv, TypeOK, ServiceTypeOK, LastSeen
<1>4. block.number > 0 /\ block.number - 1 = last.number
  BY <1>2, <1>3
<1>5. MinedHash(last.number, block.parentHash)
  BY <1>1, <1>4 DEF MinedInv, ChainMined
<1> QED BY <1>2, <1>3, <1>5, OneHash

\* The poll finds no row that differs.
LEMMA PollSeesNoReorg ==
    ASSUME MinedInv, FirstBranch, NoReorgYet, NEW n, IsCurrent(n),
           NEW b, b # Null => b \in mined /\ b.number = n
    PROVE  ~Differs(n, b)
<1> SUFFICES ASSUME Differs(n, b) PROVE FALSE
  OBVIOUS
<1>1. MinedHash(n, b.hash) /\ MinedHash(n, poll.todo[n].blockHash)
  BY BlockIsMined DEF Differs, IsCurrent, MinedInv, PollHoldsMined
<1> QED BY <1>1, OneHash DEF Differs

LEMMA WorkerGoesOn ==
    ASSUME TypeInv, MinedInv, FirstBranch, NoReorgYet, [Next]_vars
    PROVE  pc'["worker"] # "reorgLogged"
<1>1. pc \in [Tasks -> PcLabels] /\ "worker" \in Tasks /\ pc["worker"] # "reorgLogged"
  BY TheTasks DEF TypeInv, TypeOK, ActivityTypeOK, FirstBranch
<1>2. CASE TakeHeader
  <2>1. ~IsReorg(Head(queue))
    BY <1>2, WorkerSeesNoReorg DEF TakeHeader
  <2> QED BY <1>1, <1>2, <2>1 DEF TakeHeader, SelectForSave, Goto
<1>3. CASE (WorkerStep \/ WorkerFault \/ FetchFault("worker")) /\ ~TakeHeader
  BY <1>1, <1>3
     DEF WorkerStep, WorkerFault, RollBackRealtime, ForgetLast, SaveHeader, SelectForSave, BeginFetch,
         SaveHeaderConflicts, RememberHeader, QueueEmpty, HeaderFails, DropHeader, FetchStep, FetchFault,
         GetLogs, TooManyLogs, SaveEvents, GetLogsFails, SplitRange, SaveEventsFails, EndOfRange, Goto
<1>4. CASE NewBlock
  BY <1>1, <1>4 DEF NewBlock, OnBlockHeader, Goto
<1>5. CASE AdvanceTags \/ DropSocket \/ Crash \/ Boot \/ UNCHANGED vars
  BY <1>1, <1>5 DEF AdvanceTags, DropSocket, Crash, Boot, FreshMemory, Down, Started, vars
<1> QED BY <1>1, <1>3, <1>2, <1>4, <1>5, WorkerUntouched DEF Next, TaskFault

LEMMA VerifyGoesOn ==
    ASSUME TypeInv, MinedInv, FirstBranch, NoReorgYet, VerifyStep
    PROVE  pc'["poll"] \notin Correcting
<1>1. PICK n \in Heights :
        /\ IsCurrent(n)
        /\ \/ VerifyCached(n) \/ RequestBlock(n) \/ VerifyReceived(n) \/ SelectRecord(n)
           \/ SaveRecord(n) \/ RollBackRecord(n) \/ CollectRecord(n) \/ RecordDone(n)
  BY DEF VerifyStep
<1>2. pc \in [Tasks -> PcLabels] /\ "poll" \in Tasks /\ pc["poll"] \notin Correcting
  BY TheTasks DEF TypeInv, TypeOK, ActivityTypeOK, FirstBranch
<1>3. ASSUME NEW b, Compare(n, b), b # Null => b \in mined /\ b.number = n
      PROVE  pc'["poll"] = "verify"
  BY <1>1, <1>2, <1>3, PollSeesNoReorg DEF Compare, NextRecord, Goto
<1>4. CASE VerifyCached(n)
  <2>1. Compare(n, cache[n]) /\ (cache[n] # Null => cache[n] \in mined /\ cache[n].number = n)
    BY <1>4 DEF VerifyCached, MinedInv, CacheMined
  <2> QED BY <1>3, <2>1 DEF Correcting
<1>5. CASE VerifyReceived(n)
  <2>1. poll.rpcBlock # Null => poll.rpcBlock \in mined /\ poll.rpcBlock.number = n
    BY <1>1, TheCurrent DEF MinedInv, PollHoldsMined
  <2>2. Compare(n, poll.rpcBlock)
    BY <1>5 DEF VerifyReceived
  <2> QED BY <1>3, <2>1, <2>2 DEF Correcting
<1>6. CASE RequestBlock(n) \/ RollBackRecord(n) \/ CollectRecord(n) \/ RecordDone(n)
  BY <1>2, <1>6 DEF RequestBlock, RollBackRecord, CollectRecord, RecordDone, NextRecord, BeginFetch,
                    Goto, Correcting
<1>7. ~SelectRecord(n) /\ ~SaveRecord(n)
  BY <1>2 DEF SelectRecord, SaveRecord, Correcting
<1> QED BY <1>1, <1>4, <1>5, <1>6, <1>7

LEMMA PollGoesOn ==
    ASSUME TypeInv, MinedInv, FirstBranch, NoReorgYet, [Next]_vars
    PROVE  pc'["poll"] \notin Correcting
<1>1. /\ pc \in [Tasks -> PcLabels] /\ "poll" \in Tasks /\ pc["poll"] \notin Correcting
      /\ jobs \subseteq Jobs
  BY TheTasks DEF TypeInv, TypeOK, ActivityTypeOK, FirstBranch
<1>2. ASSUME NEW task \in {"worker", "sync"}, NEW label, Goto(task, label)
      PROVE  pc'["poll"] \notin Correcting
  BY <1>1, <1>2, TheTasks DEF Goto
<1>3. ASSUME NEW label, label \notin Correcting, Goto("poll", label)
      PROVE  pc'["poll"] \notin Correcting
  BY <1>1, <1>3 DEF Goto
<1>4. CASE VerifyStep
  BY <1>4, VerifyGoesOn
<1>5. CASE (PollStep \/ PollFault \/ FetchFault("poll")) /\ ~VerifyStep
  <2>1. pc' = pc \/ \E label \in PcLabels \ Correcting : Goto("poll", label)
    BY <1>5
       DEF PollStep, PollFault, StartPolling, GetFinalizedTag, TagMissing, UpdateSafe, UpdateFinalized,
           FindBlocksToVerify, FindGaps, TakeGap, SaveBlocksInRange, GapDone, PollDone, PollFails, Abort,
           StartChunk, ChunkSaved, NextChunk, BeginFetch, FetchStep, FetchFault, GetLogs, TooManyLogs,
           SaveEvents, GetLogsFails, SplitRange, SaveEventsFails, EndOfRange, PcLabels, Correcting
  <2> QED BY <1>1, <1>3, <2>1
<1>6. CASE WorkerStep \/ WorkerFault \/ FetchFault("worker")
  <2>1. pc' = pc \/ \E label : Goto("worker", label)
    BY <1>6
       DEF WorkerStep, WorkerFault, TakeHeader, RollBackRealtime, ForgetLast, SaveHeader, SelectForSave,
           BeginFetch, SaveHeaderConflicts, RememberHeader, QueueEmpty, HeaderFails, DropHeader, FetchStep,
           FetchFault, GetLogs, TooManyLogs, SaveEvents, GetLogsFails, SplitRange, SaveEventsFails, EndOfRange
  <2> QED BY <1>1, <1>2, <2>1
<1>7. CASE SyncStep \/ SyncFault \/ FetchFault("sync")
  <2>1. pc' = pc \/ \E label : Goto("sync", label)
    BY <1>7
       DEF SyncStep, SyncFault, GetLatestStored, GetCurrentBlock, ChooseRange, RefreshLast, SyncDone,
           SaveBlocksInRange, Abort, StartChunk, ChunkSaved, NextChunk, BeginFetch, FetchStep, FetchFault,
           GetLogs, TooManyLogs, SaveEvents, GetLogsFails, SplitRange, SaveEventsFails, EndOfRange
  <2> QED BY <1>1, <1>2, <2>1
<1>8. CASE JobStep \/ JobFault
  <2>1. pc' = pc \/ \E j \in jobs : Abort(j.owner)
    BY <1>8, JobCases DEF AnsweredLater, NothingReceived, BlockReceived, BlockSaved, Rejected
  <2>2. ASSUME NEW j \in jobs, Abort(j.owner) PROVE pc'["poll"] \notin Correcting
    BY <1>1, <2>2 DEF Abort, Goto, Jobs, Correcting
  <2> QED BY <1>1, <2>1, <2>2
<1>9. CASE NewBlock \/ AdvanceTags \/ DropSocket \/ UNCHANGED vars
  <2>1. pc' = pc \/ Goto("worker", "loop")
    BY <1>9 DEF NewBlock, OnBlockHeader, AdvanceTags, DropSocket, vars
  <2> QED BY <1>1, <1>2, <2>1
<1>10. CASE Crash \/ Boot
  BY <1>1, <1>10 DEF Crash, Boot, FreshMemory, Down, Started, Correcting
<1> QED BY <1>4, <1>5, <1>6, <1>7, <1>8, <1>9, <1>10 DEF Next, TaskFault

LEMMA FirstBranchStep ==
    TypeInv /\ MinedInv /\ FirstBranch /\ [Next]_vars => FirstBranch'
<1> SUFFICES ASSUME TypeInv, MinedInv, FirstBranch, [Next]_vars, NoReorgYet' PROVE FirstBranch'
  BY DEF FirstBranch
<1>1. NoReorgYet
  BY ChainOnlyGrows
<1>2. \A l \in DOMAIN events' : events'[l] = "N"
  <2>1. events' = events \/ \E logsRead : events' = SaveEventsBulk(events, logsRead)
    BY <1>1, EventSteps DEF FirstBranch, Correcting
  <2> QED BY <1>1, <2>1 DEF FirstBranch, SaveEventsBulk
<1> QED BY <1>1, <1>2, FirstBranchMined, WorkerGoesOn, PollGoesOn DEF FirstBranch

LEMMA InitFirstBranch ==
    Init => FirstBranch
<1> SUFFICES ASSUME Init PROVE FirstBranch
  OBVIOUS
<1>1. chain = [n \in Heights |-> 0] /\ mined = {Block(n) : n \in 0..InitHead}
  BY DEF Init, NodeInit
<1>2. \A n \in 0..InitHead : Block(n).number = n /\ Block(n).hash = <<n, 0>>
  BY <1>1, NodeAssumption DEF Block, HashAt, Heights
<1>3. \A l \in DOMAIN events : events[l] = "N"
  BY DEF Init
<1>4. pc["worker"] = "idle" /\ pc["poll"] = "idle"
  BY TheTasks DEF Init, Started
<1> QED BY <1>1, <1>2, <1>3, <1>4 DEF FirstBranch, Correcting

\* While the chain only grows nothing is taken for a reorganisation: nothing is
\* logged and no event is rolled back, whatever the activities store meanwhile,
\* however late a header is handled, and whichever save or call fails.
THEOREM GrowthIsNoReorg ==
    Spec => []NoFalseAlarm
<1>1. FirstBranch /\ ReorgLogsAreReal => NoFalseAlarm
  BY OneHash DEF ReorgLogsAreReal, FirstBranch, Live, NoReorgYet, NoFalseAlarm
<1> QED BY <1>1, InitTypes, TypeInvStep, InitMined, MinedInvStep, InitFirstBranch, FirstBranchStep,
           ReorgLogsNeverLie, PTL DEF Spec

(***************************************************************************)
(*                   The events of the window                              *)
(***************************************************************************)

Collected(n) == Logs(n, n) \subseteq DOMAIN events

InRange(n, r) == r.from <= n /\ n <= r.to

Covered(n, ranges) == \E i \in DOMAIN ranges : InRange(n, ranges[i])

\* The events of what lies below the rest of the range are collected; while
\* those of the current chunk are, each of its numbers is collected or in a
\* range that is still to be fetched, or its logs are in the answer at hand.
EventsInv ==
    NoReorgYet /\ ~NodeMayLag /\ faults = 0 /\ Listening =>
    /\ Filling => \A n \in Window : n < range["sync"].from => Collected(n)
    /\ pc["sync"] \in {"fetch", "logs"} =>
          \A n \in Chunk : Collected(n) \/ Covered(n, fetch["sync"])
    /\ pc["sync"] = "logs" =>
          \A n \in Chunk : InRange(n, Head(fetch["sync"])) => Logs(n, n) \subseteq logs["sync"]

\* A block has one log, at most; a range has the logs of each of its blocks.
LEMMA LogsOfBlock ==
    ASSUME NEW n, n \in Int
    PROVE  /\ Logs(n, n) \subseteq {LogAt(n)}
           /\ LogsFit(Logs(n, n))
           /\ \A from, to \in Int : from <= n /\ n <= to => Logs(n, n) \subseteq Logs(from, to)
<1>1. EventHeights \subseteq Int
  BY NodeAssumption
<1>2. Logs(n, n) \subseteq {LogAt(n)}
  <2> SUFFICES ASSUME NEW l \in Logs(n, n) PROVE l = LogAt(n)
    OBVIOUS
  <2>1. PICK m \in EventHeights : n <= m /\ m <= n /\ l = LogAt(m)
    BY DEF Logs
  <2> QED BY <1>1, <2>1
<1>3. LogsFit(Logs(n, n))
  <2>1. Logs(n, n) = {} \/ Logs(n, n) = {LogAt(n)}
    BY <1>2
  <2>2. Cardinality(Logs(n, n)) \in {0, 1}
    BY <2>1, FS_EmptySet, FS_Singleton
  <2> QED BY <2>2, NodeAssumption DEF LogsFit
<1>4. ASSUME NEW from \in Int, NEW to \in Int, from <= n, n <= to
      PROVE  Logs(n, n) \subseteq Logs(from, to)
  <2> SUFFICES ASSUME NEW l \in Logs(n, n) PROVE l \in Logs(from, to)
    OBVIOUS
  <2>1. PICK m \in EventHeights : n <= m /\ m <= n /\ m <= head /\ l = LogAt(m)
    BY DEF Logs
  <2>2. from <= m /\ m <= to
    BY <1>1, <1>4, <2>1
  <2> QED BY <2>1, <2>2 DEF Logs
<1> QED BY <1>2, <1>3, <1>4

LEMMA LogsOfBlockKept ==
    ASSUME chain' = chain, NEW n, n \in Int, n <= head, head \in Int, head' \in Int, head <= head'
    PROVE  Logs(n, n)' = Logs(n, n)
<1>1. EventHeights \subseteq Int
  BY NodeAssumption
<1>2. \A m \in EventHeights : n <= m /\ m <= n => m <= head /\ m <= head'
  BY <1>1
<1>3. \A m : LogAt(m)' = LogAt(m)
  BY DEF LogAt
<1> QED BY <1>2, <1>3 DEF Logs

LEMMA CoveredByOne ==
    ASSUME NEW r, NEW n, InRange(n, r)
    PROVE  Covered(n, <<r>>)
<1>1. DOMAIN <<r>> = {1} /\ <<r>>[1] = r
  OBVIOUS
<1> QED BY <1>1 DEF Covered

LEMMA CoveredSplit ==
    ASSUME NEW ranges, ranges \in Seq(FetchRanges), NEW n, Covered(n, ranges), ranges # <<>>
    PROVE  InRange(n, Head(ranges)) \/ Covered(n, Tail(ranges))
<1>1. /\ DOMAIN ranges = 1..Len(ranges) /\ Len(ranges) \in Nat /\ Head(ranges) = ranges[1]
      /\ DOMAIN Tail(ranges) = 1..(Len(ranges) - 1)
      /\ \A k \in 1..(Len(ranges) - 1) : Tail(ranges)[k] = ranges[k + 1]
  BY HeadTailProperties, LenProperties
<1>2. PICK i \in 1..Len(ranges) : InRange(n, ranges[i])
  BY <1>1 DEF Covered
<1>3. CASE i = 1
  BY <1>1, <1>2, <1>3
<1>4. CASE i # 1
  <2>1. i - 1 \in 1..(Len(ranges) - 1) /\ (i - 1) + 1 = i
    BY <1>1, <1>4
  <2> QED BY <1>1, <1>2, <2>1 DEF Covered
<1> QED BY <1>3, <1>4

LEMMA CoveredConcat ==
    ASSUME NEW low, low \in Seq(FetchRanges), NEW high, high \in Seq(FetchRanges), NEW n,
           Covered(n, low) \/ Covered(n, high)
    PROVE  Covered(n, low \o high)
<1>1. /\ DOMAIN low = 1..Len(low) /\ DOMAIN high = 1..Len(high)
      /\ Len(low) \in Nat /\ Len(high) \in Nat
  BY LenProperties
<1>2. /\ DOMAIN (low \o high) = 1..(Len(low) + Len(high))
      /\ \A i \in 1..(Len(low) + Len(high)) :
            (low \o high)[i] = IF i <= Len(low) THEN low[i] ELSE high[i - Len(low)]
  BY ConcatProperties, LenProperties
<1>3. CASE Covered(n, low)
  <2>1. PICK i \in 1..Len(low) : InRange(n, low[i])
    BY <1>1, <1>3 DEF Covered
  <2>2. i \in 1..(Len(low) + Len(high)) /\ i <= Len(low)
    BY <1>1
  <2> QED BY <1>2, <2>1, <2>2 DEF Covered
<1>4. CASE Covered(n, high)
  <2>1. PICK i \in 1..Len(high) : InRange(n, high[i])
    BY <1>1, <1>4 DEF Covered
  <2>2. /\ i + Len(low) \in 1..(Len(low) + Len(high)) /\ ~(i + Len(low) <= Len(low))
        /\ (i + Len(low)) - Len(low) = i
    BY <1>1
  <2> QED BY <1>2, <2>1, <2>2 DEF Covered
<1> QED BY <1>3, <1>4

LEMMA CollectedKept ==
    ASSUME TypeInv, [Next]_vars, NoReorgYet', NEW n, n \in Int, n <= head, Collected(n)
    PROVE  Collected(n)'
<1>1. chain' = chain /\ head <= head' /\ head \in Int /\ head' \in Int
  BY ChainOnlyGrows, TypeInvStep, HeightsAreNumbers DEF TypeInv, TypeOK, NodeTypeOK
<1>2. Logs(n, n)' = Logs(n, n)
  BY <1>1, LogsOfBlockKept
<1>3. DOMAIN events \subseteq DOMAIN events'
  BY StepKeeps DEF EventsKept
<1> QED BY <1>2, <1>3 DEF Collected

LEMMA EventsStand ==
    ASSUME TypeInv, [Next]_vars, NoReorgYet', NoReorgYet, RangeInv, ~NodeMayLag,
           faults = 0, Listening, EventsInv, SyncKept, FetchKept
    PROVE  EventsInv'
<1>1. /\ Window' = Window /\ Chunk' = Chunk /\ (Filling' <=> Filling)
      /\ pc'["sync"] = pc["sync"] /\ range'["sync"] = range["sync"]
      /\ fetch'["sync"] = fetch["sync"] /\ logs'["sync"] = logs["sync"]
  BY DEF SyncKept, FetchKept, Window, Chunk, Filling, ChunkEnd
<1>2. pc["sync"] \in {"fetch", "logs"} => Filling
  BY DEF Filling
<1>3. \A n \in Chunk : Filling /\ Collected(n) => Collected(n)'
  BY ChunkOnChain, CollectedKept
<1>4. \A n \in Window : Filling /\ Collected(n) => Collected(n)'
  BY ChunkOnChain, CollectedKept
<1>5. \A n \in Chunk : Filling => Logs(n, n)' = Logs(n, n)
  <2>1. chain' = chain /\ head <= head' /\ head \in Int /\ head' \in Int
    BY ChainOnlyGrows, TypeInvStep, HeightsAreNumbers DEF TypeInv, TypeOK, NodeTypeOK
  <2> QED BY <2>1, ChunkOnChain, LogsOfBlockKept
<1> QED BY <1>1, <1>2, <1>3, <1>4, <1>5 DEF EventsInv, Covered

\* What a step of the collection leaves alone.
LEMMA FetchFrame ==
    ASSUME TypeInv, FetchStep("sync") \/ ((StartChunk("sync") \/ ChunkSaved("sync")) /\ ChunkFrame)
    PROVE  /\ UNCHANGED <<sync, range, chain, head>> /\ Window' = Window /\ Chunk' = Chunk
           /\ Filling /\ Filling'
<1>1. UNCHANGED <<sync, range, chain, head>>
  BY DEF FetchStep, StartChunk, ChunkSaved, ChunkFrame, rangeVars, nodeVars
<1>2. Filling /\ Filling'
  <2>1. CASE FetchStep("sync")
    BY <2>1, FetchSyncPc DEF Filling
  <2>2. CASE StartChunk("sync") \/ ChunkSaved("sync")
    BY <2>2, SyncFields DEF StartChunk, ChunkSaved, BeginFetch, Goto, Filling
  <2> QED BY <2>1, <2>2
<1> QED BY <1>1, <1>2 DEF Window, Chunk, ChunkEnd

LEMMA FetchCollects ==
    ASSUME TypeInv, [Next]_vars, NoReorgYet', NoReorgYet, RangeInv, ~NodeMayLag,
           faults = 0, Listening, EventsInv, FetchStep("sync")
    PROVE  EventsInv'
<1>1. /\ UNCHANGED <<sync, range, chain, head>> /\ Window' = Window /\ Chunk' = Chunk
      /\ Filling /\ Filling'
  BY FetchFrame
<1>2. /\ \A n \in Chunk : n \in Int /\ n <= head /\ (Collected(n) => Collected(n)')
      /\ \A n \in Window : Collected(n) => Collected(n)'
  BY <1>1, ChunkOnChain, CollectedKept
<1>3. /\ pc["sync"] \in {"fetch", "logs"} /\ pc \in [Tasks -> PcLabels] /\ "sync" \in Tasks
      /\ fetch \in [Tasks -> Seq(FetchRanges)] /\ fetch["sync"] \in Seq(FetchRanges)
      /\ logs \in [Tasks -> SUBSET (Heights \X Forks)]
  BY FetchSyncPc, TheTasks DEF TypeInv, TypeOK, ActivityTypeOK
<1>4. \A n \in Window : n < range["sync"].from => Collected(n)'
  BY <1>1, <1>2 DEF EventsInv
<1>5. \A n \in Chunk : Collected(n)' \/ Covered(n, fetch["sync"])
  BY <1>2, <1>3 DEF EventsInv
<1>6. \A n \in Chunk : Logs(n, n)' = Logs(n, n)
  BY <1>1 DEF Logs, LogAt
<1>7. CASE GetLogs("sync")
  <2>1. /\ pc'["sync"] = "logs" /\ fetch' = fetch /\ fetch["sync"] # <<>>
        /\ logs'["sync"] = Logs(Head(fetch["sync"]).from, Head(fetch["sync"]).to)
    BY <1>3, <1>7, AnsweredLogs DEF GetLogs, Goto
  <2>2. Head(fetch["sync"]).from \in Int /\ Head(fetch["sync"]).to \in Int
    <3>1. Head(fetch["sync"]) \in FetchRanges
      BY <1>3, <2>1, HeadTailProperties
    <3> QED BY <3>1 DEF FetchRanges
  <2>3. \A n \in Chunk : InRange(n, Head(fetch["sync"])) => Logs(n, n) \subseteq logs'["sync"]
    BY <1>2, <2>1, <2>2, LogsOfBlock DEF InRange
  <2> QED BY <1>1, <1>4, <1>5, <1>6, <2>1, <2>3 DEF EventsInv, Covered
<1>8. CASE TooManyLogs("sync")
  <2> DEFINE r == Head(fetch["sync"])
  <2>1. /\ pc' = pc /\ pc["sync"] = "fetch" /\ fetch["sync"] # <<>> /\ ~LogsFit(Logs(r.from, r.to))
        /\ fetch'["sync"] = Halves(r) \o Tail(fetch["sync"])
    BY <1>3, <1>8, AnsweredLogs DEF TooManyLogs, SplitRange
  <2>2. r \in FetchRanges /\ r.from \in Int /\ r.to \in Int
    <3>1. r \in FetchRanges
      BY <1>3, <2>1, HeadTailProperties
    <3> QED BY <3>1 DEF FetchRanges
  <2> HIDE DEF r
  <2>3. Halves(r) \in Seq(FetchRanges) /\ Tail(fetch["sync"]) \in Seq(FetchRanges)
    BY <1>3, <2>1, <2>2, HalvesAreRanges, HeadTailProperties
  <2>4. ASSUME NEW n, n \in Int, InRange(n, r)
        PROVE  Covered(n, Halves(r))
    <3>1. r.from # r.to
      BY <2>1, <2>2, LogsOfBlock
    <3>2. r.from < r.to
      BY <2>2, <2>4, <3>1 DEF InRange
    <3>3. /\ Len(Halves(r)) = 2
          /\ Halves(r)[1].from..Halves(r)[1].to \cup Halves(r)[2].from..Halves(r)[2].to = r.from..r.to
      BY <2>2, <3>2, HalvesPartitionRange
    <3>4. n \in Halves(r)[1].from..Halves(r)[1].to \/ n \in Halves(r)[2].from..Halves(r)[2].to
      BY <2>2, <2>4, <3>3 DEF InRange
    <3>5. 1 \in DOMAIN Halves(r) /\ 2 \in DOMAIN Halves(r)
      BY <2>3, <3>3, LenProperties
    <3> QED BY <2>4, <3>4, <3>5 DEF Covered, InRange
  <2>5. ASSUME NEW n \in Chunk, Covered(n, fetch["sync"])
        PROVE  Covered(n, fetch'["sync"])
    <3>1. InRange(n, r) \/ Covered(n, Tail(fetch["sync"]))
      BY <1>3, <2>1, <2>5, CoveredSplit DEF r
    <3>2. Covered(n, Halves(r)) \/ Covered(n, Tail(fetch["sync"]))
      BY <1>2, <2>4, <3>1
    <3> QED BY <2>1, <2>3, <3>2, CoveredConcat DEF r
  <2> QED BY <1>1, <1>4, <1>5, <2>1, <2>5 DEF EventsInv, Covered
<1>9. CASE SaveEvents("sync")
  <2>1. /\ pc["sync"] = "logs" /\ pc'["sync"] = "fetch"
        /\ fetch'["sync"] = Tail(fetch["sync"]) /\ fetch["sync"] # <<>>
        /\ DOMAIN events' = DOMAIN events \cup logs["sync"]
    BY <1>3, <1>9 DEF SaveEvents, EndOfRange, Goto, SaveEventsBulk, TypeInv, Links
  <2>2. ASSUME NEW n \in Chunk
        PROVE  Collected(n)' \/ Covered(n, fetch'["sync"])
    <3>1. CASE InRange(n, Head(fetch["sync"]))
      <4>1. Logs(n, n) \subseteq logs["sync"]
        BY <2>1, <3>1 DEF EventsInv
      <4> QED BY <1>6, <2>1, <4>1 DEF Collected
    <3>2. CASE ~InRange(n, Head(fetch["sync"]))
      BY <1>3, <1>5, <2>1, <3>2, CoveredSplit
    <3> QED BY <3>1, <3>2
  <2> QED BY <1>1, <1>4, <2>1, <2>2 DEF EventsInv, Covered
<1> QED BY <1>7, <1>8, <1>9 DEF FetchStep

LEMMA ChunkCollects ==
    ASSUME TypeInv, [Next]_vars, NoReorgYet', NoReorgYet, RangeInv, ~NodeMayLag,
           faults = 0, Listening, EventsInv, ChunkFrame,
           StartChunk("sync") \/ ChunkSaved("sync") \/ NextChunk("sync")
    PROVE  EventsInv'
<1>1. Filling /\ \A n \in Window : Collected(n) => Collected(n)'
  BY ChunkOnChain, CollectedKept DEF StartChunk, ChunkSaved, NextChunk, Fetched, Filling
<1>2. \A n \in Window : n < range["sync"].from => Collected(n)'
  BY <1>1 DEF EventsInv
<1>3. CASE StartChunk("sync")
  <2>1. pc'["sync"] = "chunk"
    BY <1>3, SyncFields DEF StartChunk, Goto
  <2>2. range' = range /\ Window' = Window
    BY <1>3, FetchFrame
  <2> QED BY <1>2, <2>1, <2>2 DEF EventsInv
<1>4. CASE ChunkSaved("sync")
  <2>1. range' = range /\ Window' = Window /\ Chunk' = Chunk
    BY <1>4, FetchFrame
  <2> DEFINE r == [from |-> range["sync"].from, to |-> ChunkEnd(range["sync"])]
  <2>2. pc'["sync"] = "fetch" /\ fetch'["sync"] = <<r>>
    BY <1>4, SyncFields DEF ChunkSaved, BeginFetch, Goto, RangesToFetch, TypeInv, TypeOK, ActivityTypeOK
  <2>3. ASSUME NEW n \in Chunk PROVE Covered(n, <<r>>)
    <3>1. InRange(n, r)
      BY SyncFields DEF Chunk, InRange
    <3> QED BY <3>1, CoveredByOne
  <2> HIDE DEF r
  <2> QED BY <1>2, <2>1, <2>2, <2>3 DEF EventsInv, Covered
<1>5. CASE NextChunk("sync")
  <2>1. /\ pc["sync"] = "fetch" /\ pc'["sync"] = "range" /\ fetch["sync"] = <<>>
        /\ range' = [range EXCEPT !["sync"].from = @ + ChunkSize]
    BY <1>5, SyncFields DEF NextChunk, Fetched, Goto
  <2>2. range'["sync"].from = range["sync"].from + ChunkSize
    <3>1. range["sync"] \in [from : Nat, to : -1..MaxHeight]
      BY SyncFields DEF Ranges
    <3> QED BY <2>1, <3>1, SyncFields
  <2>3. Window' = Window
    BY DEF ChunkFrame, Window
  <2>4. \A n \in Chunk : Collected(n)
    <3>1. \A n : ~Covered(n, <<>>)
      BY DEF Covered
    <3> QED BY <2>1, <3>1 DEF EventsInv
  <2>5. ASSUME NEW n \in Window, n < range'["sync"].from
        PROVE  Collected(n)'
    <3>1. n \in Int /\ n <= range["sync"].to
      BY <1>1, WindowBounds, SyncFields DEF RangeInv
    <3>2. n < range["sync"].from \/ n \in Chunk
      BY <2>2, <2>5, <3>1, SyncFields, IndexerAssumption DEF Chunk, ChunkEnd
    <3> QED BY <1>1, <1>2, <2>4, <3>2
  <2> QED BY <2>1, <2>3, <2>5 DEF EventsInv
<1> QED BY <1>3, <1>4, <1>5

LEMMA EventsInvStep ==
    TypeInv /\ RangeInv /\ EventsInv /\ [Next]_vars => EventsInv'
<1> SUFFICES ASSUME TypeInv, RangeInv, EventsInv, [Next]_vars, NoReorgYet', ~NodeMayLag,
                    faults' = 0, Listening
             PROVE  EventsInv'
  BY DEF EventsInv
<1>1. NoReorgYet /\ faults = 0 /\ ~Fault
  <2>1. faults \in Nat
    BY DEF TypeInv, TypeOK
  <2> QED BY <2>1, ChainOnlyGrows, FaultsAreCounted DEF Fault
<1>2. pc'["sync"] \notin {"range", "chunk", "fetch", "logs"} => EventsInv'
  BY DEF EventsInv, Filling
<1>3. SyncKept /\ FetchKept => EventsInv'
  BY <1>1, EventsStand
<1>4. CASE SyncStep \/ SyncFault \/ FetchFault("sync")
  <2>1. CASE pc'["sync"] \in {"latest", "network", "refresh", "done"}
    BY <1>2, <2>1
  <2>2. CASE ChooseRange
    BY <2>2, RangeChosen DEF EventsInv
  <2>3. CASE FetchStep("sync")
    BY <1>1, <2>3, FetchCollects
  <2>4. ~FetchFault("sync")
    BY <1>1 DEF FetchFault, GetLogsFails, SaveEventsFails
  <2>5. CASE (StartChunk("sync") \/ ChunkSaved("sync") \/ NextChunk("sync")) /\ ChunkFrame
    BY <1>1, <2>5, ChunkCollects
  <2> QED BY <1>4, <2>1, <2>2, <2>3, <2>4, <2>5, SyncPaths
<1>5. CASE JobStep \/ JobFault
  BY <1>2, <1>3, <1>5, JobsAndSync DEF SyncEnds
<1>6. CASE Crash \/ Boot
  BY <1>2, <1>6, FreshSync DEF SyncEnds
<1>7. CASE Others
  BY <1>3, <1>7, OthersLeaveSync
<1> QED BY <1>4, <1>5, <1>6, <1>7 DEF Next, TaskFault, Others

LEMMA InitEvents ==
    Init => EventsInv
  BY TheTasks DEF Init, Started, EventsInv, Filling

\* Unless a call or a statement fails or a backend of the node lags, the initial
\* sync has collected the events of its whole window when it ends, however the range falls into chunks and
\* each chunk into ranges the node accepts, and none of them is rolled back
\* while the chain only grows.
THEOREM SyncMissesNoEvent ==
    Spec => []SyncCollectsEvents
<1>1. TypeInv /\ RangeInv /\ EventsInv /\ FirstBranch => SyncCollectsEvents
  <2> SUFFICES ASSUME TypeInv, RangeInv, EventsInv, FirstBranch, RangeDone("sync"), NoReorgYet,
                      ~NodeMayLag, faults = 0, Listening, NEW n \in Window
               PROVE  Logs(n, n) \subseteq Live(events)
    BY DEF SyncCollectsEvents, NoReorgYet
  <2>1. Filling /\ range["sync"].from > range["sync"].to /\ range["sync"].to = sync.network
    BY DEF RangeDone, Filling, RangeInv
  <2>2. n \in Int /\ n <= sync.network
    BY SyncFields, WindowBounds
  <2>3. Collected(n)
    BY <2>1, <2>2, SyncFields DEF EventsInv
  <2> QED BY <2>3 DEF Collected, FirstBranch, Live
<1>2. Spec => [](TypeInv /\ RangeInv)
  BY InitTypes, TypeInvStep, InitRange, RangeInvStep, PTL DEF Spec
<1>3. Spec => []FirstBranch
  BY MinedInvHolds, InitFirstBranch, FirstBranchStep, PTL DEF Spec
<1> QED BY <1>1, <1>2, <1>3, InitEvents, EventsInvStep, PTL DEF Spec
=============================================================================
