--------------------------- MODULE IndexerProofs ----------------------------
(***************************************************************************)
(* Type correctness of the indexer and the safety properties that follow   *)
(* from it alone, for every value of the constants.                        *)
(***************************************************************************)
EXTENDS IndexerProperties, EthNodeLemmas, BlockTableLemmas, SequenceTheorems

(***************************************************************************)
(*                   The operators on typed arguments                      *)
(***************************************************************************)

LEMMA SavedTable ==
    ASSUME NEW t, IsTable(t), NEW n, n \in Heights, NEW record, record \in Rows,
           NEW found, found \in Rows \cup {Null}, found # Null => n \in DOMAIN t
    PROVE  /\ IsTable(SaveRow(t, n, record, found))
           /\ DOMAIN SaveRow(t, n, record, found) = DOMAIN t \cup {n}
<1>1. DOMAIN SaveRow(t, n, record, found) = DOMAIN t \cup {n}
  BY DEF SaveRow, PutRow
<1>2. t \in [DOMAIN t -> BlockRecord(Hashes)]
  BY DEF IsTable, Rows
<1>3. SaveRow(t, n, record, found) \in
          [DOMAIN SaveRow(t, n, record, found) -> BlockRecord(Hashes)]
  BY <1>2, SaveRowResult DEF Rows
<1> QED BY <1>1, <1>3 DEF IsTable, Rows

LEMMA UpdatedTable ==
    ASSUME NEW t, IsTable(t), NEW n, n \in Heights, NEW status, status \in BlockStatus
    PROVE  /\ IsTable(UpdateStatusUpToBlock(t, n, status))
           /\ DOMAIN UpdateStatusUpToBlock(t, n, status) = DOMAIN t
<1>1. t \in [DOMAIN t -> BlockRecord(Hashes)] /\ DOMAIN t \subseteq Int /\ n \in Int
  BY HeightsAreNumbers DEF IsTable, Rows
<1> QED BY <1>1, UpdateStatusResult DEF IsTable, Rows

LEMMA LatestIsSeen ==
    ASSUME NEW t, IsTable(t)
    PROVE  GetLatestBlock(t) \in LastSeen \cup {Null}
<1>1. CASE DOMAIN t = {}
  BY <1>1 DEF GetLatestBlock
<1>2. CASE DOMAIN t # {}
  <2>1. t \in [DOMAIN t -> BlockRecord(Hashes)] /\ DOMAIN t \subseteq 0..MaxHeight
    BY DEF IsTable, Rows, Heights
  <2>2. PICK n \in DOMAIN t :
            /\ GetLatestBlock(t) = [number |-> n, hash |-> t[n].blockHash]
            /\ t[n].blockHash \in Hashes
    BY <1>2, <2>1, GetLatestBlockResult, NodeAssumption
  <2> QED BY <2>2 DEF IsTable, LastSeen
<1> QED BY <1>1, <1>2

LEMMA PendingTable ==
    ASSUME NEW t, IsTable(t)
    PROVE  /\ IsTable(FindUnfinalizedAndSafeBlocks(t))
           /\ DOMAIN FindUnfinalizedAndSafeBlocks(t) \subseteq DOMAIN t
<1>1. t \in [DOMAIN t -> BlockRecord(Hashes)]
  BY DEF IsTable, Rows
<1> QED BY <1>1, FindUnfinalizedAndSafeBlocksResult DEF IsTable, Rows

LEMMA GapsAreHeights ==
    ASSUME NEW t, IsTable(t)
    PROVE  FindMissingBlockGaps(t) \subseteq Heights \X Heights
<1>1. DOMAIN FindUnfinalizedAndSafeBlocks(t) \subseteq Heights
  BY PendingTable DEF IsTable
<1>2. ASSUME NEW p \in Heights, NEW q \in Heights, q - p > 1
      PROVE  p + 1 \in Heights /\ q - 1 \in Heights
  BY <1>2, NodeAssumption DEF Heights
<1>3. ASSUME NEW g \in FindMissingBlockGaps(t)
      PROVE  g \in Heights \X Heights
  BY <1>1, <1>2, FindMissingBlockGapsResult
<1> QED BY <1>3

LEMMA SelectedRow ==
    ASSUME NEW t, IsTable(t), NEW n
    PROVE  /\ SelectRow(t, n) \in Rows \cup {Null}
           /\ SelectRow(t, n) # Null => n \in DOMAIN t
  BY DEF SelectRow, IsTable

LEMMA NewRecordIsRow ==
    ASSUME NEW block, block \in Blocks
    PROVE  NewRecord(block) \in Rows
  BY DEF NewRecord, Rows, BlockRecord, BlockStatus, Blocks

LEMMA FetchedRanges ==
    ASSUME NEW from, from \in Nat, NEW to, to \in Int
    PROVE  RangesToFetch(from, to) \in Seq(FetchRanges)
<1>1. [from |-> from, to |-> to] \in FetchRanges
  BY DEF FetchRanges
<1> QED BY <1>1 DEF RangesToFetch

LEMMA HalvesAreRanges ==
    ASSUME NEW r, r \in FetchRanges
    PROVE  Halves(r) \in Seq(FetchRanges)
<1> DEFINE mid == (r.from + r.to) \div 2
<1>1. CASE r.from < r.to
  <2>1. mid \in Nat /\ mid + 1 \in Nat
    BY <1>1 DEF FetchRanges
  <2>2. [from |-> r.from, to |-> mid] \in FetchRanges
        /\ [from |-> mid + 1, to |-> r.to] \in FetchRanges
    BY <2>1 DEF FetchRanges
  <2> HIDE DEF mid, FetchRanges
  <2>3. <<[from |-> r.from, to |-> mid], [from |-> mid + 1, to |-> r.to]>> \in Seq(FetchRanges)
    BY <2>2
  <2> QED BY <1>1, <2>3 DEF Halves, mid
<1>2. CASE ~ (r.from < r.to)
  BY <1>2 DEF Halves
<1> QED BY <1>1, <1>2

LEMMA GotoLabel ==
    ASSUME pc \in [Tasks -> PcLabels], NEW task, task \in Tasks,
           NEW label, label \in PcLabels, Goto(task, label)
    PROVE  /\ pc' \in [Tasks -> PcLabels]
           /\ pc'[task] = label
           /\ \A t \in Tasks : t # task => pc'[t] = pc[t]
  BY DEF Goto

(***************************************************************************)
(*                       The inductive invariant                           *)
(***************************************************************************)

\* What the next step of an activity relies on beyond the types: a header or
\* a block is at hand where it is used, and a row that was selected, or is to
\* be verified, is still there.
Links ==
    /\ pc["worker"] \in {"reorgLogged", "rolledBack", "selected", "fetch", "logs"}
          => header \in Blocks
    /\ selected["worker"] # Null
          => pc["worker"] = "selected" /\ header.number \in DOMAIN blocks
    /\ pc["poll"] \in {"logged", "selected"} => poll.rpcBlock \in Blocks
    /\ DOMAIN poll.todo \subseteq DOMAIN blocks
    /\ \A j \in jobs : j.selected # Null => j.number \in DOMAIN blocks
    /\ \A j \in jobs : j.stage = "save" => j.block \in Blocks
    /\ \A t \in Tasks : pc[t] = "logs" => fetch[t] # <<>>

TypeInv == TypeOK /\ Links

LEMMA TheTasks ==
    "worker" \in Tasks /\ "poll" \in Tasks /\ "sync" \in Tasks
  BY DEF Tasks

LEMMA PollFields ==
    ASSUME NEW s, s \in Heights, NEW f, f \in Heights, NEW todo, IsTable(todo),
           NEW b, b \in Blocks \cup {Null}, NEW g, g \subseteq Heights \X Heights,
           NEW p, p = [safe |-> s, finalized |-> f, todo |-> todo, rpcBlock |-> b, gaps |-> g]
    PROVE  IsPoll(p) /\ p.todo = todo /\ p.rpcBlock = b
<1>1. p.safe = s /\ p.finalized = f /\ p.todo = todo /\ p.rpcBlock = b /\ p.gaps = g
  OBVIOUS
<1> QED BY <1>1 DEF IsPoll

LEMMA TodoAndBlockReplaced ==
    ASSUME IsPoll(poll), NEW todo, NEW b, NEW p,
           p = [poll EXCEPT !.todo = todo, !.rpcBlock = b]
    PROVE  p = [safe |-> poll.safe, finalized |-> poll.finalized, todo |-> todo,
                rpcBlock |-> b, gaps |-> poll.gaps]
  BY DEF IsPoll

LEMMA RecordRemoved ==
    ASSUME IsPoll(poll), NEW n, NEW p
    PROVE  p = [poll EXCEPT !.todo = Without(@, n), !.rpcBlock = Null]
           => IsPoll(p) /\ DOMAIN p.todo \subseteq DOMAIN poll.todo
<1> DEFINE todo == Without(poll.todo, n)
           fields == [safe |-> poll.safe, finalized |-> poll.finalized, todo |-> todo,
                      rpcBlock |-> Null, gaps |-> poll.gaps]
<1>1. IsTable(todo) /\ DOMAIN todo \subseteq DOMAIN poll.todo
  BY DEF IsPoll, IsTable, Without
<1>2. poll.safe \in Heights /\ poll.finalized \in Heights
      /\ poll.gaps \subseteq Heights \X Heights
  BY DEF IsPoll
<1>3. p = [poll EXCEPT !.todo = todo, !.rpcBlock = Null] => p = fields
  BY TodoAndBlockReplaced
<1> HIDE DEF todo
<1>4. p = fields => IsPoll(p) /\ p.todo = todo
  BY <1>1, <1>2, PollFields
<1> QED BY <1>1, <1>3, <1>4 DEF todo

LEMMA InitTypes == Init => TypeInv
<1> SUFFICES ASSUME Init PROVE TypeInv
  OBVIOUS
<1> USE NodeAssumption, IndexerAssumption, TheTasks DEF Init
<1>1. NodeTypeOK
  <2>1. chain \in [Heights -> Forks] /\ head \in Heights /\ safe \in Heights /\ finalized \in Heights
    BY DEF NodeInit, Heights, Forks
  <2>2. ASSUME NEW n \in 0..InitHead PROVE Block(n) \in Blocks
    <3>1. chain[n] = 0 /\ n \in Heights /\ n \in -1..MaxHeight /\ n - 1 \in -1..MaxHeight
      BY DEF NodeInit, Heights
    <3>2. 0 \in Forks /\ -1 \in -1..MaxHeight
      BY DEF Forks
    <3>3. HashAt(n) \in Hashes
      BY <3>1, <3>2 DEF HashAt, Hashes
    <3>4. HashAt(n - 1) \in Hashes
      <4>1. CASE n = 0
        BY <4>1, <3>2 DEF HashAt, Hashes
      <4>2. CASE n # 0
        <5>1. n - 1 \in Heights /\ ~ (n - 1 < 0)
          BY <4>2, <3>1 DEF Heights
        <5>2. chain[n - 1] = 0
          BY <5>1 DEF NodeInit
        <5> QED BY <3>1, <3>2, <5>1, <5>2 DEF HashAt, Hashes
      <4> QED BY <4>1, <4>2
    <3> QED BY <3>1, <3>3, <3>4 DEF Block, Blocks
  <2> QED BY <2>1, <2>2 DEF NodeTypeOK, NodeInit
<1>2. PICK stored \in StoredHeads :
          /\ blocks = [n \in 0..stored |-> NewRecord(Block(n))]
          /\ events = [l \in IF Listening THEN Logs(0, stored) ELSE {} |-> "N"]
  OBVIOUS
<1>3. IsTable(blocks)
  <2>1. 0..stored \subseteq Heights
    BY DEF Heights
  <2>2. ASSUME NEW n \in 0..stored PROVE NewRecord(Block(n)) \in Rows
    BY <1>1, <2>1, BlockOfChain, NewRecordIsRow
  <2> QED BY <1>2, <2>1, <2>2 DEF IsTable
<1>4. DatabaseTypeOK
  <2>1. DOMAIN events \subseteq Heights \X Forks
    BY <1>1, <1>2, LogsOfChain
  <2> QED BY <1>2, <1>3, <2>1 DEF DatabaseTypeOK, DelYn
<1>5. ServiceTypeOK
  <2>1. last \in LastSeen \cup {Null}
    BY <1>3, LatestIsSeen
  <2> QED BY <2>1, HeightsAreNumbers DEF ServiceTypeOK
<1>6. /\ pc \in [Tasks -> PcLabels] /\ pc["worker"] = "idle" /\ pc["poll"] = "idle"
      /\ \A t \in Tasks : pc[t] # "logs"
  BY DEF Started, Tasks, PcLabels
<1>7. IsPoll(poll) /\ poll.todo = EmptyTable
  BY HeightsAreNumbers DEF NoPoll, IsPoll, IsTable, EmptyTable
<1>8. sync \in Syncs
  BY HeightsAreNumbers DEF NoSync, Syncs
<1>9. range \in [Tasks -> Ranges]
  BY HeightsAreNumbers DEF NoRange, Ranges
<1>10. ActivityTypeOK
  BY <1>6, <1>7, <1>8, <1>9 DEF ActivityTypeOK
<1>11. Links
  BY <1>6, <1>7 DEF Links, EmptyTable
<1> QED BY <1>1, <1>4, <1>5, <1>10, <1>11 DEF TypeInv, TypeOK

(***************************************************************************)
(*             Steps of the event collection and of the range loop         *)
(***************************************************************************)

LEMMA ChunkEndBound ==
    ASSUME NEW r, r \in Ranges
    PROVE  ChunkEnd(r) \in Int /\ ChunkEnd(r) <= MaxHeight
<1>1. r.from \in Nat /\ r.to \in Int /\ r.to <= MaxHeight
  BY NodeAssumption DEF Ranges
<1> QED BY <1>1, NodeAssumption, IndexerAssumption DEF ChunkEnd

LEMMA FetchTypes ==
    ASSUME TypeInv, NEW task, task \in Tasks, FetchStep(task) \/ FetchFault(task)
    PROVE  TypeInv'
<1> USE TheTasks DEF TypeInv, TypeOK, NodeTypeOK, DatabaseTypeOK, ServiceTypeOK,
            ActivityTypeOK, Links, nodeVars, wsVars, finalityVars, rangeVars, budgetVars
<1> DEFINE Frame == /\ UNCHANGED <<nodeVars, blocks, reorgLogs, wsVars, last, finalityVars,
                                   cache, header, selected, poll, sync, rangeVars>>
                    /\ faults' \in Nat /\ crashes' \in Nat
<1>1. Frame
  <2>1. CASE FetchStep(task)
    BY <2>1 DEF FetchStep
  <2>2. CASE FetchFault(task)
    <3>1. faults' = faults + 1
      BY <2>2 DEF FetchFault, SaveEventsFails, GetLogsFails, Fault
    <3> QED BY <2>2, <3>1 DEF FetchFault
  <2> QED BY <2>1, <2>2
<1>2. CASE GetLogs(task) /\ UNCHANGED events
  <2>1. pc' \in [Tasks -> PcLabels] /\ pc'[task] = "logs"
        /\ \A t \in Tasks : t # task => pc'[t] = pc[t]
    BY <1>2, GotoLabel DEF GetLogs, PcLabels
  <2>2. logs' \in [Tasks -> SUBSET (Heights \X Forks)]
    BY <1>2, LogsOfChain, AnsweredLogs DEF GetLogs
  <2> QED BY <1>1, <1>2, <2>1, <2>2 DEF GetLogs
<1>3. CASE EndOfRange(task) /\ (events' = SaveEventsBulk(events, logs[task]) \/ UNCHANGED events)
  <2>1. pc' \in [Tasks -> PcLabels] /\ pc'[task] = "fetch"
        /\ \A t \in Tasks : t # task => pc'[t] = pc[t]
    BY <1>3, GotoLabel DEF EndOfRange, PcLabels
  <2>2. fetch' \in [Tasks -> Seq(FetchRanges)]
    <3>1. Tail(fetch[task]) \in Seq(FetchRanges)
      BY <1>3, HeadTailProperties DEF EndOfRange
    <3> QED BY <1>3, <3>1 DEF EndOfRange
  <2>3. logs' \in [Tasks -> SUBSET (Heights \X Forks)]
    BY <1>3 DEF EndOfRange
  <2>4. DOMAIN events' \subseteq Heights \X Forks /\ events' \in [DOMAIN events' -> DelYn]
    BY <1>3 DEF SaveEventsBulk, DelYn
  <2> QED BY <1>1, <1>3, <2>1, <2>2, <2>3, <2>4 DEF EndOfRange
<1>4. CASE SplitRange(task) /\ UNCHANGED events
  <2>1. fetch[task] \in Seq(FetchRanges) /\ fetch[task] # <<>>
    BY <1>4 DEF SplitRange
  <2>2. Halves(Head(fetch[task])) \o Tail(fetch[task]) \in Seq(FetchRanges)
    BY <2>1, HalvesAreRanges, HeadTailProperties, ConcatProperties
  <2>3. fetch' \in [Tasks -> Seq(FetchRanges)]
    BY <1>4, <2>2 DEF SplitRange
  <2> QED BY <1>1, <1>4, <2>3 DEF SplitRange
<1> QED BY <1>2, <1>3, <1>4
        DEF FetchStep, FetchFault, SaveEvents, SaveEventsFails, TooManyLogs, GetLogsFails

LEMMA AnsweredBlock ==
    ASSUME NodeTypeOK, NEW n, n \in Heights, NEW lagging
    PROVE  /\ Answer(n, lagging) \in Blocks \cup {Null}
           /\ Answer(n, lagging) # Null =>
                  Answer(n, lagging) = Block(n) /\ n <= head /\ Answer(n, lagging).number = n
  BY BlockOfChain DEF Answer, Known

LEMMA ChunkTypes ==
    ASSUME TypeInv, NEW task, task \in {"poll", "sync"},
           StartChunk(task) \/ ChunkSaved(task) \/ NextChunk(task), ChunkFrame
    PROVE  TypeInv'
<1> task \in Tasks /\ task # "worker"
  BY TheTasks
<1> USE TheTasks DEF TypeInv, TypeOK, NodeTypeOK, DatabaseTypeOK, ServiceTypeOK,
            ActivityTypeOK, Links, ChunkFrame, nodeVars, dbVars, wsVars, finalityVars, budgetVars
<1>0. /\ range[task] \in Ranges
      /\ range[task].from \in Nat /\ range[task].to \in -1..MaxHeight
  BY DEF Ranges
<1>1. CASE StartChunk(task)
  <2>1. pc' \in [Tasks -> PcLabels] /\ pc'[task] = "chunk"
        /\ \A t \in Tasks : t # task => pc'[t] = pc[t]
    BY <1>1, GotoLabel DEF StartChunk, PcLabels
  <2>2. range[task].from .. ChunkEnd(range[task]) \subseteq Heights
    <3>1. ChunkEnd(range[task]) \in Int /\ ChunkEnd(range[task]) <= MaxHeight
      BY <1>0, ChunkEndBound
    <3> HIDE DEF TypeInv
    <3> QED BY <1>0, <3>1, NodeAssumption DEF Heights
  <2>3. ASSUME NEW n, n \in Heights, NEW lagging
        PROVE  /\ NewJob(task, n, lagging) \in Jobs
               /\ NewJob(task, n, lagging).selected # Null
                     => NewJob(task, n, lagging).number \in DOMAIN blocks
               /\ NewJob(task, n, lagging).stage = "save"
                     => NewJob(task, n, lagging).block \in Blocks
    <3>1. CASE cache[n] # Null
      <4>1. cache[n] \in Blocks
        BY <2>3, <3>1
      <4>2. /\ SelectRow(blocks, n) \in Rows \cup {Null}
            /\ SelectRow(blocks, n) # Null => n \in DOMAIN blocks
        BY SelectedRow
      <4> QED BY <2>3, <3>1, <4>1, <4>2 DEF NewJob, Jobs
    <3>2. CASE cache[n] = Null
      BY <2>3, <3>2, AnsweredBlock DEF NewJob, Jobs
    <3> QED BY <3>1, <3>2
  <2>4. \A j \in jobs' : j \in jobs \/ \E n \in Heights : \E lagging : j = NewJob(task, n, lagging)
    BY <1>1, <2>2 DEF StartChunk
  <2>5. /\ jobs' \subseteq Jobs
        /\ \A j \in jobs' : j.selected # Null => j.number \in DOMAIN blocks
        /\ \A j \in jobs' : j.stage = "save" => j.block \in Blocks
    BY <2>3, <2>4
  <2> QED BY <1>1, <2>1, <2>5 DEF StartChunk
<1>2. CASE ChunkSaved(task)
  <2>1. pc' \in [Tasks -> PcLabels] /\ pc'[task] = "fetch"
        /\ \A t \in Tasks : t # task => pc'[t] = pc[t]
    BY <1>2, GotoLabel DEF ChunkSaved, BeginFetch, PcLabels
  <2>2. ChunkEnd(range[task]) \in Int
    BY <1>0, ChunkEndBound
  <2>3. RangesToFetch(range[task].from, ChunkEnd(range[task])) \in Seq(FetchRanges)
    BY <1>0, <2>2, FetchedRanges
  <2>4. fetch' \in [Tasks -> Seq(FetchRanges)]
    BY <1>2, <2>3 DEF ChunkSaved, BeginFetch
  <2>5. \A t \in Tasks : t # task => fetch'[t] = fetch[t]
    BY <1>2 DEF ChunkSaved, BeginFetch
  <2> QED BY <1>2, <2>1, <2>4, <2>5 DEF ChunkSaved, rangeVars
<1>3. CASE NextChunk(task)
  <2>1. pc' \in [Tasks -> PcLabels] /\ pc'[task] = "range"
        /\ \A t \in Tasks : t # task => pc'[t] = pc[t]
    BY <1>3, GotoLabel DEF NextChunk, PcLabels
  <2>2. [range[task] EXCEPT !.from = @ + ChunkSize] \in Ranges
    <3>1. range[task] \in Ranges /\ range[task].from + ChunkSize \in Nat
      BY <1>0, IndexerAssumption
    <3> QED BY <3>1 DEF Ranges
  <2>3. range' = [range EXCEPT ![task] = [range[task] EXCEPT !.from = @ + ChunkSize]]
    BY <1>3 DEF NextChunk
  <2>4. range' \in [Tasks -> Ranges]
    BY <2>2, <2>3
  <2> QED BY <1>3, <2>1, <2>4 DEF NextChunk
<1> QED BY <1>1, <1>2, <1>3

(***************************************************************************)
(*                     Steps of the polling validation                     *)
(***************************************************************************)

LEMMA CompareTypes ==
    ASSUME TypeInv, NEW n, n \in Heights, NEW b, b \in Blocks \cup {Null},
           n \in DOMAIN poll.todo, Compare(n, b)
    PROVE  /\ IsPoll(poll') /\ DOMAIN poll'.todo \subseteq DOMAIN poll.todo
           /\ pc' \in [Tasks -> PcLabels]
           /\ pc'["poll"] \in {"verify", "logged"}
           /\ pc'["poll"] = "logged" => poll'.rpcBlock \in Blocks
           /\ \A t \in Tasks : t # "poll" => pc'[t] = pc[t]
           /\ reorgLogs' \subseteq ReorgLog
<1>1. IsPoll(poll) /\ pc \in [Tasks -> PcLabels] /\ reorgLogs \subseteq ReorgLog
  BY DEF TypeInv, TypeOK, DatabaseTypeOK, ActivityTypeOK
<1>2. CASE Differs(n, b)
  <2>1. b \in Blocks
    BY <1>2 DEF Differs
  <2>2. poll.todo[n].blockHash \in Hashes
    BY <1>1 DEF IsPoll, IsTable, Rows, BlockRecord
  <2>3. [blockNumber |-> n, oldHash |-> poll.todo[n].blockHash, newHash |-> b.hash] \in ReorgLog
    BY <2>1, <2>2 DEF ReorgLog, Blocks
  <2>4. reorgLogs' \subseteq ReorgLog
    BY <1>1, <1>2, <2>3 DEF Compare
  <2>5. poll' = [poll EXCEPT !.rpcBlock = b]
    BY <1>2 DEF Compare
  <2>6. IsPoll(poll') /\ poll'.todo = poll.todo /\ poll'.rpcBlock = b
    BY <1>1, <2>1, <2>5 DEF IsPoll
  <2>7. /\ pc' \in [Tasks -> PcLabels] /\ pc'["poll"] = "logged"
        /\ \A t \in Tasks : t # "poll" => pc'[t] = pc[t]
    BY <1>1, <1>2, TheTasks, GotoLabel DEF Compare, PcLabels
  <2> QED BY <2>1, <2>4, <2>6, <2>7
<1>3. CASE ~ Differs(n, b)
  <2>1. NextRecord(n) /\ UNCHANGED reorgLogs
    BY <1>3 DEF Compare
  <2>2. IsPoll(poll') /\ DOMAIN poll'.todo \subseteq DOMAIN poll.todo
    BY <1>1, <2>1, RecordRemoved DEF NextRecord
  <2>3. /\ pc' \in [Tasks -> PcLabels] /\ pc'["poll"] = "verify"
        /\ \A t \in Tasks : t # "poll" => pc'[t] = pc[t]
    BY <1>1, <2>1, TheTasks, GotoLabel DEF NextRecord, PcLabels
  <2> QED BY <1>1, <2>1, <2>2, <2>3
<1> QED BY <1>2, <1>3

LEMMA VerifyTypes ==
    ASSUME TypeInv, VerifyStep, PollFrame
    PROVE  TypeInv'
<1> USE TheTasks DEF TypeInv, TypeOK, NodeTypeOK, DatabaseTypeOK, ServiceTypeOK,
            ActivityTypeOK, Links, PollFrame, nodeVars, dbVars, wsVars, finalityVars
<1>0. PICK n \in Heights :
        /\ IsCurrent(n)
        /\ \/ VerifyCached(n) \/ RequestBlock(n) \/ VerifyReceived(n) \/ SelectRecord(n)
           \/ SaveRecord(n) \/ RollBackRecord(n) \/ CollectRecord(n) \/ RecordDone(n)
  BY DEF VerifyStep
<1> n \in DOMAIN poll.todo
  BY <1>0 DEF IsCurrent
<1>1. CASE VerifyCached(n)
  <2>1. Compare(n, cache[n]) /\ cache[n] \in Blocks \cup {Null}
    BY <1>1 DEF VerifyCached
  <2> QED BY <1>1, <2>1, CompareTypes DEF VerifyCached
<1>2. CASE RequestBlock(n)
  <2>1. PICK b \in Blocks \cup {Null} : poll' = [poll EXCEPT !.rpcBlock = b]
    BY <1>2, AnsweredBlock DEF RequestBlock
  <2>2. IsPoll(poll') /\ poll'.todo = poll.todo
    BY <2>1 DEF IsPoll
  <2>3. /\ pc' \in [Tasks -> PcLabels] /\ pc'["poll"] = "block"
        /\ \A t \in Tasks : t # "poll" => pc'[t] = pc[t]
    BY <1>2, GotoLabel DEF RequestBlock, PcLabels
  <2> QED BY <1>2, <2>2, <2>3 DEF RequestBlock
<1>3. CASE VerifyReceived(n)
  <2>1. Compare(n, poll.rpcBlock) /\ poll.rpcBlock \in Blocks \cup {Null}
    BY <1>3 DEF VerifyReceived, IsPoll
  <2>2. cache' \in [Heights -> Blocks \cup {Null}]
    BY <1>3, <2>1 DEF VerifyReceived
  <2> QED BY <1>3, <2>1, <2>2, CompareTypes DEF VerifyReceived
<1>4. CASE SelectRecord(n)
  <2>1. /\ pc' \in [Tasks -> PcLabels] /\ pc'["poll"] = "selected" /\ pc["poll"] = "logged"
        /\ \A t \in Tasks : t # "poll" => pc'[t] = pc[t]
    BY <1>4, GotoLabel DEF SelectRecord, PcLabels
  <2>2. selected' \in [Tasks -> Rows \cup {Null}] /\ selected'["worker"] = selected["worker"]
    BY <1>4, SelectedRow DEF SelectRecord
  <2> QED BY <1>4, <2>1, <2>2 DEF SelectRecord
<1>5. CASE SaveRecord(n)
  <2>1. /\ pc' \in [Tasks -> PcLabels] /\ pc'["poll"] = "saved" /\ pc["poll"] = "selected"
        /\ \A t \in Tasks : t # "poll" => pc'[t] = pc[t]
    BY <1>5, GotoLabel DEF SaveRecord, PcLabels
  <2>2. selected' \in [Tasks -> Rows \cup {Null}] /\ selected'["worker"] = selected["worker"]
    BY <1>5 DEF SaveRecord
  <2>3. poll.todo[n] \in Rows /\ poll.rpcBlock \in Blocks
    BY <2>1 DEF IsPoll, IsTable
  <2>4. Corrected(poll.todo[n], poll.rpcBlock) \in Rows
    BY <2>3 DEF Corrected, Rows, BlockRecord, Blocks, BlockStatus
  <2>5. selected["poll"] \in Rows \cup {Null} /\ n \in DOMAIN blocks
    OBVIOUS
  <2>6. IsTable(blocks') /\ DOMAIN blocks' = DOMAIN blocks \cup {n}
    <3> DEFINE record == Corrected(poll.todo[n], poll.rpcBlock)
               found  == selected["poll"]
    <3>1. IsTable(blocks) /\ n \in Heights /\ record \in Rows
      BY <2>4
    <3>2. found \in Rows \cup {Null} /\ (found # Null => n \in DOMAIN blocks)
      BY <2>5
    <3>3. blocks' = SaveRow(blocks, n, record, found)
      BY <1>5 DEF SaveRecord
    <3> HIDE DEF record, found, TypeInv
    <3>4. IsTable(SaveRow(blocks, n, record, found))
      BY <3>1, <3>2, SavedTable
    <3>5. DOMAIN SaveRow(blocks, n, record, found) = DOMAIN blocks \cup {n}
      BY DEF SaveRow, PutRow
    <3> QED BY <3>3, <3>4, <3>5
  <2> QED BY <1>5, <2>1, <2>2, <2>6 DEF SaveRecord
<1>6. CASE RollBackRecord(n)
  <2>1. /\ pc' \in [Tasks -> PcLabels] /\ pc'["poll"] = "rolledBack"
        /\ \A t \in Tasks : t # "poll" => pc'[t] = pc[t]
    BY <1>6, GotoLabel DEF RollBackRecord, PcLabels
  <2>2. /\ DOMAIN events' \subseteq Heights \X Forks /\ events' \in [DOMAIN events' -> DelYn]
        /\ faults' \in Nat
    BY <1>6 DEF RollBackRecord, RollbackEvents, InvalidateEventsFromBlock, Fault, DelYn
  <2> QED BY <1>6, <2>1, <2>2 DEF RollBackRecord
<1>7. CASE CollectRecord(n)
  <2>1. /\ pc' \in [Tasks -> PcLabels] /\ pc'["poll"] = "fetch"
        /\ \A t \in Tasks : t # "poll" => pc'[t] = pc[t]
    BY <1>7, GotoLabel DEF CollectRecord, BeginFetch, PcLabels
  <2>2. RangesToFetch(n, n) \in Seq(FetchRanges)
    BY FetchedRanges, HeightsAreNumbers
  <2>3. /\ fetch' \in [Tasks -> Seq(FetchRanges)]
        /\ \A t \in Tasks : t # "poll" => fetch'[t] = fetch[t]
    BY <1>7, <2>2 DEF CollectRecord, BeginFetch
  <2> QED BY <1>7, <2>1, <2>3 DEF CollectRecord
<1>8. CASE RecordDone(n)
  <2>1. /\ pc' \in [Tasks -> PcLabels] /\ pc'["poll"] = "verify"
        /\ \A t \in Tasks : t # "poll" => pc'[t] = pc[t]
    BY <1>8, GotoLabel DEF RecordDone, NextRecord, PcLabels
  <2>2. IsPoll(poll') /\ DOMAIN poll'.todo \subseteq DOMAIN poll.todo
    BY <1>8, RecordRemoved DEF RecordDone, NextRecord
  <2> QED BY <1>8, <2>1, <2>2 DEF RecordDone
<1> QED BY <1>0, <1>1, <1>2, <1>3, <1>4, <1>5, <1>6, <1>7, <1>8

LEMMA NoPollTyped ==
    IsPoll(NoPoll) /\ NoPoll.todo = EmptyTable
  BY HeightsAreNumbers DEF NoPoll, IsPoll, IsTable, EmptyTable

LEMMA AbortTypes ==
    ASSUME TypeInv, NEW task, task \in {"poll", "sync"}, Abort(task)
    PROVE  /\ pc' \in [Tasks -> PcLabels]
           /\ pc'["poll"] \in {pc["poll"], "idle"}
           /\ pc'["worker"] = pc["worker"]
           /\ \A t \in Tasks : pc'[t] \in {pc[t], "idle", "done"}
           /\ IsPoll(poll') /\ (poll' = poll \/ (DOMAIN poll'.todo = {} /\ pc'["poll"] = "idle"))
           /\ sync' \in Syncs
           /\ selected' \in [Tasks -> Rows \cup {Null}]
           /\ selected'["worker"] = selected["worker"]
           /\ range' \in [Tasks -> Ranges]
<1> USE TheTasks DEF TypeInv, TypeOK, ActivityTypeOK
<1>1. task \in Tasks /\ task # "worker"
  OBVIOUS
<1> DEFINE label == IF task = "poll" THEN "idle" ELSE "done"
<1>2. /\ pc' \in [Tasks -> PcLabels]
      /\ pc'[task] = label
      /\ \A t \in Tasks : t # task => pc'[t] = pc[t]
  <2>1. label \in PcLabels /\ Goto(task, label) /\ pc \in [Tasks -> PcLabels]
    BY DEF Abort, PcLabels
  <2> HIDE DEF label, TypeInv
  <2> QED BY <1>1, <2>1, GotoLabel
<1>3. IsPoll(poll') /\ (poll' = poll \/ (DOMAIN poll'.todo = {} /\ task = "poll"))
  BY NoPollTyped DEF Abort, EmptyTable
<1>4. sync' \in Syncs
  BY HeightsAreNumbers DEF Abort, NoSync, Syncs
<1>5. selected' \in [Tasks -> Rows \cup {Null}] /\ selected'["worker"] = selected["worker"]
  BY <1>1 DEF Abort
<1>6. NoRange \in Ranges
  BY HeightsAreNumbers DEF NoRange, Ranges
<1>7. range' \in [Tasks -> Ranges]
  BY <1>6 DEF Abort
<1>8. /\ pc'["poll"] \in {pc["poll"], "idle"}
      /\ pc'["worker"] = pc["worker"]
      /\ \A t \in Tasks : pc'[t] \in {pc[t], "idle", "done"}
      /\ task = "poll" => pc'["poll"] = "idle"
  <2>1. CASE task = "poll"
    BY <1>1, <1>2, <2>1
  <2>2. CASE task = "sync"
    BY <1>1, <1>2, <2>2
  <2> QED BY <2>1, <2>2
<1> HIDE DEF TypeInv, label
<1> QED BY <1>2, <1>3, <1>4, <1>5, <1>7, <1>8

LEMMA PollTypes ==
    ASSUME TypeInv, PollStep
    PROVE  TypeInv'
<1> USE TheTasks DEF TypeInv, TypeOK, NodeTypeOK, DatabaseTypeOK, ServiceTypeOK,
            ActivityTypeOK, Links, PollFrame, nodeVars, dbVars, wsVars, finalityVars
<1> DEFINE Moves(label) == /\ pc' \in [Tasks -> PcLabels] /\ pc'["poll"] = label
                           /\ \A t \in Tasks : t # "poll" => pc'[t] = pc[t]
<1>1. CASE StartPolling /\ PollFrame
  <2>1. IsPoll(poll') /\ poll'.todo = poll.todo
    BY <1>1 DEF StartPolling, IsPoll
  <2>2. Moves("safeTag")
    BY <1>1, GotoLabel DEF StartPolling, PcLabels
  <2> QED BY <1>1, <2>1, <2>2 DEF StartPolling
<1>2. CASE GetFinalizedTag /\ PollFrame
  <2>1. IsPoll(poll') /\ poll'.todo = poll.todo
    BY <1>2 DEF GetFinalizedTag, IsPoll
  <2>2. Moves("finalizedTag")
    BY <1>2, GotoLabel DEF GetFinalizedTag, PcLabels
  <2> QED BY <1>2, <2>1, <2>2 DEF GetFinalizedTag
<1>3. CASE UpdateSafe /\ PollFrame
  <2>1. IsTable(blocks') /\ DOMAIN blocks' = DOMAIN blocks
    BY <1>3, UpdatedTable DEF UpdateSafe, IsPoll, BlockStatus
  <2>2. Moves("safeUpdated")
    BY <1>3, GotoLabel DEF UpdateSafe, PcLabels
  <2> QED BY <1>3, <2>1, <2>2 DEF UpdateSafe
<1>4. CASE UpdateFinalized /\ PollFrame
  <2>1. IsTable(blocks') /\ DOMAIN blocks' = DOMAIN blocks
    BY <1>4, UpdatedTable DEF UpdateFinalized, IsPoll, BlockStatus
  <2>2. Moves("finalizedUpdated")
    BY <1>4, GotoLabel DEF UpdateFinalized, PcLabels
  <2>3. lastSafe' \in Heights
    BY <1>4 DEF UpdateFinalized, NextLastSafe, IsPoll
  <2> QED BY <1>4, <2>1, <2>2, <2>3 DEF UpdateFinalized
<1>5. CASE FindBlocksToVerify /\ PollFrame
  <2>1. IsTable(FindUnfinalizedAndSafeBlocks(blocks))
        /\ DOMAIN FindUnfinalizedAndSafeBlocks(blocks) \subseteq DOMAIN blocks
    BY PendingTable
  <2>2. IsPoll(poll') /\ poll'.todo = FindUnfinalizedAndSafeBlocks(blocks)
    BY <1>5, <2>1 DEF FindBlocksToVerify, IsPoll
  <2>3. Moves("verify")
    BY <1>5, GotoLabel DEF FindBlocksToVerify, PcLabels
  <2>4. lastSafe' \in Heights /\ lastFinalized' \in Heights
    BY <1>5 DEF FindBlocksToVerify, NextLastSafe, IsPoll
  <2> QED BY <1>5, <2>1, <2>2, <2>3, <2>4 DEF FindBlocksToVerify
<1>6. CASE VerifyStep /\ PollFrame
  BY <1>6, VerifyTypes
<1>7. CASE FindGaps /\ PollFrame
  <2>1. IsPoll(poll') /\ poll'.todo = poll.todo
    BY <1>7, GapsAreHeights DEF FindGaps, IsPoll
  <2>2. Moves("gaps")
    BY <1>7, GotoLabel DEF FindGaps, PcLabels
  <2> QED BY <1>7, <2>1, <2>2 DEF FindGaps
<1>8. CASE TakeGap /\ PollFrame
  <2>1. PICK gap \in poll.gaps : /\ poll' = [poll EXCEPT !.gaps = @ \ {gap}]
                                 /\ SaveBlocksInRange("poll", gap[1], gap[2])
    BY <1>8 DEF TakeGap
  <2>2. IsPoll(poll') /\ poll'.todo = poll.todo
    BY <2>1 DEF IsPoll
  <2>3. gap[1] \in Heights /\ gap[2] \in Heights
    BY DEF IsPoll
  <2>4. [from |-> gap[1], to |-> gap[2]] \in Ranges
    BY <2>3, HeightsAreNumbers DEF Ranges
  <2>5. range' \in [Tasks -> Ranges]
    BY <2>1, <2>4 DEF SaveBlocksInRange
  <2>6. Moves("range")
    BY <2>1, GotoLabel DEF SaveBlocksInRange, PcLabels
  <2> QED BY <1>8, <2>2, <2>5, <2>6 DEF TakeGap
<1>9. CASE GapDone /\ PollFrame
  <2>1. NoRange \in Ranges
    BY HeightsAreNumbers DEF NoRange, Ranges
  <2>2. range' \in [Tasks -> Ranges]
    BY <1>9, <2>1 DEF GapDone
  <2>3. Moves("gaps")
    BY <1>9, GotoLabel DEF GapDone, PcLabels
  <2> QED BY <1>9, <2>2, <2>3 DEF GapDone
<1>10. CASE PollDone /\ PollFrame
  <2>1. Moves("idle")
    BY <1>10, GotoLabel DEF PollDone, PcLabels
  <2>2. IsPoll(poll') /\ DOMAIN poll'.todo = {}
    BY <1>10, NoPollTyped DEF PollDone, EmptyTable
  <2> QED BY <1>10, <2>1, <2>2 DEF PollDone
<1>11. CASE FetchStep("poll")
  BY <1>11, FetchTypes
<1>12. CASE (StartChunk("poll") \/ ChunkSaved("poll") \/ NextChunk("poll")) /\ ChunkFrame
  BY <1>12, ChunkTypes
<1>13. CASE TagMissing /\ PollFrame
  <2>1. Abort("poll")
    BY <1>13 DEF TagMissing
  <2> QED BY <1>13, <2>1, AbortTypes DEF TagMissing
<1> QED BY <1>1, <1>2, <1>3, <1>4, <1>5, <1>6, <1>7, <1>8, <1>9, <1>10, <1>11, <1>12,
          <1>13 DEF PollStep

(***************************************************************************)
(*                 Steps of pending saves, and failures                    *)
(***************************************************************************)

\* What a step of a pending save is.
LEMMA JobCases ==
    ASSUME JobStep \/ JobFault
    PROVE  /\ JobFrame /\ faults' \in {faults, faults + 1}
           /\ \E j \in jobs :
                 \/ AnsweredLater(j) \/ NothingReceived(j)
                 \/ BlockReceived(j) \/ BlockSaved(j) \/ Rejected(j)
  BY DEF JobStep, JobFault, Fault, BlockConflicts

LEMMA JobTypes ==
    ASSUME TypeInv, JobStep \/ JobFault
    PROVE  TypeInv'
<1> USE TheTasks DEF TypeInv, TypeOK, NodeTypeOK, DatabaseTypeOK, ServiceTypeOK,
            ActivityTypeOK, Links, JobFrame, nodeVars, wsVars, finalityVars, fetchVars
<1>1. PICK j \in jobs : /\ \/ AnsweredLater(j) \/ NothingReceived(j)
                           \/ BlockReceived(j) \/ BlockSaved(j) \/ Rejected(j)
                        /\ JobFrame /\ faults' \in Nat
  <2>1. JobFrame /\ faults' \in {faults, faults + 1}
    BY JobCases
  <2> QED BY <2>1, JobCases
<1>2. j \in Jobs
  OBVIOUS
<1>3. CASE BlockReceived(j)
  <2>1. cache' \in [Heights -> Blocks \cup {Null}]
    BY <1>2, <1>3 DEF BlockReceived, Jobs
  <2>6. j.block \in Blocks
    BY <1>2, <1>3 DEF BlockReceived, Jobs
  <2>2. /\ SelectRow(blocks, j.number) \in Rows \cup {Null}
        /\ SelectRow(blocks, j.number) # Null => j.number \in DOMAIN blocks
    BY SelectedRow
  <2> DEFINE k == [j EXCEPT !.stage = "save", !.selected = SelectRow(blocks, j.number)]
  <2>3. /\ k \in Jobs /\ k.number = j.number /\ k.selected = SelectRow(blocks, j.number)
        /\ k.block = j.block
    BY <1>2, <2>2 DEF Jobs
  <2>4. jobs' = (jobs \ {j}) \cup {k}
    BY <1>3 DEF BlockReceived
  <2> HIDE DEF k
  <2>5. /\ jobs' \subseteq Jobs
        /\ \A i \in jobs' : i.selected # Null => i.number \in DOMAIN blocks
        /\ \A i \in jobs' : i.stage = "save" => i.block \in Blocks
    BY <2>2, <2>3, <2>4, <2>6
  <2> QED BY <1>1, <1>3, <2>1, <2>5 DEF BlockReceived
<1>4. CASE BlockSaved(j)
  <2>1. NewRecord(j.block) \in Rows
    BY <1>2, <1>4, NewRecordIsRow DEF BlockSaved
  <2>2. j.number \in Heights /\ j.selected \in Rows \cup {Null}
    BY <1>2 DEF Jobs
  <2>3. j.selected # Null => j.number \in DOMAIN blocks
    OBVIOUS
  <2>4. IsTable(SaveRow(blocks, j.number, NewRecord(j.block), j.selected))
    BY <2>1, <2>2, <2>3, SavedTable
  <2>5. DOMAIN SaveRow(blocks, j.number, NewRecord(j.block), j.selected)
            = DOMAIN blocks \cup {j.number}
    BY DEF SaveRow, PutRow
  <2>6. IsTable(blocks') /\ DOMAIN blocks \subseteq DOMAIN blocks'
    BY <1>4, <2>4, <2>5 DEF BlockSaved
  <2> QED BY <1>1, <1>4, <2>6 DEF BlockSaved
<1>5. CASE Rejected(j) /\ j.awaited
  <2>1. Abort(j.owner) /\ j.owner \in {"poll", "sync"}
    BY <1>2, <1>5 DEF Rejected, Jobs
  <2>2. ASSUME NEW i, i \in Jobs
        PROVE  /\ [i EXCEPT !.awaited = FALSE] \in Jobs
               /\ [i EXCEPT !.awaited = FALSE].number = i.number
               /\ [i EXCEPT !.awaited = FALSE].selected = i.selected
               /\ [i EXCEPT !.awaited = FALSE].stage = i.stage
               /\ [i EXCEPT !.awaited = FALSE].block = i.block
    BY <2>2 DEF Jobs
  <2>3. \A k \in jobs' : \E i \in jobs : k = i \/ k = [i EXCEPT !.awaited = FALSE]
    BY <1>5 DEF Rejected
  <2>4. ASSUME NEW k, k \in jobs'
        PROVE  /\ k \in Jobs /\ (k.selected # Null => k.number \in DOMAIN blocks)
               /\ k.stage = "save" => k.block \in Blocks
    <3>1. PICK i \in jobs : k = i \/ k = [i EXCEPT !.awaited = FALSE]
      BY <2>3, <2>4
    <3>2. /\ i \in Jobs /\ (i.selected # Null => i.number \in DOMAIN blocks)
          /\ i.stage = "save" => i.block \in Blocks
      OBVIOUS
    <3>3. CASE k = [i EXCEPT !.awaited = FALSE]
      BY <2>2, <3>2, <3>3
    <3> QED BY <3>1, <3>2, <3>3
  <2> QED BY <1>1, <1>5, <2>1, <2>4, AbortTypes DEF Rejected
<1>6. CASE Rejected(j) /\ ~ j.awaited
  BY <1>1, <1>6 DEF Rejected
<1>7. CASE AnsweredLater(j)
  <2>1. PICK lagging : jobs' = (jobs \ {j}) \cup {[j EXCEPT !.block = Answer(j.number, lagging)]}
    BY <1>7 DEF AnsweredLater
  <2>2. Answer(j.number, lagging) \in Blocks \cup {Null}
    BY <1>2, AnsweredBlock DEF Jobs
  <2> DEFINE k == [j EXCEPT !.block = Answer(j.number, lagging)]
  <2>3. k \in Jobs /\ k.number = j.number /\ k.selected = j.selected /\ k.stage = "get"
    BY <1>2, <1>7, <2>2 DEF AnsweredLater, Jobs
  <2>4. jobs' = (jobs \ {j}) \cup {k}
    BY <2>1
  <2> HIDE DEF k
  <2>5. /\ jobs' \subseteq Jobs
        /\ \A i \in jobs' : i.selected # Null => i.number \in DOMAIN blocks
        /\ \A i \in jobs' : i.stage = "save" => i.block \in Blocks
    BY <2>3, <2>4
  <2> QED BY <1>1, <1>7, <2>5 DEF AnsweredLater
<1>8. CASE NothingReceived(j)
  BY <1>1, <1>8 DEF NothingReceived
<1> QED BY <1>1, <1>3, <1>4, <1>5, <1>6, <1>7, <1>8

LEMMA PollFaultTypes ==
    ASSUME TypeInv, PollFault
    PROVE  TypeInv'
<1> USE TheTasks DEF TypeInv, TypeOK, NodeTypeOK, DatabaseTypeOK, ServiceTypeOK,
            ActivityTypeOK, Links, PollFrame, nodeVars, dbVars, wsVars, finalityVars
<1>1. PollFails /\ PollFrame
  BY DEF PollFault
<1>2. lastSafe' \in Heights
  BY <1>1 DEF PollFails, NextLastSafe, IsPoll
<1>3. faults' \in Nat
  BY <1>1 DEF PollFails, Fault
<1>4. Abort("poll")
  BY <1>1 DEF PollFails
<1>5. \A n \in Heights : FailedCache(n) \subseteq [Heights -> Blocks \cup {Null}]
  <2>1. poll.rpcBlock \in Blocks \cup {Null}
    BY DEF IsPoll
  <2> QED BY <2>1 DEF FailedCache
<1>6. cache' \in [Heights -> Blocks \cup {Null}]
  BY <1>1, <1>5 DEF PollFails
<1> QED BY <1>1, <1>2, <1>3, <1>4, <1>6, AbortTypes DEF PollFails

(***************************************************************************)
(*                        Steps of the worker                              *)
(***************************************************************************)

\* The row the worker selects before it saves a header.
LEMMA SelectForSaveTypes ==
    ASSUME TypeInv, NEW block, block \in Blocks, SelectForSave(block)
    PROVE  /\ selected' \in [Tasks -> Rows \cup {Null}]
           /\ selected'["worker"] # Null => block.number \in DOMAIN blocks
           /\ pc' \in [Tasks -> PcLabels] /\ pc'["worker"] = "selected"
           /\ \A t \in Tasks : t # "worker" => pc'[t] = pc[t]
<1>1. IsTable(blocks) /\ selected \in [Tasks -> Rows \cup {Null}] /\ pc \in [Tasks -> PcLabels]
  BY DEF TypeInv, TypeOK, DatabaseTypeOK, ActivityTypeOK
<1>2. /\ SelectRow(blocks, block.number) \in Rows \cup {Null}
      /\ SelectRow(blocks, block.number) # Null => block.number \in DOMAIN blocks
  BY <1>1, SelectedRow
<1>3. selected' = [selected EXCEPT !["worker"] = SelectRow(blocks, block.number)]
  BY DEF SelectForSave
<1>4. selected' \in [Tasks -> Rows \cup {Null}]
      /\ selected'["worker"] = SelectRow(blocks, block.number)
  BY <1>1, <1>2, <1>3, TheTasks
<1>5. /\ pc' \in [Tasks -> PcLabels] /\ pc'["worker"] = "selected"
      /\ \A t \in Tasks : t # "worker" => pc'[t] = pc[t]
  BY <1>1, TheTasks, GotoLabel DEF SelectForSave, PcLabels
<1> QED BY <1>2, <1>4, <1>5

LEMMA DropHeaderTypes ==
    ASSUME TypeInv, DropHeader
    PROVE  /\ header' = Null
           /\ selected' \in [Tasks -> Rows \cup {Null}] /\ selected'["worker"] = Null
           /\ pc' \in [Tasks -> PcLabels] /\ pc'["worker"] = "loop"
           /\ \A t \in Tasks : t # "worker" => pc'[t] = pc[t]
           /\ UNCHANGED <<blocks, events, reorgLogs, fetch>>
  BY TheTasks, GotoLabel
     DEF DropHeader, TypeInv, TypeOK, ActivityTypeOK, PcLabels, dbVars

LEMMA WorkerTypes ==
    ASSUME TypeInv, WorkerStep \/ WorkerFault
    PROVE  TypeInv'
<1> USE TheTasks DEF TypeInv, TypeOK, NodeTypeOK, DatabaseTypeOK, ServiceTypeOK,
            ActivityTypeOK, Links, WorkerFrame, nodeVars, dbVars, finalityVars, rangeVars
<1> DEFINE Moves(label) == /\ pc' \in [Tasks -> PcLabels] /\ pc'["worker"] = label
                           /\ \A t \in Tasks : t # "worker" => pc'[t] = pc[t]
<1>1. CASE TakeHeader /\ WorkerFrame
  <2> DEFINE block == Head(queue)
  <2>1. block \in Blocks /\ queue' \in Seq(Blocks)
    BY <1>1, HeadTailProperties DEF TakeHeader
  <2>2. header' = block
    BY <1>1 DEF TakeHeader
  <2>3. CASE IsReorg(block)
    <3>1. last \in LastSeen
      BY <2>3 DEF IsReorg
    <3>2. [blockNumber |-> last.number, oldHash |-> last.hash, newHash |-> block.parentHash]
              \in ReorgLog
      BY <2>1, <3>1 DEF LastSeen, Blocks, ReorgLog
    <3>3. reorgLogs' \subseteq ReorgLog
      BY <1>1, <2>3, <3>2 DEF TakeHeader
    <3>4. Moves("reorgLogged")
      BY <1>1, <2>3, GotoLabel DEF TakeHeader, PcLabels
    <3>5. pc["worker"] = "loop" /\ UNCHANGED selected
      BY <1>1, <2>3 DEF TakeHeader
    <3>6. selected["worker"] = Null
      BY <3>5
    <3> QED BY <1>1, <2>1, <2>2, <3>3, <3>4, <3>5, <3>6 DEF TakeHeader
  <2>4. CASE ~ IsReorg(block)
    <3>1. SelectForSave(block) /\ UNCHANGED reorgLogs
      BY <1>1, <2>4 DEF TakeHeader
    <3> QED BY <1>1, <2>1, <2>2, <3>1, SelectForSaveTypes DEF TakeHeader
  <2> QED BY <2>3, <2>4
<1>2. CASE RollBackRealtime /\ WorkerFrame
  <2>1. Moves("rolledBack") /\ pc["worker"] = "reorgLogged"
    BY <1>2, GotoLabel DEF RollBackRealtime, PcLabels
  <2>2. /\ DOMAIN events' \subseteq Heights \X Forks /\ events' \in [DOMAIN events' -> DelYn]
        /\ faults' \in Nat
    BY <1>2 DEF RollBackRealtime, RollbackEvents, InvalidateEventsFromBlock, Fault, DelYn
  <2> QED BY <1>2, <2>1, <2>2 DEF RollBackRealtime
<1>3. CASE ForgetLast /\ WorkerFrame
  <2>1. header \in Blocks /\ SelectForSave(header)
    BY <1>3 DEF ForgetLast
  <2> QED BY <1>3, <2>1, SelectForSaveTypes DEF ForgetLast
<1>4. CASE SaveHeader /\ WorkerFrame
  <2>1. header \in Blocks /\ pc["worker"] = "selected"
    BY <1>4 DEF SaveHeader
  <2>2. /\ header.number \in Heights
        /\ NewRecord(header) \in Rows
        /\ selected["worker"] \in Rows \cup {Null}
        /\ selected["worker"] # Null => header.number \in DOMAIN blocks
    BY <2>1, NewRecordIsRow DEF Blocks
  <2>3. IsTable(SaveRow(blocks, header.number, NewRecord(header), selected["worker"]))
    BY <2>2, SavedTable
  <2>4. DOMAIN SaveRow(blocks, header.number, NewRecord(header), selected["worker"])
            = DOMAIN blocks \cup {header.number}
    BY DEF SaveRow, PutRow
  <2>5. IsTable(blocks') /\ DOMAIN blocks \subseteq DOMAIN blocks'
    BY <1>4, <2>3, <2>4 DEF SaveHeader
  <2>6. selected' \in [Tasks -> Rows \cup {Null}] /\ selected'["worker"] = Null
    BY <1>4 DEF SaveHeader
  <2>7. Moves("fetch")
    BY <1>4, GotoLabel DEF SaveHeader, BeginFetch, PcLabels
  <2>8. RangesToFetch(header.number, header.number) \in Seq(FetchRanges)
    BY <2>2, FetchedRanges, HeightsAreNumbers
  <2>9. /\ fetch' \in [Tasks -> Seq(FetchRanges)]
        /\ \A t \in Tasks : t # "worker" => fetch'[t] = fetch[t]
    BY <1>4, <2>8 DEF SaveHeader, BeginFetch
  <2> QED BY <1>4, <2>1, <2>5, <2>6, <2>7, <2>9 DEF SaveHeader
<1>5. CASE SaveHeaderConflicts /\ WorkerFrame
  BY <1>5, DropHeaderTypes DEF SaveHeaderConflicts
<1>6. CASE RememberHeader /\ WorkerFrame
  <2>1. header \in Blocks /\ pc["worker"] = "fetch"
    BY <1>6 DEF RememberHeader, Fetched
  <2>2. last' \in LastSeen
    BY <1>6, <2>1 DEF RememberHeader, LastSeen, Blocks
  <2>3. Moves("loop")
    BY <1>6, GotoLabel DEF RememberHeader, PcLabels
  <2> QED BY <1>6, <2>1, <2>2, <2>3 DEF RememberHeader
<1>7. CASE QueueEmpty /\ WorkerFrame
  <2>1. Moves("idle") /\ pc["worker"] = "loop"
    BY <1>7, GotoLabel DEF QueueEmpty, PcLabels
  <2> QED BY <1>7, <2>1 DEF QueueEmpty
<1>8. CASE HeaderFails /\ WorkerFrame
  <2>1. queue' \in Seq(Blocks) /\ last' \in LastSeen \cup {Null}
    BY <1>8, HeadTailProperties DEF HeaderFails
  <2>2. faults' \in Nat
    BY <1>8 DEF HeaderFails, Fault
  <2> QED BY <1>8, <2>1, <2>2, DropHeaderTypes DEF HeaderFails
<1>9. CASE FetchStep("worker")
  BY <1>9, FetchTypes
<1> QED BY <1>1, <1>2, <1>3, <1>4, <1>5, <1>6, <1>7, <1>8, <1>9 DEF WorkerStep, WorkerFault

(***************************************************************************)
(*                     Steps of the initial sync                           *)
(***************************************************************************)

LEMMA SyncTypes ==
    ASSUME TypeInv, SyncStep \/ SyncFault
    PROVE  TypeInv'
<1> USE TheTasks DEF TypeInv, TypeOK, NodeTypeOK, DatabaseTypeOK, ServiceTypeOK,
            ActivityTypeOK, Links, SyncFrame, nodeVars, dbVars, wsVars, finalityVars,
            fetchVars, budgetVars
<1> DEFINE Moves(label) == /\ pc' \in [Tasks -> PcLabels] /\ pc'["sync"] = label
                           /\ \A t \in Tasks : t # "sync" => pc'[t] = pc[t]
<1>1. CASE GetLatestStored /\ SyncFrame
  <2>1. sync' \in Syncs
    BY <1>1, LatestIsSeen DEF GetLatestStored, Syncs
  <2>2. Moves("latest")
    BY <1>1, GotoLabel DEF GetLatestStored, PcLabels
  <2> QED BY <1>1, <2>1, <2>2 DEF GetLatestStored
<1>2. CASE GetCurrentBlock /\ SyncFrame
  <2>1. sync' \in Syncs
    BY <1>2 DEF GetCurrentBlock, Syncs
  <2>2. Moves("network")
    BY <1>2, GotoLabel DEF GetCurrentBlock, PcLabels
  <2> QED BY <1>2, <2>1, <2>2 DEF GetCurrentBlock
<1>3. CASE ChooseRange /\ SyncFrame
  <2>1. sync.network \in Heights /\ sync.network \in Nat
        /\ (sync.latest # Null => sync.latest.number \in Nat)
    BY HeightsAreNumbers DEF Syncs, LastSeen
  <2>2. StartBlock(sync.latest, sync.network) \in Nat
    <3> DEFINE start == sync.network - InitialSyncBlockCount + 1
    <3>1. InitialSyncBlockCount \in Nat
      BY IndexerAssumption
    <3>2. start \in Int
      BY <2>1, <3>1
    <3> HIDE DEF TypeInv, TypeOK, ActivityTypeOK, DatabaseTypeOK, ServiceTypeOK, Links
    <3> QED BY <2>1, <3>1, <3>2 DEF StartBlock
  <2>3. [from |-> StartBlock(sync.latest, sync.network), to |-> sync.network] \in Ranges
    BY <2>1, <2>2, HeightsAreNumbers DEF Ranges
  <2>4. range' \in [Tasks -> Ranges]
    BY <1>3, <2>3 DEF ChooseRange, SaveBlocksInRange
  <2>5. Moves("range")
    BY <1>3, GotoLabel DEF ChooseRange, SaveBlocksInRange, PcLabels
  <2> QED BY <1>3, <2>4, <2>5 DEF ChooseRange
<1>4. CASE RefreshLast /\ SyncFrame
  <2>1. sync' = [sync EXCEPT !.latest = GetLatestBlock(blocks), !.network = 0]
    BY <1>4 DEF RefreshLast
  <2>2. GetLatestBlock(blocks) \in LastSeen \cup {Null}
    BY LatestIsSeen
  <2>3. sync' \in Syncs
    BY <2>1, <2>2, HeightsAreNumbers DEF Syncs
  <2>4. NoRange \in Ranges
    BY HeightsAreNumbers DEF NoRange, Ranges
  <2>5. range' \in [Tasks -> Ranges]
    BY <1>4, <2>4 DEF RefreshLast
  <2>6. Moves("refresh")
    BY <1>4, GotoLabel DEF RefreshLast, PcLabels
  <2> QED BY <1>4, <2>3, <2>5, <2>6 DEF RefreshLast
<1>5. CASE SyncDone /\ SyncFrame
  <2>1. last' \in LastSeen \cup {Null}
    BY <1>5 DEF SyncDone, Syncs
  <2>2. sync' \in Syncs
    BY <1>5, HeightsAreNumbers DEF SyncDone, NoSync, Syncs
  <2>3. Moves("done")
    BY <1>5, GotoLabel DEF SyncDone, PcLabels
  <2> QED BY <1>5, <2>1, <2>2, <2>3 DEF SyncDone
<1>6. CASE FetchStep("sync")
  BY <1>6, FetchTypes
<1>7. CASE (StartChunk("sync") \/ ChunkSaved("sync") \/ NextChunk("sync")) /\ ChunkFrame
  BY <1>7, ChunkTypes
<1>8. CASE SyncFault
  <2>1. Abort("sync") /\ faults' \in Nat
    BY <1>8 DEF SyncFault, Fault
  <2> QED BY <1>8, <2>1, AbortTypes DEF SyncFault
<1> QED BY <1>1, <1>2, <1>3, <1>4, <1>5, <1>6, <1>7, <1>8 DEF SyncStep

(***************************************************************************)
(*             Steps of the node, the socket and the process               *)
(***************************************************************************)

LEMMA NewBlockTypes ==
    ASSUME TypeInv, NewBlock
    PROVE  TypeInv'
<1>1. NodeTypeOK'
  BY ExtendTypes, ReorgTypes DEF NewBlock, NewTip, TypeInv, TypeOK
<1>2. Tip' \in Blocks
  BY <1>1, NextTipIsBlock
<1> DEFINE block == Tip'
<1>3. OnBlockHeader(block) /\ block \in Blocks
  BY <1>2 DEF NewBlock
<1> HIDE DEF block
<1>4. queue' \in Seq(Blocks)
  BY <1>3, AppendProperties DEF OnBlockHeader, TypeInv, TypeOK, ServiceTypeOK
<1>5. pc' \in [Tasks -> PcLabels]
      /\ (pc' = pc \/ (pc'["worker"] = "loop" /\ pc["worker"] = "idle"
                       /\ \A t \in Tasks : t # "worker" => pc'[t] = pc[t]))
  BY <1>3, TheTasks, GotoLabel
     DEF OnBlockHeader, IsProcessingQueue, TypeInv, TypeOK, ActivityTypeOK, PcLabels
<1>6. UNCHANGED <<dbVars, subscribed, last, finalityVars, cache, header, selected,
                  fetchVars, poll, sync, rangeVars, budgetVars>>
  BY DEF NewBlock
<1>7. Links'
  BY <1>5, <1>6, TheTasks DEF TypeInv, Links, dbVars, fetchVars, rangeVars
<1> QED BY <1>1, <1>4, <1>5, <1>6, <1>7
        DEF TypeInv, TypeOK, DatabaseTypeOK, ServiceTypeOK, ActivityTypeOK, dbVars,
            finalityVars, fetchVars, rangeVars, budgetVars

LEMMA AdvanceTagsTypes ==
    ASSUME TypeInv, AdvanceTags
    PROVE  TypeInv'
<1>1. NodeTypeOK'
  BY NodeAssumption
     DEF AdvanceTags, AdvanceSafe, AdvanceFinalized, NodeTypeOK, TypeInv, TypeOK, Heights
<1> QED BY <1>1
        DEF AdvanceTags, TypeInv, TypeOK, DatabaseTypeOK, ServiceTypeOK, ActivityTypeOK, Links,
            dbVars, wsVars, finalityVars, fetchVars, rangeVars, budgetVars

LEMMA DropSocketTypes ==
    ASSUME TypeInv, DropSocket
    PROVE  TypeInv'
<1>1. faults' \in Nat
  BY DEF DropSocket, Fault, TypeInv, TypeOK
<1> QED BY <1>1
        DEF DropSocket, TypeInv, TypeOK, NodeTypeOK, DatabaseTypeOK, ServiceTypeOK,
            ActivityTypeOK, Links, nodeVars, dbVars, finalityVars, fetchVars, rangeVars

LEMMA FreshMemoryTypes ==
    ASSUME TypeInv, NEW labels, labels \in {Down, Started}, FreshMemory(labels),
           UNCHANGED <<nodeVars, dbVars>>, subscribed' \in BOOLEAN,
           faults' \in Nat, crashes' \in Nat
    PROVE  TypeInv'
<1>1. labels \in [Tasks -> {"down", "idle", "start"}]
  BY DEF Down, Started, Tasks
<1>2. /\ pc' \in [Tasks -> PcLabels]
      /\ \A t \in Tasks : pc'[t] \in {"down", "idle", "start"}
  BY <1>1 DEF FreshMemory, PcLabels
<1>3. ServiceTypeOK'
  BY HeightsAreNumbers DEF FreshMemory, ServiceTypeOK
<1>4. NoRange \in Ranges /\ NoSync \in Syncs
  BY HeightsAreNumbers DEF NoRange, Ranges, NoSync, Syncs
<1>5. ActivityTypeOK'
  BY <1>2, <1>4, NoPollTyped DEF FreshMemory, ActivityTypeOK
<1>6. Links'
  BY <1>2, TheTasks, NoPollTyped DEF FreshMemory, Links, EmptyTable
<1>7. NodeTypeOK' /\ DatabaseTypeOK'
  BY DEF TypeInv, TypeOK, NodeTypeOK, DatabaseTypeOK, nodeVars, dbVars
<1> QED BY <1>3, <1>5, <1>6, <1>7 DEF TypeInv, TypeOK

LEMMA ProcessTypes ==
    ASSUME TypeInv, Crash \/ Boot
    PROVE  TypeInv'
<1>1. faults \in Nat /\ crashes \in Nat
  BY DEF TypeInv, TypeOK
<1>2. CASE Crash
  <2>1. FreshMemory(Down) /\ UNCHANGED <<nodeVars, dbVars>>
    BY <1>2 DEF Crash
  <2>2. faults' \in Nat /\ crashes' \in Nat
    BY <1>1, <1>2 DEF Crash
  <2>3. subscribed' \in BOOLEAN
    BY <1>2 DEF Crash
  <2> QED BY <2>1, <2>2, <2>3, FreshMemoryTypes
<1>3. CASE Boot
  <2>1. /\ FreshMemory(Started) /\ UNCHANGED <<nodeVars, dbVars>>
        /\ faults' \in Nat /\ crashes' \in Nat
    BY <1>1, <1>3 DEF Boot, budgetVars
  <2>2. subscribed' \in BOOLEAN
    BY <1>3, IndexerAssumption DEF Boot
  <2> QED BY <2>1, <2>2, FreshMemoryTypes
<1> QED BY <1>2, <1>3

LEMMA TypeInvStep ==
    TypeInv /\ [Next]_vars => TypeInv'
<1> SUFFICES ASSUME TypeInv, [Next]_vars PROVE TypeInv'
  OBVIOUS
<1>1. CASE NewBlock
  BY <1>1, NewBlockTypes
<1>2. CASE AdvanceTags
  BY <1>2, AdvanceTagsTypes
<1>3. CASE DropSocket
  BY <1>3, DropSocketTypes
<1>4. CASE WorkerStep \/ WorkerFault
  BY <1>4, WorkerTypes
<1>5. CASE PollStep
  BY <1>5, PollTypes
<1>6. CASE PollFault
  BY <1>6, PollFaultTypes
<1>7. CASE SyncStep \/ SyncFault
  BY <1>7, SyncTypes
<1>8. CASE JobStep \/ JobFault
  BY <1>8, JobTypes
<1>9. CASE FetchFault("worker") \/ FetchFault("poll") \/ FetchFault("sync")
  BY <1>9, TheTasks, FetchTypes
<1>10. CASE Crash \/ Boot
  BY <1>10, ProcessTypes
<1>11. CASE UNCHANGED vars
  BY <1>11
     DEF vars, nodeVars, dbVars, wsVars, finalityVars, fetchVars, rangeVars, budgetVars,
         TypeInv, TypeOK, NodeTypeOK, DatabaseTypeOK, ServiceTypeOK, ActivityTypeOK, Links
<1> QED BY <1>1, <1>2, <1>3, <1>4, <1>5, <1>6, <1>7, <1>8, <1>9, <1>10, <1>11
        DEF Next, TaskFault

LEMMA TypeInvHolds ==
    Spec => []TypeInv
  BY InitTypes, TypeInvStep, PTL DEF Spec

\* Every variable keeps its type, whatever the chain, the bounds, the size of a
\* chunk, the faults and the interleaving: no column of a row, no status, no
\* field of a header is ever undefined where the code uses it.
THEOREM TypeCorrect ==
    Spec => []TypeOK
<1>1. TypeInv => TypeOK
  BY DEF TypeInv
<1> QED BY <1>1, TypeInvHolds, PTL

(***************************************************************************)
(*                       No premature finality                             *)
(***************************************************************************)

FinalityInv == NoPrematureFinality /\ poll.finalized <= finalized

\* A save never makes a row FINALIZED: the record says UNFINALIZED, and an
\* UPDATE that leaves the status alone keeps the stored one.
LEMMA SaveFinalizesNothing ==
    ASSUME IsTable(blocks), NEW n, n \in Heights, NEW record, record \in Rows,
           NEW found, found \in Rows \cup {Null}, found # Null => n \in DOMAIN blocks,
           record.status = UNFINALIZED, blocks' = SaveRow(blocks, n, record, found),
           NEW m, m \in DOMAIN blocks', blocks'[m].status = FINALIZED
    PROVE  m \in DOMAIN blocks /\ blocks[m].status = FINALIZED
<1> DEFINE u == SaveRow(blocks, n, record, found)
<1>1. blocks \in [DOMAIN blocks -> BlockRecord(Hashes)]
  BY DEF IsTable, Rows
<1>2. DOMAIN u = DOMAIN blocks \cup {n}
  BY DEF SaveRow, PutRow
<1>3. \A k \in DOMAIN blocks \ {n} : u[k] = blocks[k]
  BY DEF SaveRow, PutRow
<1>4. u[n].status = record.status \/ (n \in DOMAIN blocks /\ u[n].status = blocks[n].status)
  BY DEF SaveRow, PutRow, MergedRow, Column
<1>5. m \in DOMAIN u /\ u[m].status = FINALIZED
  OBVIOUS
<1> HIDE DEF u
<1>6. UNFINALIZED # FINALIZED
  BY DEF UNFINALIZED, FINALIZED
<1>7. CASE m = n
  BY <1>4, <1>5, <1>6, <1>7
<1>8. CASE m # n
  BY <1>2, <1>3, <1>5, <1>8
<1> QED BY <1>7, <1>8

LEMMA UpdateFinalizesUpTo ==
    ASSUME IsTable(blocks), NEW n, n \in Heights, NEW status, status \in BlockStatus,
           blocks' = UpdateStatusUpToBlock(blocks, n, status),
           NEW m, m \in DOMAIN blocks', blocks'[m].status = FINALIZED
    PROVE  m \in DOMAIN blocks /\ (blocks[m].status = FINALIZED \/ (status = FINALIZED /\ m <= n))
<1>1. blocks \in [DOMAIN blocks -> BlockRecord(Hashes)] /\ DOMAIN blocks \subseteq Int /\ n \in Int
  BY HeightsAreNumbers DEF IsTable, Rows
<1> QED BY <1>1, UpdateStatusResult

\* What a step may do to the rows that say FINALIZED.
FinalizesUpToTag ==
    \A m \in DOMAIN blocks' : blocks'[m].status = FINALIZED
        => m \in DOMAIN blocks /\ (blocks[m].status = FINALIZED \/ m <= poll.finalized)

LEMMA SameBlocks ==
    ASSUME blocks' = blocks
    PROVE  FinalizesUpToTag
  BY DEF FinalizesUpToTag

LEMMA SavedBlocks ==
    ASSUME IsTable(blocks), NEW n, n \in Heights, NEW record, record \in Rows,
           NEW found, found \in Rows \cup {Null}, found # Null => n \in DOMAIN blocks,
           record.status = UNFINALIZED, blocks' = SaveRow(blocks, n, record, found)
    PROVE  FinalizesUpToTag
<1> SUFFICES ASSUME NEW m \in DOMAIN blocks', blocks'[m].status = FINALIZED
             PROVE  m \in DOMAIN blocks /\ blocks[m].status = FINALIZED
  BY DEF FinalizesUpToTag
<1> QED BY SaveFinalizesNothing

LEMMA NewRecordUnfinalized ==
    ASSUME NEW block
    PROVE  NewRecord(block).status = UNFINALIZED
  BY DEF NewRecord

LEMMA WorkerFinalizes ==
    ASSUME TypeInv, WorkerStep \/ WorkerFault
    PROVE  FinalizesUpToTag
<1>1. CASE SaveHeader
  <2>1. header \in Blocks
    BY <1>1 DEF SaveHeader, TypeInv, Links
  <2>2. header.number \in Heights
    BY <2>1 DEF Blocks
  <2>3. IsTable(blocks) /\ selected["worker"] \in Rows \cup {Null}
    BY TheTasks DEF TypeInv, TypeOK, DatabaseTypeOK, ActivityTypeOK
  <2>4. selected["worker"] # Null => header.number \in DOMAIN blocks
    BY DEF TypeInv, Links
  <2>5. blocks' = SaveRow(blocks, header.number, NewRecord(header), selected["worker"])
    BY <1>1 DEF SaveHeader
  <2> QED BY <2>1, <2>2, <2>3, <2>4, <2>5, NewRecordIsRow, NewRecordUnfinalized, SavedBlocks
<1>2. CASE ~SaveHeader
  <2>1. blocks' = blocks
    BY <1>2 DEF WorkerStep, WorkerFault, TakeHeader, RollBackRealtime, ForgetLast,
                SaveHeaderConflicts, RememberHeader, QueueEmpty, HeaderFails, DropHeader,
                FetchStep, dbVars
  <2> QED BY <2>1, SameBlocks
<1> QED BY <1>1, <1>2

LEMMA JobFinalizes ==
    ASSUME TypeInv, JobStep \/ JobFault
    PROVE  FinalizesUpToTag
<1>1. CASE \E j \in jobs : BlockSaved(j)
  <2>1. PICK j \in jobs : BlockSaved(j)
    BY <1>1
  <2>2. j \in Jobs /\ IsTable(blocks)
    BY DEF TypeInv, TypeOK, ActivityTypeOK, DatabaseTypeOK
  <2>3. j.number \in Heights /\ j.selected \in Rows \cup {Null}
    BY <2>2 DEF Jobs
  <2>4. j.block \in Blocks /\ (j.selected # Null => j.number \in DOMAIN blocks)
    BY <2>1 DEF TypeInv, Links, BlockSaved
  <2>5. blocks' = SaveRow(blocks, j.number, NewRecord(j.block), j.selected)
    BY <2>1 DEF BlockSaved
  <2> QED BY <2>2, <2>3, <2>4, <2>5, NewRecordIsRow, NewRecordUnfinalized, SavedBlocks
<1>2. CASE ~ \E j \in jobs : BlockSaved(j)
  <2>1. blocks' = blocks
    BY <1>2, JobCases DEF BlockReceived, Rejected, AnsweredLater, NothingReceived
  <2> QED BY <2>1, SameBlocks
<1> QED BY <1>1, <1>2

\* A record of the poll is UNFINALIZED again when it is saved.
LEMMA CorrectedRow ==
    ASSUME NEW record, record \in Rows, NEW block, block \in Blocks
    PROVE  Corrected(record, block) \in Rows /\ Corrected(record, block).status = UNFINALIZED
  BY DEF Corrected, Rows, BlockRecord, BlockStatus, Blocks

LEMMA VerifyFinalizes ==
    ASSUME TypeInv, VerifyStep
    PROVE  FinalizesUpToTag
<1>1. PICK n \in Heights :
        /\ IsCurrent(n)
        /\ \/ VerifyCached(n) \/ RequestBlock(n) \/ VerifyReceived(n) \/ SelectRecord(n)
           \/ SaveRecord(n) \/ RollBackRecord(n) \/ CollectRecord(n) \/ RecordDone(n)
  BY DEF VerifyStep
<1>2. CASE SaveRecord(n)
  <2>1. pc["poll"] = "selected"
    BY <1>2 DEF SaveRecord
  <2>2. poll.rpcBlock \in Blocks
    BY <2>1 DEF TypeInv, Links
  <2>3. IsTable(poll.todo) /\ n \in DOMAIN poll.todo
    BY <1>1 DEF TypeInv, TypeOK, ActivityTypeOK, IsPoll, IsCurrent
  <2>4. poll.todo[n] \in Rows /\ n \in DOMAIN blocks
    BY <2>3 DEF IsTable, TypeInv, Links
  <2>5. IsTable(blocks) /\ selected["poll"] \in Rows \cup {Null}
    BY TheTasks DEF TypeInv, TypeOK, DatabaseTypeOK, ActivityTypeOK
  <2>6. blocks' = SaveRow(blocks, n, Corrected(poll.todo[n], poll.rpcBlock), selected["poll"])
    BY <1>2 DEF SaveRecord
  <2> QED BY <2>2, <2>4, <2>5, <2>6, CorrectedRow, SavedBlocks
<1>3. CASE ~SaveRecord(n)
  <2>1. blocks' = blocks
    BY <1>1, <1>3 DEF VerifyCached, RequestBlock, VerifyReceived, SelectRecord,
                      RollBackRecord, CollectRecord, RecordDone, dbVars
  <2> QED BY <2>1, SameBlocks
<1> QED BY <1>2, <1>3

LEMMA PollFinalizes ==
    ASSUME TypeInv, PollStep \/ PollFault
    PROVE  FinalizesUpToTag
<1>1. IsTable(blocks) /\ poll.safe \in Heights /\ poll.finalized \in Heights
  BY DEF TypeInv, TypeOK, DatabaseTypeOK, ActivityTypeOK, IsPoll
<1>2. {SAFE, FINALIZED} \subseteq BlockStatus /\ SAFE # FINALIZED
  BY DEF BlockStatus, SAFE, FINALIZED
<1>3. CASE VerifyStep
  BY <1>3, VerifyFinalizes
<1>4. CASE UpdateSafe
  <2>1. blocks' = UpdateStatusUpToBlock(blocks, poll.safe, SAFE)
    BY <1>4 DEF UpdateSafe
  <2> SUFFICES ASSUME NEW m \in DOMAIN blocks', blocks'[m].status = FINALIZED
               PROVE  m \in DOMAIN blocks /\ blocks[m].status = FINALIZED
    BY DEF FinalizesUpToTag
  <2> QED BY <1>1, <1>2, <2>1, UpdateFinalizesUpTo
<1>5. CASE UpdateFinalized
  <2>1. blocks' = UpdateStatusUpToBlock(blocks, poll.finalized, FINALIZED)
    BY <1>5 DEF UpdateFinalized
  <2> SUFFICES ASSUME NEW m \in DOMAIN blocks', blocks'[m].status = FINALIZED
               PROVE  m \in DOMAIN blocks /\ (blocks[m].status = FINALIZED \/ m <= poll.finalized)
    BY DEF FinalizesUpToTag
  <2> QED BY <1>1, <1>2, <2>1, UpdateFinalizesUpTo
<1>6. CASE ~(VerifyStep \/ UpdateSafe \/ UpdateFinalized)
  <2>1. blocks' = blocks
    BY <1>6 DEF PollStep, PollFault, StartPolling, GetFinalizedTag, TagMissing,
                FindBlocksToVerify, FindGaps, TakeGap, GapDone, PollDone, PollFails, FetchStep, StartChunk,
                ChunkSaved, NextChunk, ChunkFrame, dbVars
  <2> QED BY <2>1, SameBlocks
<1> QED BY <1>3, <1>4, <1>5, <1>6

\* Every other step leaves the table alone.
LEMMA StepFinalizes ==
    ASSUME TypeInv, [Next]_vars
    PROVE  FinalizesUpToTag
<1>1. CASE WorkerStep \/ WorkerFault
  BY <1>1, WorkerFinalizes
<1>2. CASE JobStep \/ JobFault
  BY <1>2, JobFinalizes
<1>3. CASE PollStep \/ PollFault
  BY <1>3, PollFinalizes
<1>4. CASE SyncStep \/ SyncFault
  <2>1. blocks' = blocks
    BY <1>4 DEF SyncStep, SyncFault, SyncFrame, FetchStep, ChunkFrame, dbVars
  <2> QED BY <2>1, SameBlocks
<1>5. CASE FetchFault("worker") \/ FetchFault("poll") \/ FetchFault("sync")
  <2>1. blocks' = blocks
    BY <1>5 DEF FetchFault
  <2> QED BY <2>1, SameBlocks
<1>6. CASE NewBlock \/ AdvanceTags \/ DropSocket \/ Crash \/ Boot \/ UNCHANGED vars
  <2>1. blocks' = blocks
    BY <1>6 DEF NewBlock, AdvanceTags, DropSocket, Crash, Boot, vars, dbVars
  <2> QED BY <2>1, SameBlocks
<1> QED BY <1>1, <1>2, <1>3, <1>4, <1>5, <1>6 DEF Next, TaskFault

\* The tag a poll holds is one the node had.
LEMMA PollTagKept ==
    ASSUME TypeInv, PollStep \/ PollFault
    PROVE  poll'.finalized \in {poll.finalized, finalized, 0} /\ UNCHANGED finalized
<1>1. IsPoll(poll)
  BY DEF TypeInv, TypeOK, ActivityTypeOK
<1>2. UNCHANGED finalized
  BY DEF PollStep, PollFault, PollFrame, FetchStep, ChunkFrame, nodeVars
<1>3. CASE PollDone \/ PollFails \/ TagMissing
  BY <1>2, <1>3 DEF PollDone, PollFails, TagMissing, Abort, NoPoll
<1>4. CASE StartPolling \/ GetFinalizedTag \/ FindBlocksToVerify \/ FindGaps \/ TakeGap
  BY <1>1, <1>2, <1>4 DEF StartPolling, GetFinalizedTag, FindBlocksToVerify, FindGaps, TakeGap, IsPoll
<1>5. CASE VerifyStep
  BY <1>1, <1>2, <1>5 DEF VerifyStep, VerifyCached, RequestBlock, VerifyReceived, SelectRecord,
                    SaveRecord, RollBackRecord, CollectRecord, RecordDone, Compare, NextRecord, IsPoll
<1>6. CASE ~(PollDone \/ PollFails \/ TagMissing \/ StartPolling \/ GetFinalizedTag \/ FindBlocksToVerify
             \/ FindGaps \/ TakeGap \/ VerifyStep)
  <2>1. poll' = poll
    BY <1>6 DEF PollStep, PollFault, UpdateSafe, UpdateFinalized, GapDone, FetchStep, ChunkFrame
  <2> QED BY <1>2, <2>1
<1> QED BY <1>2, <1>3, <1>4, <1>5, <1>6

LEMMA TagIsOld ==
    ASSUME TypeInv, [Next]_vars
    PROVE  /\ poll'.finalized \in {poll.finalized, finalized, 0}
           /\ finalized' \in {finalized, finalized + 1}
<1>1. CASE PollStep \/ PollFault
  BY <1>1, PollTagKept
<1>2. CASE NewBlock \/ AdvanceTags
  <2>1. poll' = poll
    BY <1>2 DEF NewBlock, AdvanceTags
  <2>2. finalized' \in {finalized, finalized + 1}
    BY <1>2 DEF NewBlock, NewTip, Extend, Reorg, AdvanceTags, AdvanceSafe, AdvanceFinalized
  <2> QED BY <2>1, <2>2
<1>3. CASE JobStep \/ JobFault
  <2>1. UNCHANGED finalized
    BY <1>3 DEF JobStep, JobFault, JobFrame, nodeVars
  <2>2. PICK j \in jobs : \/ AnsweredLater(j) \/ NothingReceived(j)
                          \/ BlockReceived(j) \/ BlockSaved(j) \/ Rejected(j)
    BY <1>3, JobCases
  <2>3. poll' = poll \/ poll' = NoPoll
    BY <2>2 DEF AnsweredLater, NothingReceived, BlockReceived, BlockSaved, Rejected, Abort
  <2>4. poll'.finalized \in {poll.finalized, 0}
    BY <2>3 DEF NoPoll
  <2> QED BY <2>1, <2>4
<1>4. CASE SyncStep \/ SyncFault
  BY <1>4 DEF SyncStep, SyncFault, SyncFrame, FetchStep, ChunkFrame, nodeVars, Abort
<1>5. CASE WorkerStep \/ WorkerFault
  BY <1>5 DEF WorkerStep, WorkerFault, WorkerFrame, FetchStep, nodeVars
<1>6. CASE FetchFault("worker") \/ FetchFault("poll") \/ FetchFault("sync")
  BY <1>6 DEF FetchFault, nodeVars
<1>7. CASE DropSocket \/ Crash \/ Boot \/ UNCHANGED vars
  BY <1>7 DEF DropSocket, Crash, Boot, FreshMemory, NoPoll, vars, nodeVars
<1> QED BY <1>1, <1>2, <1>3, <1>4, <1>5, <1>6, <1>7 DEF Next, TaskFault

LEMMA FinalityInvStep ==
    TypeInv /\ FinalityInv /\ [Next]_vars => FinalityInv'
<1> SUFFICES ASSUME TypeInv, FinalityInv, [Next]_vars PROVE FinalityInv'
  OBVIOUS
<1>1. finalized \in Nat /\ poll.finalized \in Nat /\ poll.finalized <= finalized
  BY HeightsAreNumbers
     DEF FinalityInv, TypeInv, TypeOK, NodeTypeOK, ActivityTypeOK, IsPoll
<1>2. FinalizesUpToTag
  BY StepFinalizes
<1>3. /\ poll'.finalized \in {poll.finalized, finalized, 0}
      /\ finalized' \in {finalized, finalized + 1}
  BY TagIsOld
<1>4. poll'.finalized <= finalized'
  BY <1>1, <1>3
<1>5. ASSUME NEW m \in DOMAIN blocks', blocks'[m].status = FINALIZED
      PROVE  m <= finalized'
  <2>1. m \in DOMAIN blocks /\ (blocks[m].status = FINALIZED \/ m <= poll.finalized)
    BY <1>2, <1>5 DEF FinalizesUpToTag
  <2>2. m \in Int
    BY <2>1, HeightsAreNumbers DEF TypeInv, TypeOK, DatabaseTypeOK, IsTable
  <2>3. m <= finalized
    BY <1>1, <2>1, <2>2 DEF FinalityInv, NoPrematureFinality, Numbers
  <2> QED BY <1>1, <1>3, <2>2, <2>3
<1> QED BY <1>4, <1>5 DEF FinalityInv, NoPrematureFinality, Numbers

LEMMA InitFinality ==
    Init => FinalityInv
<1> SUFFICES ASSUME Init PROVE FinalityInv
  OBVIOUS
<1>1. \A n \in DOMAIN blocks : blocks[n].status = UNFINALIZED
  BY DEF Init, NewRecord
<1>2. finalized = 0 /\ poll.finalized = 0
  BY DEF Init, NodeInit, NoPoll
<1>3. UNFINALIZED # FINALIZED
  BY DEF UNFINALIZED, FINALIZED
<1> QED BY <1>1, <1>2, <1>3 DEF FinalityInv, NoPrematureFinality, Numbers

\* No interleaving of the poll's two UPDATEs with the saves of the worker, of
\* the sync and of pending jobs, and no crash or abandoned poll, marks a row
\* FINALIZED above the number the node has finalized.
THEOREM FinalityIsNeverEarly ==
    Spec => []NoPrematureFinality
<1>1. Spec => [](TypeInv /\ FinalityInv)
  BY InitTypes, TypeInvStep, InitFinality, FinalityInvStep, PTL DEF Spec
<1>2. FinalityInv => NoPrematureFinality
  BY DEF FinalityInv
<1> QED BY <1>1, <1>2, PTL

(***************************************************************************)
(*                       The queue and its worker                          *)
(***************************************************************************)

LEMMA WorkerNotStranded ==
    ASSUME TypeInv, NoStrandedHeader, WorkerStep \/ WorkerFault
    PROVE  NoStrandedHeader'
<1> USE DEF NoStrandedHeader, IsProcessingQueue
<1>1. pc \in [Tasks -> PcLabels]
  BY DEF TypeInv, TypeOK, ActivityTypeOK
<1>2. CASE QueueEmpty
  BY <1>2 DEF QueueEmpty
<1>3. CASE TakeHeader
  <2>1. pc'["worker"] \in {"reorgLogged", "selected"}
    BY <1>1, <1>3, TheTasks DEF TakeHeader, SelectForSave, Goto
  <2> QED BY <2>1
<1>4. CASE RollBackRealtime \/ ForgetLast \/ SaveHeader \/ RememberHeader
  <2>1. pc'["worker"] \in {"rolledBack", "selected", "fetch", "loop"}
    BY <1>1, <1>4, TheTasks
       DEF RollBackRealtime, ForgetLast, SelectForSave, SaveHeader, BeginFetch, RememberHeader, Goto
  <2> QED BY <2>1
<1>5. CASE SaveHeaderConflicts \/ HeaderFails
  <2>1. pc'["worker"] = "loop"
    BY <1>1, <1>5, TheTasks DEF SaveHeaderConflicts, HeaderFails, DropHeader, Goto
  <2> QED BY <2>1
<1>6. CASE FetchStep("worker")
  <2>1. pc'["worker"] \in {"logs", "fetch"}
    BY <1>1, <1>6, TheTasks DEF FetchStep, GetLogs, TooManyLogs, SplitRange,
                                      SaveEvents, EndOfRange, Goto
  <2> QED BY <2>1
<1> QED BY <1>2, <1>3, <1>4, <1>5, <1>6 DEF WorkerStep, WorkerFault

\* The steps of the other activities touch neither the queue nor the worker.
LEMMA WorkerUntouched ==
    ASSUME TypeInv,
           PollStep \/ PollFault \/ SyncStep \/ SyncFault \/ JobStep \/ JobFault \/
           FetchFault("poll") \/ FetchFault("sync")
    PROVE  queue' = queue /\ pc'["worker"] = pc["worker"]
<1>1. pc \in [Tasks -> PcLabels] /\ jobs \subseteq Jobs
  BY DEF TypeInv, TypeOK, ActivityTypeOK
<1>2. queue' = queue
  BY DEF PollStep, PollFault, SyncStep, SyncFault, JobStep, JobFault, FetchFault, FetchStep,
         PollFrame, SyncFrame, JobFrame, ChunkFrame, wsVars
<1> SUFFICES pc'["worker"] = pc["worker"]
  BY <1>2
<1>3. ASSUME NEW task, task \in {"poll", "sync"}, NEW label, Goto(task, label)
      PROVE  pc'["worker"] = pc["worker"]
  BY <1>1, <1>3, TheTasks DEF Goto
<1>4. CASE VerifyStep
  BY <1>3, <1>4 DEF VerifyStep, VerifyCached, RequestBlock, VerifyReceived, SelectRecord, SaveRecord,
             RollBackRecord, CollectRecord, RecordDone, Compare, NextRecord, BeginFetch
<1>5. CASE PollStep /\ ~VerifyStep
  BY <1>3, <1>5 DEF PollStep, StartPolling, GetFinalizedTag, TagMissing, Abort, UpdateSafe,
             UpdateFinalized, FindBlocksToVerify, FindGaps, TakeGap, SaveBlocksInRange, GapDone,
             PollDone, FetchStep, GetLogs, TooManyLogs, SplitRange, SaveEvents, EndOfRange, StartChunk, ChunkSaved, NextChunk,
             BeginFetch
<1>6. CASE SyncStep
  BY <1>3, <1>6 DEF SyncStep, GetLatestStored, GetCurrentBlock, ChooseRange, RefreshLast, SyncDone,
             SaveBlocksInRange, FetchStep, GetLogs, TooManyLogs, SplitRange, SaveEvents, EndOfRange,
             StartChunk, ChunkSaved, NextChunk, BeginFetch
<1>7. CASE JobStep \/ JobFault
  <2>1. PICK j \in jobs : \/ AnsweredLater(j) \/ NothingReceived(j)
                          \/ BlockReceived(j) \/ BlockSaved(j) \/ Rejected(j)
    BY <1>7, JobCases
  <2>2. j.owner \in {"poll", "sync"}
    BY <1>1 DEF Jobs
  <2>3. pc' = pc \/ \E label : Goto(j.owner, label)
    BY <2>1 DEF AnsweredLater, NothingReceived, BlockReceived, BlockSaved, Rejected, Abort
  <2> QED BY <1>3, <2>2, <2>3
<1>8. CASE PollFault \/ SyncFault \/ FetchFault("poll") \/ FetchFault("sync")
  BY <1>3, <1>8 DEF PollFault, PollFails, SyncFault, Abort, FetchFault, GetLogsFails,
             SplitRange, SaveEventsFails, EndOfRange
<1> QED BY <1>4, <1>5, <1>6, <1>7, <1>8

LEMMA NoStrandedHeaderStep ==
    TypeInv /\ NoStrandedHeader /\ [Next]_vars => NoStrandedHeader'
<1> SUFFICES ASSUME TypeInv, NoStrandedHeader, [Next]_vars PROVE NoStrandedHeader'
  OBVIOUS
<1>1. pc \in [Tasks -> PcLabels]
  BY DEF TypeInv, TypeOK, ActivityTypeOK
<1>2. CASE WorkerStep \/ WorkerFault
  BY <1>2, WorkerNotStranded
<1>3. CASE PollStep \/ PollFault \/ SyncStep \/ SyncFault \/ JobStep \/ JobFault
           \/ FetchFault("poll") \/ FetchFault("sync")
  BY <1>3, WorkerUntouched DEF NoStrandedHeader, IsProcessingQueue
<1>4. CASE FetchFault("worker")
  <2>1. pc'["worker"] \in {"logs", "fetch"}
    BY <1>1, <1>4, TheTasks
       DEF FetchFault, GetLogsFails, SplitRange, SaveEventsFails, EndOfRange, Goto
  <2> QED BY <2>1 DEF NoStrandedHeader, IsProcessingQueue
<1>5. CASE NewBlock
  <2>1. OnBlockHeader(Tip')
    BY <1>5 DEF NewBlock
  <2>2. CASE UNCHANGED <<queue, pc>>
    BY <2>2 DEF NoStrandedHeader, IsProcessingQueue
  <2>3. CASE ~IsProcessingQueue /\ Goto("worker", "loop")
    BY <1>1, <2>3, TheTasks DEF NoStrandedHeader, IsProcessingQueue, Goto
  <2>4. CASE IsProcessingQueue /\ UNCHANGED pc
    BY <2>4 DEF NoStrandedHeader, IsProcessingQueue
  <2> QED BY <2>1, <2>2, <2>3, <2>4 DEF OnBlockHeader
<1>6. CASE AdvanceTags \/ DropSocket \/ UNCHANGED vars
  <2>1. UNCHANGED <<queue, pc>>
    BY <1>6 DEF AdvanceTags, DropSocket, vars, wsVars
  <2> QED BY <2>1 DEF NoStrandedHeader, IsProcessingQueue
<1>7. CASE Crash \/ Boot
  BY <1>7 DEF Crash, Boot, FreshMemory, NoStrandedHeader
<1> QED BY <1>2, <1>3, <1>4, <1>5, <1>6, <1>7 DEF Next, TaskFault

\* The worker stops only when the queue is empty, and a header that arrives
\* then starts it again: isProcessingQueue is never left unset over a queue
\* with headers, whatever the await points, the faults and the restarts.
THEOREM WorkerNeverSleepsOnHeaders ==
    Spec => []NoStrandedHeader
<1>1. Init => NoStrandedHeader
  BY DEF Init, NoStrandedHeader
<1> QED BY <1>1, InitTypes, TypeInvStep, NoStrandedHeaderStep, PTL DEF Spec

(***************************************************************************)
(*                   Abandoned events stay rolled back                     *)
(***************************************************************************)

\* What the statements give: no event is removed, and none that is marked as
\* deleted is taken back, be its block abandoned or canonical again.
EventsKept ==
    \A l \in DOMAIN events : l \in DOMAIN events' /\ (events[l] = "Y" => events'[l] = "Y")

\* The two statements on the table of events, and no statement.
LEMMA EventStatements ==
    ASSUME \/ events' = events
           \/ \E logsRead : events' = SaveEventsBulk(events, logsRead)
           \/ \E n \in Int : events' = InvalidateEventsFromBlock(events, n)
    PROVE  EventsKept
  BY DEF EventsKept, SaveEventsBulk, InvalidateEventsFromBlock

LEMMA RollbackKeeps ==
    ASSUME NEW n, RollbackEvents(n)
    PROVE  EventsKept
  BY DEF EventsKept, RollbackEvents, InvalidateEventsFromBlock

LEMMA FetchKeeps ==
    ASSUME NEW task, FetchStep(task) \/ FetchFault(task)
    PROVE  EventsKept
<1>1. events' = events \/ \E logsRead : events' = SaveEventsBulk(events, logsRead)
  BY DEF FetchStep, FetchFault, SaveEvents, SaveEventsFails
<1> QED BY <1>1, EventStatements

LEMMA VerifyKeeps ==
    ASSUME VerifyStep
    PROVE  EventsKept
<1>1. PICK n \in Heights :
        \/ VerifyCached(n) \/ RequestBlock(n) \/ VerifyReceived(n) \/ SelectRecord(n)
        \/ SaveRecord(n) \/ RollBackRecord(n) \/ CollectRecord(n) \/ RecordDone(n)
  BY DEF VerifyStep
<1>2. CASE RollBackRecord(n)
  BY <1>2, RollbackKeeps DEF RollBackRecord
<1>3. CASE ~RollBackRecord(n)
  <2>1. events' = events
    BY <1>1, <1>3 DEF VerifyCached, RequestBlock, VerifyReceived, SelectRecord, SaveRecord,
                      CollectRecord, RecordDone, dbVars
  <2> QED BY <2>1, EventStatements
<1> QED BY <1>2, <1>3

LEMMA WorkerKeeps ==
    ASSUME WorkerStep \/ WorkerFault
    PROVE  EventsKept
<1>1. CASE RollBackRealtime
  BY <1>1, RollbackKeeps DEF RollBackRealtime
<1>2. CASE FetchStep("worker")
  BY <1>2, FetchKeeps
<1>3. CASE ~RollBackRealtime /\ ~FetchStep("worker")
  <2>1. events' = events
    BY <1>3 DEF WorkerStep, WorkerFault, TakeHeader, ForgetLast, SaveHeader, SaveHeaderConflicts,
                RememberHeader, QueueEmpty, HeaderFails, DropHeader, dbVars
  <2> QED BY <2>1, EventStatements
<1> QED BY <1>1, <1>2, <1>3

LEMMA PollKeeps ==
    ASSUME PollStep \/ PollFault
    PROVE  EventsKept
<1>1. CASE VerifyStep
  BY <1>1, VerifyKeeps
<1>2. CASE FetchStep("poll")
  BY <1>2, FetchKeeps
<1>3. CASE ~VerifyStep /\ ~FetchStep("poll")
  <2>1. events' = events
    BY <1>3 DEF PollStep, PollFault, StartPolling, GetFinalizedTag, TagMissing, UpdateSafe,
                UpdateFinalized, FindBlocksToVerify, FindGaps, TakeGap, GapDone, PollDone, PollFails, ChunkFrame,
                dbVars
  <2> QED BY <2>1, EventStatements
<1> QED BY <1>1, <1>2, <1>3

LEMMA StepKeeps ==
    ASSUME [Next]_vars
    PROVE  EventsKept
<1>1. CASE WorkerStep \/ WorkerFault
  BY <1>1, WorkerKeeps
<1>2. CASE PollStep \/ PollFault
  BY <1>2, PollKeeps
<1>3. CASE SyncStep \/ SyncFault
  <2>1. CASE FetchStep("sync")
    BY <2>1, FetchKeeps
  <2>2. CASE ~FetchStep("sync")
    <3>1. events' = events
      BY <1>3, <2>2 DEF SyncStep, SyncFault, SyncFrame, ChunkFrame, dbVars
    <3> QED BY <3>1, EventStatements
  <2> QED BY <2>1, <2>2
<1>4. CASE FetchFault("worker") \/ FetchFault("poll") \/ FetchFault("sync")
  BY <1>4, FetchKeeps
<1>5. CASE \/ JobStep \/ JobFault \/ NewBlock \/ AdvanceTags \/ DropSocket
           \/ Crash \/ Boot \/ UNCHANGED vars
  <2>1. events' = events
    BY <1>5 DEF JobStep, JobFault, JobFrame, NewBlock, AdvanceTags, DropSocket, Crash, Boot,
                vars, dbVars
  <2> QED BY <2>1, EventStatements
<1> QED BY <1>1, <1>2, <1>3, <1>4, <1>5 DEF Next, TaskFault

\* Events are never removed, and a rolled-back event of an abandoned block is
\* taken back by no late answer of getLogs, whoever saves it.
THEOREM NoAbandonedEventReturns ==
    Spec => AbandonedStayRolledBack
<1>1. [Next]_vars => [\A l \in DOMAIN events :
                         /\ l \in DOMAIN events'
                         /\ events[l] = "Y" /\ l # LogAt(l[1]) => events'[l] = "Y"]_vars
  BY StepKeeps DEF EventsKept
<1> QED BY <1>1, PTL DEF Spec, AbandonedStayRolledBack

(***************************************************************************)
(*                          Dynamic chunking                               *)
(***************************************************************************)

\* The two ranges fetchAndSaveEventsForBlock goes on with when the node refuses
\* the logs of a range cover exactly its blocks, share none, and are shorter,
\* so that the recursion collects every block once and ends.
THEOREM HalvesPartitionRange ==
    ASSUME NEW r \in FetchRanges, r.from < r.to
    PROVE  LET low  == Halves(r)[1]
               high == Halves(r)[2]
           IN  /\ Len(Halves(r)) = 2
               /\ low.from..low.to \cup high.from..high.to = r.from..r.to
               /\ (low.from..low.to) \cap (high.from..high.to) = {}
               /\ low.from <= low.to /\ high.from <= high.to
<1> DEFINE mid == (r.from + r.to) \div 2
<1>1. r.from \in Int /\ r.to \in Int
  BY DEF FetchRanges
<1>2. mid \in Int /\ r.from <= mid /\ mid + 1 <= r.to
  BY <1>1
<1> HIDE DEF mid
<1>3. Halves(r) = <<[from |-> r.from, to |-> mid], [from |-> mid + 1, to |-> r.to]>>
  BY DEF Halves, mid
<1>4. r.from..mid \cup (mid + 1)..r.to = r.from..r.to
  BY <1>1, <1>2
<1>5. (r.from..mid) \cap ((mid + 1)..r.to) = {}
  BY <1>1, <1>2
<1> DEFINE low  == Halves(r)[1]
           high == Halves(r)[2]
<1>6. /\ Len(Halves(r)) = 2
      /\ low.from = r.from /\ low.to = mid
      /\ high.from = mid + 1 /\ high.to = r.to
  BY <1>3
<1> QED BY <1>2, <1>4, <1>5, <1>6
=============================================================================
