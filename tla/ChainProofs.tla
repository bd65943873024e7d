----------------------------- MODULE ChainProofs ----------------------------
(***************************************************************************)
(* What the indexer holds was mined: every hash, block and header in the   *)
(* table, the cache, the queue and the local variables of the activities   *)
(* names a block the node once had, under the number of that block.  From  *)
(* it follow, for every value of the constants, that the reorg logs are    *)
(* real, that lastProcessedBlock* is stored, that the verification spares  *)
(* FINALIZED rows, and that the table implements BlockLedger.              *)
(***************************************************************************)
EXTENDS IndexerProofs

(***************************************************************************)
(*                       The inductive invariant                           *)
(***************************************************************************)

\* The node has mined the blocks of its chain and the parent of every block.
ChainMined ==
    /\ \A n \in 0..head : Block(n) \in mined
    /\ \A b \in mined : b.number > 0 => MinedHash(b.number - 1, b.parentHash)

WorkerHoldsMined ==
    /\ \A i \in DOMAIN queue : queue[i] \in mined
    /\ header # Null => header \in mined
    /\ last # Null => MinedHash(last.number, last.hash)

SyncHoldsMined == sync.latest # Null => MinedHash(sync.latest.number, sync.latest.hash)

\* The block that was received belongs to the record under verification, and
\* nothing is left of the records of an earlier poll when a poll starts.
PollHoldsMined ==
    /\ poll.rpcBlock # Null => poll.rpcBlock \in mined /\ IsCurrent(poll.rpcBlock.number)
    /\ \A n \in DOMAIN poll.todo : MinedHash(n, poll.todo[n].blockHash)

BeforeVerify == {"down", "idle", "safeTag", "finalizedTag", "safeUpdated", "finalizedUpdated"}

PollStartsClean ==
    pc["poll"] \in BeforeVerify => poll.rpcBlock = Null /\ DOMAIN poll.todo = {}

RowsMined  == \A n \in Numbers : MinedHash(n, blocks[n].blockHash)
CacheMined == \A n \in Heights : cache[n] # Null => cache[n] \in mined /\ cache[n].number = n
JobsMined  == \A j \in jobs : j.block # Null => j.block \in mined /\ j.block.number = j.number

MinedInv ==
    /\ ChainMined
    /\ WorkerHoldsMined /\ SyncHoldsMined /\ PollHoldsMined /\ PollStartsClean
    /\ RowsMined /\ CacheMined /\ JobsMined

(***************************************************************************)
(*                              The node                                   *)
(***************************************************************************)

LEMMA MinedGrows ==
    ASSUME [Next]_vars
    PROVE  mined \subseteq mined' /\ (~NewBlock => mined' = mined /\ (\A n \in Int : Block(n)' = Block(n)) /\ head' = head)
<1>1. CASE NewBlock
  BY <1>1 DEF NewBlock, NewTip, Extend, Reorg
<1>2. CASE ~NewBlock
  <2>1. UNCHANGED <<mined, chain, head>>
    BY <1>2 DEF Next, TaskFault, AdvanceTags, AdvanceSafe, AdvanceFinalized, DropSocket, WorkerStep,
                WorkerFault, WorkerFrame, PollStep, PollFault, PollFrame, SyncStep, SyncFault,
                SyncFrame, ChunkFrame, JobStep, JobFault, JobFrame, FetchStep, FetchFault, Crash,
                Boot, vars, nodeVars
  <2> QED BY <1>2, <2>1 DEF Block, HashAt
<1> QED BY <1>1, <1>2

LEMMA HashKept ==
    ASSUME mined \subseteq mined', NEW n, NEW hash, MinedHash(n, hash)
    PROVE  MinedHash(n, hash)'
  BY DEF MinedHash

\* A block whose number follows that of its parent on the chain.
LEMMA ParentOnChain ==
    ASSUME NEW n, n \in Nat, n > 0
    PROVE  Block(n).number = n /\ Block(n).parentHash = Block(n - 1).hash
           /\ Block(n - 1).number = n - 1
  BY DEF Block

LEMMA NextParentOnChain ==
    ASSUME NEW n, n \in Nat, n > 0
    PROVE  Block(n)'.number = n /\ Block(n)'.parentHash = Block(n - 1)'.hash
           /\ Block(n - 1)'.number = n - 1
  BY DEF Block

LEMMA ExtendMined ==
    ASSUME NodeTypeOK, ChainMined, Extend
    PROVE  ChainMined'
<1>1. head \in Nat /\ head' = head + 1 /\ mined' = mined \cup {Block(head + 1)}
  BY HeightsAreNumbers DEF Extend, NodeTypeOK
<1>2. \A n : Block(n)' = Block(n)
  BY DEF Extend, Block, HashAt
<1>3. \A n \in 0..head' : Block(n)' \in mined'
  BY <1>1, <1>2 DEF ChainMined
<1>4. ASSUME NEW b \in mined', b.number > 0
      PROVE  MinedHash(b.number - 1, b.parentHash)'
  <2>1. CASE b \in mined
    <3>1. MinedHash(b.number - 1, b.parentHash)
      BY <1>4, <2>1 DEF ChainMined
    <3> QED BY <1>1, <3>1, HashKept
  <2>2. CASE b = Block(head + 1)
    <3>1. b.number = head + 1 /\ b.parentHash = Block(head).hash /\ Block(head).number = head
      BY <1>1, <2>2, ParentOnChain
    <3>2. Block(head) \in mined'
      BY <1>1 DEF ChainMined
    <3> QED BY <1>1, <3>1, <3>2 DEF MinedHash
  <2> QED BY <1>1, <2>1, <2>2
<1> QED BY <1>3, <1>4 DEF ChainMined

LEMMA ReorgMined ==
    ASSUME NodeTypeOK, ChainMined, NEW n, n \in Heights, NEW h, h \in Heights, Reorg(n, h)
    PROVE  ChainMined'
<1>1. n \in Nat /\ h \in Nat /\ head \in Nat /\ n > 0 /\ n <= head /\ n <= h /\ head' = h
  BY HeightsAreNumbers DEF Reorg, NodeTypeOK
<1>2. mined' = mined \cup {Block(m)' : m \in n..h}
  BY DEF Reorg
<1>3. \A m \in 0..(n - 1) : Block(m)' \in mined'
  <2>1. ASSUME NEW m \in 0..(n - 1) PROVE Block(m)' = Block(m) /\ Block(m) \in mined
    <3>1. m \in Heights /\ m < n /\ m \in 0..head
      BY <1>1, <2>1, NodeAssumption DEF Heights
    <3> QED BY <3>1, ReorgHashes DEF ChainMined
  <2> QED BY <1>2, <2>1
<1>4. \A m \in 0..h : Block(m)' \in mined'
  BY <1>1, <1>2, <1>3
<1>5. ASSUME NEW b \in mined', b.number > 0
      PROVE  MinedHash(b.number - 1, b.parentHash)'
  <2>1. CASE b \in mined
    <3>1. MinedHash(b.number - 1, b.parentHash)
      BY <1>5, <2>1 DEF ChainMined
    <3> QED BY <1>2, <3>1, HashKept
  <2>2. CASE b \notin mined
    <3>1. PICK m \in n..h : b = Block(m)'
      BY <1>2, <2>2
    <3>2. m \in Nat /\ m > 0 /\ m - 1 \in 0..h
      BY <1>1, <3>1
    <3>3. /\ b.number = m /\ b.parentHash = Block(m - 1)'.hash
          /\ Block(m - 1)'.number = m - 1
      BY <3>1, <3>2, NextParentOnChain
    <3>4. Block(m - 1)' \in mined'
      BY <1>4, <3>2
    <3> QED BY <3>3, <3>4 DEF MinedHash
  <2> QED BY <2>1, <2>2
<1> QED BY <1>1, <1>4, <1>5 DEF ChainMined

(***************************************************************************)
(*                    First states and new blocks                          *)
(***************************************************************************)

LEMMA LatestIsMined ==
    ASSUME IsTable(blocks), RowsMined, GetLatestBlock(blocks) # Null
    PROVE  LET latest == GetLatestBlock(blocks)
           IN  latest.number \in DOMAIN blocks /\ MinedHash(latest.number, latest.hash)
<1>1. blocks \in [DOMAIN blocks -> BlockRecord(Hashes)] /\ DOMAIN blocks \subseteq 0..MaxHeight
      /\ DOMAIN blocks # {}
  BY DEF IsTable, Rows, Heights, GetLatestBlock
<1>2. PICK n \in DOMAIN blocks :
          GetLatestBlock(blocks) = [number |-> n, hash |-> blocks[n].blockHash]
  BY <1>1, GetLatestBlockResult, NodeAssumption
<1> QED BY <1>2 DEF RowsMined, Numbers

LEMMA NewBlockMined ==
    ASSUME TypeInv, MinedInv, NewBlock
    PROVE  MinedInv'
<1>1. NodeTypeOK /\ mined \subseteq mined'
  BY DEF TypeInv, TypeOK, NewBlock, NewTip, Extend, Reorg
<1>2. ChainMined'
  BY <1>1, ExtendMined, ReorgMined DEF MinedInv, NewBlock, NewTip
<1>3. Tip' \in mined'
  <2>1. NodeTypeOK'
    BY NewBlockTypes DEF TypeInv, TypeOK
  <2>2. head' \in 0..head'
    BY <2>1, HeightsAreNumbers DEF NodeTypeOK
  <2> QED BY <1>2, <2>2 DEF ChainMined, Tip, Block, HashAt
<1> DEFINE tip == Tip'
<1>4. queue' = queue \/ queue' = Append(queue, tip)
  BY DEF NewBlock, OnBlockHeader
<1>5. pc'["poll"] = pc["poll"]
  BY TheTasks DEF NewBlock, OnBlockHeader, Goto, TypeInv, TypeOK, ActivityTypeOK
<1>6. UNCHANGED <<dbVars, last, cache, header, poll, sync, rangeVars>>
  BY DEF NewBlock
<1>7. \A i \in DOMAIN queue' : queue'[i] \in mined'
  <2>1. queue \in Seq(Blocks) /\ \A i \in DOMAIN queue : queue[i] \in mined'
    BY <1>1 DEF TypeInv, TypeOK, ServiceTypeOK, MinedInv, WorkerHoldsMined
  <2>2. tip \in Blocks
    BY NewBlockTypes, NextTipIsBlock DEF TypeInv, TypeOK
  <2> HIDE DEF tip
  <2>3. CASE queue' = Append(queue, tip)
    <3>1. /\ DOMAIN queue = 1..Len(queue) /\ Len(queue) \in Nat
          /\ Len(queue') = Len(queue) + 1 /\ DOMAIN queue' = 1..Len(queue')
      BY <2>1, <2>2, <2>3
    <3>2. /\ \A i \in 1..Len(queue) : queue'[i] = queue[i]
          /\ queue'[Len(queue) + 1] = tip
      BY <2>1, <2>2, <2>3, AppendProperties
    <3>3. tip \in mined'
      BY <1>3 DEF tip
    <3> QED BY <2>1, <3>1, <3>2, <3>3
  <2> QED BY <1>4, <2>1, <2>3
<1>8. /\ WorkerHoldsMined' /\ SyncHoldsMined'
  BY <1>1, <1>6, <1>7, HashKept DEF MinedInv, WorkerHoldsMined, SyncHoldsMined
<1>9. PollHoldsMined' /\ PollStartsClean'
  BY <1>1, <1>5, <1>6, HashKept DEF MinedInv, PollHoldsMined, PollStartsClean, IsCurrent
<1>10. RowsMined' /\ CacheMined' /\ JobsMined'
  BY <1>1, <1>6, HashKept DEF MinedInv, RowsMined, CacheMined, JobsMined, Numbers, dbVars, rangeVars
<1> QED BY <1>2, <1>8, <1>9, <1>10 DEF MinedInv

LEMMA InitMined ==
    Init => MinedInv
<1> SUFFICES ASSUME Init PROVE MinedInv
  OBVIOUS
<1>1. TypeInv /\ InitHead \in Nat
  BY InitTypes, NodeAssumption
<1>2. mined = {Block(n) : n \in 0..InitHead} /\ head = InitHead
  BY DEF Init, NodeInit
<1>3. ChainMined
  <2>1. ASSUME NEW b \in mined, b.number > 0
        PROVE  MinedHash(b.number - 1, b.parentHash)
    <3>1. PICK n \in 0..InitHead : b = Block(n)
      BY <1>2
    <3>2. n \in Nat /\ n > 0 /\ n - 1 \in 0..InitHead
      BY <1>1, <2>1, <3>1 DEF Block
    <3>3. b.number = n /\ b.parentHash = Block(n - 1).hash /\ Block(n - 1).number = n - 1
      BY <3>1, <3>2, ParentOnChain
    <3> QED BY <1>2, <3>2, <3>3 DEF MinedHash
  <2> QED BY <1>2, <2>1 DEF ChainMined
<1>4. PICK stored \in StoredHeads : blocks = [n \in 0..stored |-> NewRecord(Block(n))]
  BY DEF Init
<1>5. RowsMined
  <2> SUFFICES ASSUME NEW n \in DOMAIN blocks PROVE MinedHash(n, blocks[n].blockHash)
    BY DEF RowsMined, Numbers
  <2>1. n \in 0..InitHead /\ blocks[n].blockHash = Block(n).hash
    BY <1>1, <1>4, IndexerAssumption DEF NewRecord
  <2>2. Block(n) \in mined /\ Block(n).number = n
    BY <1>2, <2>1 DEF Block
  <2> QED BY <2>1, <2>2 DEF MinedHash
<1>6. last # Null => MinedHash(last.number, last.hash)
  <2>1. last = Null \/ last = GetLatestBlock(blocks)
    BY DEF Init
  <2> QED BY <1>1, <1>5, <2>1, LatestIsMined DEF TypeInv, TypeOK, DatabaseTypeOK
<1>7. queue = <<>> /\ header = Null /\ sync = NoSync /\ poll = NoPoll /\ jobs = {}
      /\ cache = [n \in Heights |-> Null]
  BY DEF Init
<1>8. WorkerHoldsMined /\ SyncHoldsMined /\ CacheMined /\ JobsMined
  BY <1>6, <1>7 DEF WorkerHoldsMined, SyncHoldsMined, CacheMined, JobsMined, NoSync
<1>9. PollHoldsMined /\ PollStartsClean
  BY <1>7 DEF PollHoldsMined, PollStartsClean, NoPoll, EmptyTable
<1> QED BY <1>3, <1>5, <1>8, <1>9 DEF MinedInv

(***************************************************************************)
(*                  What a step may do to the table                        *)
(***************************************************************************)

\* A save stores a block that was mined with the number of the row, as a new
\* row or in place of the old one, and raises no status.
WritesRow(n, hash) ==
    /\ MinedHash(n, hash)
    /\ DOMAIN blocks' = DOMAIN blocks \cup {n}
    /\ \A m \in DOMAIN blocks \ {n} : blocks'[m] = blocks[m]
    /\ blocks'[n].blockHash = hash
    /\ \/ blocks'[n].status = UNFINALIZED
       \/ n \in DOMAIN blocks /\ blocks'[n].status = blocks[n].status

\* A poll copies one of its tags into the table before it verifies any row.
RaisesStatus(n, status) ==
    /\ pc["poll"] \in BeforeVerify /\ poll' = poll
    /\ status \in {SAFE, FINALIZED}
    /\ n = IF status = SAFE THEN poll.safe ELSE poll.finalized
    /\ blocks' = UpdateStatusUpToBlock(blocks, n, status)

WritesTable ==
    \E n \in Heights :
        \/ \E hash \in Hashes : WritesRow(n, hash)
        \/ \E status \in {SAFE, FINALIZED} : RaisesStatus(n, status)

LEMMA SaveWritesRow ==
    ASSUME IsTable(blocks), RowsMined, NEW n, n \in Heights, NEW record, record \in Rows,
           record.status = UNFINALIZED, MinedHash(n, record.blockHash),
           NEW found, found \in Rows \cup {Null}, found # Null => n \in DOMAIN blocks,
           blocks' = SaveRow(blocks, n, record, found)
    PROVE  WritesTable
<1> DEFINE u == SaveRow(blocks, n, record, found)
<1>1. DOMAIN u = DOMAIN blocks \cup {n} /\ \A m \in DOMAIN blocks \ {n} : u[m] = blocks[m]
  BY DEF SaveRow, PutRow
<1>2. u[n].status = UNFINALIZED \/ (n \in DOMAIN blocks /\ u[n].status = blocks[n].status)
  BY DEF SaveRow, PutRow, MergedRow, Column
<1>3. \/ u[n].blockHash = record.blockHash
      \/ n \in DOMAIN blocks /\ u[n].blockHash = blocks[n].blockHash
  BY DEF SaveRow, PutRow, MergedRow, Column
<1>4. MinedHash(n, u[n].blockHash)
  BY <1>3 DEF RowsMined, Numbers
<1>5. u[n].blockHash \in Hashes
  BY <1>3 DEF IsTable, Rows, BlockRecord
<1> HIDE DEF u
<1>6. blocks' = u
  BY DEF u
<1> QED BY <1>1, <1>2, <1>4, <1>5, <1>6 DEF WritesTable, WritesRow

LEMMA NewRecordHash ==
    ASSUME NEW block
    PROVE  NewRecord(block).blockHash = block.hash
  BY DEF NewRecord

LEMMA BlockIsMined ==
    ASSUME NEW b, b \in mined
    PROVE  MinedHash(b.number, b.hash)
  BY DEF MinedHash

LEMMA WorkerTable ==
    ASSUME TypeInv, MinedInv, WorkerStep \/ WorkerFault, blocks' # blocks
    PROVE  SaveHeader /\ WritesTable
<1>1. SaveHeader
  BY DEF WorkerStep, WorkerFault, TakeHeader, RollBackRealtime, ForgetLast,
         SaveHeaderConflicts, RememberHeader, QueueEmpty, HeaderFails, DropHeader, FetchStep, dbVars
<1>2. header \in Blocks /\ pc["worker"] = "selected"
  BY <1>1 DEF SaveHeader, TypeInv, Links
<1>3. header \in mined
  BY <1>2, NullAssumption DEF MinedInv, WorkerHoldsMined
<1>4. header.number \in Heights
  BY <1>2 DEF Blocks
<1>5. IsTable(blocks) /\ selected["worker"] \in Rows \cup {Null} /\ RowsMined
  BY TheTasks DEF TypeInv, TypeOK, DatabaseTypeOK, ActivityTypeOK, MinedInv
<1>6. selected["worker"] # Null => header.number \in DOMAIN blocks
  BY DEF TypeInv, Links
<1>7. blocks' = SaveRow(blocks, header.number, NewRecord(header), selected["worker"])
  BY <1>1 DEF SaveHeader
<1>8. MinedHash(header.number, NewRecord(header).blockHash)
  BY <1>3, BlockIsMined, NewRecordHash
<1>9. NewRecord(header) \in Rows /\ NewRecord(header).status = UNFINALIZED
  BY <1>2, NewRecordIsRow, NewRecordUnfinalized
<1>10. WritesTable
  BY <1>4, <1>5, <1>6, <1>7, <1>8, <1>9, SaveWritesRow
<1> QED BY <1>1, <1>10

LEMMA JobTable ==
    ASSUME TypeInv, MinedInv, JobStep \/ JobFault, blocks' # blocks
    PROVE  WritesTable /\ UNCHANGED pc
<1>1. PICK j \in jobs : BlockSaved(j)
  BY JobCases DEF AnsweredLater, NothingReceived, BlockReceived, Rejected
<1>2. j \in Jobs /\ IsTable(blocks) /\ RowsMined
  BY DEF TypeInv, TypeOK, ActivityTypeOK, DatabaseTypeOK, MinedInv
<1>3. j.number \in Heights /\ j.block \in Blocks /\ j.selected \in Rows \cup {Null}
  BY <1>1, <1>2 DEF BlockSaved, Jobs, TypeInv, Links
<1>4. j.selected # Null => j.number \in DOMAIN blocks
  BY DEF TypeInv, Links
<1>5. blocks' = SaveRow(blocks, j.number, NewRecord(j.block), j.selected)
  BY <1>1 DEF BlockSaved
<1>6. MinedHash(j.number, NewRecord(j.block).blockHash)
  <2>1. j.block \in mined /\ j.block.number = j.number
    BY <1>3, NullAssumption DEF MinedInv, JobsMined
  <2> QED BY <2>1, BlockIsMined, NewRecordHash
<1>7. NewRecord(j.block) \in Rows /\ NewRecord(j.block).status = UNFINALIZED
  BY <1>3, NewRecordIsRow, NewRecordUnfinalized
<1>8. WritesTable
  BY <1>2, <1>3, <1>4, <1>5, <1>6, <1>7, SaveWritesRow
<1> QED BY <1>1, <1>8 DEF BlockSaved

\* The record under verification is unique.
LEMMA TheCurrent ==
    ASSUME TypeInv, NEW n, IsCurrent(n), NEW m, IsCurrent(m)
    PROVE  n = m
<1>1. n \in Int /\ m \in Int /\ n <= m /\ m <= n
  BY HeightsAreNumbers DEF IsCurrent, TypeInv, TypeOK, ActivityTypeOK, IsPoll, IsTable
<1> QED BY <1>1

LEMMA CorrectedHash ==
    ASSUME NEW record, record \in Rows, NEW block
    PROVE  Corrected(record, block).blockHash = block.hash
  BY DEF Corrected, Rows, BlockRecord

LEMMA PollTable ==
    ASSUME TypeInv, MinedInv, PollStep \/ PollFault, blocks' # blocks
    PROVE  WritesTable
<1>1. IsTable(blocks) /\ poll.safe \in Heights /\ poll.finalized \in Heights
  BY DEF TypeInv, TypeOK, DatabaseTypeOK, ActivityTypeOK, IsPoll
<1>2. CASE VerifyStep
  <2>1. PICK n \in Heights : IsCurrent(n) /\ SaveRecord(n)
    BY <1>2 DEF VerifyStep, VerifyCached, RequestBlock, VerifyReceived, SelectRecord,
                RollBackRecord, CollectRecord, RecordDone, dbVars
  <2>2. poll.rpcBlock \in Blocks
    BY <2>1 DEF SaveRecord, TypeInv, Links
  <2>3. poll.rpcBlock \in mined /\ IsCurrent(poll.rpcBlock.number)
    BY <2>2, NullAssumption DEF MinedInv, PollHoldsMined
  <2>4. poll.rpcBlock.number = n
    BY <2>1, <2>3, TheCurrent
  <2>5. n \in DOMAIN poll.todo /\ poll.todo[n] \in Rows /\ n \in DOMAIN blocks
    BY <2>1 DEF TypeInv, Links, TypeOK, ActivityTypeOK, IsPoll, IsTable, IsCurrent
  <2>6. selected["poll"] \in Rows \cup {Null} /\ RowsMined
    BY TheTasks DEF TypeInv, TypeOK, ActivityTypeOK, MinedInv
  <2> DEFINE record == Corrected(poll.todo[n], poll.rpcBlock)
  <2>7. record \in Rows /\ record.status = UNFINALIZED
    BY <2>2, <2>5, CorrectedRow
  <2>8. MinedHash(n, record.blockHash)
    BY <2>3, <2>4, <2>5, CorrectedHash, BlockIsMined
  <2>9. blocks' = SaveRow(blocks, n, record, selected["poll"])
    BY <2>1 DEF SaveRecord
  <2> HIDE DEF record
  <2> QED BY <1>1, <2>5, <2>6, <2>7, <2>8, <2>9, SaveWritesRow
<1>3. CASE UpdateSafe
  <2>1. RaisesStatus(poll.safe, SAFE)
    BY <1>3 DEF UpdateSafe, RaisesStatus, BeforeVerify, SAFE
  <2> QED BY <1>1, <2>1 DEF WritesTable
<1>4. CASE UpdateFinalized
  <2>1. RaisesStatus(poll.finalized, FINALIZED)
    BY <1>4 DEF UpdateFinalized, SafeSettled, RaisesStatus, BeforeVerify, SAFE, FINALIZED
  <2> QED BY <1>1, <2>1 DEF WritesTable
<1>5. VerifyStep \/ UpdateSafe \/ UpdateFinalized
  BY DEF PollStep, PollFault, StartPolling, GetFinalizedTag, TagMissing, FindBlocksToVerify,
         FindGaps, TakeGap, GapDone, PollDone, PollFails, FetchStep, StartChunk, ChunkSaved,
         NextChunk, ChunkFrame, dbVars
<1> QED BY <1>2, <1>3, <1>4, <1>5

\* Whoever writes to the table saves a block that was mined, or raises statuses.
LEMMA TableSteps ==
    ASSUME TypeInv, MinedInv, [Next]_vars
    PROVE  blocks' = blocks \/ (WritesTable /\ UNCHANGED <<mined, safeSeen, finalized>>)
<1> SUFFICES ASSUME blocks' # blocks PROVE WritesTable /\ UNCHANGED <<mined, safeSeen, finalized>>
  OBVIOUS
<1>1. CASE WorkerStep \/ WorkerFault
  <2>1. SaveHeader /\ WritesTable
    BY <1>1, WorkerTable
  <2> QED BY <1>1, <2>1 DEF WorkerStep, WorkerFault, WorkerFrame, FetchStep, nodeVars
<1>2. CASE PollStep \/ PollFault
  <2>1. UNCHANGED nodeVars
    BY <1>2 DEF PollStep, PollFault, PollFrame, FetchStep, ChunkFrame
  <2> QED BY <1>2, <2>1, PollTable DEF nodeVars
<1>3. CASE JobStep \/ JobFault
  BY <1>3, JobTable, JobCases DEF JobFrame, nodeVars
<1>4. WorkerStep \/ WorkerFault \/ PollStep \/ PollFault \/ JobStep \/ JobFault
  BY DEF Next, TaskFault, SyncStep, SyncFault, SyncFrame, FetchStep, FetchFault, ChunkFrame,
         NewBlock, AdvanceTags, DropSocket, Crash, Boot, vars, dbVars
<1> QED BY <1>1, <1>2, <1>3, <1>4

\* No step removes a row.
LEMMA TableGrows ==
    ASSUME TypeInv, MinedInv, [Next]_vars
    PROVE  DOMAIN blocks \subseteq DOMAIN blocks'
<1>1. CASE WritesTable
  BY <1>1 DEF WritesTable, WritesRow, RaisesStatus, UpdateStatusUpToBlock
<1> QED BY <1>1, TableSteps

LEMMA RowsStayMined ==
    ASSUME TypeInv, MinedInv, [Next]_vars
    PROVE  RowsMined'
<1>1. mined \subseteq mined'
  BY MinedGrows
<1>2. CASE blocks' = blocks
  BY <1>1, <1>2, HashKept DEF MinedInv, RowsMined, Numbers
<1>3. ASSUME NEW n \in Heights, NEW hash, WritesRow(n, hash)
      PROVE  RowsMined'
  BY <1>1, <1>3, HashKept DEF MinedInv, RowsMined, Numbers, WritesRow
<1>4. ASSUME NEW n \in Heights, NEW status, RaisesStatus(n, status)
      PROVE  RowsMined'
  <2>1. \A m \in DOMAIN blocks' : m \in DOMAIN blocks /\ blocks'[m].blockHash = blocks[m].blockHash
    <3>1. /\ blocks \in [DOMAIN blocks -> BlockRecord(Hashes)] /\ DOMAIN blocks \subseteq Int
          /\ n \in Int /\ status \in BlockStatus
      BY <1>4, HeightsAreNumbers
         DEF TypeInv, TypeOK, DatabaseTypeOK, IsTable, Rows, RaisesStatus, BlockStatus
    <3>2. blocks' = UpdateStatusUpToBlock(blocks, n, status)
      BY <1>4 DEF RaisesStatus
    <3> QED BY <3>1, <3>2, UpdateStatusResult
  <2> QED BY <1>1, <2>1, HashKept DEF MinedInv, RowsMined, Numbers
<1> QED BY <1>2, <1>3, <1>4, TableSteps DEF WritesTable

(***************************************************************************)
(*                    The steps of the activities                          *)
(***************************************************************************)

LEMMA TailMined ==
    ASSUME queue \in Seq(Blocks), queue # <<>>, \A i \in DOMAIN queue : queue[i] \in mined
    PROVE  /\ Head(queue) \in mined
           /\ \A i \in DOMAIN Tail(queue) : Tail(queue)[i] \in mined
<1>1. /\ DOMAIN queue = 1..Len(queue) /\ Len(queue) \in Nat /\ Len(queue) >= 1
      /\ Head(queue) = queue[1]
      /\ DOMAIN Tail(queue) = 1..(Len(queue) - 1)
      /\ \A i \in 1..(Len(queue) - 1) : Tail(queue)[i] = queue[i + 1]
  BY HeadTailProperties, LenProperties
<1>2. 1 \in DOMAIN queue /\ \A i \in 1..(Len(queue) - 1) : i + 1 \in DOMAIN queue
  BY <1>1
<1> QED BY <1>1, <1>2

LEMMA WorkerKeepsMined ==
    ASSUME TypeInv, MinedInv, mined' = mined, WorkerStep \/ WorkerFault
    PROVE  WorkerHoldsMined'
<1> USE DEF MinedInv, WorkerHoldsMined
<1>1. queue \in Seq(Blocks)
  BY DEF TypeInv, TypeOK, ServiceTypeOK
<1>2. queue' = queue \/ (queue # <<>> /\ queue' = Tail(queue))
  BY DEF WorkerStep, WorkerFault, TakeHeader, RollBackRealtime, ForgetLast, SaveHeader,
         SaveHeaderConflicts, RememberHeader, QueueEmpty, HeaderFails, FetchStep, wsVars
<1>3. \A i \in DOMAIN queue' : queue'[i] \in mined
  BY <1>1, <1>2, TailMined
<1>4. header' \in {header, Null} \/ (queue # <<>> /\ header' = Head(queue))
  BY DEF WorkerStep, WorkerFault, TakeHeader, RollBackRealtime, ForgetLast, SaveHeader, DropHeader,
         SaveHeaderConflicts, RememberHeader, QueueEmpty, HeaderFails, FetchStep
<1>5. header' # Null => header' \in mined
  BY <1>1, <1>4, TailMined
<1>6. CASE RememberHeader
  <2>1. header \in mined
    BY <1>6, NullAssumption DEF RememberHeader, Fetched, TypeInv, Links
  <2>2. last'.number = header.number /\ last'.hash = header.hash
    BY <1>6 DEF RememberHeader
  <2> QED BY <1>3, <1>5, <2>1, <2>2 DEF MinedHash
<1>7. CASE ~RememberHeader
  <2>1. last' = last \/ last' = Null
    BY <1>7 DEF WorkerStep, WorkerFault, TakeHeader, RollBackRealtime, ForgetLast, SaveHeader,
                SaveHeaderConflicts, QueueEmpty, HeaderFails, FetchStep
  <2> QED BY <1>3, <1>5, <2>1 DEF MinedHash
<1> QED BY <1>6, <1>7

\* The worker touches none of what the other activities hold.
LEMMA WorkerLeavesMined ==
    ASSUME TypeInv, MinedInv, mined' = mined,
           WorkerStep \/ WorkerFault \/ FetchFault("worker") \/ FetchFault("sync")
    PROVE  SyncHoldsMined' /\ PollHoldsMined' /\ PollStartsClean' /\ CacheMined' /\ JobsMined'
<1>1. UNCHANGED <<cache, poll, sync, jobs>>
  BY DEF WorkerStep, WorkerFault, WorkerFrame, FetchStep, FetchFault, rangeVars
<1>2. pc'["poll"] = pc["poll"]
  BY TheTasks DEF WorkerStep, WorkerFault, TakeHeader, RollBackRealtime, ForgetLast, SaveHeader,
     SelectForSave, BeginFetch, SaveHeaderConflicts, RememberHeader, QueueEmpty, HeaderFails, DropHeader,
     FetchStep, FetchFault, GetLogs, TooManyLogs, SaveEvents, GetLogsFails, SplitRange, SaveEventsFails,
     EndOfRange, Goto, TypeInv, TypeOK, ActivityTypeOK
<1> QED BY <1>1, <1>2
        DEF MinedInv, SyncHoldsMined, PollHoldsMined, PollStartsClean, CacheMined, JobsMined,
            IsCurrent, MinedHash

\* What the node answers, it has mined.
LEMMA AnsweredMined ==
    ASSUME TypeInv, MinedInv, NEW n, n \in Heights, NEW lagging, Answer(n, lagging) # Null
    PROVE  Answer(n, lagging) \in mined /\ Answer(n, lagging).number = n
<1>1. Answer(n, lagging) = Block(n) /\ n <= head /\ Answer(n, lagging).number = n
  BY AnsweredBlock DEF TypeInv, TypeOK
<1>2. n \in 0..head
  BY <1>1, HeightsAreNumbers DEF TypeInv, TypeOK, NodeTypeOK, Heights
<1> QED BY <1>1, <1>2 DEF MinedInv, ChainMined

\* A job of a chunk is started for a cached block, or for the node's answer.
LEMMA ChunkMined ==
    ASSUME TypeInv, MinedInv, mined' = mined, NEW task, task \in {"poll", "sync"},
           StartChunk(task) \/ ChunkSaved(task) \/ NextChunk(task), ChunkFrame
    PROVE  JobsMined' /\ PollStartsClean'
<1>1. task \in Tasks /\ task # "worker" /\ "poll" \in Tasks
  BY TheTasks
<1>2. PollStartsClean'
  <2>1. poll' = poll /\ pc \in [Tasks -> PcLabels]
    BY DEF ChunkFrame, TypeInv, TypeOK, ActivityTypeOK
  <2>2. pc'["poll"] \in {pc["poll"], "chunk", "fetch", "range"}
    BY <1>1, <2>1 DEF StartChunk, ChunkSaved, NextChunk, BeginFetch, Goto
  <2> QED BY <2>1, <2>2 DEF MinedInv, PollStartsClean, BeforeVerify
<1>3. CASE StartChunk(task)
  <2>1. range[task] \in Ranges /\ range[task].from \in Nat
    BY <1>1 DEF TypeInv, TypeOK, ActivityTypeOK, Ranges
  <2>2. ChunkEnd(range[task]) \in Int /\ ChunkEnd(range[task]) <= MaxHeight
    BY <2>1, ChunkEndBound
  <2> DEFINE numbers == range[task].from .. ChunkEnd(range[task])
  <2>3. numbers \subseteq Heights
    BY <2>1, <2>2, NodeAssumption DEF Heights
  <2> HIDE DEF numbers
  <2>4. PICK lagging : jobs' = jobs \cup {NewJob(task, n, lagging) : n \in numbers}
    BY <1>3 DEF StartChunk, numbers
  <2>5. ASSUME NEW n \in numbers, NewJob(task, n, lagging).block # Null
        PROVE  /\ NewJob(task, n, lagging).block \in mined
               /\ NewJob(task, n, lagging).block.number = NewJob(task, n, lagging).number
    <3>1. n \in Heights
      BY <2>3
    <3>2. CASE cache[n] # Null
      BY <3>1, <3>2 DEF NewJob, MinedInv, CacheMined
    <3>3. CASE cache[n] = Null
      BY <2>5, <3>1, <3>3, AnsweredMined DEF NewJob
    <3> QED BY <3>2, <3>3
  <2> QED BY <1>2, <2>4, <2>5 DEF MinedInv, JobsMined
<1>4. CASE ChunkSaved(task) \/ NextChunk(task)
  BY <1>2, <1>4 DEF ChunkSaved, NextChunk, rangeVars, MinedInv, JobsMined
<1> QED BY <1>3, <1>4

LEMMA SyncKeepsMined ==
    ASSUME TypeInv, MinedInv, mined' = mined, SyncStep \/ SyncFault
    PROVE  /\ WorkerHoldsMined' /\ SyncHoldsMined' /\ PollHoldsMined' /\ PollStartsClean'
           /\ CacheMined' /\ JobsMined'
<1> USE DEF MinedInv
<1>1. UNCHANGED <<queue, header, poll, cache>>
  BY DEF SyncStep, SyncFault, SyncFrame, FetchStep, ChunkFrame, Abort, wsVars
<1>2. CacheMined' /\ PollHoldsMined'
  BY <1>1 DEF CacheMined, PollHoldsMined, IsCurrent, MinedHash
<1>3. sync'.latest \in {sync.latest, Null, GetLatestBlock(blocks)}
  <2>1. sync = [latest |-> sync.latest, network |-> sync.network]
    BY DEF TypeInv, TypeOK, ActivityTypeOK, Syncs
  <2>2. CASE GetLatestStored \/ GetCurrentBlock \/ RefreshLast
    BY <2>1, <2>2 DEF GetLatestStored, GetCurrentBlock, RefreshLast
  <2>3. CASE sync' = sync \/ sync' = NoSync
    BY <2>3 DEF NoSync
  <2> QED BY <2>2, <2>3
          DEF SyncStep, SyncFault, ChooseRange, SyncDone, Abort, FetchStep, ChunkFrame
<1>4. SyncHoldsMined'
  BY <1>3, LatestIsMined DEF SyncHoldsMined, TypeInv, TypeOK, DatabaseTypeOK, MinedHash
<1>5. last' = last \/ (sync.latest # Null /\ last' = sync.latest)
  BY DEF SyncStep, SyncFault, GetLatestStored, GetCurrentBlock, ChooseRange, RefreshLast, SyncDone,
         FetchStep, ChunkFrame
<1>6. WorkerHoldsMined'
  BY <1>1, <1>5 DEF WorkerHoldsMined, SyncHoldsMined, MinedHash
<1>7. CASE ChunkFrame /\ (StartChunk("sync") \/ ChunkSaved("sync") \/ NextChunk("sync"))
  BY <1>2, <1>4, <1>6, <1>7, ChunkMined
<1>8. CASE ~(ChunkFrame /\ (StartChunk("sync") \/ ChunkSaved("sync") \/ NextChunk("sync")))
  <2>1. jobs' = jobs
    BY <1>8 DEF SyncStep, SyncFault, SyncFrame, FetchStep, rangeVars
  <2>2. pc'["poll"] = pc["poll"]
    BY <1>8, TheTasks
       DEF SyncStep, SyncFault, GetLatestStored, GetCurrentBlock, ChooseRange, RefreshLast, SyncDone,
           SaveBlocksInRange, Abort, FetchStep, GetLogs, TooManyLogs, SplitRange, SaveEvents, EndOfRange,
           Goto, TypeInv, TypeOK, ActivityTypeOK
  <2> QED BY <1>1, <1>2, <1>4, <1>6, <2>1, <2>2 DEF JobsMined, PollStartsClean
<1> QED BY <1>7, <1>8

LEMMA JobKeepsMined ==
    ASSUME TypeInv, MinedInv, mined' = mined, JobStep \/ JobFault
    PROVE  /\ WorkerHoldsMined' /\ SyncHoldsMined' /\ PollHoldsMined' /\ PollStartsClean'
           /\ CacheMined' /\ JobsMined'
<1> USE DEF MinedInv
<1>1. PICK j \in jobs : \/ AnsweredLater(j) \/ NothingReceived(j)
                        \/ BlockReceived(j) \/ BlockSaved(j) \/ Rejected(j)
  BY JobCases
<1>2. j \in Jobs /\ jobs \subseteq Jobs
  BY DEF TypeInv, TypeOK, ActivityTypeOK
<1>3. UNCHANGED <<queue, header, last>>
  BY JobCases DEF JobFrame, wsVars
<1>4. WorkerHoldsMined'
  BY <1>3 DEF WorkerHoldsMined, MinedHash
<1>5. sync' = sync \/ sync' = NoSync
  BY <1>1 DEF AnsweredLater, NothingReceived, BlockReceived, BlockSaved, Rejected, Abort
<1>6. SyncHoldsMined'
  BY <1>5 DEF SyncHoldsMined, NoSync, MinedHash
<1>7. poll' = NoPoll \/ (poll' = poll /\ pc'["poll"] = pc["poll"])
  <2>1. CASE UNCHANGED <<pc, poll>>
    BY <2>1
  <2>2. CASE Abort(j.owner)
    BY <1>2, <2>2, TheTasks DEF Abort, Goto, Jobs, TypeInv, TypeOK, ActivityTypeOK
  <2> QED BY <1>1, <2>1, <2>2 DEF AnsweredLater, NothingReceived, BlockReceived, BlockSaved, Rejected
<1>8. PollHoldsMined' /\ PollStartsClean'
  BY <1>7 DEF PollHoldsMined, PollStartsClean, IsCurrent, MinedHash, NoPoll, EmptyTable
<1>9. CacheMined'
  <2>1. cache' = cache \/ (j.block # Null /\ cache' = [cache EXCEPT ![j.number] = j.block])
    BY <1>1 DEF AnsweredLater, NothingReceived, BlockReceived, BlockSaved, Rejected
  <2>2. cache \in [Heights -> Blocks \cup {Null}]
    BY DEF TypeInv, TypeOK, ServiceTypeOK
  <2> QED BY <2>1, <2>2 DEF CacheMined, JobsMined
<1>10. ASSUME NEW i \in jobs', i.block # Null
       PROVE  i.block \in mined /\ i.block.number = i.number
  <2>1. CASE \E k \in jobs : i.block = k.block /\ i.number = k.number
    BY <1>10, <2>1 DEF JobsMined
  <2>2. CASE AnsweredLater(j)
    <3>1. PICK lagging : jobs' = (jobs \ {j}) \cup {[j EXCEPT !.block = Answer(j.number, lagging)]}
      BY <2>2 DEF AnsweredLater
    <3>2. CASE i = [j EXCEPT !.block = Answer(j.number, lagging)]
      <4>1. i.block = Answer(j.number, lagging) /\ i.number = j.number /\ j.number \in Heights
        BY <1>2, <3>2 DEF Jobs
      <4> QED BY <1>10, <4>1, AnsweredMined
    <3> QED BY <2>1, <3>1, <3>2
  <2>3. CASE BlockReceived(j)
    BY <1>2, <1>10, <2>1, <2>3 DEF BlockReceived, Jobs
  <2>4. CASE NothingReceived(j) \/ BlockSaved(j)
    BY <1>10, <2>1, <2>4 DEF NothingReceived, BlockSaved
  <2>5. CASE Rejected(j)
    BY <1>2, <1>10, <2>1, <2>5 DEF Rejected, Jobs
  <2> QED BY <1>1, <2>2, <2>3, <2>4, <2>5
<1>11. JobsMined'
  BY <1>10 DEF JobsMined
<1> QED BY <1>4, <1>6, <1>8, <1>9, <1>11

\* A record is done with: the others stay.
LEMMA RecordLeft ==
    ASSUME TypeInv, MinedInv, mined' = mined, NEW n,
           poll' = [poll EXCEPT !.todo = Without(@, n), !.rpcBlock = Null],
           pc' = [pc EXCEPT !["poll"] = "verify"]
    PROVE  PollHoldsMined' /\ PollStartsClean'
<1>1. IsPoll(poll) /\ pc \in [Tasks -> PcLabels]
  BY DEF TypeInv, TypeOK, ActivityTypeOK
<1>2. pc'["poll"] = "verify"
  BY <1>1, TheTasks
<1> DEFINE todo == Without(poll.todo, n)
<1>3. \A m \in DOMAIN todo : m \in DOMAIN poll.todo /\ todo[m] = poll.todo[m]
  BY DEF Without
<1> HIDE DEF todo
<1>4. poll' = [poll EXCEPT !.todo = todo, !.rpcBlock = Null]
  BY DEF todo
<1>5. poll'.rpcBlock = Null /\ poll'.todo = todo
  BY <1>1, <1>4 DEF IsPoll
<1> QED BY <1>2, <1>3, <1>5
        DEF MinedInv, PollHoldsMined, PollStartsClean, BeforeVerify, MinedHash

\* What the poll compares with is the block of the node with the number of the
\* record, or the one the cache holds under it.
LEMMA CompareMined ==
    ASSUME TypeInv, MinedInv, mined' = mined, NEW n, n \in Heights, IsCurrent(n),
           NEW b, b # Null => b \in mined /\ b.number = n, Compare(n, b)
    PROVE  PollHoldsMined' /\ PollStartsClean'
<1>1. IsPoll(poll) /\ pc \in [Tasks -> PcLabels]
  BY DEF TypeInv, TypeOK, ActivityTypeOK
<1>2. CASE Differs(n, b)
  <2>1. b # Null /\ poll' = [poll EXCEPT !.rpcBlock = b] /\ pc' = [pc EXCEPT !["poll"] = "logged"]
    BY <1>2 DEF Differs, Compare, Goto
  <2>2. poll'.rpcBlock = b /\ poll'.todo = poll.todo
    BY <1>1, <2>1 DEF IsPoll
  <2>3. pc'["poll"] = "logged"
    BY <1>1, <2>1, TheTasks
  <2> QED BY <2>1, <2>2, <2>3
          DEF MinedInv, PollHoldsMined, PollStartsClean, BeforeVerify, IsCurrent, MinedHash
<1>3. CASE ~Differs(n, b)
  <2>1. /\ poll' = [poll EXCEPT !.todo = Without(@, n), !.rpcBlock = Null]
        /\ pc' = [pc EXCEPT !["poll"] = "verify"]
    BY <1>3 DEF Compare, NextRecord, Goto
  <2> QED BY <2>1, RecordLeft
<1> QED BY <1>2, <1>3

LEMMA VerifyKeepsMined ==
    ASSUME TypeInv, MinedInv, mined' = mined, VerifyStep
    PROVE  PollHoldsMined' /\ PollStartsClean' /\ CacheMined'
<1> USE DEF MinedInv
<1>1. PICK n \in Heights :
        /\ IsCurrent(n)
        /\ \/ VerifyCached(n) \/ RequestBlock(n) \/ VerifyReceived(n) \/ SelectRecord(n)
           \/ SaveRecord(n) \/ RollBackRecord(n) \/ CollectRecord(n) \/ RecordDone(n)
  BY DEF VerifyStep
<1>2. IsPoll(poll) /\ pc \in [Tasks -> PcLabels] /\ cache \in [Heights -> Blocks \cup {Null}]
  BY DEF TypeInv, TypeOK, ActivityTypeOK, ServiceTypeOK
<1>3. poll.rpcBlock # Null => poll.rpcBlock \in mined /\ poll.rpcBlock.number = n
  BY <1>1, TheCurrent DEF PollHoldsMined
<1>4. ASSUME cache' = cache PROVE CacheMined'
  BY <1>4 DEF CacheMined
<1>5. CASE VerifyCached(n)
  <2>1. Compare(n, cache[n]) /\ cache' = cache
    BY <1>5 DEF VerifyCached
  <2> QED BY <1>1, <1>4, <2>1, CompareMined DEF CacheMined
<1>6. CASE VerifyReceived(n)
  <2>1. Compare(n, poll.rpcBlock)
    BY <1>6 DEF VerifyReceived
  <2>2. CacheMined'
    BY <1>2, <1>3, <1>6 DEF VerifyReceived, CacheMined
  <2> QED BY <1>1, <1>3, <2>1, <2>2, CompareMined
<1>7. CASE RequestBlock(n)
  <2>1. PICK lagging : poll' = [poll EXCEPT !.rpcBlock = Answer(n, lagging)]
    BY <1>7 DEF RequestBlock
  <2> DEFINE b == Answer(n, lagging)
  <2>3. b # Null => b \in mined /\ b.number = n
    BY AnsweredMined
  <2> HIDE DEF b
  <2>4. poll' = [poll EXCEPT !.rpcBlock = b]
    BY <2>1 DEF b
  <2>5. poll'.rpcBlock = b /\ poll'.todo = poll.todo
    BY <1>2, <2>4 DEF IsPoll
  <2>6. pc'["poll"] = "block"
    BY <1>2, <1>7, TheTasks DEF RequestBlock, Goto
  <2> QED BY <1>1, <1>4, <1>7, <2>3, <2>5, <2>6
          DEF RequestBlock, PollHoldsMined, PollStartsClean, BeforeVerify, IsCurrent, MinedHash
<1>8. CASE RecordDone(n)
  <2>1. /\ poll' = [poll EXCEPT !.todo = Without(@, n), !.rpcBlock = Null]
        /\ pc' = [pc EXCEPT !["poll"] = "verify"] /\ cache' = cache
    BY <1>8 DEF RecordDone, NextRecord, Goto
  <2> QED BY <1>4, <2>1, RecordLeft
<1>9. CASE SelectRecord(n) \/ SaveRecord(n) \/ RollBackRecord(n) \/ CollectRecord(n)
  <2>1. poll' = poll /\ cache' = cache
    BY <1>9 DEF SelectRecord, SaveRecord, RollBackRecord, CollectRecord
  <2>2. pc'["poll"] \in {"selected", "saved", "rolledBack", "fetch"}
    BY <1>2, <1>9, TheTasks DEF SelectRecord, SaveRecord, RollBackRecord, CollectRecord, BeginFetch, Goto
  <2> QED BY <1>4, <2>1, <2>2 DEF PollHoldsMined, PollStartsClean, BeforeVerify, IsCurrent, MinedHash
<1> QED BY <1>1, <1>5, <1>6, <1>7, <1>8, <1>9

LEMMA FindToVerifyMined ==
    ASSUME TypeInv, MinedInv, mined' = mined, FindBlocksToVerify
    PROVE  PollHoldsMined' /\ PollStartsClean'
<1>1. IsPoll(poll) /\ pc \in [Tasks -> PcLabels] /\ IsTable(blocks)
  BY DEF TypeInv, TypeOK, ActivityTypeOK, DatabaseTypeOK
<1>2. poll.rpcBlock = Null
  BY DEF FindBlocksToVerify, SafeSettled, MinedInv, PollStartsClean, BeforeVerify
<1> DEFINE todo == FindUnfinalizedAndSafeBlocks(blocks)
<1>3. \A n \in DOMAIN todo : n \in DOMAIN blocks /\ todo[n] = blocks[n]
  BY DEF FindUnfinalizedAndSafeBlocks
<1>4. poll' = [poll EXCEPT !.todo = todo]
  BY DEF FindBlocksToVerify
<1>5. pc'["poll"] = "verify"
  BY <1>1, TheTasks DEF FindBlocksToVerify, Goto
<1> HIDE DEF todo
<1>6. poll'.rpcBlock = Null /\ poll'.todo = todo
  BY <1>1, <1>2, <1>4 DEF IsPoll
<1> QED BY <1>3, <1>5, <1>6
        DEF MinedInv, RowsMined, Numbers, PollHoldsMined, PollStartsClean, BeforeVerify, MinedHash

LEMMA PollKeepsMined ==
    ASSUME TypeInv, MinedInv, mined' = mined, PollStep \/ PollFault \/ FetchFault("poll")
    PROVE  /\ WorkerHoldsMined' /\ SyncHoldsMined' /\ PollHoldsMined' /\ PollStartsClean'
           /\ CacheMined' /\ JobsMined'
<1> USE DEF MinedInv
<1>1. UNCHANGED <<queue, header, last, sync>>
  BY DEF PollStep, PollFault, PollFrame, FetchStep, FetchFault, ChunkFrame, wsVars
<1>2. WorkerHoldsMined' /\ SyncHoldsMined'
  BY <1>1 DEF WorkerHoldsMined, SyncHoldsMined, MinedHash
<1>3. IsPoll(poll) /\ pc \in [Tasks -> PcLabels]
  BY DEF TypeInv, TypeOK, ActivityTypeOK
<1>4. CASE VerifyStep
  <2>1. jobs' = jobs
    BY <1>4 DEF VerifyStep, VerifyCached, RequestBlock, VerifyReceived, SelectRecord, SaveRecord,
                RollBackRecord, CollectRecord, RecordDone
  <2> QED BY <1>2, <1>4, <2>1, VerifyKeepsMined DEF JobsMined
<1>5. CASE ChunkFrame /\ (StartChunk("poll") \/ ChunkSaved("poll") \/ NextChunk("poll"))
  <2>1. cache' = cache /\ poll' = poll
    BY <1>5 DEF ChunkFrame
  <2> QED BY <1>2, <1>5, <2>1, ChunkMined DEF CacheMined, PollHoldsMined, IsCurrent, MinedHash
<1>6. CASE FindBlocksToVerify
  BY <1>2, <1>6, FindToVerifyMined DEF FindBlocksToVerify, CacheMined, JobsMined
<1>7. ASSUME UNCHANGED <<cache, jobs>>,
             \/ poll' = NoPoll
             \/ /\ poll'.todo = poll.todo /\ poll'.rpcBlock = poll.rpcBlock
                /\ pc'["poll"] \in BeforeVerify => pc["poll"] \in BeforeVerify
      PROVE  PollHoldsMined' /\ PollStartsClean' /\ CacheMined' /\ JobsMined'
  BY <1>7 DEF PollHoldsMined, PollStartsClean, CacheMined, JobsMined, IsCurrent, MinedHash,
              NoPoll, EmptyTable
<1>8. CASE TagMissing \/ PollDone
  BY <1>2, <1>7, <1>8 DEF TagMissing, PollDone, Abort
<1>11. CASE PollFails
  <2>1. poll' = NoPoll /\ jobs' = jobs
    BY <1>11 DEF PollFails, Abort
  <2>2. PICK n \in Heights : cache' \in FailedCache(n)
    BY <1>11 DEF PollFails
  <2>3. \/ cache' = cache
        \/ /\ poll.rpcBlock # Null /\ IsCurrent(n)
           /\ cache' = [cache EXCEPT ![n] = poll.rpcBlock]
    BY <2>2 DEF FailedCache, Differs
  <2>4. poll.rpcBlock # Null /\ IsCurrent(n) => poll.rpcBlock \in mined /\ poll.rpcBlock.number = n
    BY TheCurrent DEF PollHoldsMined
  <2>5. CacheMined'
    BY <2>3, <2>4 DEF CacheMined, TypeInv, TypeOK, ServiceTypeOK
  <2>6. PollHoldsMined' /\ PollStartsClean' /\ JobsMined'
    BY <2>1 DEF PollHoldsMined, PollStartsClean, JobsMined, NoPoll, EmptyTable
  <2> QED BY <1>2, <2>5, <2>6
<1>9. CASE StartPolling \/ GetFinalizedTag \/ UpdateSafe \/ UpdateFinalized
  <2>1. poll'.todo = poll.todo /\ poll'.rpcBlock = poll.rpcBlock
    BY <1>3, <1>9 DEF StartPolling, GetFinalizedTag, UpdateSafe, UpdateFinalized, IsPoll
  <2>2. pc["poll"] \in BeforeVerify /\ UNCHANGED <<cache, jobs>>
    BY <1>9 DEF StartPolling, GetFinalizedTag, UpdateSafe, UpdateFinalized, SafeSettled,
                IsPolling, BeforeVerify
  <2> QED BY <1>2, <1>7, <2>1, <2>2
<1>10. CASE FindGaps \/ TakeGap \/ GapDone \/ FetchStep("poll") \/ FetchFault("poll")
  <2>1. poll'.todo = poll.todo /\ poll'.rpcBlock = poll.rpcBlock
    BY <1>3, <1>10 DEF FindGaps, TakeGap, GapDone, FetchStep, FetchFault, IsPoll
  <2>2. pc'["poll"] \in {"gaps", "range", "logs", "fetch"}
    BY <1>3, <1>10, TheTasks
       DEF FindGaps, TakeGap, GapDone, SaveBlocksInRange, FetchStep, FetchFault, GetLogs, TooManyLogs,
           SplitRange, SaveEvents, EndOfRange, GetLogsFails, SaveEventsFails, Goto
  <2>3. UNCHANGED <<cache, jobs>>
    BY <1>10 DEF FindGaps, TakeGap, GapDone, FetchStep, FetchFault, rangeVars
  <2> QED BY <1>2, <1>7, <2>1, <2>2, <2>3 DEF BeforeVerify
<1> QED BY <1>4, <1>5, <1>6, <1>8, <1>9, <1>10, <1>11 DEF PollStep, PollFault

LEMMA MinedInvStep ==
    TypeInv /\ MinedInv /\ [Next]_vars => MinedInv'
<1> SUFFICES ASSUME TypeInv, MinedInv, [Next]_vars PROVE MinedInv'
  OBVIOUS
<1>1. CASE NewBlock
  BY <1>1, NewBlockMined
<1>2. CASE ~NewBlock
  <2>1. mined' = mined /\ RowsMined'
    BY <1>2, MinedGrows, RowsStayMined
  <2>2. ChainMined'
    <3>1. \A n \in Int : Block(n)' = Block(n)
      BY <1>2, MinedGrows
    <3>2. head' = head /\ head \in Int
      BY <1>2, MinedGrows, HeightsAreNumbers DEF TypeInv, TypeOK, NodeTypeOK
    <3> QED BY <2>1, <3>1, <3>2 DEF MinedInv, ChainMined, MinedHash
  <2>3. CASE WorkerStep \/ WorkerFault
    BY <2>1, <2>2, <2>3, WorkerKeepsMined, WorkerLeavesMined DEF MinedInv
  <2>4. CASE PollStep \/ PollFault \/ FetchFault("poll")
    BY <2>1, <2>2, <2>4, PollKeepsMined DEF MinedInv
  <2>5. CASE SyncStep \/ SyncFault
    BY <2>1, <2>2, <2>5, SyncKeepsMined DEF MinedInv
  <2>6. CASE JobStep \/ JobFault
    BY <2>1, <2>2, <2>6, JobKeepsMined DEF MinedInv
  <2>7. CASE FetchFault("worker") \/ FetchFault("sync")
    <3>1. UNCHANGED <<queue, header, last>>
      BY <2>7 DEF FetchFault, wsVars
    <3>2. WorkerHoldsMined'
      BY <2>1, <3>1 DEF MinedInv, WorkerHoldsMined, MinedHash
    <3> QED BY <2>1, <2>2, <2>7, <3>2, WorkerLeavesMined DEF MinedInv
  <2>8. CASE AdvanceTags \/ DropSocket \/ UNCHANGED vars
    <3>1. UNCHANGED <<queue, header, last, sync, poll, cache, jobs, pc>>
      BY <2>8 DEF AdvanceTags, DropSocket, vars, wsVars, rangeVars
    <3> QED BY <2>1, <2>2, <3>1
            DEF MinedInv, WorkerHoldsMined, SyncHoldsMined, PollHoldsMined, PollStartsClean, CacheMined,
                JobsMined, IsCurrent, MinedHash
  <2>9. CASE Crash \/ Boot
    <3>1. \E labels : FreshMemory(labels)
      BY <2>9 DEF Crash, Boot
    <3> QED BY <2>1, <2>2, <3>1
            DEF FreshMemory, NoPoll, NoSync, EmptyTable, MinedInv, WorkerHoldsMined, SyncHoldsMined,
                PollHoldsMined, PollStartsClean, CacheMined, JobsMined
  <2> QED BY <1>2, <2>3, <2>4, <2>5, <2>6, <2>7, <2>8, <2>9 DEF Next, TaskFault
<1> QED BY <1>1, <1>2

LEMMA MinedInvHolds ==
    Spec => [](TypeInv /\ MinedInv)
  BY InitTypes, TypeInvStep, InitMined, MinedInvStep, PTL DEF Spec

\* Every hash in the table, every cached block and every block a pending save
\* holds was mined with the number it is stored under, whatever the chain does
\* between the await points and in whatever order the saves run.
THEOREM OnlyMinedBlocksAreStored ==
    Spec => []StoredHashesWereMined
<1>1. MinedInv => StoredHashesWereMined
  BY DEF MinedInv, RowsMined, CacheMined, JobsMined, StoredHashesWereMined
<1> QED BY <1>1, MinedInvHolds, PTL

(***************************************************************************)
(*                    The table is a ledger                                *)
(***************************************************************************)

Entries == [n \in Numbers |-> [hash |-> blocks[n].blockHash, status |-> blocks[n].status]]
MinedPairs == {<<b.number, b.hash>> : b \in mined}

LEMMA PairsAreMined ==
    ASSUME NEW n, NEW hash
    PROVE  MinedHash(n, hash) <=> <<n, hash>> \in MinedPairs
  BY DEF MinedHash, MinedPairs

\* A save is a Store of the ledger.
LEMMA WriteStores ==
    ASSUME NEW n, NEW hash, WritesRow(n, hash)
    PROVE  LET status == blocks'[n].status
           IN  /\ status = UNFINALIZED \/ (n \in DOMAIN Entries /\ status = Entries[n].status)
               /\ Entries' = [m \in DOMAIN Entries \cup {n} |->
                                 IF m = n THEN [hash |-> hash, status |-> status] ELSE Entries[m]]
<1> DEFINE status == blocks'[n].status
           stored == [m \in DOMAIN Entries \cup {n} |->
                         IF m = n THEN [hash |-> hash, status |-> status] ELSE Entries[m]]
<1>1. status = UNFINALIZED \/ (n \in DOMAIN Entries /\ status = Entries[n].status)
  BY DEF WritesRow, Entries, Numbers
<1>2. Entries' = [m \in DOMAIN blocks' |->
                     [hash |-> blocks'[m].blockHash, status |-> blocks'[m].status]]
  BY DEF Entries, Numbers
<1>3. DOMAIN blocks' = DOMAIN Entries \cup {n}
  BY DEF WritesRow, Entries, Numbers
<1>4. ASSUME NEW m \in DOMAIN blocks'
      PROVE  [hash |-> blocks'[m].blockHash, status |-> blocks'[m].status] = stored[m]
  BY <1>3, <1>4 DEF WritesRow, Entries, Numbers
<1>5. Entries' = stored
  BY <1>2, <1>3, <1>4
<1> QED BY <1>1, <1>5

\* An UPDATE of the statuses is a Raise.
LEMMA StatusRaises ==
    ASSUME IsTable(blocks), NEW n, NEW status, RaisesStatus(n, status)
    PROVE  Entries' = [m \in DOMAIN Entries |->
                          IF m <= n /\ Entries[m].status # FINALIZED
                          THEN [Entries[m] EXCEPT !.status = status]
                          ELSE Entries[m]]
<1>1. blocks' = [m \in DOMAIN blocks |->
                    IF m <= n /\ blocks[m].status \notin {status, FINALIZED}
                    THEN [blocks[m] EXCEPT !.status = status]
                    ELSE blocks[m]]
  BY DEF RaisesStatus, UpdateStatusUpToBlock
<1>2. Entries' = [m \in DOMAIN blocks |->
                     [hash |-> blocks'[m].blockHash, status |-> blocks'[m].status]]
  BY <1>1 DEF Entries, Numbers
<1>3. DOMAIN Entries = DOMAIN blocks
  BY DEF Entries, Numbers
<1>4. ASSUME NEW m \in DOMAIN blocks
      PROVE  [hash |-> blocks'[m].blockHash, status |-> blocks'[m].status]
             = IF m <= n /\ Entries[m].status # FINALIZED
               THEN [Entries[m] EXCEPT !.status = status]
               ELSE Entries[m]
  <2>1. blocks[m] \in [blockHash : Hashes, parentHash : Hashes, status : BlockStatus, timestamp : Hashes]
    BY DEF IsTable, Rows, BlockRecord
  <2>2. Entries[m] = [hash |-> blocks[m].blockHash, status |-> blocks[m].status]
    BY DEF Entries, Numbers
  <2>3. blocks'[m] = IF m <= n /\ blocks[m].status \notin {status, FINALIZED}
                     THEN [blocks[m] EXCEPT !.status = status] ELSE blocks[m]
    BY <1>1
  <2> QED BY <2>1, <2>2, <2>3
<1> QED BY <1>2, <1>3, <1>4

\* The highest number that had the safe tag bounds the tag, which a
\* reorganisation sets back, and the one a poll holds.
SafetyInv == safe <= safeSeen /\ poll.safe <= safeSeen

LEMMA SafeTagRises ==
    ASSUME TypeInv, SafetyInv, [Next]_vars
    PROVE  safeSeen <= safeSeen' /\ safe' <= safeSeen'
<1>1. safe \in Int /\ safeSeen \in Int /\ safe <= safeSeen
  BY HeightsAreNumbers DEF SafetyInv, TypeInv, TypeOK, NodeTypeOK
<1>2. CASE UNCHANGED <<safe, safeSeen>>
  BY <1>1, <1>2
<1>3. CASE NewBlock
  <2>1. CASE Extend
    BY <1>1, <2>1 DEF Extend
  <2>2. ASSUME NEW n \in Heights, NEW h \in Heights, Reorg(n, h)
        PROVE  safeSeen <= safeSeen' /\ safe' <= safeSeen'
    BY <1>1, <2>2, HeightsAreNumbers DEF Reorg
  <2> QED BY <1>3, <2>1, <2>2 DEF NewBlock, NewTip
<1>4. CASE AdvanceTags
  BY <1>1, <1>4 DEF AdvanceTags, AdvanceSafe, AdvanceFinalized
<1>5. CASE ~NewBlock /\ ~AdvanceTags
  <2>1. UNCHANGED <<safe, safeSeen>>
    BY <1>5 DEF Next, TaskFault, DropSocket, WorkerStep, WorkerFault, WorkerFrame, PollStep, PollFault,
                PollFrame, SyncStep, SyncFault, SyncFrame, ChunkFrame, JobStep, JobFault, JobFrame,
                FetchStep, FetchFault, Crash, Boot, vars, nodeVars
  <2> QED BY <1>1, <2>1
<1> QED BY <1>3, <1>4, <1>5

LEMMA PollSafeTagIsOld ==
    ASSUME TypeInv, [Next]_vars
    PROVE  poll'.safe \in {poll.safe, safe, 0}
<1>1. IsPoll(poll)
  BY DEF TypeInv, TypeOK, ActivityTypeOK
<1>2. CASE poll' = poll \/ poll' = NoPoll
  BY <1>2 DEF NoPoll
<1>3. CASE StartPolling \/ GetFinalizedTag \/ FindBlocksToVerify \/ FindGaps \/ TakeGap
  BY <1>1, <1>3 DEF StartPolling, GetFinalizedTag, FindBlocksToVerify, FindGaps, TakeGap, IsPoll
<1>4. CASE VerifyStep
  BY <1>1, <1>4 DEF VerifyStep, VerifyCached, RequestBlock, VerifyReceived, SelectRecord,
                    SaveRecord, RollBackRecord, CollectRecord, RecordDone, Compare, NextRecord, IsPoll
<1>5. CASE PollStep \/ PollFault
  <2>1. CASE ~(StartPolling \/ GetFinalizedTag \/ FindBlocksToVerify \/ FindGaps \/ TakeGap \/ VerifyStep)
    <3>1. poll' = poll \/ poll' = NoPoll
      BY <1>5, <2>1 DEF PollStep, PollFault, PollDone, PollFails, TagMissing, Abort, UpdateSafe,
                        UpdateFinalized, GapDone, FetchStep, ChunkFrame
    <3> QED BY <1>2, <3>1
  <2> QED BY <1>3, <1>4, <2>1
<1>6. CASE JobStep \/ JobFault
  <2>1. poll' = poll \/ poll' = NoPoll
    BY <1>6, JobCases DEF AnsweredLater, NothingReceived, BlockReceived, BlockSaved, Rejected, Abort
  <2> QED BY <1>2, <2>1
<1>7. CASE ~(PollStep \/ PollFault) /\ ~(JobStep \/ JobFault)
  <2>1. poll' = poll \/ poll' = NoPoll
    BY <1>7 DEF Next, TaskFault, WorkerStep, WorkerFault, WorkerFrame, SyncStep, SyncFault, SyncFrame,
                Abort, FetchStep, FetchFault, ChunkFrame, NewBlock, AdvanceTags, DropSocket, Crash, Boot,
                FreshMemory, vars
  <2> QED BY <1>2, <2>1
<1> QED BY <1>5, <1>6, <1>7

LEMMA SafetyInvStep ==
    TypeInv /\ SafetyInv /\ [Next]_vars => SafetyInv'
<1> SUFFICES ASSUME TypeInv, SafetyInv, [Next]_vars PROVE SafetyInv'
  OBVIOUS
<1>1. /\ safe \in Nat /\ safeSeen \in Nat /\ poll.safe \in Nat /\ safeSeen' \in Nat
      /\ safe <= safeSeen /\ poll.safe <= safeSeen
  BY HeightsAreNumbers, TypeInvStep
     DEF SafetyInv, TypeInv, TypeOK, NodeTypeOK, ActivityTypeOK, IsPoll
<1>2. safeSeen <= safeSeen' /\ safe' <= safeSeen' /\ poll'.safe \in {poll.safe, safe, 0}
  BY SafeTagRises, PollSafeTagIsOld
<1> QED BY <1>1, <1>2 DEF SafetyInv

LEMMA InitSafety ==
    Init => SafetyInv
  BY DEF Init, NodeInit, NoPoll, SafetyInv

LEMMA LedgerInit ==
    Init => Ledger!Init
<1> SUFFICES ASSUME Init PROVE Ledger!Init
  OBVIOUS
<1>1. RowsMined
  BY InitMined DEF MinedInv
<1>2. \A n \in DOMAIN blocks : blocks[n].status = UNFINALIZED
  BY DEF Init, NewRecord
<1> QED BY <1>1, <1>2, PairsAreMined
        DEF Ledger!Init, RowsMined, Numbers, MinedPairs, UNFINALIZED

LEMMA LedgerStep ==
    TypeInv /\ FinalityInv /\ SafetyInv /\ MinedInv /\ [Next]_vars => [Ledger!Next]_(Ledger!vars)
<1> SUFFICES ASSUME TypeInv, FinalityInv, SafetyInv, MinedInv, [Next]_vars
             PROVE  Ledger!Next \/ UNCHANGED Ledger!vars
  OBVIOUS
<1>1. CASE blocks' = blocks
  <2>1. MinedPairs \subseteq MinedPairs'
    BY MinedGrows DEF MinedPairs
  <2>2. finalized <= finalized'
    BY TagIsOld, HeightsAreNumbers DEF TypeInv, TypeOK, NodeTypeOK
  <2>3. safeSeen <= safeSeen'
    BY SafeTagRises
  <2> QED BY <1>1, <2>1, <2>2, <2>3 DEF Ledger!Next, Ledger!NodeMoves, MinedPairs, Numbers
<1>2. CASE WritesTable /\ UNCHANGED <<mined, safeSeen, finalized>>
  <2>1. PICK n \in Heights : \/ \E hash \in Hashes : WritesRow(n, hash)
                             \/ \E status \in {SAFE, FINALIZED} : RaisesStatus(n, status)
    BY <1>2 DEF WritesTable
  <2>2. CASE \E hash \in Hashes : WritesRow(n, hash)
    <3>1. PICK hash \in Hashes : WritesRow(n, hash)
      BY <2>2
    <3>2. <<n, hash>> \in MinedPairs
      BY <3>1, PairsAreMined DEF WritesRow
    <3> DEFINE status == blocks'[n].status
               choice == {"UNFINALIZED"} \cup {Entries[m].status : m \in DOMAIN Entries \cap {n}}
               stored == [m \in DOMAIN Entries \cup {n} |->
                             IF m = n THEN [hash |-> hash, status |-> status] ELSE Entries[m]]
    <3>3. status \in choice /\ Entries' = stored
      BY <3>1, WriteStores DEF UNFINALIZED
    <3>4. MinedPairs' = MinedPairs /\ safeSeen' = safeSeen /\ finalized' = finalized
      BY <1>2 DEF MinedPairs
    <3>5. Ledger!Store(n, hash)
      BY <3>2, <3>3, <3>4 DEF Ledger!Store, Entries, MinedPairs
    <3> QED BY <3>5 DEF Ledger!Next
  <2>3. CASE \E status \in {SAFE, FINALIZED} : RaisesStatus(n, status)
    <3>1. PICK status \in {SAFE, FINALIZED} : RaisesStatus(n, status)
      BY <2>3
    <3>2. n <= IF status = "SAFE" THEN safeSeen ELSE finalized
      BY <3>1 DEF RaisesStatus, FinalityInv, SafetyInv, SAFE
    <3> DEFINE raised == [m \in DOMAIN Entries |->
                             IF m <= n /\ Entries[m].status # "FINALIZED"
                             THEN [Entries[m] EXCEPT !.status = status]
                             ELSE Entries[m]]
    <3>3. Entries' = raised
      BY <3>1, StatusRaises DEF FINALIZED, TypeInv, TypeOK, DatabaseTypeOK
    <3>4. MinedPairs' = MinedPairs /\ safeSeen' = safeSeen /\ finalized' = finalized
      BY <1>2 DEF MinedPairs
    <3>5. Ledger!Raise(n, status)
      BY <3>2, <3>3, <3>4 DEF Ledger!Raise, Entries, MinedPairs, FINALIZED
    <3> QED BY <3>1, <3>5 DEF Ledger!Next, SAFE, FINALIZED
  <2> QED BY <2>1, <2>2, <2>3
<1> QED BY <1>1, <1>2, TableSteps

\* The table implements the ledger: every save of the worker, of the poll and of
\* the pending saves is one Store of a mined block, the UPDATEs of the poll are a
\* Raise up to a number the node has called safe, or finalized, and nothing else
\* changes a row.
THEOREM TableIsALedger ==
    Spec => KeepsLedger
<1>1. Spec => [](TypeInv /\ FinalityInv /\ SafetyInv /\ MinedInv)
  BY InitTypes, TypeInvStep, InitFinality, FinalityInvStep, InitSafety,
     SafetyInvStep, InitMined, MinedInvStep, PTL DEF Spec
<1> QED BY <1>1, LedgerInit, LedgerStep, PTL DEF Spec, KeepsLedger, Ledger!Spec

(***************************************************************************)
(*                          The reorg logs                                 *)
(***************************************************************************)

\* A log the step adds, if it adds one, names two different blocks that were
\* mined with its number.
RealLog(l) ==
    /\ l.oldHash # l.newHash
    /\ MinedHash(l.blockNumber, l.oldHash)
    /\ MinedHash(l.blockNumber, l.newHash)

\* The header that does not fit lastProcessed* has the next number, so that its
\* parent was mined with the number of the log.
LEMMA WorkerLogsReal ==
    ASSUME TypeInv, MinedInv, TakeHeader, NEW l \in reorgLogs', l \notin reorgLogs
    PROVE  RealLog(l)
<1> DEFINE block == Head(queue)
<1>1. queue # <<>> /\ block \in mined
  BY TailMined DEF TakeHeader, TypeInv, TypeOK, ServiceTypeOK, MinedInv, WorkerHoldsMined
<1> HIDE DEF block
<1>2. /\ last # Null /\ block.number = last.number + 1 /\ block.parentHash # last.hash
      /\ l = [blockNumber |-> last.number, oldHash |-> last.hash, newHash |-> block.parentHash]
  BY DEF TakeHeader, IsReorg, block
<1>3. last.number \in Nat /\ MinedHash(last.number, last.hash)
  BY <1>2, HeightsAreNumbers
     DEF MinedInv, WorkerHoldsMined, TypeInv, TypeOK, ServiceTypeOK, LastSeen
<1>4. block.number > 0 /\ block.number - 1 = last.number
  BY <1>2, <1>3
<1>5. MinedHash(last.number, block.parentHash)
  BY <1>1, <1>4 DEF MinedInv, ChainMined
<1> QED BY <1>2, <1>3, <1>5 DEF RealLog

LEMMA CompareLogsReal ==
    ASSUME MinedInv, NEW n, IsCurrent(n), NEW b, b # Null => b \in mined /\ b.number = n,
           Compare(n, b), NEW l \in reorgLogs', l \notin reorgLogs
    PROVE  RealLog(l)
<1>1. /\ b # Null /\ b.hash # poll.todo[n].blockHash
      /\ l = [blockNumber |-> n, oldHash |-> poll.todo[n].blockHash, newHash |-> b.hash]
  BY DEF Compare, Differs
<1>2. MinedHash(n, b.hash) /\ MinedHash(n, poll.todo[n].blockHash)
  BY <1>1, BlockIsMined DEF IsCurrent, MinedInv, PollHoldsMined
<1> QED BY <1>1, <1>2 DEF RealLog

LEMMA VerifyLogsReal ==
    ASSUME TypeInv, MinedInv, VerifyStep, NEW l \in reorgLogs', l \notin reorgLogs
    PROVE  RealLog(l)
<1>1. PICK n \in Heights :
        /\ IsCurrent(n)
        /\ \/ VerifyCached(n) \/ RequestBlock(n) \/ VerifyReceived(n) \/ SelectRecord(n)
           \/ SaveRecord(n) \/ RollBackRecord(n) \/ CollectRecord(n) \/ RecordDone(n)
  BY DEF VerifyStep
<1>2. CASE VerifyCached(n)
  BY <1>1, <1>2, CompareLogsReal DEF VerifyCached, MinedInv, CacheMined
<1>3. CASE VerifyReceived(n)
  <2>1. poll.rpcBlock # Null => poll.rpcBlock \in mined /\ poll.rpcBlock.number = n
    BY <1>1, TheCurrent DEF MinedInv, PollHoldsMined
  <2> QED BY <1>1, <1>3, <2>1, CompareLogsReal DEF VerifyReceived
<1>4. VerifyCached(n) \/ VerifyReceived(n)
  BY <1>1 DEF RequestBlock, SelectRecord, SaveRecord, RollBackRecord, CollectRecord, RecordDone, dbVars
<1> QED BY <1>2, <1>3, <1>4

LEMMA ReorgLogsStep ==
    TypeInv /\ MinedInv /\ ReorgLogsAreReal /\ [Next]_vars => ReorgLogsAreReal'
<1> SUFFICES ASSUME TypeInv, MinedInv, ReorgLogsAreReal, [Next]_vars, NEW l \in reorgLogs'
             PROVE  RealLog(l)'
  BY DEF ReorgLogsAreReal, RealLog
<1>1. CASE l \in reorgLogs
  BY <1>1, MinedGrows, HashKept DEF ReorgLogsAreReal, RealLog
<1>2. CASE l \notin reorgLogs
  <2>1. TakeHeader \/ VerifyStep
    BY <1>2
       DEF Next, TaskFault, WorkerStep, WorkerFault, RollBackRealtime, ForgetLast, SaveHeader, DropHeader,
           SaveHeaderConflicts, RememberHeader, QueueEmpty, HeaderFails, PollStep, PollFault, StartPolling,
           GetFinalizedTag, TagMissing, UpdateSafe, UpdateFinalized, FindBlocksToVerify, FindGaps, TakeGap,
           GapDone, PollDone, PollFails, SyncStep, SyncFault, SyncFrame, JobStep, JobFault, JobFrame,
           FetchStep, FetchFault, ChunkFrame, NewBlock, AdvanceTags, DropSocket, Crash, Boot, vars, dbVars
  <2>2. RealLog(l)
    BY <1>2, <2>1, WorkerLogsReal, VerifyLogsReal
  <2> QED BY <2>2, MinedGrows, HashKept DEF RealLog
<1> QED BY <1>1, <1>2

\* A reorg log is never a false alarm: both of its hashes were blocks of its
\* number, and they differ, although the worker takes one from lastProcessed*,
\* which the sync may overwrite, and the other from the parent of a header.
THEOREM ReorgLogsNeverLie ==
    Spec => []ReorgLogsAreReal
<1>1. Init => ReorgLogsAreReal
  BY DEF Init, ReorgLogsAreReal
<1> QED BY <1>1, InitTypes, TypeInvStep, InitMined, MinedInvStep, ReorgLogsStep, PTL DEF Spec

(***************************************************************************)
(*               The verification and FINALIZED rows                       *)
(***************************************************************************)

\* No row under verification has been finalized since the query.
TodoOpen == \A n \in DOMAIN poll.todo : blocks[n].status # FINALIZED

\* todo is filled by the query only, before any row is written.
LEMMA TodoSteps ==
    ASSUME TypeInv, [Next]_vars
    PROVE  \/ DOMAIN poll'.todo \subseteq DOMAIN poll.todo
           \/ FindBlocksToVerify
<1> SUFFICES ASSUME ~FindBlocksToVerify
             PROVE  DOMAIN poll'.todo \subseteq DOMAIN poll.todo
  OBVIOUS
<1>1. IsPoll(poll)
  BY DEF TypeInv, TypeOK, ActivityTypeOK
<1>2. CASE poll' = poll \/ poll' = NoPoll
  BY <1>2 DEF NoPoll, EmptyTable
<1>3. CASE VerifyStep
  <2>1. \/ \E n \in Heights : NextRecord(n)
        \/ \E b : poll' = [poll EXCEPT !.rpcBlock = b]
        \/ poll' = poll
    BY <1>3 DEF VerifyStep, VerifyCached, RequestBlock, VerifyReceived, SelectRecord, SaveRecord,
                RollBackRecord, CollectRecord, RecordDone, Compare
  <2>2. ASSUME NEW n, NextRecord(n) PROVE DOMAIN poll'.todo \subseteq DOMAIN poll.todo
    BY <1>1, <2>2, RecordRemoved DEF NextRecord
  <2> QED BY <1>1, <2>1, <2>2 DEF IsPoll
<1>4. CASE StartPolling \/ GetFinalizedTag \/ FindGaps \/ TakeGap
  BY <1>1, <1>4 DEF StartPolling, GetFinalizedTag, FindGaps, TakeGap, IsPoll
<1>5. CASE PollStep /\ ~VerifyStep /\ ~(StartPolling \/ GetFinalizedTag \/ FindGaps \/ TakeGap)
  BY <1>2, <1>5 DEF PollStep, TagMissing, Abort, UpdateSafe, UpdateFinalized, GapDone, PollDone,
                    FetchStep, ChunkFrame
<1>6. CASE JobStep \/ JobFault
  <2>1. poll' = poll \/ poll' = NoPoll
    BY <1>6, JobCases DEF AnsweredLater, NothingReceived, BlockReceived, BlockSaved, Rejected, Abort
  <2> QED BY <1>2, <2>1
<1>7. CASE ~PollStep /\ ~(JobStep \/ JobFault)
  <2>1. poll' = poll \/ poll' = NoPoll
    BY <1>7 DEF Next, TaskFault, WorkerStep, WorkerFault, WorkerFrame, PollFault, PollFails, Abort,
                SyncStep, SyncFault, SyncFrame, FetchStep, FetchFault, ChunkFrame, NewBlock,
                AdvanceTags, DropSocket, Crash, Boot, FreshMemory, vars
  <2> QED BY <1>2, <2>1
<1> QED BY <1>3, <1>4, <1>5, <1>6, <1>7

LEMMA TodoOpenStep ==
    TypeInv /\ MinedInv /\ TodoOpen /\ [Next]_vars => TodoOpen'
<1> SUFFICES ASSUME TypeInv, MinedInv, TodoOpen, [Next]_vars PROVE TodoOpen'
  OBVIOUS
<1>1. CASE FindBlocksToVerify
  <2>1. poll'.todo = FindUnfinalizedAndSafeBlocks(blocks) /\ blocks' = blocks
    BY <1>1 DEF FindBlocksToVerify, dbVars, TypeInv, TypeOK, ActivityTypeOK, IsPoll
  <2>2. blocks \in [DOMAIN blocks -> BlockRecord(Hashes)]
    BY DEF TypeInv, TypeOK, DatabaseTypeOK, IsTable, Rows
  <2>3. DOMAIN poll'.todo = {n \in DOMAIN blocks : blocks[n].status # FINALIZED}
    BY <2>1, <2>2, FindUnfinalizedAndSafeBlocksResult
  <2> QED BY <2>1, <2>3 DEF TodoOpen
<1>2. CASE ~FindBlocksToVerify
  <2>1. DOMAIN poll'.todo \subseteq DOMAIN poll.todo
    BY <1>2, TodoSteps
  <2> SUFFICES ASSUME NEW m \in DOMAIN poll'.todo PROVE blocks'[m].status # FINALIZED
    BY DEF TodoOpen
  <2>2. m \in DOMAIN poll.todo /\ m \in DOMAIN blocks /\ blocks[m].status # FINALIZED
    BY <2>1 DEF TodoOpen, TypeInv, Links
  <2>3. CASE blocks' = blocks
    BY <2>2, <2>3
  <2>4. ASSUME NEW n \in Heights, NEW hash, WritesRow(n, hash)
        PROVE  blocks'[m].status # FINALIZED
    BY <2>2, <2>4 DEF WritesRow, UNFINALIZED, FINALIZED
  <2>5. ASSUME NEW n \in Heights, NEW status, RaisesStatus(n, status)
        PROVE  FALSE
    BY <2>2, <2>5 DEF RaisesStatus, MinedInv, PollStartsClean
  <2> QED BY <2>3, <2>4, <2>5, TableSteps DEF WritesTable
<1> QED BY <1>1, <1>2

\* Between "selected" and "saved" the poll writes the row it verifies, only.
LEMMA VerificationWrites ==
    ASSUME TypeInv, MinedInv, [Next]_vars, blocks' # blocks,
           pc["poll"] = "selected", pc'["poll"] = "saved"
    PROVE  \E n \in DOMAIN poll.todo : \A m \in DOMAIN blocks \ {n} : blocks'[m] = blocks[m]
<1>1. pc \in [Tasks -> PcLabels]
  BY DEF TypeInv, TypeOK, ActivityTypeOK
<1>2. PollStep \/ PollFault
  <2>1. ~(WorkerStep \/ WorkerFault)
    BY <1>1, WorkerTable, TheTasks DEF SaveHeader, BeginFetch, Goto
  <2>2. ~(JobStep \/ JobFault)
    BY JobTable
  <2> QED BY <2>1, <2>2
          DEF Next, TaskFault, SyncStep, SyncFault, SyncFrame, FetchStep, FetchFault, ChunkFrame,
              NewBlock, AdvanceTags, DropSocket, Crash, Boot, vars, dbVars
<1>3. VerifyStep
  BY <1>2 DEF PollStep, PollFault, StartPolling, GetFinalizedTag, TagMissing, UpdateSafe,
         UpdateFinalized, SafeSettled, FindBlocksToVerify, FindGaps, TakeGap, GapDone, PollDone,
         PollFails, FetchStep, StartChunk, ChunkSaved, NextChunk, ChunkFrame, dbVars
<1>4. PICK n \in Heights : IsCurrent(n) /\ SaveRecord(n)
  BY <1>3 DEF VerifyStep, VerifyCached, RequestBlock, VerifyReceived, SelectRecord,
              RollBackRecord, CollectRecord, RecordDone, dbVars
<1> QED BY <1>4 DEF SaveRecord, SaveRow, PutRow, IsCurrent

\* The poll corrects no FINALIZED row, although the query that leaves them out
\* ran many await points earlier: only the poll itself finalizes rows, and it is
\* done with that before it asks for the rows to verify.
THEOREM FinalizedRowsAreSpared ==
    Spec => VerificationSparesFinalized
<1>1. Init => TodoOpen
  BY DEF Init, NoPoll, EmptyTable, TodoOpen
<1>2. Spec => [](TypeInv /\ MinedInv /\ TodoOpen)
  BY <1>1, InitTypes, TypeInvStep, InitMined, MinedInvStep, TodoOpenStep, PTL DEF Spec
<1>3. TypeInv /\ MinedInv /\ TodoOpen /\ [Next]_vars
      => [pc["poll"] = "selected" /\ pc'["poll"] = "saved"
          => \A n \in Numbers : blocks[n].status = FINALIZED => blocks'[n] = blocks[n]]_vars
  BY VerificationWrites DEF TodoOpen, Numbers
<1> QED BY <1>2, <1>3, PTL DEF Spec, VerificationSparesFinalized
=============================================================================
