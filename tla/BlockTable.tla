----------------------------- MODULE BlockTable -----------------------------
(***************************************************************************)
(* The table block_records and the statements block-record.repository.ts   *)
(* issues on it.  A table is a function from the block numbers it holds    *)
(* (the primary key) to rows.                                              *)
(***************************************************************************)
EXTENDS Integers

CONSTANT Null   \* "no row", "no block": null and undefined of the program

UNFINALIZED == "UNFINALIZED"
SAFE        == "SAFE"
FINALIZED   == "FINALIZED"
BlockStatus == {UNFINALIZED, SAFE, FINALIZED}

\* The mining time of a block is named by the hash of that block.
BlockRecord(hashes) ==
    [blockHash : hashes, parentHash : hashes, status : BlockStatus, timestamp : hashes]

EmptyTable == [n \in {} |-> Null]

\* The record that handleNewBlock and saveBlocksInRange build for a block.
NewRecord(block) ==
    [blockHash  |-> block.hash,
     parentHash |-> block.parentHash,
     status     |-> UNFINALIZED,
     timestamp  |-> block.hash]

(***************************************************************************)
(* saveBlock is TypeORM's save, two statements: a SELECT of the stored     *)
(* row, then an INSERT, or an UPDATE of the columns in which the record    *)
(* differs from the row that was selected.                                 *)
(***************************************************************************)
SelectRow(t, n) == IF n \in DOMAIN t THEN t[n] ELSE Null

\* The INSERT meets a row another activity inserted since the SELECT.
SaveConflicts(t, n, selected) == selected = Null /\ n \in DOMAIN t

Column(new, selected, stored) == IF new # selected THEN new ELSE stored

MergedRow(record, selected, stored) ==
    [blockHash  |-> Column(record.blockHash, selected.blockHash, stored.blockHash),
     parentHash |-> Column(record.parentHash, selected.parentHash, stored.parentHash),
     status     |-> Column(record.status, selected.status, stored.status),
     timestamp  |-> Column(record.timestamp, selected.timestamp, stored.timestamp)]

PutRow(t, n, row) == [m \in DOMAIN t \cup {n} |-> IF m = n THEN row ELSE t[m]]

\* Mutated form: the rows above are deleted (deleteBlocksFrom, "commented out").
SaveRow_DeletesAbove(t, n, record, selected) ==
    PutRow([m \in {k \in DOMAIN t : k <= n} |-> t[m]], n,
           IF selected = Null THEN record ELSE MergedRow(record, selected, t[n]))

SaveRow(t, n, record, selected) ==
    PutRow(t, n, IF selected = Null THEN record
                 ELSE MergedRow(record, selected, t[n]))

\* Mutated forms of updateStatusUpToBlock: the name of the tag is written
\* instead of the status; "<=" includes one block too many; the condition that
\* spares FINALIZED rows is missing.
UpdateStatusUpToBlock_TagName(t, n, status) ==
    [m \in DOMAIN t |->
        IF m <= n /\ t[m].status \notin {status, FINALIZED}
        THEN [t[m] EXCEPT !.status = IF status = SAFE THEN "safe" ELSE "finalized"]
        ELSE t[m]]
UpdateStatusUpToBlock_OffByOne(t, n, status) ==
    [m \in DOMAIN t |->
        IF m <= n + 1 /\ t[m].status \notin {status, FINALIZED}
        THEN [t[m] EXCEPT !.status = status]
        ELSE t[m]]
UpdateStatusUpToBlock_Unguarded(t, n, status) ==
    [m \in DOMAIN t |->
        IF m <= n /\ t[m].status # status THEN [t[m] EXCEPT !.status = status] ELSE t[m]]

\* updateStatusUpToBlock
UpdateStatusUpToBlock(t, n, status) ==
    [m \in DOMAIN t |->
        IF m <= n /\ t[m].status \notin {status, FINALIZED}
        THEN [t[m] EXCEPT !.status = status]
        ELSE t[m]]

\* Mutated form: the WHERE is missing.
FindUnfinalizedAndSafeBlocks_All(t) == t

\* findUnfinalizedAndSafeBlocks: the rows themselves, as a smaller table.
FindUnfinalizedAndSafeBlocks(t) ==
    [n \in {m \in DOMAIN t : t[m].status \in {UNFINALIZED, SAFE}} |-> t[n]]

\* getLatestBlock
GetLatestBlock(t) ==
    IF DOMAIN t = {} THEN Null
    ELSE LET n == CHOOSE m \in DOMAIN t : \A k \in DOMAIN t : k <= m
         IN  [number |-> n, hash |-> t[n].blockHash]

\* Mutated form: a self-join on "greater" in place of the window function.
IsLead_Greater(numbers, n, next) == n < next

\* LEAD(block_number): the next of these numbers, when there is one.
IsLead(numbers, n, next) ==
    /\ n < next
    /\ \A m \in numbers : ~(n < m /\ m < next)

\* findMissingBlockGaps: <<missing_start, missing_end>> pairs.
FindMissingBlockGaps(t) ==
    LET pending == DOMAIN FindUnfinalizedAndSafeBlocks(t)
    IN  {<<p[1] + 1, p[2] - 1>> :
            p \in {q \in pending \X pending :
                      IsLead(pending, q[1], q[2]) /\ q[2] - q[1] > 1}}
=============================================================================
