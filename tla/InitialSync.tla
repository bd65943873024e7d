---------------------------- MODULE InitialSync -----------------------------
(***************************************************************************)
(* syncInitialBlocks of block.service.ts, once after each start, next to   *)
(* the listener that is already attached.                                  *)
(***************************************************************************)
EXTENDS RangeSync

\* The query is issued at once, and may run after a header was stored.
GetLatestStored ==
    /\ pc["sync"] = "start"
    /\ sync' = [sync EXCEPT !.latest = GetLatestBlock(blocks)]
    /\ Goto("sync", "latest")
    /\ UNCHANGED <<last, range>>

GetCurrentBlock ==
    /\ pc["sync"] = "latest"
    /\ sync' = [sync EXCEPT !.network = head]
    /\ Goto("sync", "network")
    /\ UNCHANGED <<last, range>>

\* The first block to fetch: an empty table or a gap of the limit or more
\* leaves only the latest blocks to fetch; else the blocks above the stored.
StartBlock(latest, network) ==
    LET start == IF network - InitialSyncBlockCount + 1 > 0
                 THEN network - InitialSyncBlockCount + 1 ELSE 0
    IN  IF latest = Null \/ network - latest.number >= InitialSyncBlockCount
        THEN start ELSE latest.number + 1

ChooseRange ==
    /\ pc["sync"] = "network"
    /\ SaveBlocksInRange("sync", StartBlock(sync.latest, sync.network), sync.network)
    /\ UNCHANGED <<last, sync>>

\* Mutated form: the latest block of the node in place of the stored one.
RefreshLast_FromNode ==
    /\ RangeDone("sync")
    /\ range' = [range EXCEPT !["sync"] = NoRange]
    /\ sync' = [sync EXCEPT !.latest = [number |-> head, hash |-> HashAt(head)], !.network = 0]
    /\ Goto("sync", "refresh")
    /\ UNCHANGED last

RefreshLast ==
    /\ RangeDone("sync")
    /\ range' = [range EXCEPT !["sync"] = NoRange]
    /\ sync' = [sync EXCEPT !.latest = GetLatestBlock(blocks), !.network = 0]
    /\ Goto("sync", "refresh")
    /\ UNCHANGED last

\* The worker may have moved on since the query ran.
SyncDone ==
    /\ pc["sync"] = "refresh"
    /\ last' = IF sync.latest = Null THEN last ELSE sync.latest
    /\ sync' = NoSync
    /\ Goto("sync", "done")
    /\ UNCHANGED range

SyncFrame == UNCHANGED <<nodeVars, dbVars, wsVars, finalityVars, cache, header, selected,
                         fetchVars, poll, jobs, budgetVars>>

SyncStep ==
    \/ /\ GetLatestStored \/ GetCurrentBlock \/ ChooseRange \/ RefreshLast \/ SyncDone
       /\ SyncFrame
    \/ FetchStep("sync")
    \/ (StartChunk("sync") \/ ChunkSaved("sync") \/ NextChunk("sync")) /\ ChunkFrame

SyncFault ==
    /\ pc["sync"] \in {"start", "latest", "refresh"} \/ RangeDone("sync")
    /\ Fault
    /\ Abort("sync")
    /\ UNCHANGED <<nodeVars, dbVars, wsVars, last, finalityVars, cache, header,
                   fetchVars, jobs, crashes>>
=============================================================================
