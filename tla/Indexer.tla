------------------------------- MODULE Indexer ------------------------------
(***************************************************************************)
(* The indexer: the realtime worker, the polling validation, the initial   *)
(* sync and the saves they start, on one database and one node, with       *)
(* failing statements and calls, a WebSocket that drops for good, and      *)
(* crashes of the process.                                                 *)
(***************************************************************************)
EXTENDS HeaderWorker, PollingValidation, InitialSync

Started == [worker |-> "idle", poll |-> "idle", sync |-> "start"]
Down    == [t \in Tasks |-> "down"]

\* onModuleInit has subscribed, started the sync and registered the cron job.
\* An earlier run may have left rows, and the events of their blocks.
Init ==
    /\ NodeInit
    /\ \E stored \in StoredHeads :
          /\ blocks = [n \in 0..stored |-> NewRecord(Block(n))]
          /\ events = [l \in IF Listening THEN Logs(0, stored) ELSE {} |-> "N"]
    /\ reorgLogs = {}
    /\ subscribed = NewHeads
    /\ queue = <<>>
    /\ last = IF SyncOver THEN GetLatestBlock(blocks) ELSE Null
    /\ lastSafe = 0 /\ lastFinalized = 0
    /\ cache = [n \in Heights |-> Null]
    /\ pc = IF SyncOver THEN [Started EXCEPT !["sync"] = "done"] ELSE Started
    /\ header = Null
    /\ selected = [t \in Tasks |-> Null]
    /\ fetch = [t \in Tasks |-> <<>>]
    /\ logs = [t \in Tasks |-> {}]
    /\ poll = NoPoll /\ sync = NoSync
    /\ range = [t \in Tasks |-> NoRange]
    /\ jobs = {}
    /\ faults = 0 /\ crashes = 0

\* The chain gets a new tip and the node pushes its header.
NewBlock ==
    /\ NewTip
    /\ OnBlockHeader(Tip')
    /\ UNCHANGED <<dbVars, subscribed, last, finalityVars, cache, header, selected,
                   fetchVars, poll, sync, rangeVars, budgetVars>>

AdvanceTags ==
    /\ AdvanceSafe \/ AdvanceFinalized
    /\ UNCHANGED <<dbVars, wsVars, last, finalityVars, cache, pc, header, selected,
                   fetchVars, poll, sync, rangeVars, budgetVars>>

\* BlockchainWsService attaches its listener once and never reconnects.
DropSocket ==
    /\ subscribed /\ Fault
    /\ subscribed' = FALSE
    /\ UNCHANGED <<nodeVars, dbVars, queue, last, finalityVars, cache, pc, header, selected,
                   fetchVars, poll, sync, rangeVars, crashes>>

Crash ==
    /\ crashes < MaxCrashes /\ pc # Down
    /\ crashes' = crashes + 1
    /\ subscribed' = FALSE
    /\ FreshMemory(Down)
    /\ UNCHANGED <<nodeVars, dbVars, faults>>

Boot ==
    /\ pc = Down
    /\ subscribed' = NewHeads
    /\ FreshMemory(Started)
    /\ UNCHANGED <<nodeVars, dbVars, budgetVars>>

TaskFault == FetchFault("worker") \/ FetchFault("poll") \/ FetchFault("sync")
             \/ WorkerFault \/ PollFault \/ SyncFault \/ JobFault

Next ==
    \/ NewBlock \/ AdvanceTags \/ DropSocket
    \/ WorkerStep \/ PollStep \/ SyncStep \/ JobStep
    \/ TaskFault
    \/ Crash \/ Boot

Spec == Init /\ [][Next]_vars

\* Every await is answered in the end (retryOperation bounds the attempts, the
\* timers fire), and the cron job fires again and again.
FairSpec ==
    /\ Spec
    /\ WF_vars(WorkerStep) /\ WF_vars(PollStep) /\ WF_vars(SyncStep) /\ WF_vars(JobStep)

DatabaseTypeOK ==
    /\ IsTable(blocks)
    /\ DOMAIN events \subseteq Heights \X Forks /\ events \in [DOMAIN events -> DelYn]
    /\ reorgLogs \subseteq ReorgLog

ServiceTypeOK ==
    /\ subscribed \in BOOLEAN
    /\ queue \in Seq(Blocks)
    /\ last \in LastSeen \cup {Null}
    /\ lastSafe \in Heights /\ lastFinalized \in Heights
    /\ cache \in [Heights -> Blocks \cup {Null}]

ActivityTypeOK ==
    /\ pc \in [Tasks -> PcLabels]
    /\ header \in Blocks \cup {Null}
    /\ selected \in [Tasks -> Rows \cup {Null}]
    /\ fetch \in [Tasks -> Seq(FetchRanges)]
    /\ logs \in [Tasks -> SUBSET (Heights \X Forks)]
    /\ IsPoll(poll)
    /\ sync \in Syncs
    /\ range \in [Tasks -> Ranges]
    /\ jobs \subseteq Jobs

TypeOK ==
    /\ NodeTypeOK
    /\ DatabaseTypeOK
    /\ ServiceTypeOK
    /\ ActivityTypeOK
    /\ faults \in Nat /\ crashes \in Nat
=============================================================================
