------------------------------ MODULE EthNode ------------------------------
(***************************************************************************)
(* The Ethereum node the indexer reads: a canonical chain that grows and   *)
(* reorganises, its safe and finalized tags, and the answers it gives to   *)
(* eth_getBlockByNumber, eth_getLogs and the newHeads subscription.  No    *)
(* line of the repository implements it; it is modelled from how           *)
(* blockchain-rpc.service.ts and blockchain-ws.service.ts use it.          *)
(***************************************************************************)
EXTENDS Integers, FiniteSets

CONSTANTS
    MaxHeight,    \* bound: the highest block number
    MaxFork,      \* bound: the number of reorganisations
    InitHead,     \* the head of the chain when the indexer starts
    EventHeights, \* numbers of the blocks that carry a monitored log
    Reincluded,   \* those of them whose transaction every branch includes
    MaxLogs,      \* the most logs the node puts into one answer
    NodeMayLag    \* may a backend of the RPC endpoint not know a block or tag yet?

ASSUME NodeAssumption ==
    /\ MaxHeight \in Nat
    /\ MaxFork \in Nat
    /\ InitHead \in 0..MaxHeight
    /\ EventHeights \subseteq 0..MaxHeight
    /\ Reincluded \subseteq EventHeights
    /\ MaxLogs \in Nat \ {0}
    /\ NodeMayLag \in BOOLEAN

VARIABLES
    chain,      \* chain[n]: the branch block n belongs to, or will belong to
    head,       \* number of the latest block
    safe,       \* number of the block with the safe tag
    safeSeen,   \* history: the highest number that ever had the safe tag
    finalized,  \* number of the block with the finalized tag
    mined       \* history: every block that was ever the head

nodeVars == <<chain, head, safe, safeSeen, finalized, mined>>

Heights == 0..MaxHeight
Forks   == 0..MaxFork

\* A hash names its block: its number and the branch it was mined on.
Hashes == (-1..MaxHeight) \X Forks

Blocks == [number : Heights, hash : Hashes, parentHash : Hashes]

HashAt(n) == IF n < 0 THEN <<-1, 0>> ELSE <<n, chain[n]>>

Block(n) == [number |-> n, hash |-> HashAt(n), parentHash |-> HashAt(n - 1)]

Tip == Block(head)

\* eth_getBlockByNumber: "lagging" numbers are answered null.
Lags(numbers) == IF NodeMayLag THEN SUBSET numbers ELSE {{}}
Known(n, lagging) == n <= head /\ n \notin lagging

\* A log is named by its transaction: <<number, branch>>, or <<number, 0>>
\* when every branch includes the transaction.
LogAt(n) == IF n \in Reincluded THEN <<n, 0>> ELSE <<n, chain[n]>>
Logs(from, to) ==
    {LogAt(n) : n \in {m \in EventHeights : from <= m /\ m <= to /\ m <= head}}

\* eth_getLogs: a backend that lags answers without the logs of some blocks.
LogAnswers(from, to) ==
    {{l \in Logs(from, to) : l[1] \notin lagging} : lagging \in Lags(from..to)}

\* A range with more logs is refused.
LogsFit(answer) == Cardinality(answer) <= MaxLogs

NodeInit ==
    /\ chain = [n \in Heights |-> 0]
    /\ head = InitHead
    /\ safe = 0 /\ safeSeen = 0
    /\ finalized = 0
    /\ mined = {Block(n) : n \in 0..InitHead}

\* A block on top of the head.
Extend ==
    /\ head < MaxHeight
    /\ head' = head + 1
    /\ mined' = mined \cup {Block(head + 1)}
    /\ UNCHANGED <<chain, safe, safeSeen, finalized>>

\* Another branch, with blocks n to h, wins.  The node announces its tip only;
\* one that announces every block is seen as a short branch that grows.
Reorg(n, h) ==
    /\ finalized < n /\ n <= head
    /\ n <= h /\ h <= head + 1
    /\ chain[MaxHeight] < MaxFork
    /\ chain' = [m \in Heights |-> IF m < n THEN chain[m] ELSE chain[MaxHeight] + 1]
    /\ head' = h
    /\ safe' = IF safe < n THEN safe ELSE n - 1
    /\ mined' = mined \cup {Block(m)' : m \in n..h}
    /\ UNCHANGED <<safeSeen, finalized>>

NewTip == Extend \/ \E n, h \in Heights : Reorg(n, h)

AdvanceSafe ==
    /\ safe < head
    /\ safe' = safe + 1
    /\ safeSeen' = IF safeSeen > safe THEN safeSeen ELSE safe + 1
    /\ UNCHANGED <<chain, head, finalized, mined>>

AdvanceFinalized ==
    /\ finalized < safe
    /\ finalized' = finalized + 1
    /\ UNCHANGED <<chain, head, safe, safeSeen, mined>>

NodeTypeOK ==
    /\ chain \in [Heights -> Forks]
    /\ head \in Heights
    /\ safe \in Heights /\ safeSeen \in Heights
    /\ finalized \in Heights
    /\ mined \subseteq Blocks
=============================================================================
