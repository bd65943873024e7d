--------------------------- MODULE EthNodeLemmas ---------------------------
(***************************************************************************)
(* The operators and the steps of the node, for every value of its         *)
(* constants.  The indexer and the RPC client are proved from them.        *)
(***************************************************************************)
EXTENDS EthNode, TLAPS

LEMMA HeightsAreNumbers ==
    /\ Heights \subseteq Nat /\ Heights \subseteq Int
    /\ 0 \in Heights
    /\ -1 \in -1..MaxHeight /\ Heights \subseteq -1..MaxHeight
  BY NodeAssumption DEF Heights

LEMMA BlockOfTypedChain ==
    ASSUME chain \in [Heights -> Forks], NEW n, n \in Heights
    PROVE  /\ Block(n) \in Blocks
           /\ Block(n).number = n
<1>1. HashAt(n) \in Hashes
  BY NodeAssumption DEF HashAt, Hashes, Heights, Forks
<1>2. HashAt(n - 1) \in Hashes
  <2>1. CASE n = 0
    BY <2>1, NodeAssumption DEF HashAt, Hashes, Forks
  <2>2. CASE n # 0
    <3>1. n - 1 \in Heights /\ ~ (n - 1 < 0) /\ n - 1 \in -1..MaxHeight
      BY <2>2, NodeAssumption DEF Heights
    <3>2. chain[n - 1] \in Forks
      BY <3>1
    <3> QED BY <3>1, <3>2 DEF HashAt, Hashes
  <2> QED BY <2>1, <2>2
<1> QED BY <1>1, <1>2 DEF Block, Blocks

LEMMA BlockOfChain ==
    ASSUME NodeTypeOK, NEW n, n \in Heights
    PROVE  /\ Block(n) \in Blocks
           /\ Block(n).number = n
  BY BlockOfTypedChain DEF NodeTypeOK

LEMMA LogsOfChain ==
    ASSUME NodeTypeOK, NEW from, NEW to
    PROVE  Logs(from, to) \subseteq Heights \X Forks
<1>1. ASSUME NEW n \in EventHeights
      PROVE  LogAt(n) \in Heights \X Forks
  BY <1>1, NodeAssumption DEF LogAt, NodeTypeOK, Heights, Forks
<1> QED BY <1>1 DEF Logs

\* An answer of getLogs holds no log the chain does not have; a node without
\* lagging backends leaves none out.
LEMMA AnsweredLogs ==
    ASSUME NEW from, NEW to, NEW answer \in LogAnswers(from, to)
    PROVE  /\ answer \subseteq Logs(from, to)
           /\ ~NodeMayLag => answer = Logs(from, to)
  BY DEF LogAnswers, Lags

LEMMA ExtendTypes ==
    ASSUME NodeTypeOK, Extend
    PROVE  NodeTypeOK'
<1>1. head' \in Heights /\ head' = head + 1
  BY NodeAssumption DEF Extend, NodeTypeOK, Heights
<1>2. Block(head + 1) \in Blocks
  BY <1>1, BlockOfChain
<1> QED BY <1>1, <1>2 DEF Extend, NodeTypeOK

LEMMA ReorgTypes ==
    ASSUME NodeTypeOK, NEW n, n \in Heights, NEW h, h \in Heights, Reorg(n, h)
    PROVE  NodeTypeOK'
<1> USE NodeAssumption
<1>1. MaxHeight \in Heights /\ chain[MaxHeight] \in Forks /\ chain[MaxHeight] + 1 \in Forks
  BY DEF Reorg, NodeTypeOK, Heights, Forks
<1>2. chain' \in [Heights -> Forks]
  BY <1>1 DEF Reorg, NodeTypeOK
<1>3. head' \in Heights /\ finalized' \in Heights /\ safeSeen' \in Heights
  BY DEF Reorg, NodeTypeOK
<1>4. safe' \in Heights
  <2>1. n \in Nat /\ n # 0 /\ n <= MaxHeight
    BY DEF Reorg, NodeTypeOK, Heights
  <2> QED BY <2>1 DEF Reorg, NodeTypeOK, Heights
<1>5. ASSUME NEW m, m \in n..h
      PROVE  Block(m)' \in Blocks
  <2>1. m \in Heights /\ m \in -1..MaxHeight /\ m - 1 \in -1..MaxHeight
    BY <1>5 DEF Heights
  <2>2. HashAt(m)' \in Hashes
    BY <1>2, <2>1 DEF HashAt, Hashes, Heights
  <2>3. HashAt(m - 1)' \in Hashes
    <3>1. CASE m = 0
      BY <3>1 DEF HashAt, Hashes, Forks
    <3>2. CASE m # 0
      <4>1. m - 1 \in Heights /\ ~ (m - 1 < 0)
        BY <2>1, <3>2 DEF Heights
      <4>2. chain'[m - 1] \in Forks
        BY <1>2, <4>1
      <4> QED BY <2>1, <4>1, <4>2 DEF HashAt, Hashes
    <3> QED BY <3>1, <3>2
  <2> QED BY <2>1, <2>2, <2>3 DEF Block, Blocks
<1>6. mined' \subseteq Blocks
  BY <1>5 DEF Reorg, NodeTypeOK
<1> QED BY <1>2, <1>3, <1>4, <1>6 DEF NodeTypeOK

\* The blocks a reorganisation leaves alone keep their hash.
LEMMA ReorgHashes ==
    ASSUME NodeTypeOK, NEW n, n \in Heights, NEW h, h \in Heights, Reorg(n, h)
    PROVE  \A m \in Heights : m < n => Block(m)' = Block(m)
<1> SUFFICES ASSUME NEW m \in Heights, m < n PROVE Block(m)' = Block(m)
  OBVIOUS
<1>1. m \in Nat /\ n \in Nat
  BY HeightsAreNumbers
<1>2. chain' = [k \in Heights |-> IF k < n THEN chain[k] ELSE chain[MaxHeight] + 1]
  BY DEF Reorg
<1>3. chain'[m] = chain[m]
  BY <1>2
<1>4. m # 0 => m - 1 \in Heights /\ m - 1 < n
  BY <1>1, NodeAssumption DEF Heights
<1>5. m # 0 => chain'[m - 1] = chain[m - 1]
  BY <1>2, <1>4
<1> QED BY <1>1, <1>3, <1>5 DEF Block, HashAt

LEMMA TipIsBlock ==
    NodeTypeOK => Tip \in Blocks
  BY BlockOfChain DEF NodeTypeOK, Tip

LEMMA NextTipIsBlock ==
    NodeTypeOK' => Tip' \in Blocks
<1>1. (NodeTypeOK => Tip \in Blocks)'
  BY TipIsBlock, PTL
<1> QED BY <1>1

(***************************************************************************)
(* What the node answers, it has mined                                     *)
(***************************************************************************)

ChainIsMined == \A n \in 0..head : Block(n) \in mined

LEMMA InitChainIsMined ==
    NodeInit => NodeTypeOK /\ ChainIsMined /\ mined = {Block(n) : n \in 0..head}
<1> SUFFICES ASSUME NodeInit PROVE NodeTypeOK /\ ChainIsMined /\ mined = {Block(n) : n \in 0..head}
  OBVIOUS
<1>1. head = InitHead /\ 0..InitHead \subseteq Heights /\ InitHead \in Heights /\ 0 \in Heights
  BY NodeAssumption DEF NodeInit, Heights
<1>2. chain \in [Heights -> Forks]
  BY NodeAssumption DEF NodeInit, Forks
<1>3. \A n \in Heights : Block(n) \in Blocks
  BY <1>2, BlockOfTypedChain
<1>4. mined = {Block(n) : n \in 0..head}
  BY <1>1 DEF NodeInit
<1> QED BY <1>1, <1>2, <1>3, <1>4 DEF NodeInit, NodeTypeOK, ChainIsMined

NodeChanges == NewTip \/ AdvanceSafe \/ AdvanceFinalized

\* A step of the node mines blocks of its new chain only, and all of that chain
\* is mined.
LEMMA NodeMines ==
    ASSUME NodeTypeOK, ChainIsMined, NodeChanges
    PROVE  /\ NodeTypeOK' /\ ChainIsMined'
           /\ mined \subseteq mined'
           /\ mined' \subseteq mined \cup {Block(n)' : n \in 0..head'}
<1>1. CASE Extend
  <2>1. head \in Nat /\ head' = head + 1 /\ mined' = mined \cup {Block(head + 1)}
    BY <1>1, HeightsAreNumbers DEF Extend, NodeTypeOK
  <2>2. \A n : Block(n)' = Block(n)
    BY <1>1 DEF Extend, Block, HashAt
  <2>3. NodeTypeOK'
    BY <1>1, ExtendTypes
  <2> QED BY <2>1, <2>2, <2>3 DEF ChainIsMined
<1>2. CASE \E n, h \in Heights : Reorg(n, h)
  <2>1. PICK n \in Heights, h \in Heights : Reorg(n, h)
    BY <1>2
  <2>2. /\ n \in Nat /\ h \in Nat /\ head \in Nat /\ n <= head /\ n <= h /\ head' = h
        /\ mined' = mined \cup {Block(m)' : m \in n..h}
    BY <2>1, HeightsAreNumbers DEF Reorg, NodeTypeOK
  <2>3. ASSUME NEW m \in 0..head' PROVE Block(m)' \in mined'
    <3>1. CASE m < n
      <4>1. m \in Heights /\ m \in 0..head
        BY <2>2, <2>3, <3>1, NodeAssumption DEF Heights
      <4>2. Block(m)' = Block(m)
        BY <2>1, <3>1, <4>1, ReorgHashes
      <4> QED BY <2>2, <4>1, <4>2 DEF ChainIsMined
    <3>2. CASE ~ (m < n)
      BY <2>2, <2>3, <3>2
    <3> QED BY <3>1, <3>2
  <2>4. NodeTypeOK'
    BY <2>1, ReorgTypes
  <2> QED BY <2>2, <2>3, <2>4 DEF ChainIsMined
<1>3. CASE AdvanceSafe \/ AdvanceFinalized
  <2>1. UNCHANGED <<chain, head, mined>>
    BY <1>3 DEF AdvanceSafe, AdvanceFinalized
  <2>2. NodeTypeOK'
    BY <1>3, NodeAssumption DEF AdvanceSafe, AdvanceFinalized, NodeTypeOK, Heights
  <2> QED BY <2>1, <2>2 DEF ChainIsMined, Block, HashAt
<1> QED BY <1>1, <1>2, <1>3 DEF NodeChanges, NewTip
=============================================================================
