-------------------------- MODULE RpcClientProofs --------------------------
(***************************************************************************)
(* The client of the node, for every value of the constants: its cache     *)
(* never holds a block under a number that is not the block's, and         *)
(* getBlockByNumber implements BlockSource, whatever the cache evicts,     *)
(* however often a call is retried and whoever else calls meanwhile.       *)
(***************************************************************************)
EXTENDS RpcClient, EthNodeLemmas, SequenceTheorems

(***************************************************************************)
(*                       The inductive invariant                           *)
(***************************************************************************)

\* Every block the node has had under number r.
HistoryOf(r) == {b \in mined : b.number = r[2]}

\* A block is remembered under its own number; under a hash there is any.
Entries ==
    {e \in [key : Keys, block : Blocks] : e.key \in Numbers => e.block \in HistoryOf(e.key)}

\* A pending call k, with window w, knows no block its window does not hold, but
\* for a hit.
CallOK(k, w) ==
    /\ k.stage = "none" => k = NoCall
    /\ k.stage # "none" => k.request \in Requests /\ Offer(k.request) \subseteq w
    /\ k.stage = "hit" => k.request \in Numbers /\ k.block \in HistoryOf(k.request)
    /\ k.stage = "answered" => k.block \in w
    /\ k.request \in Numbers => w \subseteq HistoryOf(k.request) \cup {Null}

ClientInv ==
    /\ ClientTypeOK
    /\ ChainIsMined
    /\ blockCache \in Seq(Entries)
    /\ \A c \in Callers : CallOK(call[c], window[c])

(***************************************************************************)
(*                        What the node offers                             *)
(***************************************************************************)

LEMMA RequestKinds ==
    /\ \A r \in Numbers : r \notin Tags /\ r \in Requests /\ r[2] \in Heights
    /\ \A r \in Requests : r \notin Numbers => r \in Tags
    /\ Null \notin Requests
    /\ Requests \subseteq Keys
    /\ \A h : <<"hash", h>> \notin Numbers
<1>1. \A r \in Numbers : r[1] = "number" /\ r[2] \in Heights
  BY ClientAssumption DEF Numbers
<1>2. \A r \in Tags : r[1] = "tag"
  BY DEF Tags
<1>3. \A r \in Numbers : r \notin Tags
  <2>1. ASSUME NEW r \in Numbers, r \in Tags PROVE FALSE
    <3>1. r[1] = "number" /\ r[1] = "tag"
      BY <1>1, <1>2, <2>1
    <3> QED BY <3>1
  <2> QED BY <2>1
<1>4. \A h : <<"hash", h>> \notin Numbers
  BY DEF Numbers
<1> QED BY <1>1, <1>3, <1>4, NullAssumption DEF Requests, Keys

\* The number a request asks for now.
Asked(r) ==
    CASE r = <<"tag", "latest">>    -> head
      [] r = <<"tag", "safe">>      -> safe
      [] r = <<"tag", "finalized">> -> finalized
      [] OTHER                      -> r[2]

LEMMA AskedIsHeight ==
    ASSUME NodeTypeOK, NEW r \in Requests
    PROVE  /\ Asked(r) \in Heights
           /\ r \in Numbers => Asked(r) = r[2]
<1>1. CASE r \in Numbers
  <2>1. r # <<"tag", "latest">> /\ r # <<"tag", "safe">> /\ r # <<"tag", "finalized">>
    BY <1>1 DEF Numbers
  <2>2. r[2] \in Heights
    BY <1>1, RequestKinds
  <2> QED BY <2>1, <2>2 DEF Asked
<1>2. CASE r \notin Numbers
  <2>1. r \in {<<"tag", "latest">>, <<"tag", "safe">>, <<"tag", "finalized">>}
    BY <1>2, RequestKinds, ClientAssumption DEF Tags
  <2> QED BY <1>2, <2>1 DEF Asked, NodeTypeOK
<1> QED BY <1>1, <1>2

LEMMA NoLag ==
    {} \in Lags({}) /\ \A n : {} \in Lags({n})
  BY DEF Lags

LEMMA OfferIs ==
    ASSUME NodeTypeOK, NEW r \in Requests
    PROVE  /\ Offer(r) \subseteq {Block(Asked(r)), Null}
           /\ Block(Asked(r)) \in Offer(r) \/ ~ (Asked(r) <= head)
           /\ ~ (Asked(r) <= head) => Offer(r) \subseteq {Null}
<1> DEFINE n == Asked(r)
<1>1. Offer(r) = {IF Known(n, lagging) THEN Block(n) ELSE Null : lagging \in Lags({n})}
  BY DEF Offer, Asked
<1>2. {} \in Lags({n}) /\ (n <= head => Known(n, {}))
  BY NoLag DEF Known
<1>3. \A lagging : Known(n, lagging) => n <= head
  BY DEF Known
<1> HIDE DEF n
<1> QED BY <1>1, <1>2, <1>3 DEF n

\* What is offered for a number now is in its history.
LEMMA OfferIsMined ==
    ASSUME NodeTypeOK, ChainIsMined, NEW r \in Requests
    PROVE  /\ Offer(r) \subseteq Blocks \cup {Null}
           /\ r \in Numbers => Offer(r) \subseteq HistoryOf(r) \cup {Null}
<1> DEFINE n == Asked(r)
<1>1. n \in Heights /\ (r \in Numbers => n = r[2])
  BY AskedIsHeight
<1>2. Block(n) \in Blocks /\ Block(n).number = n
  BY <1>1, BlockOfChain
<1>3. n <= head => Block(n) \in mined
  <2>1. n \in Nat /\ head \in Nat
    BY <1>1, HeightsAreNumbers DEF NodeTypeOK
  <2> QED BY <2>1 DEF ChainIsMined
<1> HIDE DEF n
<1>4. /\ Offer(r) \subseteq {Block(n), Null}
      /\ ~ (n <= head) => Offer(r) \subseteq {Null}
  BY OfferIs DEF n
<1>5. Offer(r) \subseteq Blocks \cup {Null}
  BY <1>2, <1>4
<1>6. ASSUME r \in Numbers, NEW b \in Offer(r), b # Null PROVE b \in HistoryOf(r)
  BY <1>1, <1>2, <1>3, <1>4, <1>6 DEF HistoryOf
<1> QED BY <1>5, <1>6

(***************************************************************************)
(*                             blockCache                                  *)
(***************************************************************************)

LEMMA SeqGrows ==
    ASSUME NEW S, NEW T, S \subseteq T, NEW s \in Seq(S)
    PROVE  s \in Seq(T)
  BY SeqDef

LEMMA PlaceIsEntry ==
    ASSUME NEW S, NEW map \in Seq(S), NEW key, Has(map, key)
    PROVE  /\ Place(map, key) \in DOMAIN map /\ map[Place(map, key)] \in S
           /\ map[Place(map, key)].key = key
<1>1. Place(map, key) \in DOMAIN map /\ map[Place(map, key)].key = key
  BY DEF Has, Place
<1> QED BY <1>1, ElementOfSeq

\* What is set is an entry of its own, at the place of its key or at the end.
LEMMA SetEntryResult ==
    ASSUME NEW map \in Seq(Entries), NEW key, NEW block,
           [key |-> key, block |-> block] \in Entries
    PROVE  SetEntry(map, key, block) \in Seq(Entries)
<1>1. CASE Has(map, key)
  <2> DEFINE i == Place(map, key)
             e == [map[i] EXCEPT !.block = block]
  <2>1. i \in 1..Len(map) /\ map[i] \in Entries /\ map[i].key = key
    BY <1>1, PlaceIsEntry
  <2>2. e = [key |-> key, block |-> block]
    BY <2>1 DEF Entries
  <2>3. SetEntry(map, key, block) = [map EXCEPT ![i] = e]
    BY <1>1 DEF SetEntry
  <2> HIDE DEF i, e
  <2> QED BY <2>1, <2>2, <2>3, ExceptSeq
<1>2. CASE ~Has(map, key)
  BY <1>2, AppendProperties DEF SetEntry
<1> QED BY <1>1, <1>2

LEMMA EvictResult ==
    ASSUME NEW map \in Seq(Entries)
    PROVE  Evict(map) \in Seq(Entries)
<1>1. CASE Len(map) >= MaxCacheSize
  <2>1. map # <<>>
    BY <1>1, ClientAssumption
  <2> QED BY <1>1, <2>1, HeadTailProperties DEF Evict
<1>2. CASE ~ (Len(map) >= MaxCacheSize)
  BY <1>2 DEF Evict
<1> QED BY <1>1, <1>2

LEMMA RememberResult ==
    ASSUME NEW map \in Seq(Entries), NEW r \in Numbers, NEW block \in Blocks,
           block \in HistoryOf(r)
    PROVE  Remember(map, r, block) \in Seq(Entries)
<1>1. [key |-> r, block |-> block] \in Entries
  BY RequestKinds DEF Entries
<1>2. <<"hash", block.hash>> \in Keys
  BY DEF Keys, Blocks
<1>3. [key |-> <<"hash", block.hash>>, block |-> block] \in Entries
  BY <1>2, RequestKinds DEF Entries
<1>4. SetEntry(Evict(map), r, block) \in Seq(Entries)
  BY <1>1, EvictResult, SetEntryResult
<1> QED BY <1>3, <1>4, SetEntryResult DEF Remember

LEMMA HitIsRemembered ==
    ASSUME NEW r \in Requests, blockCache \in Seq(Entries), IsHit(r)
    PROVE  r \in Numbers /\ Get(blockCache, r) \in Blocks /\ Get(blockCache, r) \in HistoryOf(r)
<1>1. r \in Numbers /\ Has(blockCache, r)
  BY RequestKinds DEF IsHit, IsDynamic
<1>2. /\ blockCache[Place(blockCache, r)] \in Entries
      /\ blockCache[Place(blockCache, r)].key = r
  BY <1>1, PlaceIsEntry
<1> QED BY <1>1, <1>2 DEF Get, Entries

(***************************************************************************)
(*                       The invariant is inductive                        *)
(***************************************************************************)

Calls == [request : Requests \cup {Null}, stage : Stages,
          attempt : 0..MaxRetries - 1, block : Blocks \cup {Null}]

LEMMA InitClient ==
    Init => ClientInv
<1> SUFFICES ASSUME Init PROVE ClientInv
  OBVIOUS
<1>1. NodeTypeOK /\ ChainIsMined
  BY InitChainIsMined DEF Init
<1>2. blockCache \in Seq(Entries) /\ blockCache \in Seq([key : Keys, block : Blocks])
  BY DEF Init
<1>3. ASSUME NEW c \in Callers PROVE CallOK(call[c], window[c])
  BY <1>3, RequestKinds DEF Init, CallOK, NoCall
<1>4. /\ call \in [Callers -> Calls]
      /\ reply \in [Callers -> Blocks \cup {Null, Failed}]
      /\ window \in [Callers -> SUBSET (Blocks \cup {Null})]
  BY ClientAssumption DEF Init, Calls, NoCall, Stages
<1> QED BY <1>1, <1>2, <1>3, <1>4 DEF ClientInv, ClientTypeOK, Calls

LEMMA EntriesAreTyped ==
    ASSUME NEW map \in Seq(Entries)
    PROVE  map \in Seq([key : Keys, block : Blocks])
<1>1. Entries \subseteq [key : Keys, block : Blocks]
  BY DEF Entries
<1> QED BY <1>1, SeqGrows

LEMMA OfferKept ==
    ASSUME UNCHANGED nodeVars
    PROVE  \A r : Offer(r)' = Offer(r) /\ HistoryOf(r)' = HistoryOf(r)
  BY DEF Offer, Known, Block, HashAt, HistoryOf, nodeVars

\* A step of caller c: its call becomes k with window w, the other calls and the
\* node stay.
LEMMA CallerStep ==
    ASSUME ClientInv, UNCHANGED nodeVars, NEW c \in Callers,
           NEW k \in Calls, NEW w \in SUBSET (Blocks \cup {Null}), CallOK(k, w),
           call' = [call EXCEPT ![c] = k], window' = [window EXCEPT ![c] = w],
           reply' \in [Callers -> Blocks \cup {Null, Failed}],
           blockCache' \in Seq(Entries)
    PROVE  ClientInv'
<1>1. \A r : Offer(r)' = Offer(r) /\ HistoryOf(r)' = HistoryOf(r)
  BY OfferKept
<1>2. Entries' = Entries
  BY <1>1 DEF Entries
<1>3. NodeTypeOK' /\ ChainIsMined'
  BY DEF ClientInv, ClientTypeOK, NodeTypeOK, ChainIsMined, Block, HashAt, nodeVars
<1>4. call' \in [Callers -> Calls] /\ window' \in [Callers -> SUBSET (Blocks \cup {Null})]
  BY DEF ClientInv, ClientTypeOK, Calls
<1>5. ASSUME NEW d \in Callers PROVE CallOK(call[d], window[d])'
  <2>1. CallOK(call'[d], window'[d])
    BY DEF ClientInv, ClientTypeOK
  <2> QED BY <1>1, <2>1 DEF CallOK
<1>6. blockCache' \in Seq([key : Keys, block : Blocks])
  BY EntriesAreTyped
<1> QED BY <1>2, <1>3, <1>4, <1>5, <1>6 DEF ClientInv, ClientTypeOK, Calls

LEMMA CallTyped ==
    ASSUME ClientInv, NEW c \in Callers
    PROVE  /\ call[c] \in Calls /\ window[c] \in SUBSET (Blocks \cup {Null})
           /\ CallOK(call[c], window[c])
  BY DEF ClientInv, ClientTypeOK, Calls

LEMMA AskKeeps ==
    ASSUME ClientInv, UNCHANGED nodeVars, NEW c \in Callers, NEW r \in Requests, Ask(c, r)
    PROVE  ClientInv'
<1> DEFINE k == IF IsHit(r)
                THEN [NoCall EXCEPT !.request = r, !.stage = "hit",
                                    !.block = Get(blockCache, r)]
                ELSE [NoCall EXCEPT !.request = r, !.stage = "sent"]
<1>1. /\ Offer(r) \subseteq Blocks \cup {Null}
      /\ r \in Numbers => Offer(r) \subseteq HistoryOf(r) \cup {Null}
  BY OfferIsMined DEF ClientInv, ClientTypeOK
<1>2. IsHit(r) => r \in Numbers /\ Get(blockCache, r) \in Blocks
                  /\ Get(blockCache, r) \in HistoryOf(r)
  BY HitIsRemembered DEF ClientInv
<1>3. k \in Calls
  <2>1. 0 \in 0..MaxRetries - 1
    BY ClientAssumption
  <2>2. CASE IsHit(r)
    <3>1. k = [request |-> r, stage |-> "hit", attempt |-> 0, block |-> Get(blockCache, r)]
      BY <2>2 DEF NoCall
    <3> QED BY <1>2, <2>1, <2>2, <3>1 DEF Calls, Stages
  <2>3. CASE ~IsHit(r)
    <3>1. k = [request |-> r, stage |-> "sent", attempt |-> 0, block |-> Null]
      BY <2>3 DEF NoCall
    <3> QED BY <2>1, <3>1 DEF Calls, Stages
  <2> QED BY <2>2, <2>3
<1>4. CallOK(k, Offer(r))
  BY <1>1, <1>2 DEF CallOK, NoCall
<1>5. call' = [call EXCEPT ![c] = k] /\ window' = [window EXCEPT ![c] = Offer(r)]
  BY DEF Ask
<1>6. reply' \in [Callers -> Blocks \cup {Null, Failed}] /\ blockCache' \in Seq(Entries)
  BY DEF Ask, ClientInv, ClientTypeOK
<1> HIDE DEF k
<1> QED BY <1>1, <1>3, <1>4, <1>5, <1>6, CallerStep

LEMMA NodeKeeps ==
    ASSUME ClientInv, NEW c \in Callers, NodeStep(c)
    PROVE  ClientInv'
<1>1. UNCHANGED <<nodeVars, blockCache, reply, window>>
  BY DEF NodeStep, NodeAnswers, NodeRefuses
<1>2. PICK stage \in {"answered", "refused", "rejected"}, block \in Blocks \cup {Null} :
          /\ call' = [call EXCEPT ![c] = [@ EXCEPT !.stage = stage, !.block = block]]
          /\ stage = "answered" => block \in Offer(call[c].request)
          /\ call[c].stage = "sent"
  <2>1. call[c] \in Calls
    BY CallTyped
  <2>2. CASE NodeAnswers(c)
    <3>1. call[c].request \in Requests
      BY <2>2, CallTyped DEF NodeAnswers, CallOK
    <3>2. Offer(call[c].request) \subseteq Blocks \cup {Null}
      BY <3>1, OfferIsMined DEF ClientInv, ClientTypeOK
    <3> QED BY <2>2, <3>2 DEF NodeAnswers
  <2>3. CASE NodeRefuses(c)
    <3>1. PICK stage \in {"refused", "rejected"} : call' = [call EXCEPT ![c].stage = stage]
      BY <2>3 DEF NodeRefuses
    <3>2. [call[c] EXCEPT !.stage = stage] = [call[c] EXCEPT !.stage = stage, !.block = call[c].block]
      BY <2>1 DEF Calls
    <3>3. call[c].block \in Blocks \cup {Null} /\ call[c].stage = "sent"
      BY <2>1, <2>3 DEF Calls, NodeRefuses
    <3> QED BY <3>1, <3>2, <3>3
  <2> QED BY <2>2, <2>3 DEF NodeStep
<1> DEFINE k == [call[c] EXCEPT !.stage = stage, !.block = block]
<1>3. k \in Calls /\ window[c] \in SUBSET (Blocks \cup {Null})
  BY CallTyped DEF Calls, Stages
<1>4. CallOK(k, window[c])
  BY <1>2, CallTyped DEF CallOK, Calls
<1>5. call' = [call EXCEPT ![c] = k] /\ window' = [window EXCEPT ![c] = window[c]]
  BY <1>1, <1>2 DEF ClientInv, ClientTypeOK
<1>6. reply' \in [Callers -> Blocks \cup {Null, Failed}] /\ blockCache' \in Seq(Entries)
  BY <1>1 DEF ClientInv, ClientTypeOK
<1> HIDE DEF k
<1> QED BY <1>1, <1>3, <1>4, <1>5, <1>6, CallerStep

LEMMA NoCallOK ==
    NoCall \in Calls /\ CallOK(NoCall, {})
<1>1. 0 \in 0..MaxRetries - 1
  BY ClientAssumption
<1> QED BY <1>1, RequestKinds DEF NoCall, Calls, Stages, CallOK

LEMMA ReturnKeeps ==
    ASSUME ClientInv, UNCHANGED nodeVars, NEW c \in Callers,
           NEW answer \in Blocks \cup {Null, Failed}, Return(c, answer),
           blockCache' \in Seq(Entries)
    PROVE  ClientInv'
<1>1. reply' \in [Callers -> Blocks \cup {Null, Failed}]
  BY DEF Return, ClientInv, ClientTypeOK
<1> QED BY <1>1, NoCallOK, CallerStep DEF Return

\* What a caller that received an answer puts into the cache.
LEMMA ReceiveRemembers ==
    ASSUME ClientInv, NEW c \in Callers, ReceiveBlock(c)
    PROVE  blockCache' \in Seq(Entries)
<1> DEFINE r == call[c].request
           b == call[c].block
<1>1. /\ r \in Requests /\ b \in Blocks \cup {Null} /\ b \in window[c]
      /\ r \in Numbers => window[c] \subseteq HistoryOf(r) \cup {Null}
  BY CallTyped DEF ReceiveBlock, CallOK, Calls
<1>2. CASE ~IsDynamic(r) /\ b # Null
  <2>1. r \in Numbers /\ b \in HistoryOf(r) /\ b \in Blocks
    BY <1>1, <1>2, RequestKinds DEF IsDynamic
  <2>2. blockCache' = Remember(blockCache, r, b)
    BY <1>2 DEF ReceiveBlock
  <2> HIDE DEF r, b
  <2> QED BY <2>1, <2>2, RememberResult DEF ClientInv
<1>3. CASE ~ (~IsDynamic(r) /\ b # Null)
  BY <1>3 DEF ReceiveBlock, ClientInv
<1> QED BY <1>2, <1>3

LEMMA CallKeeps ==
    ASSUME ClientInv, NEW c \in Callers, CallStep(c)
    PROVE  ClientInv'
<1>1. UNCHANGED nodeVars
  BY DEF CallStep
<1>2. call[c] \in Calls /\ CallOK(call[c], window[c]) /\ window[c] \in SUBSET (Blocks \cup {Null})
  BY CallTyped
<1>3. call[c].block \in Blocks \cup {Null, Failed}
  BY <1>2 DEF Calls
<1>4. CASE ReturnHit(c)
  BY <1>1, <1>3, <1>4, ReturnKeeps DEF ReturnHit, ClientInv
<1>5. CASE ReceiveBlock(c)
  BY <1>1, <1>3, <1>5, ReceiveRemembers, ReturnKeeps DEF ReceiveBlock
<1>6. CASE Throw(c)
  BY <1>1, <1>6, ReturnKeeps DEF Throw, ClientInv
<1>7. CASE Retry(c)
  <2> DEFINE k == [call[c] EXCEPT !.stage = "sent", !.attempt = call[c].attempt + 1]
  <2>1. call[c].attempt + 1 \in 0..MaxRetries - 1
    BY <1>2, <1>7, ClientAssumption DEF Calls, Retry, IsLastAttempt
  <2>2. k \in Calls
    BY <1>2, <2>1 DEF Calls, Stages
  <2>3. CallOK(k, window[c])
    BY <1>2, <1>7 DEF CallOK, Calls, Retry
  <2>4. call' = [call EXCEPT ![c] = k] /\ window' = [window EXCEPT ![c] = window[c]]
    BY <1>7 DEF Retry, ClientInv, ClientTypeOK
  <2>5. reply' \in [Callers -> Blocks \cup {Null, Failed}] /\ blockCache' \in Seq(Entries)
    BY <1>7 DEF Retry, ClientInv, ClientTypeOK
  <2> HIDE DEF k
  <2> QED BY <1>1, <1>2, <2>2, <2>3, <2>4, <2>5, CallerStep
<1> QED BY <1>4, <1>5, <1>6, <1>7 DEF CallStep

LEMMA HistoryGrows ==
    ASSUME mined \subseteq mined'
    PROVE  /\ \A r : HistoryOf(r) \subseteq HistoryOf(r)'
           /\ Entries \subseteq Entries'
<1>1. \A r : HistoryOf(r) \subseteq HistoryOf(r)'
  BY DEF HistoryOf
<1>2. Entries' = {e \in [key : Keys, block : Blocks] :
                      e.key \in Numbers => e.block \in HistoryOf(e.key)'}
  BY DEF Entries
<1> QED BY <1>1, <1>2 DEF Entries

OffersAreMined ==
    \A r \in Requests : /\ Offer(r) \subseteq Blocks \cup {Null}
                        /\ r \in Numbers => Offer(r) \subseteq HistoryOf(r) \cup {Null}

LEMMA NextOffersAreMined ==
    NodeTypeOK' /\ ChainIsMined' => OffersAreMined'
<1>1. NodeTypeOK /\ ChainIsMined => OffersAreMined
  BY OfferIsMined DEF OffersAreMined
<1>2. (NodeTypeOK /\ ChainIsMined => OffersAreMined)'
  BY <1>1, PTL
<1> QED BY <1>2

LEMMA NodeMovesKeeps ==
    ASSUME ClientInv, NodeMoves
    PROVE  ClientInv'
<1>1. NodeTypeOK' /\ ChainIsMined' /\ mined \subseteq mined'
  BY NodeMines DEF NodeMoves, NodeChanges, ClientInv, ClientTypeOK
<1>2. /\ \A r : HistoryOf(r) \subseteq HistoryOf(r)'
      /\ Entries \subseteq Entries'
  BY <1>1, HistoryGrows
<1>3. \A r \in Requests : /\ Offer(r)' \subseteq Blocks \cup {Null}
                          /\ r \in Numbers => Offer(r)' \subseteq HistoryOf(r)' \cup {Null}
  BY <1>1, NextOffersAreMined DEF OffersAreMined
<1>4. blockCache' \in Seq(Entries') /\ blockCache' \in Seq([key : Keys, block : Blocks])
  BY <1>2, SeqGrows DEF NodeMoves, ClientInv, ClientTypeOK
<1>5. ASSUME NEW c \in Callers
      PROVE  /\ window'[c] \in SUBSET (Blocks \cup {Null})
             /\ CallOK(call[c], window[c])'
  <2>1. call[c] \in Calls /\ CallOK(call[c], window[c]) /\ window[c] \subseteq Blocks \cup {Null}
        /\ call'[c] = call[c]
    BY CallTyped DEF NodeMoves
  <2>2. CASE call[c].stage = "none"
    <3>1. window'[c] = {} /\ call[c] = NoCall
      BY <2>1, <2>2 DEF NodeMoves, CallOK
    <3> QED BY <2>1, <3>1, RequestKinds DEF CallOK, NoCall
  <2>3. CASE call[c].stage # "none"
    <3> DEFINE r == call[c].request
    <3>1. r \in Requests
      BY <2>1, <2>3 DEF CallOK
    <3>2. window'[c] = window[c] \cup Offer(r)'
      BY <2>1, <2>3 DEF NodeMoves
    <3>3. call'[c].request = r
      BY <2>1
    <3> QED BY <1>2, <1>3, <2>1, <2>3, <3>1, <3>2 DEF CallOK
  <2> QED BY <2>2, <2>3
<1>6. window' \in [Callers -> SUBSET (Blocks \cup {Null})]
  BY <1>5 DEF NodeMoves
<1> QED BY <1>1, <1>4, <1>5, <1>6 DEF NodeMoves, ClientInv, ClientTypeOK

LEMMA ClientInvStep ==
    ClientInv /\ [Next]_rpcVars => ClientInv'
<1> SUFFICES ASSUME ClientInv, [Next]_rpcVars PROVE ClientInv'
  OBVIOUS
<1>1. CASE NodeMoves
  BY <1>1, NodeMovesKeeps
<1>2. ASSUME NEW c \in Callers, CallStep(c) PROVE ClientInv'
  BY <1>2, CallKeeps
<1>3. ASSUME NEW c \in Callers, NodeStep(c) PROVE ClientInv'
  BY <1>3, NodeKeeps
<1>4. ASSUME NEW c \in Callers, NEW r \in Requests, Ask(c, r), UNCHANGED nodeVars PROVE ClientInv'
  BY <1>4, AskKeeps
<1>5. CASE UNCHANGED rpcVars
  <2>1. UNCHANGED nodeVars /\ UNCHANGED <<blockCache, call, reply, window>>
    BY <1>5 DEF rpcVars, clientVars
  <2>2. /\ \A r : Offer(r)' = Offer(r) /\ HistoryOf(r)' = HistoryOf(r)
        /\ Entries' = Entries
    BY <2>1, OfferKept DEF Entries
  <2>3. \A c \in Callers : CallOK(call[c], window[c])'
    BY <2>1, <2>2 DEF ClientInv, CallOK
  <2>4. ChainIsMined' /\ NodeTypeOK'
    BY <2>1 DEF ClientInv, ClientTypeOK, ChainIsMined, NodeTypeOK, Block, HashAt, nodeVars
  <2> QED BY <2>1, <2>2, <2>3, <2>4 DEF ClientInv, ClientTypeOK
<1> QED BY <1>1, <1>2, <1>3, <1>4, <1>5 DEF Next

LEMMA ClientInvHolds ==
    Spec => []ClientInv
  BY InitClient, ClientInvStep, PTL DEF Spec

\* The client is well typed in every state: the cache is a sequence of entries,
\* no attempt passes the last one, and no window holds what is not a block.
THEOREM ClientTypeCorrect ==
    Spec => []ClientTypeOK
<1>1. ClientInv => ClientTypeOK
  BY DEF ClientInv
<1> QED BY <1>1, ClientInvHolds, PTL

(***************************************************************************)
(*                     The client implements BlockSource                   *)
(***************************************************************************)

History == [r \in Numbers |-> {b \in mined : b.number = r[2]}]
Offered == [r \in Requests |-> Offer(r)]
Pending == [c \in Callers |-> call[c].request]

LEMMA SourceInit ==
    Init => Source!Init
<1> SUFFICES ASSUME Init PROVE Source!Init
  OBVIOUS
<1>1. NodeTypeOK /\ ChainIsMined /\ mined = {Block(n) : n \in 0..head}
  BY InitChainIsMined DEF Init
<1>2. ASSUME NEW r \in Numbers
      PROVE  HistoryOf(r) = Offer(r) \ {Null}
  <2>1. r \in Requests /\ r[2] \in Heights
    BY <1>2, RequestKinds
  <2>2. Asked(r) = r[2]
    BY <1>1, <1>2, <2>1, AskedIsHeight
  <2>3. Offer(r) \ {Null} \subseteq HistoryOf(r)
    BY <1>1, <1>2, <2>1, OfferIsMined
  <2>4. ASSUME NEW b \in HistoryOf(r) PROVE b \in Offer(r) /\ b # Null
    <3>1. PICK n \in 0..head : b = Block(n)
      BY <1>1, <2>4 DEF HistoryOf
    <3>2. n \in Heights /\ n <= head
      BY <1>1, <3>1, NodeAssumption DEF NodeTypeOK, Heights
    <3>3. b \in Blocks /\ n = r[2]
      BY <1>1, <2>4, <3>1, <3>2, BlockOfChain DEF HistoryOf
    <3>4. Block(Asked(r)) \in Offer(r)
      BY <1>1, <2>1, <2>2, <3>2, <3>3, OfferIs
    <3> QED BY <2>2, <3>1, <3>3, <3>4, ClientAssumption
  <2> QED BY <2>3, <2>4
<1>3. History = [r \in Numbers |-> Offered[r] \ {Null}]
  BY <1>2, RequestKinds DEF History, Offered, HistoryOf
<1>4. /\ Pending = [c \in Callers |-> Null]
      /\ window = [c \in Callers |-> {}] /\ reply = [c \in Callers |-> Null]
  BY DEF Init, Pending, NoCall
<1> QED BY <1>3, <1>4 DEF Source!Init, History, Offered, Pending

OffersChain == \A r \in Numbers : r[2] <= head => Block(r[2]) \in Offer(r)

LEMMA NextOfferIs ==
    NodeTypeOK' => OffersChain'
<1>1. NodeTypeOK => OffersChain
  BY OfferIs, AskedIsHeight, RequestKinds DEF OffersChain
<1>2. (NodeTypeOK => OffersChain)'
  BY <1>1, PTL
<1> QED BY <1>2

\* A step of the node adds to the history of a number what it offers afterwards.
LEMMA HistoryOfStep ==
    ASSUME ClientInv, NodeMoves, NEW r \in Numbers
    PROVE  HistoryOf(r)' = HistoryOf(r) \cup (Offer(r)' \ {Null})
<1>1. /\ NodeTypeOK' /\ ChainIsMined' /\ mined \subseteq mined'
      /\ mined' \subseteq mined \cup {Block(n)' : n \in 0..head'}
  BY NodeMines DEF NodeMoves, NodeChanges, ClientInv, ClientTypeOK
<1>2. r \in Requests /\ r[2] \in Heights
  BY RequestKinds
<1>3. HistoryOf(r) \subseteq HistoryOf(r)' /\ Offer(r)' \ {Null} \subseteq HistoryOf(r)'
  BY <1>1, <1>2, HistoryGrows, NextOffersAreMined DEF OffersAreMined
<1>4. ASSUME NEW b \in HistoryOf(r)', b \notin HistoryOf(r)
      PROVE  b \in Offer(r)' /\ b # Null
  <2>1. b \in mined' /\ b \notin mined /\ b.number = r[2]
    BY <1>4 DEF HistoryOf
  <2>2. PICK n \in 0..head' : b = Block(n)'
    BY <1>1, <2>1
  <2>3. n = r[2] /\ n <= head'
    BY <1>1, <2>1, <2>2, HeightsAreNumbers DEF Block, NodeTypeOK
  <2>4. b \in Blocks
    BY <1>1, <2>1 DEF NodeTypeOK
  <2>5. Block(r[2])' \in Offer(r)'
    BY <1>1, <1>2, <2>3, NextOfferIs DEF OffersChain
  <2> QED BY <2>2, <2>3, <2>4, <2>5, ClientAssumption
<1> QED BY <1>3, <1>4

LEMMA PendingIs ==
    ASSUME ClientInv, NEW c \in Callers
    PROVE  /\ Pending[c] = call[c].request
           /\ Pending[c] = Null <=> call[c].stage = "none"
  BY CallTyped, RequestKinds DEF Pending, CallOK, NoCall

LEMMA SourceOfStep ==
    ASSUME UNCHANGED nodeVars
    PROVE  History' = History /\ Offered' = Offered
<1>1. \A r : Offer(r)' = Offer(r) /\ HistoryOf(r)' = HistoryOf(r)
  BY OfferKept
<1> QED BY <1>1 DEF History, Offered, HistoryOf

LEMMA NodeMovesSource ==
    ASSUME ClientInv, NodeMoves
    PROVE  Source!NodeMoves
<1>1. History' = [r \in Numbers |-> History[r] \cup (Offered'[r] \ {Null})]
  BY HistoryOfStep, RequestKinds DEF History, Offered, HistoryOf
<1>2. window' = [c \in Callers |->
                    IF Pending[c] = Null THEN {} ELSE window[c] \cup Offered'[Pending[c]]]
  <2>1. ASSUME NEW c \in Callers, call[c].stage # "none"
        PROVE  Pending[c] \in Requests /\ Offered'[Pending[c]] = Offer(call[c].request)'
    <3>1. Pending[c] = call[c].request /\ call'[c] = call[c] /\ call[c].request \in Requests
      BY <2>1, PendingIs, CallTyped DEF NodeMoves, CallOK
    <3> QED BY <3>1 DEF Offered
  <2> QED BY <2>1, PendingIs DEF NodeMoves
<1>3. Pending' = Pending /\ reply' = reply
  BY DEF NodeMoves, Pending
<1> QED BY <1>1, <1>2, <1>3 DEF Source!NodeMoves, History, Offered, Pending

LEMMA AskSource ==
    ASSUME ClientInv, UNCHANGED nodeVars, NEW c \in Callers, NEW r \in Requests, Ask(c, r)
    PROVE  Source!Ask(c, r)
<1>1. Pending[c] = Null
  BY PendingIs DEF Ask
<1>2. Pending' = [Pending EXCEPT ![c] = r]
  <2>1. \A d \in Callers : call'[d].request = IF d = c THEN r ELSE call[d].request
    BY DEF Ask, NoCall, ClientInv, ClientTypeOK
  <2> QED BY <2>1 DEF Pending
<1>3. window' = [window EXCEPT ![c] = Offered[r]] /\ reply' = [reply EXCEPT ![c] = Null]
  BY DEF Ask, Offered
<1>4. History' = History /\ Offered' = Offered
  BY SourceOfStep
<1> QED BY <1>1, <1>2, <1>3, <1>4 DEF Source!Ask, History, Offered, Pending

\* A call that ends is told what its window or, for a number, the history holds,
\* or that it failed.
LEMMA ReturnSource ==
    ASSUME ClientInv, UNCHANGED nodeVars, NEW c \in Callers, call[c].stage # "none",
           NEW answer, Return(c, answer),
           \/ answer \in window[c]
           \/ answer = Failed
           \/ call[c].request \in Numbers /\ answer \in HistoryOf(call[c].request)
    PROVE  Source!Reply(c)
<1>1. Pending[c] # Null /\ Pending[c] = call[c].request
  BY PendingIs
<1>2. Pending' = [Pending EXCEPT ![c] = Null]
  <2>1. \A d \in Callers : call'[d].request = IF d = c THEN Null ELSE call[d].request
    BY DEF Return, NoCall, ClientInv, ClientTypeOK
  <2> QED BY <2>1 DEF Pending
<1>3. answer \in window[c] \cup (IF Pending[c] \in Numbers THEN History[Pending[c]] ELSE {})
                 \cup {Failed}
  BY <1>1 DEF History, HistoryOf
<1>4. History' = History /\ Offered' = Offered
  BY SourceOfStep
<1>5. window' = [window EXCEPT ![c] = {}] /\ reply' = [reply EXCEPT ![c] = answer]
  BY DEF Return
<1> QED BY <1>1, <1>2, <1>3, <1>4, <1>5
        DEF Source!Reply, Source!Remembered, History, Offered, Pending

LEMMA SourceStutters ==
    ASSUME UNCHANGED <<nodeVars, reply, window>>, Pending' = Pending
    PROVE  UNCHANGED Source!vars
  BY SourceOfStep DEF Source!vars, History, Offered, Pending

LEMMA CallSource ==
    ASSUME ClientInv, NEW c \in Callers, CallStep(c)
    PROVE  Source!Reply(c) \/ UNCHANGED Source!vars
<1>1. UNCHANGED nodeVars /\ CallOK(call[c], window[c])
  BY CallTyped DEF CallStep
<1>2. CASE ReturnHit(c)
  BY <1>1, <1>2, ReturnSource DEF ReturnHit, CallOK
<1>3. CASE ReceiveBlock(c)
  BY <1>1, <1>3, ReturnSource DEF ReceiveBlock, CallOK
<1>4. CASE Throw(c)
  BY <1>1, <1>4, ReturnSource DEF Throw
<1>5. CASE Retry(c)
  <2>1. Pending' = Pending /\ UNCHANGED <<reply, window>>
    BY <1>5 DEF Retry, Pending, ClientInv, ClientTypeOK
  <2> QED BY <1>1, <2>1, SourceStutters
<1> QED BY <1>2, <1>3, <1>4, <1>5 DEF CallStep

LEMMA NodeSource ==
    ASSUME ClientInv, NEW c \in Callers, NodeStep(c)
    PROVE  UNCHANGED Source!vars
<1>1. UNCHANGED <<nodeVars, reply, window>>
  BY DEF NodeStep, NodeAnswers, NodeRefuses
<1>2. ASSUME NEW d \in Callers PROVE call'[d].request = call[d].request
  <2>1. call[d] \in Calls /\ call \in [Callers -> Calls]
    BY DEF ClientInv, ClientTypeOK, Calls
  <2>2. CASE NodeAnswers(c)
    <3>1. PICK block : call' = [call EXCEPT ![c].stage = "answered", ![c].block = block]
      BY <2>2 DEF NodeAnswers
    <3> QED BY <2>1, <3>1 DEF Calls
  <2>3. CASE NodeRefuses(c)
    BY <2>1, <2>3 DEF NodeRefuses, Calls
  <2> QED BY <2>2, <2>3 DEF NodeStep
<1>3. Pending' = Pending
  BY <1>2 DEF Pending
<1> QED BY <1>1, <1>3, SourceStutters

LEMMA SourceStep ==
    ClientInv /\ [Next]_rpcVars => [Source!Next]_(Source!vars)
<1> SUFFICES ASSUME ClientInv, [Next]_rpcVars
             PROVE  Source!Next \/ UNCHANGED Source!vars
  OBVIOUS
<1>1. CASE NodeMoves
  BY <1>1, NodeMovesSource DEF Source!Next
<1>2. ASSUME NEW c \in Callers, CallStep(c) PROVE Source!Next \/ UNCHANGED Source!vars
  BY <1>2, CallSource DEF Source!Next
<1>3. ASSUME NEW c \in Callers, NodeStep(c) PROVE Source!Next \/ UNCHANGED Source!vars
  BY <1>3, NodeSource
<1>4. ASSUME NEW c \in Callers, NEW r \in Requests, Ask(c, r), UNCHANGED nodeVars
      PROVE  Source!Next \/ UNCHANGED Source!vars
  BY <1>4, AskSource DEF Source!Next, Source!Requests, Requests
<1>5. CASE UNCHANGED rpcVars
  BY <1>5, SourceStutters DEF rpcVars, clientVars, Pending
<1> QED BY <1>1, <1>2, <1>3, <1>4, <1>5 DEF Next

\* getBlockByNumber implements BlockSource: an Ask is an Ask, the return or the
\* exception that ends a call is its Reply, and the calls of the provider, the
\* retries and the cache are invisible.  A caller is told what the node could have
\* answered while it waited, for a number also what the node once had under it.
THEOREM ClientImplementsSource ==
    Spec => AnswersComeFromTheNode
  BY ClientInvHolds, SourceInit, SourceStep, PTL DEF Spec, AnswersComeFromTheNode, Source!Spec
=============================================================================
