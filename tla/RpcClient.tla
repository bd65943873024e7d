------------------------------ MODULE RpcClient -----------------------------
(***************************************************************************)
(* getBlockByNumber of blockchain-rpc.service.ts: the blocks it remembers  *)
(* in blockCache, retryOperation around each call of the provider, and     *)
(* several callers that wait at once.  Between the look into the cache and *)
(* the insertion the node may change and other callers may insert.         *)
(***************************************************************************)
EXTENDS EthNode, Sequences

CONSTANTS
    Null,          \* no block
    Failed,        \* the call has thrown
    Callers,       \* calls that may be pending at the same time
    AskedNumbers,  \* the numbers they ask for
    AskedTags,     \* and the tags
    MaxCacheSize,  \* maxCacheSize
    MaxRetries     \* maxRetries of retryOperation

ASSUME ClientAssumption ==
    /\ AskedNumbers \subseteq Heights
    /\ AskedTags \subseteq {"latest", "safe", "finalized"}
    /\ MaxCacheSize \in Nat \ {0}
    /\ MaxRetries \in Nat \ {0}
    /\ Null \notin Blocks /\ Failed \notin Blocks \cup {Null}

VARIABLES
    blockCache,  \* the Map: its entries, the oldest key first
    call,        \* call[c]: the progress of getBlockByNumber for caller c
    reply,       \* reply[c]: what c was told last
    window       \* history: what the node could have answered since c asked

clientVars == <<blockCache, call, reply, window>>
rpcVars    == <<nodeVars, clientVars>>

Tags     == {<<"tag", t>> : t \in AskedTags}
Numbers  == {<<"number", n>> : n \in AskedNumbers}
Requests == Tags \cup Numbers
Keys     == Requests \cup {<<"hash", h>> : h \in Hashes}

ASSUME NullAssumption == Null \notin Requests

\* Null: above the head, or not known to a backend that lags.
Offer(r) ==
    LET n == CASE r = <<"tag", "latest">>    -> head
               [] r = <<"tag", "safe">>      -> safe
               [] r = <<"tag", "finalized">> -> finalized
               [] OTHER                      -> r[2]
    IN  {IF Known(n, lagging) THEN Block(n) ELSE Null : lagging \in Lags({n})}

(***************************************************************************)
(* blockCache                                                              *)
(***************************************************************************)
Has(map, key) == \E i \in DOMAIN map : map[i].key = key
Place(map, key) == CHOOSE i \in DOMAIN map : map[i].key = key
Get(map, key) == map[Place(map, key)].block

\* Map.set: a key that is there keeps its place.
SetEntry(map, key, block) ==
    IF Has(map, key)
    THEN [map EXCEPT ![Place(map, key)].block = block]
    ELSE Append(map, [key |-> key, block |-> block])

Evict(map) == IF Len(map) >= MaxCacheSize THEN Tail(map) ELSE map

Remember(map, key, block) ==
    SetEntry(SetEntry(Evict(map), key, block), <<"hash", block.hash>>, block)

(***************************************************************************)
(* getBlockByNumber and retryOperation                                     *)
(***************************************************************************)
Stages == {"none", "hit", "sent", "answered", "refused", "rejected"}
NoCall == [request |-> Null, stage |-> "none", attempt |-> 0, block |-> Null]

\* Mutated form: 'safe' is missing in the list.
IsDynamic_NotSafe(r) == r \in {<<"tag", "latest">>, <<"tag", "finalized">>}

\* The tags are neither looked up nor remembered.
IsDynamic(r) == r \in Tags

IsHit(r) == ~IsDynamic(r) /\ Has(blockCache, r)

Ask(c, r) ==
    /\ call[c].stage = "none"
    /\ call' = [call EXCEPT ![c] =
                  IF IsHit(r)
                  THEN [NoCall EXCEPT !.request = r, !.stage = "hit",
                                      !.block = Get(blockCache, r)]
                  ELSE [NoCall EXCEPT !.request = r, !.stage = "sent"]]
    /\ reply' = [reply EXCEPT ![c] = Null]
    /\ window' = [window EXCEPT ![c] = Offer(r)]
    /\ UNCHANGED blockCache

NodeAnswers(c) ==
    /\ call[c].stage = "sent"
    /\ \E block \in Offer(call[c].request) :
          call' = [call EXCEPT ![c].stage = "answered", ![c].block = block]
    /\ UNCHANGED <<blockCache, reply, window>>

\* An error: "rejected" with code 400 or 404, "refused" with any other code,
\* without one, or after the timeout of the connection.
NodeRefuses(c) ==
    /\ call[c].stage = "sent"
    /\ \E stage \in {"refused", "rejected"} : call' = [call EXCEPT ![c].stage = stage]
    /\ UNCHANGED <<blockCache, reply, window>>

Return(c, answer) ==
    /\ call' = [call EXCEPT ![c] = NoCall]
    /\ reply' = [reply EXCEPT ![c] = answer]
    /\ window' = [window EXCEPT ![c] = {}]

ReturnHit(c) ==
    /\ call[c].stage = "hit"
    /\ Return(c, call[c].block)
    /\ UNCHANGED blockCache

\* That there was no block is not remembered.
ReceiveBlock(c) ==
    /\ call[c].stage = "answered"
    /\ blockCache' = IF ~IsDynamic(call[c].request) /\ call[c].block # Null
                     THEN Remember(blockCache, call[c].request, call[c].block)
                     ELSE blockCache
    /\ Return(c, call[c].block)

\* Mutated form: ">" in place of ">=".
IsLastAttempt_OneMore(c) == call[c].attempt + 1 > MaxRetries

IsLastAttempt(c) == call[c].attempt + 1 >= MaxRetries

Throw(c) ==
    /\ \/ call[c].stage = "rejected"
       \/ call[c].stage = "refused" /\ IsLastAttempt(c)
    /\ Return(c, Failed)
    /\ UNCHANGED blockCache

\* Mutated form: the attempts are counted per operation, not per call.
Retry_NotCounted(c) ==
    /\ call[c].stage = "refused" /\ ~IsLastAttempt(c)
    /\ call' = [call EXCEPT ![c].stage = "sent"]
    /\ UNCHANGED <<blockCache, reply, window>>

\* The delay has passed, and the operation is called again.
Retry(c) ==
    /\ call[c].stage = "refused" /\ ~IsLastAttempt(c)
    /\ call' = [call EXCEPT ![c].stage = "sent", ![c].attempt = @ + 1]
    /\ UNCHANGED <<blockCache, reply, window>>

CallStep(c) ==
    /\ ReturnHit(c) \/ ReceiveBlock(c) \/ Throw(c) \/ Retry(c)
    /\ UNCHANGED nodeVars

NodeStep(c) == (NodeAnswers(c) \/ NodeRefuses(c)) /\ UNCHANGED nodeVars

\* The node changes while calls are pending.
NodeMoves ==
    /\ NewTip \/ AdvanceSafe \/ AdvanceFinalized
    /\ UNCHANGED <<blockCache, call, reply>>
    /\ window' = [c \in Callers |->
                     IF call[c].stage = "none" THEN {}
                     ELSE window[c] \cup Offer(call[c].request)']

Init ==
    /\ NodeInit
    /\ blockCache = <<>>
    /\ call = [c \in Callers |-> NoCall]
    /\ reply = [c \in Callers |-> Null]
    /\ window = [c \in Callers |-> {}]

Next ==
    \/ NodeMoves
    \/ \E c \in Callers :
          \/ CallStep(c) \/ NodeStep(c)
          \/ \E r \in Requests : Ask(c, r) /\ UNCHANGED nodeVars

Spec == Init /\ [][Next]_rpcVars

\* The node answers a call or refuses it (a connection that does not answer
\* runs into its timeout), timers fire, and an answer is consumed.
FairSpec ==
    /\ Spec
    /\ \A c \in Callers : WF_rpcVars(CallStep(c)) /\ WF_rpcVars(NodeStep(c))

ClientTypeOK ==
    /\ NodeTypeOK
    /\ blockCache \in Seq([key : Keys, block : Blocks])
    /\ call \in [Callers -> [request : Requests \cup {Null}, stage : Stages,
                             attempt : 0..MaxRetries - 1, block : Blocks \cup {Null}]]
    /\ reply \in [Callers -> Blocks \cup {Null, Failed}]
    /\ window \in [Callers -> SUBSET (Blocks \cup {Null})]

\* The cache, the retries and the other callers are invisible but for one
\* thing: the answer to a number may be a block the node has since abandoned.
Source == INSTANCE BlockSource WITH
    offer   <- [r \in Requests |-> Offer(r)],
    history <- [r \in Numbers |-> {b \in mined : b.number = r[2]}],
    asked   <- [c \in Callers |-> call[c].request]

AnswersComeFromTheNode == Source!Spec

\* A call returns or throws, even if the node refuses every attempt.
EveryCallReturns ==
    \A c \in Callers : call[c].stage # "none" ~> call[c].stage = "none"

\* 260422_104628_walkthrough.md:13: entries are deleted in order of insertion
\* when there are more than 1000, against exhaustion of the memory.  One entry
\* is deleted for two that are added.  (The claim is read with a tolerance of
\* one: the two entries of one block.)
CacheStaysBounded == Len(blockCache) <= MaxCacheSize + 1
=============================================================================
