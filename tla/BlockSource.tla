----------------------------- MODULE BlockSource ----------------------------
(***************************************************************************)
(* What a caller of getBlockByNumber may rely on, whatever the cache, the  *)
(* retries and the other callers do.  A tag is answered with what the node *)
(* would have answered at some moment of the call; a number also with any  *)
(* block the node has ever had under it; and a call may fail.              *)
(***************************************************************************)
CONSTANTS Callers, Tags, Numbers, Null, Failed

VARIABLES
    offer,    \* offer[r]: what the node may answer to request r now
    history,  \* history[r]: every block it has ever had under number r
    asked,    \* asked[c]: the request caller c waits for, or Null
    window,   \* window[c]: what the node could have answered since c asked
    reply     \* reply[c]: what c was told last

vars == <<offer, history, asked, window, reply>>

Requests == Tags \cup Numbers

Init ==
    /\ history = [r \in Numbers |-> offer[r] \ {Null}]
    /\ asked = [c \in Callers |-> Null]
    /\ window = [c \in Callers |-> {}]
    /\ reply = [c \in Callers |-> Null]

\* The node moves on: every pending call sees what it offers from now on.
NodeMoves ==
    /\ history' = [r \in Numbers |-> history[r] \cup (offer'[r] \ {Null})]
    /\ window' = [c \in Callers |->
                     IF asked[c] = Null THEN {} ELSE window[c] \cup offer'[asked[c]]]
    /\ UNCHANGED <<asked, reply>>

Ask(c, r) ==
    /\ asked[c] = Null
    /\ asked' = [asked EXCEPT ![c] = r]
    /\ window' = [window EXCEPT ![c] = offer[r]]
    /\ reply' = [reply EXCEPT ![c] = Null]
    /\ UNCHANGED <<offer, history>>

\* A block the node once had under a number may be remembered; that it had
\* none is not.
Remembered(r) == IF r \in Numbers THEN history[r] ELSE {}

Reply(c) ==
    /\ asked[c] # Null
    /\ \E answer \in window[c] \cup Remembered(asked[c]) \cup {Failed} :
          reply' = [reply EXCEPT ![c] = answer]
    /\ asked' = [asked EXCEPT ![c] = Null]
    /\ window' = [window EXCEPT ![c] = {}]
    /\ UNCHANGED <<offer, history>>

Next ==
    \/ NodeMoves
    \/ \E c \in Callers : Reply(c) \/ \E r \in Requests : Ask(c, r)

Spec == Init /\ [][Next]_vars
=============================================================================
