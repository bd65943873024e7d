----------------------------- MODULE BlockLedger ----------------------------
(***************************************************************************)
(* What block_records is for its readers, whichever of the activities      *)
(* writes it and whatever fails: a ledger with one entry per number.  An   *)
(* entry names a block that was mined with its number; it is replaced, but *)
(* never removed; its status is raised up to a number at a time, to SAFE   *)
(* or FINALIZED only as far as the node has ever called its blocks that.   *)
(***************************************************************************)
EXTENDS Integers

CONSTANTS Heights, Hashes

VARIABLES
    entries,   \* entries[n]: the hash and the status stored for number n
    mined,     \* <<number, hash>> of every block that was mined
    safe,      \* the highest number the node has ever called safe
    finalized  \* the number up to which the node has finalized

vars == <<entries, mined, safe, finalized>>

Init ==
    \A n \in DOMAIN entries :
        <<n, entries[n].hash>> \in mined /\ entries[n].status = "UNFINALIZED"

NodeMoves ==
    /\ mined \subseteq mined'
    /\ safe <= safe' /\ finalized <= finalized'
    /\ UNCHANGED entries

\* A new entry is UNFINALIZED; one that is replaced may keep its status.
Store(n, hash) ==
    /\ <<n, hash>> \in mined
    /\ \E status \in {"UNFINALIZED"} \cup {entries[m].status : m \in DOMAIN entries \cap {n}} :
          entries' = [m \in DOMAIN entries \cup {n} |->
                         IF m = n THEN [hash |-> hash, status |-> status] ELSE entries[m]]
    /\ UNCHANGED <<mined, safe, finalized>>

Raise(n, status) ==
    /\ n <= IF status = "SAFE" THEN safe ELSE finalized
    /\ entries' = [m \in DOMAIN entries |->
                      IF m <= n /\ entries[m].status # "FINALIZED"
                      THEN [entries[m] EXCEPT !.status = status]
                      ELSE entries[m]]
    /\ UNCHANGED <<mined, safe, finalized>>

Next ==
    \/ NodeMoves
    \/ \E n \in Heights :
          \/ \E hash \in Hashes : Store(n, hash)
          \/ \E status \in {"SAFE", "FINALIZED"} : Raise(n, status)

Spec == Init /\ [][Next]_vars
=============================================================================
