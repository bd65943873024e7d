----------------------------- MODULE EventTable -----------------------------
(***************************************************************************)
(* The table contract_event_records and the two statements of              *)
(* contract-event-record.repository.ts.  A table is a function from logs   *)
(* (the unique key: transaction hash and log index) to del_yn.  The first  *)
(* component of a log is its block_number; the decoded arguments of an     *)
(* event are functions of its log and are left out.                        *)
(***************************************************************************)
EXTENDS Integers

DelYn == {"N", "Y"}

\* Mutated form: an upsert, as a careless cure for the canonical events that stay
\* deleted: it also brings back the events of an abandoned block.
SaveEventsBulk_Upsert(t, logs) ==
    [l \in DOMAIN t \cup logs |-> IF l \in logs THEN "N" ELSE t[l]]

\* saveEventsBulk: INSERT ... ON CONFLICT DO NOTHING
SaveEventsBulk(t, logs) ==
    [l \in DOMAIN t \cup logs |-> IF l \in DOMAIN t THEN t[l] ELSE "N"]

\* invalidateEventsFromBlock
InvalidateEventsFromBlock(t, n) ==
    [l \in DOMAIN t |-> IF l[1] >= n THEN "Y" ELSE t[l]]

Live(t) == {l \in DOMAIN t : t[l] = "N"}
=============================================================================
