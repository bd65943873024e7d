---------------------------- MODULE MCBlockTable ----------------------------
(***************************************************************************)
(* The statements of BlockTable on every table with numbers up to          *)
(* MaxNumber.  Hashes are irrelevant to these statements: there is one.    *)
(***************************************************************************)
EXTENDS BlockTable

CONSTANT MaxNumber   \* bound: the highest block number

ASSUME MaxNumberAssumption == MaxNumber \in Nat

VARIABLE table

Row(status) == [blockHash |-> "h", parentHash |-> "p", status |-> status, timestamp |-> "t"]

Init ==
    \E numbers \in SUBSET (0..MaxNumber) :
        \E status \in [numbers -> BlockStatus] :
            table = [n \in numbers |-> Row(status[n])]

Update ==
    \E n \in 0..MaxNumber, status \in {SAFE, FINALIZED} :
        table' = UpdateStatusUpToBlock(table, n, status)

Save ==
    \E n \in 0..MaxNumber :
        table' = SaveRow(table, n, Row(UNFINALIZED), SelectRow(table, n))

Next == Update \/ Save

Spec == Init /\ [][Next]_table

Pending == {n \in DOMAIN table : table[n].status \in {UNFINALIZED, SAFE}}

Between(n) == (\E m \in Pending : m < n) /\ (\E m \in Pending : n < m)

\* The window query of findMissingBlockGaps reports every number that is missing
\* between two rows that are not FINALIZED, in ranges that are not empty and that
\* such a row bounds on either side.  What else it reports is stored already:
\* the FINALIZED rows between two such rows, which the poll then fetches and
\* saves again as UNFINALIZED, against BUSINESS_LOGIC.md:37 ("missing ranges");
\* and it reports no hole beside a FINALIZED row that is the last on its side.
GapsCoverHoles ==
    LET gaps     == FindMissingBlockGaps(table)
        reported == UNION {g[1]..g[2] : g \in gaps}
    IN  /\ {n \in 0..MaxNumber \ DOMAIN table : Between(n)} = reported \ DOMAIN table
        /\ {n \in DOMAIN table : table[n].status = FINALIZED /\ Between(n)}
              = reported \cap DOMAIN table
        /\ \A g \in gaps : g[1] <= g[2] /\ {g[1] - 1, g[2] + 1} \subseteq Pending

Rank(status) == CASE status = UNFINALIZED -> 0 [] status = SAFE -> 1 [] status = FINALIZED -> 2

\* The finality updates only ever raise a status, in whatever order tags come.
UpdatesNeverDemote ==
    [][Update => \A n \in DOMAIN table : Rank(table[n].status) <= Rank(table'[n].status)]_table
=============================================================================
