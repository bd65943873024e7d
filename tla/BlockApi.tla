------------------------------ MODULE BlockApi ------------------------------
(***************************************************************************)
(* GET /blocks next to the statements that write the table: findAll of     *)
(* block-record.repository.ts, behind BlockService and BlockController,    *)
(* and a client that walks through the pages of the list, from the page    *)
(* the query has by default.  The rows change between the pages.  The      *)
(* total that findAll counts as well is left out: no query reads it.       *)
(***************************************************************************)
EXTENDS MCBlockTable, FiniteSets

CONSTANTS
    Limit,    \* limit of the client's queries
    Filters   \* status of its queries; Null: none

ASSUME ApiAssumption ==
    /\ Limit \in Nat \ {0}
    /\ Filters \subseteq BlockStatus \cup {Null}

VARIABLE walk   \* the client: its query, and the rows it had to see and has not

apiVars == <<table, walk>>

Stages == {"none", "page", "over"}

Matching(t, status) ==
    IF status = Null THEN DOMAIN t ELSE {n \in DOMAIN t : t[n].status = status}

\* The position of number n in the list, which is ordered from the highest down.
Position(numbers, n) == Cardinality({m \in numbers : n < m})

\* The page of a query that names none.  (API_SPEC.md:42 says 1; a client that
\* starts there does not see the first rows.)
DefaultPage == 0

\* page is 0-indexed.
Skip(page) == page * Limit

FindAll(t, status, page) ==
    LET numbers == Matching(t, status)
    IN  {n \in numbers : Position(numbers, n) \in Skip(page) .. Skip(page) + Limit - 1}

ApiInit ==
    /\ Init
    /\ walk = [stage |-> "none", filter |-> Null, page |-> DefaultPage, unseen |-> {}]

StartWalk(status) ==
    /\ walk.stage \in {"none", "over"}
    /\ walk' = [stage |-> "page", filter |-> status, page |-> DefaultPage,
                unseen |-> Matching(table, status)]
    /\ UNCHANGED table

Rows == FindAll(table, walk.filter, walk.page)

\* The client goes on until a page is not full.
GetPage ==
    /\ walk.stage = "page"
    /\ walk' = IF Cardinality(Rows) < Limit
               THEN [walk EXCEPT !.stage = "over", !.unseen = @ \ Rows, !.page = DefaultPage]
               ELSE [walk EXCEPT !.unseen = @ \ Rows, !.page = @ + 1]
    /\ UNCHANGED table

ApiNext ==
    \/ Next /\ UNCHANGED walk
    \/ \E status \in Filters : StartWalk(status)
    \/ GetPage

ApiSpec == ApiInit /\ [][ApiNext]_apiVars

\* A client that walks through the unfiltered list, from the default page until a
\* page is not full, has seen every row that was stored when it started, although
\* rows are inserted at any place of the list while it turns the pages: rows only
\* move to later pages, because none is ever deleted.
WalkSeesStoredRows ==
    walk.stage = "over" /\ walk.filter = Null => walk.unseen = {}
=============================================================================
