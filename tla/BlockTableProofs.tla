-------------------------- MODULE BlockTableProofs --------------------------
(***************************************************************************)
(* The properties of the run block_table for every MaxNumber.              *)
(***************************************************************************)
EXTENDS BlockApi, BlockTableLemmas, FiniteSetTheorems

Texts == {"h", "p", "t"}

TableInv ==
    /\ DOMAIN table \subseteq 0..MaxNumber
    /\ table \in [DOMAIN table -> BlockRecord(Texts)]

LEMMA TableInvInductive ==
    Spec => []TableInv
<1> USE DEF TableInv
<1>1. \A status \in BlockStatus : Row(status) \in BlockRecord(Texts)
  BY DEF Row, BlockRecord, Texts
<1>2. Init => TableInv
  BY <1>1 DEF Init
<1>3. ASSUME TableInv, [Next]_table
      PROVE  TableInv'
  <2>1. CASE Update
    <3>1. PICK n \in 0..MaxNumber, status \in {SAFE, FINALIZED} :
              table' = UpdateStatusUpToBlock(table, n, status)
      BY <2>1 DEF Update
    <3>2. n \in Int /\ status \in BlockStatus /\ DOMAIN table \subseteq Int
      BY <1>3, MaxNumberAssumption DEF BlockStatus
    <3> QED BY <1>3, <3>1, <3>2, UpdateStatusResult
  <2>2. CASE Save
    <3>1. PICK n : /\ n \in 0..MaxNumber
                   /\ table' = SaveRow(table, n, Row(UNFINALIZED), SelectRow(table, n))
      BY <2>2 DEF Save
    <3>2. /\ SelectRow(table, n) \in BlockRecord(Texts) \cup {Null}
          /\ SelectRow(table, n) # Null => n \in DOMAIN table
          /\ Row(UNFINALIZED) \in BlockRecord(Texts)
      BY <1>1, <1>3 DEF SelectRow, BlockStatus
    <3> DEFINE record == Row(UNFINALIZED)
               found  == SelectRow(table, n)
               u      == SaveRow(table, n, record, found)
    <3>3. table \in [DOMAIN table -> BlockRecord(Texts)]
      BY <1>3
    <3>4. /\ record \in BlockRecord(Texts)
          /\ found \in BlockRecord(Texts) \cup {Null}
          /\ found # Null => n \in DOMAIN table
      BY <3>2
    <3> HIDE DEF record, found, TableInv
    <3>5. u \in [DOMAIN u -> BlockRecord(Texts)]
      BY <3>3, <3>4, SaveRowResult
    <3>7. DOMAIN u = DOMAIN table \cup {n}
      BY DEF SaveRow, PutRow
    <3>6. DOMAIN table' = DOMAIN table \cup {n} /\ table' \in [DOMAIN table' -> BlockRecord(Texts)]
      BY <3>1, <3>5, <3>7 DEF record, found
    <3> QED BY <1>3, <3>1, <3>6, MaxNumberAssumption DEF TableInv
  <2>3. CASE UNCHANGED table
    BY <1>3, <2>3
  <2> QED BY <1>3, <2>1, <2>2, <2>3 DEF Next
<1> QED BY <1>2, <1>3, PTL DEF Spec

LEMMA PendingIsFound ==
    TableInv => Pending = DOMAIN FindUnfinalizedAndSafeBlocks(table)
  BY DEF Pending, FindUnfinalizedAndSafeBlocks

\* Each number missing between two pending ones is in a gap: the one from the
\* greatest pending number below it to the least above it.
LEMMA HoleIsInGap ==
    ASSUME TableInv, NEW n \in (0..MaxNumber) \ Pending,
           NEW low \in Pending, low < n, NEW high \in Pending, n < high
    PROVE  \E g \in FindMissingBlockGaps(table) : n \in g[1]..g[2]
<1> USE MaxNumberAssumption
<1>1. Pending \subseteq 0..MaxNumber /\ Pending \subseteq Nat
  BY DEF TableInv, Pending
<1>2. PICK p \in {m \in Pending : m < n} : \A k \in {m \in Pending : m < n} : k <= p
  <2>1. {m \in Pending : m < n} \subseteq 0..MaxNumber /\ {m \in Pending : m < n} # {}
    BY <1>1
  <2> QED BY <2>1, HasMax
<1>3. PICK q \in {m \in Pending : n < m} : \A k \in {m \in Pending : n < m} : q <= k
  <2>1. {m \in Pending : n < m} \subseteq Nat /\ {m \in Pending : n < m} # {}
    BY <1>1
  <2> QED BY <2>1, HasMin
<1>4. IsLead(Pending, p, q) /\ q - p > 1
  <2>1. p < n /\ n < q /\ p \in 0..MaxNumber /\ q \in 0..MaxNumber
    BY <1>1, <1>2, <1>3
  <2>2. ASSUME NEW m \in Pending, p < m, m < q
        PROVE  FALSE
    <3>1. m \in 0..MaxNumber /\ m # n
      BY <1>1
    <3>2. ~ (m < n) /\ ~ (n < m)
      BY <1>2, <1>3, <2>1, <2>2, <3>1
    <3> QED BY <3>1, <3>2
  <2> QED BY <2>1, <2>2 DEF IsLead
<1>5. <<p + 1, q - 1>> \in FindMissingBlockGaps(table)
  <2>1. <<p, q>> \in Pending \X Pending
    OBVIOUS
  <2> QED BY <1>4, <2>1, PendingIsFound DEF FindMissingBlockGaps
<1>6. n \in (p + 1)..(q - 1)
  BY <1>1, <1>2, <1>3
<1> QED BY <1>5, <1>6

LEMMA GapsAreHoles ==
    ASSUME TableInv, NEW g \in FindMissingBlockGaps(table)
    PROVE  /\ g[1] <= g[2]
           /\ {g[1] - 1, g[2] + 1} \subseteq Pending
           /\ \A n \in g[1]..g[2] :
                  /\ n \in (0..MaxNumber) \ Pending
                  /\ \E m \in Pending : m < n
                  /\ \E m \in Pending : n < m
<1>1. Pending \subseteq 0..MaxNumber
  BY DEF TableInv, Pending
<1>2. PICK p \in Pending, q \in Pending :
          g = <<p + 1, q - 1>> /\ q - p > 1 /\ IsLead(Pending, p, q)
  BY FindMissingBlockGapsResult, PendingIsFound
<1>3. p \in 0..MaxNumber /\ q \in 0..MaxNumber
  BY <1>1
<1>4. g[1] = p + 1 /\ g[2] = q - 1
  BY <1>2
<1>5. ASSUME NEW n \in g[1]..g[2]
      PROVE  n \in (0..MaxNumber) \ Pending /\ p < n /\ n < q
  BY <1>2, <1>3, <1>4, MaxNumberAssumption DEF IsLead
<1> QED BY <1>2, <1>3, <1>4, <1>5, MaxNumberAssumption

\* findMissingBlockGaps reports each number missing between rows that are not
\* FINALIZED, in maximal ranges, and besides them the FINALIZED rows there.
THEOREM GapsAreMaximal ==
    Spec => []GapsCoverHoles
<1>1. ASSUME TableInv PROVE GapsCoverHoles
  <2> DEFINE gaps     == FindMissingBlockGaps(table)
             reported == UNION {g[1]..g[2] : g \in gaps}
  <2>1. ASSUME NEW n \in (0..MaxNumber) \ Pending, Between(n) PROVE n \in reported
    BY <1>1, <2>1, HoleIsInGap DEF Between
  <2>2. ASSUME NEW n \in reported PROVE n \in (0..MaxNumber) \ Pending /\ Between(n)
    <3>1. PICK g \in gaps : n \in g[1]..g[2]
      OBVIOUS
    <3> QED BY <1>1, <3>1, GapsAreHoles DEF Between
  <2>3. DOMAIN table \subseteq 0..MaxNumber /\ Pending \subseteq DOMAIN table
    BY <1>1 DEF TableInv, Pending
  <2>4. \A n \in DOMAIN table : n \notin Pending <=> table[n].status = FINALIZED
    BY <1>1 DEF TableInv, Pending, BlockRecord, BlockStatus, UNFINALIZED, SAFE, FINALIZED
  <2>5. \A g \in gaps : g[1] <= g[2] /\ {g[1] - 1, g[2] + 1} \subseteq Pending
    BY <1>1, GapsAreHoles
  <2> HIDE DEF reported
  <2>6. {n \in 0..MaxNumber \ DOMAIN table : Between(n)} = reported \ DOMAIN table
    BY <2>1, <2>2, <2>3
  <2>7. {n \in DOMAIN table : table[n].status = FINALIZED /\ Between(n)}
           = reported \cap DOMAIN table
    BY <2>1, <2>2, <2>3, <2>4
  <2> QED BY <2>5, <2>6, <2>7 DEF GapsCoverHoles, reported
<1> QED BY <1>1, TableInvInductive, PTL

\* updateStatusUpToBlock raises a status or leaves it, whatever the table holds
\* and in whatever order the tags arrive: a late "safe" undoes no "finalized".
THEOREM StatusOnlyRises ==
    Spec => UpdatesNeverDemote
<1>1. ASSUME TableInv, Update
      PROVE  \A n \in DOMAIN table : Rank(table[n].status) <= Rank(table'[n].status)
  <2>1. PICK n \in 0..MaxNumber, status \in {SAFE, FINALIZED} :
            table' = UpdateStatusUpToBlock(table, n, status)
    BY <1>1 DEF Update
  <2>2. SUFFICES ASSUME NEW m \in DOMAIN table
                 PROVE  Rank(table[m].status) <= Rank(table'[m].status)
    OBVIOUS
  <2>3. table[m] \in BlockRecord(Texts) /\ table[m].status \in BlockStatus
    BY <1>1 DEF TableInv, BlockRecord
  <2>4. table'[m].status = IF m <= n /\ table[m].status \notin {status, FINALIZED}
                           THEN status ELSE table[m].status
    BY <2>1, <2>3 DEF UpdateStatusUpToBlock, BlockRecord
  <2> QED BY <2>3, <2>4 DEF Rank, BlockStatus, UNFINALIZED, SAFE, FINALIZED
<1>2. TableInv /\ [Next]_table =>
          [Update => \A n \in DOMAIN table : Rank(table[n].status) <= Rank(table'[n].status)]_table
  BY <1>1
<1> QED BY <1>2, TableInvInductive, PTL DEF Spec, UpdatesNeverDemote

(***************************************************************************)
(*                       Positions in the list                             *)
(***************************************************************************)

LEMMA NumbersAreFinite ==
    ASSUME NEW D \in SUBSET (0..MaxNumber)
    PROVE  IsFiniteSet(D) /\ Cardinality(D) \in Nat /\ D \subseteq Int
<1>1. IsFiniteSet(0..MaxNumber)
  BY FS_Interval, MaxNumberAssumption
<1>2. IsFiniteSet(D)
  BY <1>1, FS_Subset
<1> QED BY <1>2, FS_CardinalityType, MaxNumberAssumption

LEMMA PositionIsCount ==
    ASSUME NEW D \in SUBSET (0..MaxNumber), NEW n
    PROVE  /\ IsFiniteSet({m \in D : n < m})
           /\ Position(D, n) \in Nat
<1>1. IsFiniteSet({m \in D : n < m})
  BY NumbersAreFinite, FS_Subset
<1> QED BY <1>1, FS_CardinalityType DEF Position

\* A higher number comes first.
LEMMA PositionsDescend ==
    ASSUME NEW D \in SUBSET (0..MaxNumber), NEW n \in D, NEW k \in D, k < n
    PROVE  Position(D, n) < Position(D, k)
<1> DEFINE few  == {m \in D : n < m}
           many == {m \in D : k < m}
<1>1. D \subseteq Int /\ n \in Int /\ k \in Int
  BY NumbersAreFinite
<1>2. few \subseteq many
  <2>1. ASSUME NEW m \in D, n < m PROVE k < m
    <3>1. m \in Int
      BY <1>1
    <3> QED BY <1>1, <2>1, <3>1
  <2> QED BY <2>1
<1>3. n \in many /\ n \notin few
  BY <1>1
<1>4. IsFiniteSet(many) /\ Position(D, n) \in Nat /\ Position(D, k) \in Nat
  BY PositionIsCount
<1>5. Position(D, n) = Cardinality(few) /\ Position(D, k) = Cardinality(many)
  BY DEF Position
<1> HIDE DEF few, many
<1>6. Cardinality(few) <= Cardinality(many) /\ Cardinality(many) # Cardinality(few)
  BY <1>2, <1>3, <1>4, FS_Subset
<1> QED BY <1>4, <1>5, <1>6

\* The positions are 0, 1, ... up to the number of rows.
LEMMA PositionsAreAll ==
    ASSUME NEW D \in SUBSET (0..MaxNumber)
    PROVE  /\ \A n \in D : Position(D, n) \in 0..Cardinality(D) - 1
           /\ \A k \in 0..Cardinality(D) - 1 : \E n \in D : Position(D, n) = k
<1> DEFINE size == Cardinality(D)
           place == [n \in D |-> Position(D, n)]
<1>1. IsFiniteSet(D) /\ size \in Nat /\ D \subseteq Int
  BY NumbersAreFinite
<1>2. ASSUME NEW n \in D PROVE Position(D, n) \in 0..size - 1
  <2> DEFINE above == {m \in D : n < m}
  <2>1. above \subseteq D /\ above # D /\ Position(D, n) = Cardinality(above)
    BY <1>1, <1>2 DEF Position
  <2>2. Position(D, n) \in Nat
    BY PositionIsCount
  <2> HIDE DEF above
  <2>3. Cardinality(above) <= size /\ size # Cardinality(above)
    BY <1>1, <2>1, FS_Subset
  <2> QED BY <1>1, <2>1, <2>2, <2>3
<1>3. ASSUME NEW n \in D, NEW k \in D, n # k
      PROVE  Position(D, n) # Position(D, k)
  <2>1. n < k \/ k < n
    BY <1>1, <1>3
  <2>2. Position(D, n) \in Nat /\ Position(D, k) \in Nat
    BY PositionIsCount
  <2> QED BY <2>1, <2>2, PositionsDescend
<1>4. IsFiniteSet(0..size - 1) /\ Cardinality(0..size - 1) = size
  <2> HIDE DEF size
  <2>1. size - 1 \in Int
    BY <1>1
  <2>2. /\ IsFiniteSet(0..size - 1)
        /\ Cardinality(0..size - 1) = IF 0 > size - 1 THEN 0 ELSE size - 1 - 0 + 1
    BY <2>1, FS_Interval
  <2> QED BY <1>1, <2>2
<1>5. place \in Injection(D, 0..size - 1)
  BY <1>2, <1>3 DEF Injection, IsInjective
<1> HIDE DEF place
<1>6. place \in Surjection(D, 0..size - 1)
  BY <1>1, <1>4, <1>5, FS_Injection DEF size
<1>7. \A k \in 0..size - 1 : \E n \in D : place[n] = k
  BY <1>6 DEF Surjection
<1> QED BY <1>2, <1>7 DEF place

\* A page with a row behind it is full.
LEMMA PageIsFull ==
    ASSUME NEW D \in SUBSET (0..MaxNumber), NEW from \in Nat, NEW n \in D,
           Position(D, n) >= from + Limit
    PROVE  LET page == {m \in D : Position(D, m) \in from..from + Limit - 1}
           IN  Cardinality(page) \in Nat /\ Cardinality(page) >= Limit
<1> DEFINE page == {m \in D : Position(D, m) \in from..from + Limit - 1}
           place == [m \in page |-> Position(D, m)]
<1>1. IsFiniteSet(D) /\ Cardinality(D) \in Nat /\ Limit \in Nat /\ Limit > 0
  BY NumbersAreFinite, ApiAssumption
<1>2. IsFiniteSet(page)
  BY <1>1, FS_Subset
<1>3. Position(D, n) \in 0..Cardinality(D) - 1
  BY PositionsAreAll
<1>4. \A k \in from..from + Limit - 1 : \E m \in D : Position(D, m) = k
  BY <1>1, <1>3, PositionsAreAll
<1>5. place \in Surjection(page, from..from + Limit - 1)
  BY <1>4 DEF Surjection
<1>6. Cardinality(from..from + Limit - 1) = Limit
  BY <1>1, FS_Interval
<1>7. Cardinality(page) \in Nat
  BY <1>2, FS_CardinalityType
<1> HIDE DEF place, page
<1>8. Cardinality(from..from + Limit - 1) <= Cardinality(page)
  BY <1>2, <1>5, FS_Surjection
<1> QED BY <1>6, <1>7, <1>8 DEF page

\* A row that stays in the list only moves back when rows are added.
LEMMA PositionGrows ==
    ASSUME NEW D \in SUBSET (0..MaxNumber), NEW E \in SUBSET (0..MaxNumber), D \subseteq E, NEW n
    PROVE  Position(D, n) <= Position(E, n)
<1>1. {m \in D : n < m} \subseteq {m \in E : n < m} /\ IsFiniteSet({m \in E : n < m})
  BY PositionIsCount
<1> QED BY <1>1, FS_Subset DEF Position

(***************************************************************************)
(*                  Walks through the pages of the list                    *)
(***************************************************************************)

\* The client of GET /blocks is invisible to the table: what is proved of the
\* table alone holds next to its queries.
THEOREM ApiRunsTable ==
    ApiSpec => Spec
<1>1. ApiInit => Init
  BY DEF ApiInit
<1>2. [ApiNext]_apiVars => [Next]_table
  BY DEF ApiNext, apiVars, StartWalk, GetPage
<1> QED BY <1>1, <1>2, PTL DEF ApiSpec, Spec

LEMMA ApiTable ==
    ApiSpec => []TableInv
  BY ApiRunsTable, TableInvInductive, PTL

WalkTypeOK ==
    walk \in [stage : Stages, filter : BlockStatus \cup {Null}, page : Nat,
              unseen : SUBSET (0..MaxNumber)]

\* What a client that asks for every row has not seen is stored at or behind the
\* page it asks for next.
WalkInv ==
    walk.filter = Null =>
        /\ walk.stage = "page" =>
              \A n \in walk.unseen :
                  n \in DOMAIN table /\ Position(DOMAIN table, n) >= Skip(walk.page)
        /\ walk.stage = "over" => walk.unseen = {}

ApiInv == TableInv /\ WalkTypeOK /\ WalkInv

LEMMA TableNumbers ==
    TableInv => DOMAIN table \in SUBSET (0..MaxNumber)
  BY DEF TableInv

LEMMA NumbersStay ==
    ASSUME Next
    PROVE  DOMAIN table \subseteq DOMAIN table'
<1>1. CASE Update
  <2>1. PICK n \in 0..MaxNumber, status \in {SAFE, FINALIZED} :
            table' = UpdateStatusUpToBlock(table, n, status)
    BY <1>1 DEF Update
  <2> QED BY <2>1 DEF UpdateStatusUpToBlock
<1>2. CASE Save
  <2>1. PICK n \in 0..MaxNumber :
            table' = SaveRow(table, n, Row(UNFINALIZED), SelectRow(table, n))
    BY <1>2 DEF Save
  <2>2. DOMAIN SaveRow(table, n, Row(UNFINALIZED), SelectRow(table, n)) = DOMAIN table \cup {n}
    BY DEF SaveRow, PutRow
  <2> QED BY <2>1, <2>2
<1> QED BY <1>1, <1>2 DEF Next

LEMMA InitWalk ==
    ApiInit => WalkTypeOK /\ WalkInv
  BY DEF ApiInit, WalkTypeOK, WalkInv, Stages, DefaultPage

LEMMA MatchingNumbers ==
    ASSUME TableInv, NEW status
    PROVE  /\ Matching(table, status) \in SUBSET (0..MaxNumber)
           /\ status = Null => Matching(table, status) = DOMAIN table
  BY TableNumbers DEF Matching

LEMMA SkipIsNat ==
    ASSUME NEW page \in Nat
    PROVE  Skip(page) \in Nat /\ Skip(page + 1) = Skip(page) + Limit
<1>1. Limit \in Nat
  BY ApiAssumption
<1>2. page * Limit \in Nat
  BY <1>1
<1>3. (page + 1) * Limit = page * Limit + Limit
  BY <1>1
<1> QED BY <1>2, <1>3 DEF Skip

\* What is behind the rows of a page is at or behind the next; when the page is
\* not full, nothing is.
LEMMA BehindThePage ==
    ASSUME TableInv, WalkTypeOK, walk.filter = Null, NEW n \in DOMAIN table,
           Position(DOMAIN table, n) >= Skip(walk.page), n \notin Rows
    PROVE  /\ Position(DOMAIN table, n) >= Skip(walk.page + 1)
           /\ ~ (Cardinality(Rows) < Limit)
<1> DEFINE D == DOMAIN table
           from == Skip(walk.page)
<1>1. D \in SUBSET (0..MaxNumber) /\ from \in Nat /\ Skip(walk.page + 1) = from + Limit
  BY TableNumbers, SkipIsNat DEF WalkTypeOK
<1>2. Rows = {m \in D : Position(D, m) \in from..from + Limit - 1}
  BY MatchingNumbers DEF Rows, FindAll
<1>3. Position(D, n) \in Nat /\ Limit \in Nat
  BY <1>1, PositionIsCount, ApiAssumption
<1> HIDE DEF D, from
<1>4. Position(D, n) >= from + Limit
  BY <1>1, <1>2, <1>3 DEF D, from
<1>5. Cardinality(Rows) \in Nat /\ Cardinality(Rows) >= Limit
  BY <1>1, <1>2, <1>4, PageIsFull DEF D
<1> QED BY <1>1, <1>3, <1>4, <1>5 DEF D

LEMMA WalkStep ==
    ASSUME ApiInv, TableInv', [ApiNext]_apiVars
    PROVE  WalkTypeOK' /\ WalkInv'
<1> USE DEF ApiInv
<1>1. CASE Next /\ UNCHANGED walk
  <2>1. DOMAIN table \subseteq DOMAIN table'
    BY <1>1, NumbersStay
  <2>2. DOMAIN table \in SUBSET (0..MaxNumber) /\ DOMAIN table' \in SUBSET (0..MaxNumber)
    BY TableNumbers DEF TableInv
  <2>3. ASSUME NEW n, Position(DOMAIN table, n) >= Skip(walk.page)
        PROVE  Position(DOMAIN table', n) >= Skip(walk.page)
    <3>1. Position(DOMAIN table, n) \in Nat /\ Position(DOMAIN table', n) \in Nat
      BY <2>2, PositionIsCount
    <3>2. Position(DOMAIN table, n) <= Position(DOMAIN table', n)
      BY <2>1, <2>2, PositionGrows
    <3>3. Skip(walk.page) \in Nat
      BY SkipIsNat DEF WalkTypeOK
    <3> QED BY <2>3, <3>1, <3>2, <3>3
  <2>4. WalkTypeOK'
    BY <1>1 DEF WalkTypeOK
  <2> QED BY <1>1, <2>1, <2>3, <2>4 DEF WalkInv, Skip
<1>2. ASSUME NEW status \in Filters, StartWalk(status)
      PROVE  WalkTypeOK' /\ WalkInv'
  <2>1. Matching(table, status) \in SUBSET (0..MaxNumber) /\ status \in BlockStatus \cup {Null}
    BY MatchingNumbers, ApiAssumption
  <2>2. WalkTypeOK'
    BY <1>2, <2>1 DEF StartWalk, WalkTypeOK, Stages, DefaultPage
  <2>3. /\ walk'.stage = "page" /\ walk'.filter = status /\ walk'.page = 0
        /\ walk'.unseen = Matching(table, status) /\ table' = table
    BY <1>2 DEF StartWalk, DefaultPage
  <2>4. Skip(0) = 0
    BY ApiAssumption DEF Skip
  <2>5. ASSUME status = Null, NEW n \in walk'.unseen
        PROVE  n \in DOMAIN table /\ Position(DOMAIN table, n) >= Skip(0)
    <3>1. n \in DOMAIN table
      BY <2>3, <2>5, MatchingNumbers
    <3>2. Position(DOMAIN table, n) \in Nat
      BY PositionIsCount, TableNumbers
    <3> QED BY <2>4, <3>1, <3>2
  <2> QED BY <2>2, <2>3, <2>5 DEF WalkInv, Skip
<1>3. CASE GetPage
  <2>1. table' = table /\ walk.stage = "page" /\ walk.page + 1 \in Nat
    BY <1>3 DEF GetPage, WalkTypeOK
  <2>2. CASE Cardinality(Rows) < Limit
    <3>1. walk' = [walk EXCEPT !.stage = "over", !.unseen = walk.unseen \ Rows, !.page = DefaultPage]
      BY <1>3, <2>2 DEF GetPage
    <3>2. walk.filter = Null => walk.unseen \ Rows = {}
      BY <2>1, <2>2, BehindThePage DEF WalkInv
    <3>3. WalkTypeOK'
      BY <3>1 DEF WalkTypeOK, Stages, DefaultPage
    <3> QED BY <2>1, <3>1, <3>2, <3>3 DEF WalkInv, WalkTypeOK
  <2>3. CASE ~ (Cardinality(Rows) < Limit)
    <3>1. walk' = [walk EXCEPT !.unseen = walk.unseen \ Rows, !.page = walk.page + 1]
      BY <1>3, <2>3 DEF GetPage
    <3>2. walk.filter = Null =>
            \A n \in walk.unseen \ Rows :
                n \in DOMAIN table /\ Position(DOMAIN table, n) >= Skip(walk.page + 1)
      BY <2>1, BehindThePage DEF WalkInv
    <3>3. WalkTypeOK'
      BY <2>1, <3>1 DEF WalkTypeOK, Stages
    <3> QED BY <2>1, <3>1, <3>2, <3>3 DEF WalkInv, WalkTypeOK, Skip
  <2> QED BY <2>2, <2>3
<1>4. CASE UNCHANGED apiVars
  BY <1>4 DEF apiVars, WalkTypeOK, WalkInv, Skip
<1> QED BY <1>1, <1>2, <1>3, <1>4 DEF ApiNext

LEMMA ApiInvHolds ==
    ApiSpec => []ApiInv
<1>1. ApiInv /\ TableInv' /\ [ApiNext]_apiVars => WalkTypeOK' /\ WalkInv'
  BY WalkStep
<1> QED BY <1>1, ApiTable, InitWalk, PTL DEF ApiSpec, ApiInv

\* A client that walks through the unfiltered list misses no row that was stored
\* when it started, whatever is inserted between its pages.
THEOREM WalkMissesNoRow ==
    ApiSpec => []WalkSeesStoredRows
<1>1. ApiInv => WalkSeesStoredRows
  BY DEF ApiInv, WalkInv, WalkSeesStoredRows
<1> QED BY <1>1, ApiInvHolds, PTL
=============================================================================
