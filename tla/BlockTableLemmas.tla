-------------------------- MODULE BlockTableLemmas --------------------------
(***************************************************************************)
(* What the statements of BlockTable return, for every table.              *)
(***************************************************************************)
EXTENDS BlockTable, TLAPS, WellFoundedInduction

\* A set of naturals has a least element.
LEMMA HasMin ==
    ASSUME NEW S, S \subseteq Nat, S # {}
    PROVE  \E m \in S : \A k \in S : m <= k
<1>1. PICK m \in S : \A k \in S : ~ (<<k, m>> \in OpToRel(<, Nat))
  BY WFMin, NatLessThanWellFounded
<1>2. \A k \in S : ~ (k < m)
  BY <1>1 DEF OpToRel
<1> QED BY <1>2

\* A set of naturals with an upper bound has a greatest element.
LEMMA HasMax ==
    ASSUME NEW N \in Nat, NEW S, S \subseteq 0..N, S # {}
    PROVE  \E m \in S : \A k \in S : k <= m
<1> DEFINE distances == {d \in Nat : N - d \in S}
<1>1. \A k \in S : N - k \in distances /\ N - (N - k) = k
  OBVIOUS
<1>2. distances \subseteq Nat /\ distances # {}
  BY <1>1
<1>3. PICK d \in distances : \A e \in distances : d <= e
  BY <1>2, HasMin
<1>4. N - d \in S
  BY <1>3
<1>5. ASSUME NEW k \in S
      PROVE  k <= N - d
  <2>1. d <= N - k
    BY <1>1, <1>3
  <2> QED BY <2>1, <1>2
<1> QED BY <1>4, <1>5

\* saveBlock touches one row.  The status of that row is the one of the record
\* or the one that was stored.
LEMMA SaveRowResult ==
    ASSUME NEW hashes, NEW t, t \in [DOMAIN t -> BlockRecord(hashes)], NEW n,
           NEW record \in BlockRecord(hashes),
           NEW selected \in BlockRecord(hashes) \cup {Null},
           selected # Null => n \in DOMAIN t
    PROVE  LET u == SaveRow(t, n, record, selected)
           IN  /\ DOMAIN u = DOMAIN t \cup {n}
               /\ u \in [DOMAIN u -> BlockRecord(hashes)]
               /\ \A m \in DOMAIN t \ {n} : u[m] = t[m]
               /\ \/ u[n].status = record.status
                  \/ n \in DOMAIN t /\ u[n].status = t[n].status
<1> DEFINE row == IF selected = Null THEN record ELSE MergedRow(record, selected, t[n])
<1>1. row \in BlockRecord(hashes)
  BY DEF BlockRecord, MergedRow, Column
<1>2. row.status = record.status \/ (n \in DOMAIN t /\ row.status = t[n].status)
  BY DEF MergedRow, Column
<1>3. SaveRow(t, n, record, selected) =
        [m \in DOMAIN t \cup {n} |-> IF m = n THEN row ELSE t[m]]
  BY DEF SaveRow, PutRow
<1> HIDE DEF row
<1> QED BY <1>1, <1>2, <1>3

\* updateStatusUpToBlock inserts no row, leaves rows above n and rows that are
\* FINALIZED as they are, and changes nothing but the status of a row.
LEMMA UpdateStatusResult ==
    ASSUME NEW hashes, NEW t, t \in [DOMAIN t -> BlockRecord(hashes)],
           DOMAIN t \subseteq Int, NEW n \in Int, NEW status \in BlockStatus
    PROVE  LET u == UpdateStatusUpToBlock(t, n, status)
           IN  /\ DOMAIN u = DOMAIN t
               /\ u \in [DOMAIN u -> BlockRecord(hashes)]
               /\ \A m \in DOMAIN t :
                    /\ u[m].blockHash = t[m].blockHash
                    /\ u[m].parentHash = t[m].parentHash
                    /\ t[m].status = FINALIZED => u[m] = t[m]
                    /\ m > n => u[m] = t[m]
                    /\ u[m].status = FINALIZED =>
                           \/ t[m].status = FINALIZED
                           \/ status = FINALIZED /\ m <= n
                    /\ m <= n => u[m].status \in {status, FINALIZED}
<1> DEFINE u == UpdateStatusUpToBlock(t, n, status)
           changed(m) == m <= n /\ t[m].status \notin {status, FINALIZED}
<1>1. DOMAIN u = DOMAIN t
  BY DEF UpdateStatusUpToBlock
<1>2. ASSUME NEW m \in DOMAIN t, changed(m)
      PROVE  /\ u[m] = [t[m] EXCEPT !.status = status]
             /\ t[m] \in BlockRecord(hashes)
  BY <1>2 DEF UpdateStatusUpToBlock
<1>3. ASSUME NEW m \in DOMAIN t, ~changed(m)
      PROVE  u[m] = t[m]
  BY <1>3 DEF UpdateStatusUpToBlock
<1>4. ASSUME NEW m \in DOMAIN t, changed(m)
      PROVE  /\ u[m] \in BlockRecord(hashes)
             /\ u[m].status = status
             /\ u[m].blockHash = t[m].blockHash
             /\ u[m].parentHash = t[m].parentHash
  BY <1>2, <1>4 DEF BlockRecord
<1>5. u \in [DOMAIN t -> BlockRecord(hashes)]
  BY <1>1, <1>3, <1>4 DEF UpdateStatusUpToBlock
<1> HIDE DEF u
<1> QED BY <1>1, <1>3, <1>4, <1>5 DEF u

\* getLatestBlock finds the greatest number when there is one.
LEMMA GetLatestBlockResult ==
    ASSUME NEW hashes, NEW t, t \in [DOMAIN t -> BlockRecord(hashes)],
           NEW N \in Nat, DOMAIN t \subseteq 0..N, DOMAIN t # {}
    PROVE  \E n \in DOMAIN t :
               /\ \A k \in DOMAIN t : k <= n
               /\ GetLatestBlock(t) = [number |-> n, hash |-> t[n].blockHash]
               /\ t[n].blockHash \in hashes
<1>1. \E n \in DOMAIN t : \A k \in DOMAIN t : k <= n
  BY HasMax
<1> QED BY <1>1 DEF GetLatestBlock, BlockRecord

\* findUnfinalizedAndSafeBlocks returns some of the rows.
LEMMA FindUnfinalizedAndSafeBlocksResult ==
    ASSUME NEW hashes, NEW t, t \in [DOMAIN t -> BlockRecord(hashes)]
    PROVE  LET u == FindUnfinalizedAndSafeBlocks(t)
           IN  /\ DOMAIN u = {n \in DOMAIN t : t[n].status # FINALIZED}
               /\ u \in [DOMAIN u -> BlockRecord(hashes)]
               /\ \A n \in DOMAIN u : u[n] = t[n]
  BY DEF FindUnfinalizedAndSafeBlocks, BlockRecord, BlockStatus, UNFINALIZED, SAFE, FINALIZED

\* A gap starts right above a pending number and ends right below the next.
LEMMA FindMissingBlockGapsResult ==
    ASSUME NEW t, NEW g \in FindMissingBlockGaps(t)
    PROVE  LET pending == DOMAIN FindUnfinalizedAndSafeBlocks(t)
           IN  \E p, q \in pending :
                   /\ g = <<p + 1, q - 1>>
                   /\ q - p > 1
                   /\ IsLead(pending, p, q)
  BY DEF FindMissingBlockGaps
=============================================================================
