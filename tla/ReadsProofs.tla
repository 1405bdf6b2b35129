----------------------------- MODULE ReadsProofs -----------------------------
(***************************************************************************)
(* What TLAPS proves of the list of transactions and of the statistics     *)
(* beside it: for every set of rows, filters, limits, periods and clock.   *)
(***************************************************************************)
EXTENDS Reads, FiniteSetTheorems, SequenceTheorems, TLAPS

-----------------------------------------------------------------------------
(* Counting *)

\* A part of the rows is finite, and counts no more than a larger part.
LEMMA RowsCounted ==
  ASSUME NEW rows \in SUBSET Rows, NEW part \in SUBSET rows
  PROVE  /\ IsFiniteSet(part) /\ Cardinality(part) \in Nat
         /\ IsFiniteSet(rows) /\ Cardinality(rows) \in Nat
         /\ Cardinality(part) <= Cardinality(rows)
<1>1. IsFiniteSet(rows)
  BY RowsAssumption, FS_Subset
<1>2. IsFiniteSet(part) /\ Cardinality(part) <= Cardinality(rows)
  BY <1>1, FS_Subset
<1> QED
  BY <1>1, <1>2, FS_CardinalityType

\* The position a row has among rows that are ordered by time, newest first.
Newer(rows, row) == {other \in rows : other.time >= row.time}

Rank(rows, row) == Cardinality(Newer(rows, row))

\* A row's position is one of the positions, and commits only move it back.
LEMMA RankBounds ==
  ASSUME NEW more \in SUBSET Rows, NEW rows \in SUBSET more, NEW row \in rows
  PROVE  /\ Rank(rows, row) \in 1..Cardinality(rows)
         /\ Rank(more, row) \in Nat /\ Rank(rows, row) <= Rank(more, row)
<1>1. Newer(rows, row) \subseteq rows /\ Newer(more, row) \subseteq more
      /\ Newer(rows, row) \subseteq Newer(more, row)
  BY DEF Newer
<1>2. row \in Newer(rows, row)
  BY RowsAssumption DEF Newer
<1>3. /\ IsFiniteSet(Newer(rows, row)) /\ Cardinality(Newer(rows, row)) \in Nat
      /\ Cardinality(Newer(rows, row)) <= Cardinality(rows) /\ Cardinality(rows) \in Nat
  BY <1>1, RowsCounted
<1>4. /\ Cardinality(Newer(more, row)) \in Nat
      /\ Cardinality(Newer(rows, row)) <= Cardinality(Newer(more, row))
  BY <1>1, RowsCounted
<1>5. Cardinality(Newer(rows, row)) # 0
  BY <1>2, <1>3, FS_EmptySet
<1> QED
  BY <1>3, <1>4, <1>5 DEF Rank

\* A row that is not among the rows has a position there too.
LEMMA RankIsNumber ==
  ASSUME NEW rows \in SUBSET Rows, NEW row
  PROVE  Rank(rows, row) \in Nat
<1>1. Newer(rows, row) \in SUBSET rows
  BY DEF Newer
<1> QED
  BY <1>1, RowsCounted DEF Rank

-----------------------------------------------------------------------------
(* Orders *)

\* Every order lists each row once, newest first.
LEMMA OrderListsAll ==
  ASSUME NEW rows \in SUBSET Rows, NEW order \in Orders(rows)
  PROVE  /\ Cardinality(rows) \in Nat
         /\ order \in [1..Cardinality(rows) -> rows]
         /\ order \in Seq(rows) /\ Len(order) = Cardinality(rows)
         /\ \A i, j \in 1..Cardinality(rows) : order[i] = order[j] => i = j
         /\ \A i, j \in 1..Cardinality(rows) : i < j => order[i].time >= order[j].time
         /\ \A row \in rows : \E i \in 1..Cardinality(rows) : order[i] = row
<1> DEFINE n == Cardinality(rows)
<1>1. IsFiniteSet(rows) /\ n \in Nat
  BY RowsCounted
<1>2. /\ order \in [1..n -> rows]
      /\ \A i, j \in 1..n : i # j => order[i] # order[j]
      /\ \A i, j \in 1..n : i < j => order[i].time >= order[j].time
  BY DEF Orders, SetToSeqs
<1> HIDE DEF n
<1>3. order \in Seq(rows) /\ Len(order) = n
  BY <1>1, <1>2
<1>4. order \in Injection(1..n, rows)
  BY <1>2 DEF Injection, IsInjective
<1>5. IsFiniteSet(1..n) /\ Cardinality(1..n) = n
  BY <1>1, FS_Interval
<1>6. order \in Surjection(1..n, rows)
  BY <1>1, <1>4, <1>5, FS_Injection DEF n
<1>7. \A row \in rows : \E i \in 1..n : order[i] = row
  BY <1>6 DEF Surjection
<1> QED
  BY <1>1, <1>2, <1>3, <1>7 DEF n

DistinctTimes == \A row, other \in Rows : row.time = other.time => row = other

\* With distinct times there is but one order: a row's place is its rank.
LEMMA PlaceIsRank ==
  ASSUME DistinctTimes, NEW rows \in SUBSET Rows, NEW order \in Orders(rows),
         NEW i \in 1..Cardinality(rows)
  PROVE  Rank(rows, order[i]) = i
<1> DEFINE n == Cardinality(rows)
           U == Newer(rows, order[i])
           f == [j \in 1..i |-> order[j]]
<1>1. /\ n \in Nat /\ order \in [1..n -> rows]
      /\ \A k, j \in 1..n : order[k] = order[j] => k = j
      /\ \A k, j \in 1..n : k < j => order[k].time >= order[j].time
      /\ \A row \in rows : \E k \in 1..n : order[k] = row
  BY OrderListsAll
<1>2. \A k \in 1..n : order[k] \in Rows /\ order[k].time \in Int
  BY <1>1, RowsAssumption
<1> HIDE DEF n
<1>3. i \in 1..n /\ 1..i \subseteq 1..n
  BY <1>1 DEF n
<1>4. \A j \in 1..i : order[j] \in U
  <2> TAKE j \in 1..i
  <2>1. j \in 1..n /\ (j = i \/ j < i)
    BY <1>1, <1>3
  <2>2. order[j].time >= order[i].time
    BY <1>1, <1>2, <1>3, <2>1
  <2> QED
    BY <1>1, <2>1, <2>2 DEF Newer
<1>5. \A row \in U : \E j \in 1..i : order[j] = row
  <2> TAKE row \in U
  <2>1. row \in rows /\ row.time >= order[i].time
    BY DEF Newer
  <2>2. PICK j \in 1..n : order[j] = row
    BY <1>1, <2>1
  <2>3. j <= i
    <3>1. SUFFICES ASSUME j > i PROVE FALSE
      BY <1>1, <1>3, <2>2
    <3>2. order[i].time >= order[j].time
      BY <1>1, <1>3, <2>2, <3>1
    <3>3. order[i].time = order[j].time
      BY <1>2, <1>3, <2>1, <2>2, <3>2
    <3>4. order[i] = order[j]
      BY <1>2, <1>3, <2>2, <3>3 DEF DistinctTimes
    <3> QED
      BY <1>1, <1>3, <2>2, <3>1, <3>4
  <2> QED
    BY <1>1, <1>3, <2>2, <2>3
<1>6. f \in [1..i -> U]
  BY <1>4
<1>7. \A k, j \in 1..i : f[k] = f[j] => k = j
  BY <1>1, <1>3
<1>8. \A row \in U : \E j \in 1..i : f[j] = row
  BY <1>5
<1> HIDE DEF f, U
<1>9. f \in Bijection(1..i, U)
  BY <1>6, <1>7, <1>8 DEF Bijection, Injection, Surjection, IsInjective
<1>10. Cardinality(U) = i
  BY <1>1, <1>3, <1>9, FS_CountingElements DEF ExistsBijection
<1> QED
  BY <1>10 DEF U, Rank

-----------------------------------------------------------------------------
(* Pages *)

\* A page holds the rows of the order behind the offset, as many as fit: when it
\* is not full there are no more.
LEMMA PageOfOrder ==
  ASSUME NEW rows \in SUBSET Rows, NEW order \in Orders(rows),
         NEW lim \in Nat, NEW off \in Nat
  PROVE  LET p == PageOf(order, lim, off)
         IN  /\ p \in Seq(rows) /\ Len(p) \in Nat
             /\ p # <<>> => off + Len(p) <= Cardinality(rows)
             /\ Len(p) <= Least(lim, PageCap)
             /\ Len(p) < Least(lim, PageCap) => Cardinality(rows) <= off + Len(p)
             /\ \A k \in 1..Len(p) : off + k \in 1..Cardinality(rows) /\ p[k] = order[off + k]
<1> DEFINE n == Cardinality(rows)
           full == Least(lim, PageCap)
           last == Least(off + full, n)
           p == PageOf(order, lim, off)
<1>1. n \in Nat /\ order \in [1..n -> rows] /\ Len(order) = n
  BY OrderListsAll
<1>2. full \in Nat
  BY LimitsAssumption DEF Least
<1>3. p = SubSeq(order, off + 1, last)
  BY <1>1 DEF PageOf
<1> HIDE DEF n, full
<1>4. last \in Nat /\ last <= n /\ last <= off + full /\ (last = n \/ last = off + full)
  BY <1>1, <1>2 DEF Least
<1> HIDE DEF p, last
<1>5. \A i \in (off + 1)..last : i \in 1..n /\ order[i] \in rows
  BY <1>1, <1>4
<1>6. /\ p \in Seq(rows)
      /\ Len(p) = IF off + 1 <= last THEN last - (off + 1) + 1 ELSE 0
      /\ \A i \in 1..(last - (off + 1) + 1) : p[i] = order[(off + 1) + i - 1]
  BY <1>3, <1>4, <1>5, SubSeqProperties
<1>7. CASE last >= off + 1
  <2>1. Len(p) = last - off /\ Len(p) \in Nat /\ Len(p) <= full
    BY <1>2, <1>4, <1>6, <1>7
  <2>2. off + Len(p) <= n /\ (Len(p) < full => n <= off + Len(p))
    BY <1>1, <1>2, <1>4, <2>1
  <2>3. \A k \in 1..Len(p) : off + k \in 1..n /\ p[k] = order[off + k]
    <3> TAKE k \in 1..Len(p)
    <3>1. k \in 1..(last - (off + 1) + 1) /\ (off + 1) + k - 1 = off + k /\ off + k \in 1..n
      BY <1>1, <1>4, <1>7, <2>1
    <3> QED
      BY <1>6, <3>1
  <2> QED
    BY <1>6, <2>1, <2>2, <2>3 DEF n, p, full
<1>8. CASE last <= off
  <2>1. Len(p) = 0 /\ Len(p) <= full /\ (Len(p) < full => n <= off + Len(p))
    BY <1>1, <1>2, <1>4, <1>6, <1>8
  <2>2. p = <<>>
    BY <1>6, <2>1
  <2> QED
    BY <1>6, <2>1, <2>2 DEF n, p, full
<1> QED
  BY <1>4, <1>7, <1>8

\* With distinct times the rows of a page are those of the next ranks.
LEMMA PageByRank ==
  ASSUME DistinctTimes, NEW rows \in SUBSET Rows, NEW order \in Orders(rows),
         NEW lim \in Nat, NEW off \in Nat, NEW p, p = PageOf(order, lim, off)
  PROVE  /\ \A k \in 1..Len(p) : Rank(rows, p[k]) = off + k
         /\ \A row \in rows :
              Rank(rows, row) > off /\ Rank(rows, row) <= off + Len(p) =>
                \E k \in 1..Len(p) : p[k] = row
<1>1. /\ Len(p) \in Nat
      /\ \A k \in 1..Len(p) : off + k \in 1..Cardinality(rows) /\ p[k] = order[off + k]
  BY PageOfOrder
<1>2. \A k \in 1..Len(p) : Rank(rows, p[k]) = off + k
  <2> TAKE k \in 1..Len(p)
  <2>1. off + k \in 1..Cardinality(rows) /\ p[k] = order[off + k]
    BY <1>1
  <2>2. Rank(rows, order[off + k]) = off + k
    BY <2>1, PlaceIsRank
  <2> QED
    BY <2>1, <2>2
<1>3. ASSUME NEW row \in rows, Rank(rows, row) > off, Rank(rows, row) <= off + Len(p)
      PROVE  \E k \in 1..Len(p) : p[k] = row
  <2>1. PICK i \in 1..Cardinality(rows) : order[i] = row
    BY OrderListsAll
  <2>2. Rank(rows, row) = i
    BY <2>1, PlaceIsRank
  <2>3. Cardinality(rows) \in Nat
    BY RowsCounted
  <2>4. i \in Nat /\ i > off /\ i <= off + Len(p)
    BY <1>3, <2>2, <2>3
  <2>5. i - off \in 1..Len(p) /\ off + (i - off) = i
    BY <1>1, <2>4
  <2>6. p[i - off] = order[i]
    BY <1>1, <2>5
  <2> QED
    BY <2>1, <2>5, <2>6
<1> QED
  BY <1>2, <1>3

\* What matches is in the table, and goes on matching as the table grows.
LEMMA MatchingGrows ==
  ASSUME NEW more \in SUBSET Rows, NEW rows \in SUBSET more, NEW f
  PROVE  /\ Matching(rows, f) \in SUBSET Rows
         /\ Matching(rows, f) \in SUBSET Matching(more, f)
         /\ Matching(more, f) \in SUBSET Rows
         /\ Cardinality(Matching(rows, f)) \in Nat /\ Cardinality(Matching(more, f)) \in Nat
         /\ Cardinality(Matching(rows, f)) <= Cardinality(Matching(more, f))
<1>1. /\ Matching(rows, f) \in SUBSET Rows
      /\ Matching(rows, f) \in SUBSET Matching(more, f)
      /\ Matching(more, f) \in SUBSET Rows
  BY DEF Matching
<1> QED
  BY <1>1, RowsCounted

-----------------------------------------------------------------------------
(* The scan, whatever the times of the rows *)

\* The last page is of matching rows, no more than were asked for, and no more
\* than the table has: at the page's statement, at the count's and ever after.
ScanInv ==
  /\ table \in SUBSET Rows
  /\ base \in SUBSET table
  /\ limit \in Limits
  /\ stride \in {"rows", "limit"}
  /\ offset \in Nat
  /\ total \in Nat
  /\ page \in Seq(Matching(table, filter))
  /\ fetched \in Seq(Rows)
  /\ total <= Cardinality(Matching(table, filter))
  /\ pc = "page" /\ offset = 0 => fetched = <<>>
  /\ pc \in {"count", "answered"} => limit \in Nat /\ Len(page) <= Least(limit, PageCap)
  /\ pc = "count" /\ page # <<>> =>
       offset + Len(page) <= Cardinality(Matching(table, filter))
  /\ pc = "answered" /\ page # <<>> => total >= offset + Len(page)

LEMMA ScanInvInit == Init => ScanInv
<1> SUFFICES ASSUME Init PROVE ScanInv
  OBVIOUS
<1>1. /\ table \in SUBSET Rows /\ limit \in Limits /\ offset = 0 /\ page = <<>>
      /\ total = 0 /\ fetched = <<>> /\ base = {} /\ pc = "page" /\ stride \in {"rows", "limit"}
  BY DEF Init
<1>2. Cardinality(Matching(table, filter)) \in Nat
  BY <1>1, MatchingGrows
<1>3. 0 \in Nat /\ total <= Cardinality(Matching(table, filter))
  BY <1>1, <1>2
<1>4. <<>> \in Seq(Matching(table, filter)) /\ <<>> \in Seq(Rows) /\ Len(<<>>) = 0
  OBVIOUS
<1> QED
  BY <1>1, <1>3, <1>4, Zenon DEF ScanInv

LEMMA CommitScans ==
  ASSUME ScanInv, Commit
  PROVE  ScanInv'
<1>1. PICK new \in (SUBSET (Rows \ table)) \ {{}} : table' = table \cup new
  BY DEF Commit
<1>2. /\ pc' = pc /\ filter' = filter /\ limit' = limit /\ stride' = stride
      /\ offset' = offset /\ page' = page
      /\ total' = total /\ fetched' = fetched /\ base' = base
  BY DEF Commit
<1>3. table' \in SUBSET Rows /\ table \in SUBSET table'
  BY <1>1 DEF ScanInv
<1> DEFINE M == Matching(table, filter)
           N == Matching(table', filter)
<1>4. M \in SUBSET N /\ Cardinality(M) \in Nat /\ Cardinality(N) \in Nat
      /\ Cardinality(M) <= Cardinality(N)
  BY <1>3, MatchingGrows
<1>5. N = Matching(table, filter)'
  BY <1>2
<1>6. /\ base \in SUBSET table /\ limit \in Limits /\ offset \in Nat /\ total \in Nat
      /\ stride \in {"rows", "limit"}
      /\ page \in Seq(M) /\ fetched \in Seq(Rows)
      /\ total <= Cardinality(M)
      /\ pc = "page" /\ offset = 0 => fetched = <<>>
      /\ pc \in {"count", "answered"} => limit \in Nat /\ Len(page) <= Least(limit, PageCap)
      /\ pc = "count" /\ page # <<>> => offset + Len(page) <= Cardinality(M)
      /\ pc = "answered" /\ page # <<>> => total >= offset + Len(page)
  BY DEF ScanInv
<1> HIDE DEF M, N
<1>7. page \in Seq(N) /\ Len(page) \in Nat
  BY <1>4, <1>6
<1>8. /\ total <= Cardinality(N)
      /\ pc = "count" /\ page # <<>> => offset + Len(page) <= Cardinality(N)
  BY <1>4, <1>6, <1>7
<1> QED
  BY <1>2, <1>3, <1>5, <1>6, <1>7, <1>8 DEF ScanInv

LEMMA RefusePageScans ==
  ASSUME ScanInv, RefusePage
  PROVE  ScanInv'
<1>1. /\ UNCHANGED <<table, filter, limit, stride, offset, page, total, fetched, base>>
      /\ pc' = "failed"
  BY DEF RefusePage
<1>2. Matching(table, filter)' = Matching(table, filter)
  BY <1>1
<1> QED
  BY <1>1, <1>2 DEF ScanInv

\* A limit that is served is a number of rows.
LEMMA LimitServed ==
  ASSUME limit \in Limits, limit >= 0
  PROVE  limit \in Nat
  BY LimitsAssumption

LEMMA SelectPageScans ==
  ASSUME ScanInv, SelectPage
  PROVE  ScanInv'
<1> DEFINE M == Matching(table, filter)
<1>1. /\ table \in SUBSET Rows /\ base \in SUBSET table /\ limit \in Limits /\ offset \in Nat
      /\ stride \in {"rows", "limit"} /\ total \in Nat /\ fetched \in Seq(Rows)
      /\ total <= Cardinality(M)
  BY DEF ScanInv
<1>2. PICK order \in Orders(M) : page' = PageOf(order, limit, offset)
  BY DEF SelectPage
<1>3. /\ table' = table /\ filter' = filter /\ limit' = limit /\ offset' = offset
      /\ stride' = stride /\ total' = total /\ fetched' = fetched /\ pc' = "count"
      /\ base' = IF offset = 0 THEN table ELSE base
  BY DEF SelectPage
<1>4. M \in SUBSET Rows
  BY <1>1, MatchingGrows
<1>5. /\ page' \in Seq(M) /\ (page' # <<>> => offset + Len(page') <= Cardinality(M))
      /\ limit \in Nat /\ Len(page') <= Least(limit, PageCap)
  <2>1. limit \in Nat
    BY <1>1, LimitServed DEF SelectPage
  <2> QED
    BY <1>1, <1>2, <1>4, <2>1, PageOfOrder
<1>6. M = Matching(table, filter)' /\ base' \in SUBSET table
  BY <1>1, <1>3
<1> HIDE DEF M
<1> QED
  BY <1>1, <1>3, <1>5, <1>6 DEF ScanInv

LEMMA SelectCountScans ==
  ASSUME ScanInv, SelectCount
  PROVE  ScanInv'
<1> DEFINE M == Matching(table, filter)
<1>1. /\ table \in SUBSET Rows /\ base \in SUBSET table /\ limit \in Limits /\ offset \in Nat
      /\ stride \in {"rows", "limit"} /\ fetched \in Seq(Rows) /\ page \in Seq(M)
      /\ pc = "count" => limit \in Nat /\ Len(page) <= Least(limit, PageCap)
      /\ pc = "count" /\ page # <<>> => offset + Len(page) <= Cardinality(M)
  BY DEF ScanInv
<1>2. /\ table' = table /\ filter' = filter /\ limit' = limit /\ offset' = offset
      /\ stride' = stride
      /\ page' = page /\ fetched' = fetched /\ base' = base
      /\ total' = Cardinality(M) /\ pc = "count" /\ pc' \in {"failed", "answered"}
  BY DEF SelectCount
<1>3. M = Matching(table, filter)'
  BY <1>2
<1>4. Cardinality(M) \in Nat
  BY <1>1, MatchingGrows
<1> HIDE DEF M
<1>5. Len(page) \in Nat
  BY <1>1
<1>6. (total \in Nat /\ total <= Cardinality(Matching(table, filter)))'
  BY <1>2, <1>3, <1>4
<1>7. (pc = "answered" /\ page # <<>> => total >= offset + Len(page))'
  BY <1>1, <1>2, <1>4, <1>5
<1>8. pc' # "count" /\ pc' # "page"
  BY <1>2
<1> QED
  BY <1>1, <1>2, <1>3, <1>6, <1>7, <1>8 DEF ScanInv

\* How far a client goes on is at least behind the page it was given.
LEMMA StepPassesPage ==
  ASSUME ScanInv, pc = "answered"
  PROVE  /\ Len(page) \in Nat /\ Step \in Nat /\ Len(page) <= Step
         /\ stride = "rows" => Step = Len(page)
         /\ Len(page) = Least(limit, PageCap) /\ Paging => Step = Len(page)
<1>1. /\ limit \in Nat /\ Len(page) \in Nat /\ Len(page) <= Least(limit, PageCap)
      /\ stride \in {"rows", "limit"} /\ PageCap \in Nat
  BY LimitsAssumption DEF ScanInv
<1>2. Least(limit, PageCap) <= limit /\ (limit <= PageCap => Least(limit, PageCap) = limit)
  BY <1>1 DEF Least
<1>3. Least(limit, PageCap) \in Nat
  BY <1>1 DEF Least
<1> QED
  BY <1>1, <1>2, <1>3 DEF Step, Paging

LEMMA NextPageScans ==
  ASSUME ScanInv, NextPage
  PROVE  ScanInv'
<1> DEFINE M == Matching(table, filter)
<1>1. /\ table \in SUBSET Rows /\ base \in SUBSET table /\ limit \in Limits /\ offset \in Nat
      /\ stride \in {"rows", "limit"} /\ total \in Nat /\ total <= Cardinality(M)
      /\ fetched \in Seq(Rows) /\ page \in Seq(M)
  BY DEF ScanInv
<1>2. /\ table' = table /\ filter' = filter /\ limit' = limit /\ stride' = stride
      /\ page' = page /\ total' = total /\ base' = base
      /\ fetched' = fetched \o page /\ offset' = offset + Step
      /\ pc' = IF page = <<>> \/ offset + Step >= total THEN "done" ELSE "page"
  BY DEF NextPage
<1>3. M \in SUBSET Rows /\ M = Matching(table, filter)'
  BY <1>1, <1>2, MatchingGrows
<1>4. Len(page) \in Nat /\ Step \in Nat /\ Len(page) <= Step
  BY StepPassesPage DEF NextPage
<1> HIDE DEF M
<1>5. fetched' \in Seq(Rows) /\ offset' \in Nat
  <2>1. page \in Seq(Rows)
    BY <1>1, <1>3
  <2>2. fetched \o page \in Seq(Rows)
    BY <1>1, <2>1, ConcatProperties
  <2> QED
    BY <1>1, <1>2, <1>4, <2>2
<1>6. pc' # "count" /\ pc' # "answered"
  BY <1>2
<1>7. pc' = "page" => offset' # 0
  <2> SUFFICES ASSUME pc' = "page" PROVE offset' # 0
    OBVIOUS
  <2>1. page # <<>>
    BY <1>2
  <2>2. Len(page) # 0
    BY <1>1, <2>1
  <2> QED
    BY <1>1, <1>2, <1>4, <2>2
<1> QED
  BY <1>1, <1>2, <1>3, <1>5, <1>6, <1>7 DEF ScanInv

LEMMA ScanInvHolds == Spec => []ScanInv
<1>1. ScanInv /\ [Next]_vars => ScanInv'
  <2> SUFFICES ASSUME ScanInv, [Next]_vars PROVE ScanInv'
    OBVIOUS
  <2>1. CASE UNCHANGED vars
    BY <2>1 DEF vars, ScanInv
  <2> QED
    BY <2>1, CommitScans, SelectPageScans, RefusePageScans, SelectCountScans,
       NextPageScans DEF Next
<1> QED
  BY <1>1, ScanInvInit, PTL DEF Spec

-----------------------------------------------------------------------------
(* The scan, when times are distinct *)

Fetched == {fetched[i] : i \in DOMAIN fetched}
Shown   == {page[i] : i \in DOMAIN page}

\* Behind the offset: not yet on a page that the client has gone on from.
Ahead(off, row) == Rank(Matching(table, filter), row) > off

\* A row that matched when the scan began is fetched, on the page that is being
\* read, or further back than both; behind a page that is not full there is none.
NothingPassedOver ==
  Paging =>
    /\ pc = "page" => \A row \in Matching(base, filter) : row \in Fetched \/ Ahead(offset, row)
    /\ pc \in {"count", "answered"} =>
         \A row \in Matching(base, filter) :
           row \in Fetched \/ row \in Shown \/ Ahead(offset + Len(page), row)
    /\ pc \in {"count", "answered"} /\ Len(page) < Least(limit, PageCap) =>
         Matching(base, filter) \subseteq Fetched \cup Shown
    /\ pc = "answered" =>
         \/ Matching(base, filter) \subseteq Fetched \cup Shown
         \/ offset + Len(page) < total
    /\ pc = "done" => Matching(base, filter) \subseteq Fetched

\* While nothing has been committed since the scan began, the pages go down the
\* ranks, whatever the client steps over between them.
PlacesAreRanks ==
  table = base =>
    /\ \A i \in 1..Len(fetched) : Rank(Matching(table, filter), fetched[i]) <= offset
    /\ \A i, j \in 1..Len(fetched) :
         i < j => Rank(Matching(table, filter), fetched[i])
                    < Rank(Matching(table, filter), fetched[j])
    /\ pc \in {"count", "answered"} =>
         \A i \in 1..Len(page) : Rank(Matching(table, filter), page[i]) = offset + i

PlaceInv == NothingPassedOver /\ PlacesAreRanks

LEMMA PlaceInvInit == Init => PlaceInv
<1> SUFFICES ASSUME Init PROVE PlaceInv
  OBVIOUS
<1>1. base = {} /\ pc = "page" /\ fetched = <<>>
  BY DEF Init
<1>2. Matching(base, filter) = {} /\ 1..Len(fetched) = {}
  BY <1>1 DEF Matching
<1> QED
  BY <1>1, <1>2 DEF PlaceInv, NothingPassedOver, PlacesAreRanks

LEMMA CommitKeepsPlaces ==
  ASSUME ScanInv, PlaceInv, Commit
  PROVE  PlaceInv'
<1>1. PICK new \in (SUBSET (Rows \ table)) \ {{}} : table' = table \cup new
  BY DEF Commit
<1>2. /\ pc' = pc /\ filter' = filter /\ offset' = offset /\ page' = page
      /\ total' = total /\ fetched' = fetched /\ base' = base /\ limit' = limit
      /\ Paging' = Paging
  BY DEF Commit, Paging
<1>3. table' \in SUBSET Rows /\ table \in SUBSET table' /\ base \in SUBSET table
      /\ offset \in Nat /\ page \in Seq(Matching(table, filter))
  BY <1>1 DEF ScanInv
<1>4. table' # base'
  BY <1>1, <1>2, <1>3
<1>5. Fetched' = Fetched /\ Shown' = Shown /\ Matching(base, filter)' = Matching(base, filter)
  BY <1>2 DEF Fetched, Shown
<1>6. ASSUME NEW row \in Matching(base, filter), NEW off \in Nat, Ahead(off, row)
      PROVE  Ahead(off, row)'
  <2>1. row \in Matching(table, filter)
    BY <1>3 DEF Matching
  <2>2. /\ Matching(table, filter) \in SUBSET Matching(table', filter)
        /\ Matching(table', filter) \in SUBSET Rows
    BY <1>3, MatchingGrows
  <2>3. /\ Rank(Matching(table, filter), row) \in 1..Cardinality(Matching(table, filter))
        /\ Rank(Matching(table', filter), row) \in Nat
        /\ Rank(Matching(table, filter), row) <= Rank(Matching(table', filter), row)
    BY <2>1, <2>2, RankBounds
  <2>4. Cardinality(Matching(table, filter)) \in Nat
    BY <1>3, MatchingGrows
  <2>5. Rank(Matching(table, filter), row)' = Rank(Matching(table', filter), row)
    BY <1>2
  <2> QED
    BY <1>6, <2>3, <2>4, <2>5 DEF Ahead
<1>7. offset \in Nat /\ offset + Len(page) \in Nat
  BY <1>3
<1>8. NothingPassedOver
  BY DEF PlaceInv
<1>9. Paging =>
        (pc = "page" => \A row \in Matching(base, filter) : row \in Fetched \/ Ahead(offset, row))'
  BY <1>2, <1>5, <1>6, <1>7, <1>8 DEF NothingPassedOver
<1>10. Paging =>
       (pc \in {"count", "answered"} =>
         \A row \in Matching(base, filter) :
           row \in Fetched \/ row \in Shown \/ Ahead(offset + Len(page), row))'
  BY <1>2, <1>5, <1>6, <1>7, <1>8 DEF NothingPassedOver
<1>11. NothingPassedOver'
  BY <1>2, <1>5, <1>8, <1>9, <1>10 DEF NothingPassedOver
<1> QED
  BY <1>4, <1>11 DEF PlaceInv, PlacesAreRanks

LEMMA RefusePageKeepsPlaces ==
  ASSUME PlaceInv, RefusePage
  PROVE  PlaceInv'
<1>1. /\ UNCHANGED <<table, filter, limit, stride, offset, page, total, fetched, base>>
      /\ pc' = "failed"
  BY DEF RefusePage
<1> QED
  BY <1>1 DEF PlaceInv, NothingPassedOver, PlacesAreRanks

LEMMA SelectPageKeepsPlaces ==
  ASSUME DistinctTimes, ScanInv, PlaceInv, SelectPage
  PROVE  PlaceInv'
<1> DEFINE M == Matching(table, filter)
<1>1. /\ table \in SUBSET Rows /\ base \in SUBSET table /\ limit \in Nat /\ offset \in Nat
      /\ fetched \in Seq(Rows) /\ (offset = 0 => fetched = <<>>)
  BY LimitServed DEF ScanInv, SelectPage
<1>2. PICK order \in Orders(M) : page' = PageOf(order, limit, offset)
  BY DEF SelectPage
<1>3. /\ pc = "page" /\ pc' = "count" /\ table' = table /\ filter' = filter /\ offset' = offset
      /\ fetched' = fetched /\ base' = IF offset = 0 THEN table ELSE base
      /\ limit' = limit /\ Paging' = Paging
  BY DEF SelectPage, Paging
<1>4. /\ M \in SUBSET Rows /\ Matching(base', filter) \in SUBSET M
      /\ Cardinality(M) \in Nat
  <2>1. base' \in SUBSET table
    BY <1>1, <1>3
  <2> QED
    BY <1>1, <2>1, MatchingGrows
<1>5. /\ page' \in Seq(M) /\ Len(page') \in Nat
      /\ Len(page') < Least(limit, PageCap) => Cardinality(M) <= offset + Len(page')
  BY <1>1, <1>2, <1>4, PageOfOrder
<1>6. /\ \A k \in 1..Len(page') : Rank(M, page'[k]) = offset + k
      /\ \A row \in M : Rank(M, row) > offset /\ Rank(M, row) <= offset + Len(page') =>
           \E k \in 1..Len(page') : page'[k] = row
  <2>1. limit \in Nat /\ offset \in Nat /\ order \in Orders(M) /\ M \in SUBSET Rows
    BY <1>1, <1>2, <1>4
  <2> DEFINE p == page'
  <2>2. p = PageOf(order, limit, offset)
    BY <1>2
  <2> HIDE DEF M, p
  <2>3. /\ \A k \in 1..Len(p) : Rank(M, p[k]) = offset + k
        /\ \A row \in M : Rank(M, row) > offset /\ Rank(M, row) <= offset + Len(p) =>
             \E k \in 1..Len(p) : p[k] = row
    BY <2>1, <2>2, PageByRank
  <2> QED
    BY <2>3 DEF p
<1>7. \A row \in M : Rank(M, row) \in 1..Cardinality(M)
  BY <1>4, RankBounds
<1>8. M = Matching(table, filter)' /\ Matching(base, filter)' = Matching(base', filter)
      /\ Fetched' = Fetched /\ Shown' = {page'[i] : i \in 1..Len(page')}
  BY <1>3, <1>5 DEF Fetched, Shown
<1>9. Paging => \A row \in Matching(base', filter) : row \in Fetched \/ Rank(M, row) > offset
  <2>1. CASE offset = 0
    BY <1>4, <1>7, <2>1
  <2>2. CASE offset # 0
    BY <1>3, <2>2 DEF PlaceInv, NothingPassedOver, Ahead
  <2> QED
    BY <2>1, <2>2
<1>10. Paging =>
         \A row \in Matching(base', filter) :
           row \in Fetched \/ row \in Shown' \/ Rank(M, row) > offset + Len(page')
  <2> SUFFICES ASSUME Paging, NEW row \in Matching(base', filter), row \notin Fetched,
                      ~(Rank(M, row) > offset + Len(page'))
               PROVE  row \in Shown'
    OBVIOUS
  <2>1. row \in M /\ Rank(M, row) > offset /\ Rank(M, row) \in Nat
    BY <1>4, <1>7, <1>9
  <2>2. Rank(M, row) <= offset + Len(page')
    BY <1>1, <1>5, <2>1
  <2>3. \E k \in 1..Len(page') : page'[k] = row
    BY <1>6, <2>1, <2>2
  <2> QED
    BY <1>8, <2>3
<1>11. Paging /\ Len(page') < Least(limit, PageCap)
         => Matching(base', filter) \subseteq Fetched \cup Shown'
  <2> SUFFICES ASSUME Paging, Len(page') < Least(limit, PageCap),
                      NEW row \in Matching(base', filter)
               PROVE  row \in Fetched \cup Shown'
    OBVIOUS
  <2>1. /\ Rank(M, row) \in Nat /\ Rank(M, row) <= Cardinality(M)
        /\ Cardinality(M) <= offset + Len(page')
    BY <1>4, <1>5, <1>7
  <2>2. ~(Rank(M, row) > offset + Len(page'))
    BY <1>1, <1>4, <1>5, <2>1
  <2> QED
    BY <1>10, <2>2
<1> HIDE DEF M
<1>12. NothingPassedOver'
  BY <1>3, <1>8, <1>10, <1>11 DEF NothingPassedOver, Ahead
<1>13. PlacesAreRanks'
  <2> SUFFICES ASSUME table' = base'
               PROVE  /\ \A i \in 1..Len(fetched) : Rank(M, fetched[i]) <= offset
                      /\ \A i, j \in 1..Len(fetched) :
                           i < j => Rank(M, fetched[i]) < Rank(M, fetched[j])
                      /\ \A i \in 1..Len(page') : Rank(M, page'[i]) = offset + i
    BY <1>3, <1>8 DEF PlacesAreRanks
  <2>1. CASE offset = 0
    <3>1. 1..Len(fetched) = {}
      BY <1>1, <2>1
    <3> QED
      BY <1>6, <3>1
  <2>2. CASE offset # 0
    <3>1. table = base
      BY <1>3, <2>2
    <3> QED
      BY <1>6, <3>1 DEF PlaceInv, PlacesAreRanks, M
  <2> QED
    BY <2>1, <2>2
<1> QED
  BY <1>12, <1>13 DEF PlaceInv

LEMMA SelectCountKeepsPlaces ==
  ASSUME ScanInv, PlaceInv, SelectCount
  PROVE  PlaceInv'
<1> DEFINE M == Matching(table, filter)
           B == Matching(base, filter)
<1>1. /\ table \in SUBSET Rows /\ base \in SUBSET table /\ offset \in Nat /\ page \in Seq(M)
  BY DEF ScanInv
<1>2. /\ table' = table /\ filter' = filter /\ offset' = offset /\ page' = page
      /\ fetched' = fetched /\ base' = base
      /\ total' = Cardinality(M) /\ pc = "count" /\ pc' \in {"failed", "answered"}
      /\ limit' = limit /\ Paging' = Paging
  BY DEF SelectCount, Paging
<1>3. /\ M \in SUBSET Rows /\ B \in SUBSET M /\ Cardinality(M) \in Nat
  BY <1>1, MatchingGrows
<1>4. \A row \in M : Rank(M, row) \in 1..Cardinality(M)
  BY <1>3, RankBounds
<1>5. /\ M = Matching(table, filter)' /\ B = Matching(base, filter)'
      /\ Fetched' = Fetched /\ Shown' = Shown
  BY <1>2 DEF Fetched, Shown
<1>6. Paging =>
        /\ \A row \in B : row \in Fetched \/ row \in Shown \/ Rank(M, row) > offset + Len(page)
        /\ Len(page) < Least(limit, PageCap) => B \subseteq Fetched \cup Shown
  BY <1>2 DEF PlaceInv, NothingPassedOver, Ahead
<1>7. Len(page) \in Nat
  BY <1>1
<1> HIDE DEF M, B
<1>8. Paging => B \subseteq Fetched \cup Shown \/ offset + Len(page) < total'
  <2> SUFFICES ASSUME Paging, NEW row \in B, row \notin Fetched \cup Shown
               PROVE  offset + Len(page) < total'
    OBVIOUS
  <2>1. Rank(M, row) > offset + Len(page)
    BY <1>6
  <2>2. Rank(M, row) \in Nat /\ Rank(M, row) <= Cardinality(M)
    BY <1>3, <1>4
  <2> QED
    BY <1>1, <1>2, <1>3, <1>7, <2>1, <2>2
<1>9. NothingPassedOver'
  BY <1>2, <1>5, <1>6, <1>8 DEF NothingPassedOver, Ahead
<1>10. PlacesAreRanks'
  BY <1>2 DEF PlaceInv, PlacesAreRanks
<1> QED
  BY <1>9, <1>10 DEF PlaceInv

LEMMA NextPageKeepsPlaces ==
  ASSUME ScanInv, PlaceInv, NextPage
  PROVE  PlaceInv'
<1> DEFINE M == Matching(table, filter)
           B == Matching(base, filter)
           n == Len(fetched)
<1>1. /\ table \in SUBSET Rows /\ base \in SUBSET table /\ offset \in Nat /\ page \in Seq(M)
      /\ fetched \in Seq(Rows) /\ total \in Nat
  BY DEF ScanInv
<1>2. /\ table' = table /\ filter' = filter /\ page' = page /\ total' = total /\ base' = base
      /\ fetched' = fetched \o page /\ offset' = offset + Step /\ pc = "answered"
      /\ pc' = IF page = <<>> \/ offset + Step >= total THEN "done" ELSE "page"
      /\ limit' = limit /\ Paging' = Paging
  BY DEF NextPage, Paging
<1>3. M \in SUBSET Rows /\ M = Matching(table, filter)' /\ B = Matching(base, filter)'
  BY <1>1, <1>2, MatchingGrows
<1>4. Paging =>
        /\ \A row \in B : row \in Fetched \/ row \in Shown \/ Rank(M, row) > offset + Len(page)
        /\ Len(page) < Least(limit, PageCap) => B \subseteq Fetched \cup Shown
        /\ B \subseteq Fetched \cup Shown \/ offset + Len(page) < total
  BY <1>2 DEF PlaceInv, NothingPassedOver, Ahead
<1> HIDE DEF M, B
<1>5. /\ page \in Seq(Rows) /\ n \in Nat /\ Len(page) \in Nat
      /\ Step \in Nat /\ Len(page) <= Step
      /\ limit \in Nat /\ Len(page) <= Least(limit, PageCap) /\ Least(limit, PageCap) \in Nat
  <2>1. limit \in Nat /\ Len(page) <= Least(limit, PageCap) /\ PageCap \in Nat
    BY <1>2, LimitsAssumption DEF ScanInv
  <2>2. Least(limit, PageCap) \in Nat
    BY <2>1 DEF Least
  <2> QED
    BY <1>1, <1>2, <1>3, <2>1, <2>2, StepPassesPage
<1> HIDE DEF n
<1>6. /\ Len(fetched') = n + Len(page) /\ DOMAIN fetched' = 1..(n + Len(page))
      /\ \A i \in 1..(n + Len(page)) :
           fetched'[i] = IF i <= n THEN fetched[i] ELSE page[i - n]
  <2>1. /\ fetched \o page \in Seq(Rows) /\ Len(fetched \o page) = Len(fetched) + Len(page)
        /\ \A i \in 1..(Len(fetched) + Len(page)) :
             (fetched \o page)[i] = IF i <= Len(fetched) THEN fetched[i] ELSE page[i - Len(fetched)]
    BY <1>1, <1>5, ConcatProperties
  <2> QED
    BY <1>2, <1>5, <2>1 DEF n
<1>7. Fetched \cup Shown \subseteq Fetched'
  <2>1. ASSUME NEW i \in 1..n PROVE fetched[i] \in Fetched'
    <3>1. i \in 1..(n + Len(page)) /\ i <= n
      BY <1>5
    <3> QED
      BY <1>6, <3>1 DEF Fetched
  <2>2. ASSUME NEW i \in 1..Len(page) PROVE page[i] \in Fetched'
    <3>1. n + i \in 1..(n + Len(page)) /\ ~(n + i <= n) /\ (n + i) - n = i
      BY <1>5
    <3> QED
      BY <1>6, <3>1 DEF Fetched
  <2>3. DOMAIN fetched = 1..n /\ DOMAIN page = 1..Len(page)
    BY <1>1, <1>5 DEF n
  <2> QED
    BY <2>1, <2>2, <2>3 DEF Fetched, Shown
<1>8. NothingPassedOver'
  <2> SUFFICES ASSUME Paging
               PROVE  /\ pc' = "done" => B \subseteq Fetched'
                      /\ pc' = "page" => \A row \in B : row \in Fetched' \/ Rank(M, row) > offset'
    BY <1>2, <1>3 DEF NothingPassedOver, Ahead
  <2>1. CASE Len(page) < Least(limit, PageCap)
    BY <1>4, <1>7, <2>1
  <2>2. CASE Len(page) = Least(limit, PageCap)
    <3>1. Step = Len(page)
      BY <1>2, <2>2, StepPassesPage
    <3>2. page # <<>>
      <4>1. PageCap \in Nat \ {0} /\ limit > 0
        BY LimitsAssumption DEF Paging
      <4>2. Len(page) # 0
        BY <1>5, <2>2, <4>1 DEF Least
      <4> QED
        BY <4>2
    <3>3. CASE pc' = "done"
      <4>1. ~(offset + Len(page) < total)
        BY <1>1, <1>2, <1>5, <3>1, <3>2, <3>3
      <4> QED
        BY <1>4, <1>7, <3>3, <4>1
    <3>4. CASE pc' = "page"
      BY <1>2, <1>4, <1>7, <3>1, <3>4
    <3> QED
      BY <3>3, <3>4
  <2> QED
    BY <1>5, <2>1, <2>2
<1>9. PlacesAreRanks'
  <2> SUFFICES ASSUME table = base
               PROVE  /\ \A i \in 1..(n + Len(page)) : Rank(M, fetched'[i]) <= offset'
                      /\ \A i, j \in 1..(n + Len(page)) :
                           i < j => Rank(M, fetched'[i]) < Rank(M, fetched'[j])
    BY <1>2, <1>3, <1>6 DEF PlacesAreRanks
  <2>1. /\ \A i \in 1..n : Rank(M, fetched[i]) <= offset
        /\ \A i, j \in 1..n : i < j => Rank(M, fetched[i]) < Rank(M, fetched[j])
        /\ \A i \in 1..Len(page) : Rank(M, page[i]) = offset + i
    BY <1>2 DEF PlaceInv, PlacesAreRanks, M, n
  <2>2. \A i \in 1..n : Rank(M, fetched[i]) \in Nat
    BY <1>1, <1>3, <1>5, RankIsNumber DEF n
  <2>3. ASSUME NEW i \in 1..(n + Len(page))
        PROVE  \/ i \in 1..n /\ fetched'[i] = fetched[i]
               \/ /\ ~(i <= n) /\ i - n \in 1..Len(page)
                  /\ Rank(M, fetched'[i]) = offset + (i - n)
    <3>1. CASE i <= n
      BY <1>5, <1>6, <3>1
    <3>2. CASE ~(i <= n)
      <4>1. i - n \in 1..Len(page)
        BY <1>5, <3>2
      <4> QED
        BY <1>6, <2>1, <3>2, <4>1
    <3> QED
      BY <3>1, <3>2
  <2>4. \A i \in 1..(n + Len(page)) : Rank(M, fetched'[i]) <= offset'
    <3> TAKE i \in 1..(n + Len(page))
    <3>1. CASE i \in 1..n /\ fetched'[i] = fetched[i]
      <4>1. Rank(M, fetched[i]) <= offset /\ Rank(M, fetched[i]) \in Nat
        BY <2>1, <2>2, <3>1
      <4>2. Rank(M, fetched[i]) <= offset + Step
        BY <1>1, <1>5, <4>1
      <4> QED
        BY <1>2, <3>1, <4>2
    <3>2. CASE i - n \in 1..Len(page) /\ Rank(M, fetched'[i]) = offset + (i - n)
      <4>1. offset + (i - n) <= offset + Step
        BY <1>1, <1>5, <3>2
      <4> QED
        BY <1>2, <3>2, <4>1
    <3> QED
      BY <2>3, <3>1, <3>2
  <2>5. ASSUME NEW i \in 1..(n + Len(page)), NEW j \in 1..(n + Len(page)), i < j
        PROVE  Rank(M, fetched'[i]) < Rank(M, fetched'[j])
    <3>1. CASE j \in 1..n /\ fetched'[j] = fetched[j]
      <4>1. i \in 1..n
        BY <1>5, <2>5, <3>1
      <4>2. fetched'[i] = fetched[i]
        BY <1>5, <2>3, <4>1
      <4> QED
        BY <2>1, <2>5, <3>1, <4>1, <4>2
    <3>2. CASE ~(j <= n) /\ j - n \in 1..Len(page) /\ Rank(M, fetched'[j]) = offset + (j - n)
      <4>1. CASE i \in 1..n /\ fetched'[i] = fetched[i]
        <5>1. Rank(M, fetched[i]) <= offset /\ Rank(M, fetched[i]) \in Nat
          BY <2>1, <2>2, <4>1
        <5>2. Rank(M, fetched[i]) < offset + (j - n)
          BY <1>1, <1>5, <3>2, <5>1
        <5> QED
          BY <3>2, <4>1, <5>2
      <4>2. CASE Rank(M, fetched'[i]) = offset + (i - n)
        <5>1. offset + (i - n) < offset + (j - n)
          BY <1>1, <1>5, <2>5
        <5> QED
          BY <3>2, <4>2, <5>1
      <4> QED
        BY <2>3, <4>1, <4>2
    <3> QED
      BY <2>3, <3>1, <3>2
  <2> QED
    BY <2>4, <2>5
<1> QED
  BY <1>8, <1>9 DEF PlaceInv

LEMMA PlaceInvHolds ==
  ASSUME DistinctTimes
  PROVE  Spec => []PlaceInv
<1>1. ScanInv /\ PlaceInv /\ [Next]_vars => PlaceInv'
  <2> SUFFICES ASSUME ScanInv, PlaceInv, [Next]_vars PROVE PlaceInv'
    OBVIOUS
  <2>1. CASE UNCHANGED vars
    BY <2>1 DEF vars, PlaceInv, NothingPassedOver, PlacesAreRanks, Fetched, Shown, Ahead,
       Paging
  <2> QED
    BY <2>1, CommitKeepsPlaces, SelectPageKeepsPlaces, RefusePageKeepsPlaces,
       SelectCountKeepsPlaces, NextPageKeepsPlaces DEF Next
<1> QED
  BY <1>1, PlaceInvInit, ScanInvHolds, PTL DEF Spec

-----------------------------------------------------------------------------
(* Theorems about the list *)

\* The total that comes with a page covers the page's positions.
THEOREM TotalsCoverPages == Spec => []TotalCoversPage
<1>1. ScanInv => TotalCoversPage
  BY DEF ScanInv, TotalCoversPage
<1> QED
  BY <1>1, ScanInvHolds, PTL

\* Rows of distinct times: whatever is committed during the scan, a row that
\* matched when it began has been seen when it ends, by a client that steps by
\* the rows it is given or by a limit that is not above the cap.
THEOREM NoRowIsSkipped ==
  ASSUME DistinctTimes
  PROVE  Spec => []NoRowSkipped
<1>1. PlaceInv => NoRowSkipped
  BY DEF PlaceInv, NothingPassedOver, NoRowSkipped, Fetched
<1> QED
  BY <1>1, PlaceInvHolds, PTL

\* Rows of distinct times: a scan during which nothing is committed shows no
\* row twice.
THEOREM NoRowComesTwice ==
  ASSUME DistinctTimes
  PROVE  Spec => []NoRowTwiceWhenQuiet
<1>1. ScanInv /\ PlaceInv => NoRowTwiceWhenQuiet
  <2> SUFFICES ASSUME ScanInv, PlaceInv, table = base, NEW i \in DOMAIN fetched,
                      NEW j \in DOMAIN fetched, fetched[i] = fetched[j], i < j
               PROVE  FALSE
    <3>1. \A i, j \in DOMAIN fetched : i # j => i < j \/ j < i
      BY DEF ScanInv
    <3> QED
      BY <3>1 DEF NoRowTwiceWhenQuiet
  <2>1. i \in 1..Len(fetched) /\ j \in 1..Len(fetched) /\ Matching(table, filter) \in SUBSET Rows
    BY MatchingGrows DEF ScanInv
  <2>2. /\ Rank(Matching(table, filter), fetched[i]) < Rank(Matching(table, filter), fetched[j])
        /\ Rank(Matching(table, filter), fetched[i]) \in Nat
    BY <2>1, RankIsNumber DEF PlaceInv, PlacesAreRanks
  <2> QED
    BY <2>2
<1> QED
  BY <1>1, ScanInvHolds, PlaceInvHolds, PTL

-----------------------------------------------------------------------------
(* Groups *)

\* The statistics count as the list does.
LEMMA SameCount ==
  ASSUME NEW X
  PROVE  S!Cardinality(X) = Cardinality(X)
  BY DEF S!Cardinality, Cardinality

\* The groups of a column count every row once.
LEMMA GroupsCoverRows ==
  ASSUME NEW rows \in SUBSET Rows, NEW column
  PROVE  S!Sum(S!GroupedBy(rows, column)) = Cardinality(rows)
<1> DEFINE V == {row[column] : row \in rows}
           Part(v) == {row \in rows : row[column] = v}
           G == S!GroupedBy(rows, column)
           P == UNION {{v} \X (1..G[v]) : v \in DOMAIN G}
           F == [v \in V |-> CHOOSE f : f \in Bijection(1..G[v], Part(v))]
           h == [q \in P |-> F[q[1]][q[2]]]
<1>1. DOMAIN G = V /\ \A v \in V : G[v] = Cardinality(Part(v))
  BY SameCount DEF S!GroupedBy
<1>2. IsFiniteSet(rows) /\ \A v : IsFiniteSet(Part(v))
  <2>1. \A v : Part(v) \in SUBSET rows
    OBVIOUS
  <2> QED
    BY <2>1, RowsCounted
<1>3. \A v \in V : F[v] \in Bijection(1..G[v], Part(v))
  <2> TAKE v \in V
  <2>1. ExistsBijection(1..Cardinality(Part(v)), Part(v))
    BY <1>2, FS_CardinalityType
  <2>2. \E f : f \in Bijection(1..G[v], Part(v))
    BY <1>1, <2>1 DEF ExistsBijection
  <2> QED
    BY <2>2
<1> HIDE DEF F
<1>4. /\ \A v \in V : F[v] \in [1..G[v] -> Part(v)]
      /\ \A v \in V : \A i, j \in 1..G[v] : F[v][i] = F[v][j] => i = j
      /\ \A v \in V : \A row \in Part(v) : \E i \in 1..G[v] : F[v][i] = row
  BY <1>3 DEF Bijection, Injection, Surjection, IsInjective
<1>5. \A q : q \in P <=> \E v \in V : \E i \in 1..G[v] : q = <<v, i>>
  BY <1>1
<1> HIDE DEF G, P
<1>6. \A q \in P : h[q] \in rows /\ h[q][column] = q[1]
  <2> TAKE q \in P
  <2>1. \E v \in V : \E i \in 1..G[v] : q = <<v, i>>
    BY <1>5
  <2>2. PICK v \in V : \E i \in 1..G[v] : q = <<v, i>>
    BY <2>1
  <2>3. PICK i \in 1..G[v] : q = <<v, i>>
    BY <2>2
  <2>4. F[v][i] \in Part(v)
    BY <1>4
  <2> QED
    BY <2>3, <2>4
<1>7. ASSUME NEW q \in P, NEW r \in P, h[q] = h[r]
      PROVE  q = r
  <2>1. PICK v \in V : \E i \in 1..G[v] : q = <<v, i>>
    BY <1>5
  <2>2. PICK i \in 1..G[v] : q = <<v, i>>
    BY <2>1
  <2>3. PICK w \in V : \E i2 \in 1..G[w] : r = <<w, i2>>
    BY <1>5
  <2>4. PICK j \in 1..G[w] : r = <<w, j>>
    BY <2>3
  <2>5. v = w
    BY <1>6, <1>7, <2>2, <2>4
  <2>6. F[v][i] = F[v][j]
    BY <1>7, <2>2, <2>4, <2>5
  <2>7. i = j
    BY <1>4, <2>5, <2>6
  <2> QED
    BY <2>2, <2>4, <2>5, <2>7
<1>8. ASSUME NEW row \in rows
      PROVE  \E q \in P : h[q] = row
  <2>1. row[column] \in V /\ row \in Part(row[column])
    OBVIOUS
  <2>2. PICK i \in 1..G[row[column]] : F[row[column]][i] = row
    BY <1>4, <2>1
  <2>3. <<row[column], i>> \in P
    BY <1>5, <2>1
  <2> QED
    BY <2>2, <2>3
<1>9. h \in [P -> rows]
  BY <1>6
<1> HIDE DEF h
<1>10. h \in Injection(P, rows) /\ h \in Surjection(P, rows)
  BY <1>7, <1>8, <1>9 DEF Injection, Surjection, IsInjective
<1>11. Cardinality(P) = Cardinality(rows)
  BY <1>2, <1>10, FS_Injection
<1> QED
  BY <1>11, SameCount DEF S!Sum, P, G

-----------------------------------------------------------------------------
(* The list and the statistics together *)

\* The list does not notice the statistics: what is proved of the scan alone
\* holds beside them.
THEOREM ReadsScan == ReadsSpec => Spec
<1>1. ReadsInit => Init
  BY DEF ReadsInit
<1>2. [ReadsNext]_<<vars, statsVars, listed>> => [Next]_vars
  <2> SUFFICES ASSUME [ReadsNext]_<<vars, statsVars, listed>> PROVE [Next]_vars
    OBVIOUS
  <2>1. CASE Listing
    BY <2>1 DEF Listing, Next
  <2>2. CASE Begin
    BY <2>2 DEF Begin, S!SelectTotals, listVars, vars
  <2>3. CASE Summing
    BY <2>3 DEF Summing, S!SelectByType, S!SelectByStatus, S!SelectFraud, S!Tick, listVars, vars
  <2>4. CASE Store
    BY <2>4 DEF Store, Next
  <2>5. CASE UNCHANGED <<vars, statsVars, listed>>
    BY <2>5
  <2> QED
    BY <2>1, <2>2, <2>3, <2>4, <2>5 DEF ReadsNext
<1> QED
  BY <1>1, <1>2, PTL DEF ReadsSpec, Spec

\* Nor do the statistics notice the list: beside it they are those of Stats.
THEOREM ReadsSummarise == ReadsSpec => S!Spec
<1>1. ReadsInit => S!Init
  BY DEF ReadsInit
<1>2. [ReadsNext]_<<vars, statsVars, listed>> => [S!Next]_(S!vars)
  <2> SUFFICES ASSUME [ReadsNext]_<<vars, statsVars, listed>>
               PROVE  S!Next \/ UNCHANGED S!vars
    OBVIOUS
  <2>1. CASE Listing
    BY <2>1 DEF Listing, SelectPage, RefusePage, SelectCount, NextPage, statsVars, S!vars
  <2>2. CASE Begin
    BY <2>2 DEF Begin, S!Next
  <2>3. CASE Summing
    BY <2>3 DEF Summing, S!Next
  <2>4. CASE Store
    BY <2>4 DEF Store, S!Next
  <2>5. CASE UNCHANGED <<vars, statsVars, listed>>
    BY <2>5 DEF vars, statsVars, S!vars
  <2> QED
    BY <2>1, <2>2, <2>3, <2>4, <2>5 DEF ReadsNext
<1> QED
  BY <1>1, <1>2, PTL DEF ReadsSpec, S!Spec

InPeriod == S!Since(table, start)

Grouped == S!Sum(byType)

\* What the statistics have counted so far is no more than there is to count
\* now, and each statement counted at least what the one before it did.
SummaryInv ==
  /\ start \in Int
  /\ statement # "totals" => count \in Nat /\ count <= Cardinality(InPeriod)
  /\ statement \in {"by_status", "fraud", "answered"} =>
       Grouped \in Nat /\ count <= Grouped /\ Grouped <= Cardinality(InPeriod)
  /\ statement \in {"fraud", "answered"} => Grouped <= S!Sum(byStatus)
  /\ statement # "totals" /\ filter = [key \in {"start_time"} |-> start] => count >= listed

\* A period's rows, counted as the list counts them and as the groups do.
LEMMA PeriodCounted ==
  ASSUME table \in SUBSET Rows
  PROVE  /\ Cardinality(InPeriod) \in Nat
         /\ S!Cardinality(InPeriod) = Cardinality(InPeriod)
         /\ \A column : S!Sum(S!GroupedBy(InPeriod, column)) = Cardinality(InPeriod)
         /\ InPeriod = Matching(table, [key \in {"start_time"} |-> start])
<1>1. InPeriod \in SUBSET Rows
  BY DEF InPeriod, S!Since
<1>2. InPeriod = Matching(table, [key \in {"start_time"} |-> start])
  <2> DEFINE f == [key \in {"start_time"} |-> start]
  <2>1. DOMAIN f = {"start_time"} /\ f["start_time"] = start
    OBVIOUS
  <2> HIDE DEF f
  <2>2. \A row \in table : (\A key \in DOMAIN f : Meets(row, key, f[key])) <=> row.time >= start
    BY <2>1 DEF Meets
  <2>3. InPeriod = Matching(table, f)
    BY <2>2 DEF InPeriod, S!Since, Matching
  <2> QED
    BY <2>3 DEF f
<1> QED
  BY <1>1, <1>2, RowsCounted, SameCount, GroupsCoverRows

\* Commits add to what there is to count.
LEMMA PeriodGrows ==
  ASSUME table' \in SUBSET Rows, table \in SUBSET table', start' = start
  PROVE  /\ Cardinality(InPeriod) \in Nat /\ Cardinality(InPeriod') \in Nat
         /\ Cardinality(InPeriod) <= Cardinality(InPeriod')
<1>1. InPeriod \in SUBSET InPeriod' /\ InPeriod' \in SUBSET Rows
  BY DEF InPeriod, S!Since
<1> QED
  BY <1>1, RowsCounted

LEMMA SummaryInvInit == ReadsInit => SummaryInv
<1> SUFFICES ASSUME ReadsInit PROVE SummaryInv
  OBVIOUS
<1>1. statement = "totals" /\ now \in Clock /\ \E hours \in Hours : start = now - hours
  BY DEF ReadsInit, S!Init
<1>2. start \in Int
  BY <1>1, HoursAssumption
<1> QED
  BY <1>1, <1>2 DEF SummaryInv

\* Nothing that the statistics have read changes.
SummaryKept ==
  /\ start' = start /\ statement' = statement /\ count' = count /\ byType' = byType
  /\ byStatus' = byStatus /\ filter' = filter /\ listed' = listed

LEMMA OthersKeepSummary ==
  ASSUME SummaryInv, SummaryKept, table' \in SUBSET Rows, table \in SUBSET table'
  PROVE  SummaryInv'
<1>1. /\ Cardinality(InPeriod) \in Nat /\ Cardinality(InPeriod') \in Nat
      /\ Cardinality(InPeriod) <= Cardinality(InPeriod')
  BY PeriodGrows DEF SummaryKept
<1>2. Grouped' = Grouped /\ S!Sum(byStatus)' = S!Sum(byStatus)
  BY DEF SummaryKept, Grouped
<1> DEFINE c == Cardinality(InPeriod)
           d == Cardinality(InPeriod')
           g == Grouped
           t == S!Sum(byStatus)
<1>3. /\ start \in Int
      /\ statement # "totals" => count \in Nat /\ count <= c
      /\ statement \in {"by_status", "fraud", "answered"} => g \in Nat /\ count <= g /\ g <= c
      /\ statement \in {"fraud", "answered"} => g <= t
      /\ statement # "totals" /\ filter = [key \in {"start_time"} |-> start] => count >= listed
  BY DEF SummaryInv
<1> HIDE DEF c, d, g, t
<1>4. c \in Nat /\ d \in Nat /\ c <= d
  BY <1>1 DEF c, d
<1>5. /\ statement # "totals" => count \in Nat /\ count <= d
      /\ statement \in {"by_status", "fraud", "answered"} => g \in Nat /\ count <= g /\ g <= d
  BY <1>3, <1>4
<1>6. /\ statement' # "totals" => count' \in Nat /\ count' <= d
      /\ statement' \in {"by_status", "fraud", "answered"} => g \in Nat /\ count' <= g /\ g <= d
      /\ statement' \in {"fraud", "answered"} => g <= t
      /\ statement' # "totals" /\ filter' = [key \in {"start_time"} |-> start'] => count' >= listed'
      /\ start' \in Int
  BY <1>3, <1>5, Zenon DEF SummaryKept
<1>7. Cardinality(InPeriod)' = d /\ Grouped' = g /\ S!Sum(byStatus)' = t
  BY <1>2 DEF d, g, t
<1> QED
  BY <1>6, <1>7 DEF SummaryInv

\* The totals are counted after the list's total, of the table as it is now.
LEMMA BeginKeeps ==
  ASSUME ScanInv, SummaryInv, Begin
  PROVE  SummaryInv'
<1>1. table \in SUBSET Rows /\ total <= Cardinality(Matching(table, filter)) /\ total \in Nat
      /\ start \in Int
  BY DEF ScanInv, SummaryInv
<1>2. /\ statement' = "by_type" /\ count' = S!Cardinality(InPeriod) /\ listed' = total
      /\ table' = table /\ start' = start /\ filter' = filter
  BY DEF Begin, S!SelectTotals, InPeriod, listVars
<1>3. /\ Cardinality(InPeriod) \in Nat
      /\ S!Cardinality(InPeriod) = Cardinality(InPeriod)
      /\ InPeriod = Matching(table, [key \in {"start_time"} |-> start])
  BY <1>1, PeriodCounted
<1>4. InPeriod' = InPeriod
  BY <1>2 DEF InPeriod
<1>5. filter = [key \in {"start_time"} |-> start] => count' >= listed'
  BY <1>1, <1>2, <1>3
<1> QED
  BY <1>1, <1>2, <1>3, <1>4, <1>5 DEF SummaryInv

\* The groups by type are counted after the totals.
LEMMA SelectByTypeKeeps ==
  ASSUME ScanInv, SummaryInv, S!SelectByType, UNCHANGED <<asked, listVars, listed>>
  PROVE  SummaryInv'
<1>1. table \in SUBSET Rows /\ start \in Int
  BY DEF ScanInv, SummaryInv
<1>2. /\ statement = "by_type" /\ statement' = "by_status"
      /\ byType' = S!GroupedBy(InPeriod, "type")
      /\ table' = table /\ start' = start /\ count' = count /\ filter' = filter
      /\ listed' = listed
  BY DEF S!SelectByType, InPeriod, listVars
<1>3. /\ count \in Nat /\ count <= Cardinality(InPeriod)
      /\ filter = [key \in {"start_time"} |-> start] => count >= listed
  BY <1>2 DEF SummaryInv
<1>4. /\ Cardinality(InPeriod) \in Nat
      /\ S!Sum(S!GroupedBy(InPeriod, "type")) = Cardinality(InPeriod)
  BY <1>1, PeriodCounted
<1>5. InPeriod' = InPeriod /\ Grouped' = S!Sum(S!GroupedBy(InPeriod, "type"))
  BY <1>2 DEF InPeriod, Grouped
<1>6. (Grouped \in Nat /\ count <= Grouped /\ Grouped <= Cardinality(InPeriod))'
  BY <1>2, <1>3, <1>4, <1>5
<1> QED
  BY <1>1, <1>2, <1>3, <1>5, <1>6 DEF SummaryInv

\* The groups by status are counted after those by type.
LEMMA SelectByStatusKeeps ==
  ASSUME ScanInv, SummaryInv, S!SelectByStatus, UNCHANGED <<asked, listVars, listed>>
  PROVE  SummaryInv'
<1>1. table \in SUBSET Rows /\ start \in Int
  BY DEF ScanInv, SummaryInv
<1>2. /\ statement = "by_status" /\ statement' = "fraud"
      /\ byStatus' = S!GroupedBy(InPeriod, "status")
      /\ table' = table /\ start' = start /\ count' = count /\ byType' = byType
      /\ filter' = filter /\ listed' = listed
  BY DEF S!SelectByStatus, InPeriod, listVars
<1>3. /\ count \in Nat /\ count <= Cardinality(InPeriod)
      /\ Grouped \in Nat /\ count <= Grouped /\ Grouped <= Cardinality(InPeriod)
      /\ filter = [key \in {"start_time"} |-> start] => count >= listed
  BY <1>2 DEF SummaryInv
<1>4. S!Sum(S!GroupedBy(InPeriod, "status")) = Cardinality(InPeriod)
  BY <1>1, PeriodCounted
<1>5. InPeriod' = InPeriod /\ Grouped' = Grouped
      /\ S!Sum(byStatus)' = S!Sum(S!GroupedBy(InPeriod, "status"))
  BY <1>2 DEF InPeriod, Grouped
<1> QED
  BY <1>1, <1>2, <1>3, <1>4, <1>5 DEF SummaryInv

\* The last statement counts frauds only.
LEMMA SelectFraudKeeps ==
  ASSUME ScanInv, SummaryInv, S!SelectFraud, UNCHANGED <<asked, listVars, listed>>
  PROVE  SummaryInv'
<1>1. /\ statement = "fraud" /\ statement' = "answered"
      /\ table' = table /\ start' = start /\ count' = count /\ byType' = byType
      /\ byStatus' = byStatus /\ filter' = filter /\ listed' = listed
  BY DEF S!SelectFraud, listVars
<1>2. InPeriod' = InPeriod /\ Grouped' = Grouped /\ S!Sum(byStatus)' = S!Sum(byStatus)
  BY <1>1 DEF InPeriod, Grouped
<1>3. /\ start \in Int /\ count \in Nat /\ count <= Cardinality(InPeriod)
      /\ Grouped \in Nat /\ count <= Grouped /\ Grouped <= Cardinality(InPeriod)
      /\ Grouped <= S!Sum(byStatus)
      /\ filter = [key \in {"start_time"} |-> start] => count >= listed
  BY <1>1 DEF SummaryInv
<1> QED
  BY <1>1, <1>2, <1>3 DEF SummaryInv

LEMMA SummaryInvStep ==
  ScanInv /\ ScanInv' /\ SummaryInv /\ [ReadsNext]_<<vars, statsVars, listed>> => SummaryInv'
<1> SUFFICES ASSUME ScanInv, ScanInv', SummaryInv, [ReadsNext]_<<vars, statsVars, listed>>
             PROVE  SummaryInv'
  OBVIOUS
<1>1. table \in SUBSET Rows /\ table' \in SUBSET Rows
  BY DEF ScanInv
<1>2. CASE Listing
  <2>1. SummaryKept /\ table' = table
    BY <1>2 DEF Listing, SelectPage, RefusePage, SelectCount, NextPage, statsVars, SummaryKept
  <2> QED
    BY <1>1, <2>1, OthersKeepSummary
<1>3. CASE Begin
  BY <1>3, BeginKeeps
<1>4. CASE Summing
  <2>1. CASE S!Tick
    <3>1. SummaryKept /\ table' = table
      BY <1>4, <2>1 DEF Summing, S!Tick, listVars, SummaryKept
    <3> QED
      BY <1>1, <3>1, OthersKeepSummary
  <2> QED
    BY <1>4, <2>1, SelectByTypeKeeps, SelectByStatusKeeps, SelectFraudKeeps DEF Summing
<1>5. CASE Store
  <2>1. SummaryKept
    BY <1>5 DEF Store, Commit, S!Commit, SummaryKept
  <2>2. table \in SUBSET table'
    BY <1>5 DEF Store, Commit
  <2> QED
    BY <1>1, <2>1, <2>2, OthersKeepSummary
<1>6. CASE UNCHANGED <<vars, statsVars, listed>>
  <2>1. SummaryKept /\ table' = table
    BY <1>6 DEF vars, statsVars, SummaryKept
  <2> QED
    BY <1>1, <2>1, OthersKeepSummary
<1> QED
  BY <1>2, <1>3, <1>4, <1>5, <1>6 DEF ReadsNext

LEMMA SummaryInvHolds == ReadsSpec => []SummaryInv
<1>1. ReadsSpec => []ScanInv
  BY ReadsScan, ScanInvHolds, PTL
<1> QED
  BY <1>1, SummaryInvInit, SummaryInvStep, PTL DEF ReadsSpec

\* The figures of one answer grow in the order of their statements.
THEOREM FiguresAreOrdered == ReadsSpec => []FiguresOrdered
<1>1. SummaryInv => FiguresOrdered
  BY DEF SummaryInv, FiguresOrdered, S!FiguresOrdered, Grouped
<1> QED
  BY <1>1, SummaryInvHolds, PTL

\* Statistics that begin after the list of their period was counted count no
\* fewer transactions, whatever is committed meanwhile.
THEOREM SummariesCoverLists == ReadsSpec => []SummaryCoversList
<1>1. SummaryInv => SummaryCoversList
  BY DEF SummaryInv, SummaryCoversList
<1> QED
  BY <1>1, SummaryInvHolds, PTL
=============================================================================
