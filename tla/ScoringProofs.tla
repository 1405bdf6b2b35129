---------------------------- MODULE ScoringProofs ----------------------------
(***************************************************************************)
(* What TLAPS proves of the scores and reasons Ingest stores: what the     *)
(* velocity rule counted, and what a flag was explained by, while other    *)
(* requests commit and the clock goes on.                                  *)
(***************************************************************************)
EXTENDS ReceiptProofs

-----------------------------------------------------------------------------
(* The inductive invariant *)

\* The rows a request did not store itself.
Others(r) == table \ RowsOf(r)

\* The rows that were stored when the request arrived.
Earlier(r) == {row \in table : row.txn.tid \in before[r].ids}

\* The velocity rule was applied for five payloads of others, within an hour
\* before a time at which the request was running.
Justified(r, row) ==
  \E m \in Instants : /\ before[r].time <= m /\ m <= now
                      /\ WithinHour(Others(r), row.txn.customer, m) >= 5

\* Both copies of the rules saw what the payload says, whatever they counted.
RowScored(r, row) ==
  /\ row.score \in {Score(row.txn, 0), Score(row.txn, 5)}
  /\ row.status = IF Flags(row.score) THEN "flagged" ELSE "pending"
  /\ row.score # Score(row.txn, 0) \/ "high_velocity" \in row.reason => Justified(r, row)
  /\ WithinHour(Earlier(r), row.txn.customer, now) >= 5 => row.score = Score(row.txn, 5)

RowExplained(r, row) ==
  row.reason # {} =>
    /\ Flags(row.score)
    /\ ~row.txn.is_fraud =>
         /\ row.reason \ {"high_velocity"} = FiredRules(row.txn, 0)
         /\ "high_velocity" \notin row.reason /\ row.score # Score(row.txn, 0)
              => before[r].time < now

\* A flagged row that has no reason yet.
Unexplained(row) == Flags(row.score) /\ row.reason = {}

Scoring(r) ==
  /\ before[r].ids \subseteq Tids(table)
  /\ before[r].time <= now
  /\ \A row \in built[r] : RowScored(r, row) /\ RowExplained(r, row)
  /\ pc[r] \in {"score", "flush", "commit", "refresh", "time", "respond"}
       => \A row \in built[r] : ~Unexplained(row)
  /\ pc[r] = "reason"
       => \A row1, row2 \in built[r] : Unexplained(row1) /\ Unexplained(row2) => row1 = row2
  /\ \A row \in RowsOf(r) : ~Unexplained(row)

ScoringInv ==
  /\ IsFiniteSet(table)
  /\ \A r \in Request : Scoring(r)

-----------------------------------------------------------------------------
(* Counts and rules *)

\* A later window over the same rows counts no more of them, more rows no fewer.
LEMMA CountsMonotone ==
  ASSUME NEW few, NEW rows, few \subseteq rows, rows \subseteq RowType, IsFiniteSet(rows),
         NEW c, NEW m1 \in Int, NEW m2 \in Int, m1 <= m2
  PROVE  /\ WithinHour(few, c, m2) \in Nat /\ WithinHour(rows, c, m1) \in Nat
         /\ WithinHour(few, c, m2) <= WithinHour(rows, c, m1)
<1> DEFINE S == {row \in few : row.txn.customer = c /\ m2 - row.txn.time <= 60}
           T == {row \in rows : row.txn.customer = c /\ m1 - row.txn.time <= 60}
<1>1. \A row \in rows : row.txn.time \in Int
  BY DEF RowType, PayloadType
<1>2. S \subseteq T
  BY <1>1
<1>3. IsFiniteSet(T)
  BY FS_Subset
<1> HIDE DEF S, T
<1>4. Cardinality(S) \in Nat /\ Cardinality(T) \in Nat /\ Cardinality(S) <= Cardinality(T)
  BY <1>2, <1>3, FS_Subset, FS_CardinalityType
<1> QED
  BY <1>4 DEF WithinHour, S, T

\* The two ways to write the window count the same rows.
LEMMA CountIsWithin ==
  ASSUME NEW rows, rows \subseteq RowType, NEW c, NEW m \in Int
  PROVE  RecentCount(rows, c, m) = WithinHour(rows, c, m)
<1>1. \A row \in rows : row.txn.time \in Int
  BY DEF RowType, PayloadType
<1>2. \A row \in rows : row.txn.time >= m - 60 <=> m - row.txn.time <= 60
  BY <1>1
<1>3. {row \in rows : row.txn.customer = c /\ row.txn.time >= m - 60} =
      {row \in rows : row.txn.customer = c /\ m - row.txn.time <= 60}
  BY <1>2
<1> QED
  BY <1>3 DEF RecentCount, WithinHour

\* A count only matters through the velocity rule.
LEMMA ScoreByCount ==
  ASSUME NEW p, NEW n \in Nat
  PROVE  /\ n >= 5 => Score(p, n) = Score(p, 5)
         /\ n < 5 => Score(p, n) = Score(p, 0)
<1>1. /\ n >= 5 => HighVelocity(n) = HighVelocity(5)
      /\ n < 5 => HighVelocity(n) = HighVelocity(0)
  BY DEF HighVelocity
<1> QED
  BY <1>1 DEF Score

LEMMA FiredByCount ==
  ASSUME NEW p, NEW n \in Nat
  PROVE  /\ FiredRules(p, n) \ {"high_velocity"} = FiredRules(p, 0)
         /\ "high_velocity" \in FiredRules(p, n) <=> n >= 5
  BY DEF FiredRules, RuleNames, HighVelocity

\* The reasons of a flagged payload are the rules that fire, and are not empty.
LEMMA ReasonsOfFlagged ==
  ASSUME NEW p, NEW k, NEW n, Flags(Score(p, k))
  PROVE  /\ Reasons(p, n) # {}
         /\ ~p.is_fraud => Reasons(p, n) = FiredRules(p, n)
         /\ p.is_fraud => "high_velocity" \notin Reasons(p, n)
<1>1. "rule_threshold" \notin Reasons(p, n)
  BY FallbackUnreachable
<1> QED
  BY <1>1 DEF Reasons

-----------------------------------------------------------------------------
(* It is kept by every step *)

\* Times are numbers.
LEMMA TimesTyped ==
  ASSUME TypeOK, NEW r \in Request
  PROVE  now \in Int /\ before[r].time \in Int /\ Instants \subseteq Int
<1>1. now \in Instants
  BY DEF TypeOK
<1>2. before[r] \in [ids : SUBSET TxnId, time : Instants]
  BY DEF TypeOK
<1>3. before[r].time \in Instants
  BY <1>2
<1>4. Instants \subseteq Int
  BY InstantsAssumption
<1> QED
  BY <1>1, <1>3, <1>4

\* What holds of a row stays true while others commit and the clock goes on.
LEMMA RowKept ==
  ASSUME TypeOK, TypeOK', IsFiniteSet(table'), StoredOnce', NEW r \in Request,
         NEW row \in RowType, RowScored(r, row), RowExplained(r, row),
         table \subseteq table', now <= now',
         before'[r] = before[r], before[r].ids \subseteq Tids(table)
  PROVE  RowScored(r, row)' /\ RowExplained(r, row)'
<1>1. now \in Int /\ now' \in Int /\ Instants \subseteq Int /\ before[r].time \in Int
  <2>1. now' \in Instants
    BY DEF TypeOK
  <2> QED
    BY <2>1, TimesTyped
<1>2. Others(r) \subseteq Others(r)' /\ Others(r)' \subseteq RowType /\ IsFiniteSet(Others(r)')
  BY FS_Subset DEF Others, RowsOf, TypeOK
<1>3. Earlier(r)' = Earlier(r) /\ Earlier(r) \subseteq RowType /\ IsFiniteSet(Earlier(r))
  <2>1. \A new \in table' : new.txn.tid \in before[r].ids => new \in table
    BY DEF Tids, StoredOnce
  <2>2. Earlier(r)' = Earlier(r)
    BY <2>1 DEF Earlier
  <2> QED
    BY <2>2, FS_Subset DEF Earlier, TypeOK
<1>4. Justified(r, row) => Justified(r, row)'
  <2> SUFFICES ASSUME Justified(r, row) PROVE Justified(r, row)'
    OBVIOUS
  <2>1. PICK m \in Instants : /\ before[r].time <= m /\ m <= now
                              /\ WithinHour(Others(r), row.txn.customer, m) >= 5
    BY DEF Justified
  <2>2. WithinHour(Others(r)', row.txn.customer, m) >= 5
    BY <1>1, <1>2, <2>1, CountsMonotone
  <2>3. m <= now'
    BY <1>1, <2>1
  <2> QED
    BY <2>1, <2>2, <2>3 DEF Justified, WithinHour
<1>5. WithinHour(Earlier(r), row.txn.customer, now)' >= 5
        => WithinHour(Earlier(r), row.txn.customer, now) >= 5
  <2>1. WithinHour(Earlier(r), row.txn.customer, now)' =
        WithinHour(Earlier(r), row.txn.customer, now')
    BY <1>3 DEF WithinHour
  <2>2. /\ WithinHour(Earlier(r), row.txn.customer, now') \in Nat
        /\ WithinHour(Earlier(r), row.txn.customer, now) \in Nat
        /\ WithinHour(Earlier(r), row.txn.customer, now')
              <= WithinHour(Earlier(r), row.txn.customer, now)
    BY <1>1, <1>3, CountsMonotone
  <2> QED
    BY <2>1, <2>2
<1>6. RowScored(r, row)'
  BY <1>4, <1>5 DEF RowScored
<1>7. before[r].time < now => before'[r].time < now'
  BY <1>1
<1> QED
  BY <1>6, <1>7 DEF RowExplained

\* A step after which the request has the rows it had.
LEMMA ScoringKept ==
  ASSUME TypeOK, TypeOK', IsFiniteSet(table'), StoredOnce', ScoringInv, NEW r \in Request,
         table \subseteq table', now <= now',
         before'[r] = before[r], built'[r] = built[r],
         \/ pc'[r] = pc[r]
         \/ /\ pc'[r] # "reason"
            /\ pc'[r] \in {"score", "flush", "commit", "refresh", "time", "respond"}
                 => \A row \in built[r] : ~Unexplained(row),
         \/ RowsOf(r)' = RowsOf(r)
         \/ \A row \in RowsOf(r)' : ~Unexplained(row)
  PROVE  Scoring(r)'
<1>1. Scoring(r)
  BY DEF ScoringInv
<1>2. before[r].ids \subseteq Tids(table)'
  BY <1>1 DEF Scoring, Tids
<1>3. before[r].time <= now'
  <2>1. now' \in Instants
    BY DEF TypeOK
  <2>2. now \in Int /\ now' \in Int /\ before[r].time \in Int
    BY <2>1, TimesTyped
  <2> QED
    BY <1>1, <2>2 DEF Scoring
<1>4. \A row \in built[r] : RowScored(r, row)' /\ RowExplained(r, row)'
  <2> SUFFICES ASSUME NEW row \in built[r]
               PROVE  RowScored(r, row)' /\ RowExplained(r, row)'
    OBVIOUS
  <2>1. row \in RowType
    BY DEF TypeOK
  <2>2. RowScored(r, row) /\ RowExplained(r, row) /\ before[r].ids \subseteq Tids(table)
    BY <1>1 DEF Scoring
  <2> QED
    BY <2>1, <2>2, RowKept
<1> QED
  BY <1>1, <1>2, <1>3, <1>4 DEF Scoring, Unexplained

\* A row is scored with a count of what the others had committed.
LEMMA NewRowScored ==
  ASSUME TypeOK, ScoringInv, NEW r \in Request, RowsOf(r) = {}, NEW i \in DOMAIN Txns(r),
         NEW n, n = RecentCount(table, Txns(r)[i].customer, now)
  PROVE  RowScored(r, NewRow(r, i, n)) /\ RowExplained(r, NewRow(r, i, n))
<1> DEFINE p   == Txns(r)[i]
           row == NewRow(r, i, n)
<1>1. /\ now \in Instants /\ now \in Int /\ before[r].time <= now
      /\ table \subseteq RowType /\ IsFiniteSet(table)
  BY TimesTyped DEF TypeOK, ScoringInv, Scoring
<1>2. n = WithinHour(table, p.customer, now)
  BY <1>1, CountIsWithin
<1>3. n \in Nat
  BY <1>1, <1>2, CountsMonotone
<1>4. /\ row.txn = p /\ row.score = Score(p, n) /\ row.reason = {}
      /\ row.status = IF Flags(row.score) THEN "flagged" ELSE "pending"
  BY DEF NewRow
<1>5. n >= 5 => Justified(r, row)
  <2>1. Others(r) = table
    BY DEF Others
  <2>2. now <= now
    BY <1>1
  <2> QED
    BY <1>1, <1>2, <1>4, <2>1, <2>2 DEF Justified
<1>6. WithinHour(Earlier(r), p.customer, now) >= 5 => n >= 5
  <2>1. Earlier(r) \subseteq table
    BY DEF Earlier
  <2>2. /\ WithinHour(Earlier(r), p.customer, now) \in Nat
        /\ WithinHour(Earlier(r), p.customer, now) <= n
    BY <1>1, <1>2, <2>1, CountsMonotone
  <2> QED
    BY <1>3, <2>2
<1> HIDE DEF p, row
<1>7. /\ n >= 5 => Score(p, n) = Score(p, 5)
      /\ n < 5 => Score(p, n) = Score(p, 0)
  BY <1>3, ScoreByCount
<1>8. RowScored(r, row)
  BY <1>3, <1>4, <1>5, <1>6, <1>7 DEF RowScored
<1>9. RowExplained(r, row)
  BY <1>4 DEF RowExplained
<1> QED
  BY <1>8, <1>9 DEF p, row

\* A flagged row is explained with a second count, which the first one bounds
\* as long as the clock stands still.
LEMMA RowGetsReason ==
  ASSUME TypeOK, ScoringInv, NEW r \in Request, RowsOf(r) = {},
         NEW row \in RowType, RowScored(r, row), Unexplained(row),
         NEW n, n = RecentCount(table, row.txn.customer, now), NEW explained,
         explained = [row EXCEPT !.reason = Reasons(row.txn, n)]
  PROVE  /\ RowScored(r, explained) /\ RowExplained(r, explained)
         /\ ~Unexplained(explained)
<1> DEFINE p == row.txn
           S == {Score(p, 0), Score(p, 5)}
<1>1. /\ now \in Instants /\ now \in Int /\ before[r].time <= now /\ before[r].time \in Int
      /\ Instants \subseteq Int /\ table \subseteq RowType /\ IsFiniteSet(table)
  BY TimesTyped DEF TypeOK, ScoringInv, Scoring
<1>2. n = WithinHour(table, p.customer, now)
  BY <1>1, CountIsWithin
<1>3. n \in Nat
  BY <1>1, <1>2, CountsMonotone
<1>4. Others(r) = table
  BY DEF Others
<1>5. /\ explained.txn = p /\ explained.score = row.score /\ explained.status = row.status
      /\ explained.reason = Reasons(p, n)
  BY DEF RowType
<1>6. Flags(row.score) /\ row.score \in S
  BY DEF Unexplained, RowScored
<1>7. /\ Reasons(p, n) # {}
      /\ ~p.is_fraud => Reasons(p, n) = FiredRules(p, n)
      /\ p.is_fraud => "high_velocity" \notin Reasons(p, n)
  BY <1>6, ReasonsOfFlagged
<1>8. /\ FiredRules(p, n) \ {"high_velocity"} = FiredRules(p, 0)
      /\ "high_velocity" \in FiredRules(p, n) <=> n >= 5
  BY <1>3, FiredByCount
<1>9. row.score # Score(p, 0) => Justified(r, row)
  BY DEF RowScored
<1>10. Justified(r, row) => Justified(r, explained)
  BY <1>5 DEF Justified
<1>11. n >= 5 => Justified(r, explained)
  <2>1. now <= now
    BY <1>1
  <2> QED
    BY <1>1, <1>2, <1>4, <1>5, <2>1 DEF Justified
<1>12. Justified(r, row) /\ ~(before[r].time < now) => n >= 5
  <2> SUFFICES ASSUME Justified(r, row), ~(before[r].time < now) PROVE n >= 5
    OBVIOUS
  <2>1. PICK m \in Instants : /\ before[r].time <= m /\ m <= now
                              /\ WithinHour(Others(r), p.customer, m) >= 5
    BY DEF Justified
  <2>2. m = now
    BY <1>1, <2>1
  <2> QED
    BY <1>2, <1>4, <2>1, <2>2
<1>13. RowScored(r, explained)
  <2>1. "high_velocity" \in explained.reason => Justified(r, explained)
    BY <1>5, <1>7, <1>8, <1>11
  <2> QED
    BY <1>5, <1>9, <1>10, <2>1 DEF RowScored
<1>14. RowExplained(r, explained)
  <2>1. CASE p.is_fraud
    BY <1>5, <1>6, <2>1 DEF RowExplained
  <2>2. CASE ~p.is_fraud
    <3>1. explained.reason = FiredRules(p, n)
      BY <1>5, <1>7, <2>2
    <3>2. "high_velocity" \notin explained.reason /\ row.score # Score(p, 0)
            => before[r].time < now
      BY <1>8, <1>9, <1>12, <3>1
    <3> QED
      BY <1>5, <1>6, <1>8, <3>1, <3>2 DEF RowExplained
  <2> QED
    BY <2>1, <2>2
<1>15. ~Unexplained(explained)
  BY <1>5, <1>7 DEF Unexplained
<1> QED
  BY <1>13, <1>14, <1>15

\* Rows are only added, finitely many, and the clock does not go back.
LEMMA WorldGrows ==
  ASSUME TInv, StageInv, IsFiniteSet(table), [Next]_vars
  PROVE  table \subseteq table' /\ IsFiniteSet(table') /\ now <= now'
<1>1. CASE \E r \in Request : CommitRows(r)
  <2>1. PICK r \in Request : CommitRows(r)
    BY <1>1
  <2>2. flushed[r] \subseteq built[r] /\ IsFiniteSet(built[r])
    BY DEF StageInv, Stage, TInv, FiniteOK
  <2>3. IsFiniteSet(table \cup flushed[r])
    BY <2>2, FS_Subset, FS_Union
  <2>4. now \in Int
    BY <2>1, TimesTyped DEF TInv
  <2> QED
    BY <2>1, <2>3, <2>4 DEF CommitRows
<1>2. CASE ~\E r \in Request : CommitRows(r)
  <2>1. now \in Int
    BY InstantsAssumption DEF TInv, TypeOK
  <2>2. table' = table
    BY <1>2 DEF Next, Step, Progress, Tick, vars, Arrive, Refuse, Authenticate,
       CheckDuplicate, SelectExisting, ScoreRow, ExplainRow, InsertRow, UniqueViolation,
       DeadlockAbort, Refresh, RecordTime, RespondIngest, RespondBatch, Fail, Crash
  <2>3. now' = now \/ Tick
    BY <1>2 DEF Next, Step, Progress, vars, Arrive, Refuse, Authenticate,
       CheckDuplicate, SelectExisting, ScoreRow, ExplainRow, InsertRow, UniqueViolation,
       DeadlockAbort, Refresh, RecordTime, RespondIngest, RespondBatch, Fail, Crash
  <2>4. Tick => now' \in Int /\ now' > now
    BY InstantsAssumption DEF Tick
  <2> QED
    BY <2>1, <2>2, <2>3, <2>4
<1> QED
  BY <1>1, <1>2

\* The history of a request is written when it arrives.
LEMMA HistoryKept ==
  ASSUME TypeOK, NEW r \in Request, Step(r), NEW s \in Request, s # r \/ ~Arrive(r)
  PROVE  before'[s] = before[s]
  BY DEF TypeOK, Step, Progress, Arrive, Refuse, Authenticate,
     CheckDuplicate, SelectExisting, ScoreRow, ExplainRow, InsertRow, UniqueViolation,
     DeadlockAbort, CommitRows, Refresh, RecordTime, RespondIngest, RespondBatch, Fail, Crash

LEMMA ScoringOwn ==
  ASSUME TypeOK, TypeOK', StageInv, ScoringInv, StoredOnce', NEW r \in Request, Step(r),
         table \subseteq table', IsFiniteSet(table'), now <= now'
  PROVE  Scoring(r)'
<1>0. Stage(r) /\ Scoring(r)
  BY DEF StageInv, ScoringInv
<1>1. CASE Arrive(r)
  <2>1. /\ built[r] = {} /\ RowsOf(r) = {} /\ UNCHANGED <<table, now, built>>
        /\ before'[r] = [ids |-> Tids(table), time |-> now]
        /\ pc'[r] = "auth"
    BY <1>0, <1>1 DEF Arrive, Stage, Goto, TypeOK
  <2>2. RowsOf(r)' = {} /\ Tids(table)' = Tids(table)
    BY <2>1 DEF RowsOf, Tids
  <2>3. now <= now
    BY TimesTyped
  <2> QED
    BY <2>1, <2>2, <2>3 DEF Scoring
<1>2. CASE ScoreRow(r)
  <2>1. PICK i \in Fresh(r) \ Scored(built[r]) : \E row :
          /\ row = NewRow(r, i, RecentCount(table, Txns(r)[i].customer, now))
          /\ built' = [built EXCEPT ![r] = @ \cup {row}]
          /\ Goto(r, IF Flags(row.score) THEN "reason"
                     ELSE AfterRow(r, built[r] \cup {row}))
    BY <1>2 DEF ScoreRow
  <2>2. PICK row : /\ row = NewRow(r, i, RecentCount(table, Txns(r)[i].customer, now))
                   /\ built' = [built EXCEPT ![r] = @ \cup {row}]
                   /\ Goto(r, IF Flags(row.score) THEN "reason"
                              ELSE AfterRow(r, built[r] \cup {row}))
    BY <2>1
  <2>3. /\ UNCHANGED <<table, now, before>> /\ pc[r] = "score" /\ RowsOf(r) = {}
        /\ RowsOf(r)' = {}
    BY <1>0, <1>2 DEF ScoreRow, Stage, RowsOf
  <2>4. RowScored(r, row) /\ RowExplained(r, row)
    BY <2>2, <2>3, NewRowScored DEF Fresh
  <2>5. row \in RowType /\ built'[r] = built[r] \cup {row}
    BY <2>2, NewRowTyped DEF Fresh, TypeOK
  <2>6. ASSUME NEW other \in built'[r]
        PROVE  RowScored(r, other)' /\ RowExplained(r, other)'
    <3>1. other \in RowType /\ RowScored(r, other) /\ RowExplained(r, other)
      BY <1>0, <2>4, <2>5 DEF Scoring, TypeOK
    <3>2. before'[r] = before[r] /\ before[r].ids \subseteq Tids(table)
      BY <1>0, <2>3 DEF Scoring
    <3> QED
      BY <3>1, <3>2, RowKept
  <2>7. \A other \in built[r] : ~Unexplained(other)
    BY <1>0, <2>3 DEF Scoring
  <2>8. \/ pc'[r] = "reason"
        \/ pc'[r] # "reason" /\ ~Unexplained(row)
    BY <2>2 DEF Goto, AfterRow, Unexplained, TypeOK
  <2>9. before'[r].ids \subseteq Tids(table)' /\ before'[r].time <= now'
    BY <1>0, <2>3 DEF Scoring, Tids
  <2> QED
    BY <2>3, <2>5, <2>6, <2>7, <2>8, <2>9 DEF Scoring, Unexplained
<1>3. CASE ExplainRow(r)
  <2>1. PICK row \in built[r] : \E n, explained :
          /\ Unexplained(row)
          /\ n = RecentCount(table, row.txn.customer, now)
          /\ explained = [row EXCEPT !.reason = Reasons(row.txn, n)]
          /\ built' = [built EXCEPT ![r] = (@ \ {row}) \cup {explained}]
    BY <1>3 DEF ExplainRow, Unexplained
  <2>2. PICK n, explained :
          /\ n = RecentCount(table, row.txn.customer, now)
          /\ explained = [row EXCEPT !.reason = Reasons(row.txn, n)]
          /\ built' = [built EXCEPT ![r] = (@ \ {row}) \cup {explained}]
    BY <2>1
  <2>3. /\ UNCHANGED <<table, now, before>> /\ pc[r] = "reason" /\ RowsOf(r) = {}
        /\ RowsOf(r)' = {}
    BY <1>0, <1>3 DEF ExplainRow, Stage, RowsOf
  <2>4. row \in RowType /\ RowScored(r, row)
    BY <1>0 DEF TypeOK, Scoring
  <2>5. /\ RowScored(r, explained) /\ RowExplained(r, explained)
        /\ ~Unexplained(explained)
    BY <2>1, <2>2, <2>3, <2>4, RowGetsReason
  <2>6. built'[r] = (built[r] \ {row}) \cup {explained}
    BY <2>2 DEF TypeOK
  <2>7. ASSUME NEW other \in built'[r]
        PROVE  RowScored(r, other)' /\ RowExplained(r, other)'
    <3>1. other \in RowType
      BY DEF TypeOK
    <3>2. RowScored(r, other) /\ RowExplained(r, other)
      BY <1>0, <2>5, <2>6 DEF Scoring
    <3>3. before'[r] = before[r] /\ before[r].ids \subseteq Tids(table)
      BY <1>0, <2>3 DEF Scoring
    <3> QED
      BY <3>1, <3>2, <3>3, RowKept
  <2>8. \A other \in built'[r] : ~Unexplained(other)
    BY <1>0, <2>1, <2>3, <2>5, <2>6 DEF Scoring
  <2>9. before'[r].ids \subseteq Tids(table)' /\ before'[r].time <= now'
    BY <1>0, <2>3 DEF Scoring, Tids
  <2> QED
    BY <2>3, <2>7, <2>8, <2>9 DEF Scoring, Unexplained
<1>4. CASE CommitRows(r)
  <2>1. /\ before'[r] = before[r] /\ built'[r] = built[r]
        /\ pc'[r] # "reason" /\ table' = table \cup flushed[r]
    BY <1>4 DEF CommitRows, Goto, TypeOK
  <2>2. \A row \in built[r] : ~Unexplained(row)
    BY <1>0, <1>4 DEF CommitRows, Scoring
  <2>3. \A row \in RowsOf(r)' : ~Unexplained(row)
    BY <1>0, <1>4, <2>1, <2>2 DEF Stage, RowsOf, CommitRows
  <2> QED
    BY <2>1, <2>2, <2>3, ScoringKept
<1>5. CASE ~(Arrive(r) \/ ScoreRow(r) \/ ExplainRow(r) \/ CommitRows(r))
  <2>1. before'[r] = before[r]
    BY <1>5, HistoryKept
  <2>2. UNCHANGED <<table, built>>
    BY <1>5 DEF Step, Progress, Refuse, Authenticate, CheckDuplicate, SelectExisting,
       InsertRow, UniqueViolation, DeadlockAbort, Refresh, RecordTime, RespondIngest,
       RespondBatch, Fail, Crash
  <2>3. RowsOf(r)' = RowsOf(r)
    BY <2>2 DEF RowsOf
  <2>4. \/ pc'[r] \in {"check", "done", "lost"}
        \/ pc[r] = "check" /\ pc'[r] = "score"
        \/ /\ pc[r] \in {"flush", "refresh", "time"}
           /\ pc'[r] \in {"flush", "commit", "time", "respond"}
    BY <1>5 DEF Step, Progress, Refuse, Authenticate, CheckDuplicate, SelectExisting,
       InsertRow, UniqueViolation, DeadlockAbort, Refresh, RecordTime, RespondIngest,
       RespondBatch, Fail, Crash, Finish, Goto, TypeOK
  <2>5. /\ pc'[r] # "reason"
        /\ pc'[r] \in {"score", "flush", "commit", "refresh", "time", "respond"}
             => \A row \in built[r] : ~Unexplained(row)
    BY <1>0, <2>4 DEF Stage, Scoring
  <2> QED
    BY <2>1, <2>2, <2>3, <2>5, ScoringKept
<1> QED
  BY <1>1, <1>2, <1>3, <1>4, <1>5

LEMMA ScoringInvStep ==
  ASSUME StoredInv, StoredInv', ScoringInv, [Next]_vars
  PROVE  ScoringInv'
<1>0. /\ TInv /\ TypeOK /\ TypeOK' /\ StageInv /\ StoredOnce'
      /\ table \subseteq table' /\ IsFiniteSet(table') /\ now <= now'
  BY WorldGrows DEF StoredInv, TInv, KeyInv, ScoringInv
<1>1. ASSUME NEW r \in Request, Step(r), NEW s \in Request PROVE Scoring(s)'
  <2>1. CASE s = r
    BY <1>0, <1>1, <2>1, ScoringOwn
  <2>2. CASE s # r
    <3>1. pc'[s] = pc[s] /\ built'[s] = built[s] /\ RowsOf(s)' = RowsOf(s)
      BY <1>0, <1>1, <2>2, OthersUntouched
    <3>2. before'[s] = before[s]
      BY <1>0, <1>1, <2>2, HistoryKept
    <3> QED
      BY <1>0, <3>1, <3>2, ScoringKept
  <2> QED
    BY <2>1, <2>2
<1>2. ASSUME Tick \/ UNCHANGED vars, NEW s \in Request PROVE Scoring(s)'
  <2>1. UNCHANGED <<table, pc, built, before>>
    BY <1>2 DEF Tick, vars
  <2>2. RowsOf(s)' = RowsOf(s)
    BY <2>1 DEF RowsOf
  <2> QED
    BY <1>0, <2>1, <2>2, ScoringKept
<1> QED
  BY <1>0, <1>1, <1>2 DEF Next, Step, ScoringInv

LEMMA ScoringInvInit == Init => ScoringInv
<1> SUFFICES ASSUME Init PROVE ScoringInv
  OBVIOUS
<1>1. IsFiniteSet(table)
  BY FS_EmptySet DEF Init
<1>2. now \in Int
  BY InstantsAssumption DEF Init
<1>3. now <= now
  BY <1>2
<1> QED
  BY <1>1, <1>3 DEF Init, ScoringInv, Scoring, RowsOf

-----------------------------------------------------------------------------
(* Scores and reasons *)

\* A stored row is one its request has built.
LEMMA StoredIsBuilt ==
  ASSUME StoredInv, ScoringInv, NEW row \in table
  PROVE  /\ row.owner \in Request
         /\ RowScored(row.owner, row) /\ RowExplained(row.owner, row) /\ ~Unexplained(row)
<1>1. row \in RowType /\ row.owner \in Request
  BY DEF StoredInv, TInv, TypeOK, RowType
<1>2. row \in RowsOf(row.owner)
  BY DEF RowsOf
<1>3. row \in built[row.owner]
  BY <1>1, <1>2 DEF StoredInv, StageInv, Stage
<1> QED
  BY <1>1, <1>2, <1>3 DEF ScoringInv, Scoring

LEMMA AllInvStep == StoredInv /\ ScoringInv /\ [Next]_vars => (StoredInv /\ ScoringInv)'
  BY StoredInvStep, ScoringInvStep

\* The velocity rule is never applied, in a score or in a reason, to a customer
\* that had not stored five payloads by other requests within some hour that
\* ended while the request was running: the payloads of a batch do not count
\* for each other.
THEOREM VelocityIsJustified == Spec => []VelocityJustified
<1>1. StoredInv /\ ScoringInv => VelocityJustified
  BY StoredIsBuilt DEF RowScored, Justified, Others, VelocityJustified
<1> QED
  BY StoredInvInit, ScoringInvInit, AllInvStep, <1>1, PTL DEF Spec

\* Nor is it left out for a customer that had, before the request arrived, five
\* that are in the hour still: the two database calls between the arrival and
\* the count can hide none of them.
THEOREM VelocityIsNotMissed == Spec => []VelocityNotMissed
<1>1. StoredInv /\ ScoringInv => VelocityNotMissed
  BY StoredIsBuilt DEF RowScored, Earlier, VelocityNotMissed
<1> QED
  BY StoredInvInit, ScoringInvInit, AllInvStep, <1>1, PTL DEF Spec

\* A row is flagged exactly from 0.7 and is then explained by the rules that
\* hold for it; the explanation leaves out a velocity rule that made the score
\* only when the clock has moved since the request arrived.
THEOREM ReasonsFit == Spec => []ReasonFits
<1>1. ASSUME StoredInv, ScoringInv, NEW row \in table
      PROVE  /\ row.status = "flagged" <=> Flags(row.score)
             /\ row.reason # {} <=> Flags(row.score)
             /\ row.reason # {} /\ ~row.txn.is_fraud =>
                  /\ row.reason \ {"high_velocity"} = FiredRules(row.txn, 0)
                  /\ "high_velocity" \notin row.reason /\ row.score # Score(row.txn, 0)
                       => before[row.owner].time < now
  <2>1. /\ RowScored(row.owner, row) /\ RowExplained(row.owner, row)
        /\ ~Unexplained(row)
    BY <1>1, StoredIsBuilt
  <2> QED
    BY <2>1 DEF RowScored, RowExplained, Unexplained
<1>2. StoredInv /\ ScoringInv => ReasonFits
  BY <1>1 DEF ReasonFits
<1> QED
  BY StoredInvInit, ScoringInvInit, AllInvStep, <1>2, PTL DEF Spec

-----------------------------------------------------------------------------
(* Weights *)

\* The tenths of one rule.
LEMMA TenthsOfOne ==
  ASSUME NEW name \in RuleNames
  PROVE  /\ IsFiniteSet({name} \X (1..Weight[name]))
         /\ Cardinality({name} \X (1..Weight[name])) = Weight[name]
         /\ Weight[name] \in Nat
<1>1. Weight[name] \in 1..3
  BY DEF RuleNames, Weight
<1> DEFINE w == Weight[name]
<1> HIDE DEF w
<1>2. IsFiniteSet(1..w) /\ Cardinality(1..w) = w
  BY <1>1, FS_Interval DEF w
<1>3. IsFiniteSet({name}) /\ Cardinality({name}) = 1
  BY FS_Singleton
<1>4. IsFiniteSet({name} \X (1..w)) /\ Cardinality({name} \X (1..w)) = 1 * w
  BY <1>2, <1>3, FS_Product
<1> QED
  BY <1>1, <1>4 DEF w

\* A rule adds its weight to the sum of the others.
LEMMA SumWithRule ==
  ASSUME NEW names, IsFiniteSet(Tenths(names)),
         NEW name \in RuleNames, name \notin names
  PROVE  /\ IsFiniteSet(Tenths(names \cup {name}))
         /\ SumOfWeights(names \cup {name}) = SumOfWeights(names) + Weight[name]
<1> DEFINE W == {name} \X (1..Weight[name])
<1>1. Tenths(names \cup {name}) = Tenths(names) \cup W
  BY DEF Tenths
<1>2. Tenths(names) \cap W = {}
  BY DEF Tenths
<1>3. IsFiniteSet(W) /\ Cardinality(W) = Weight[name] /\ Weight[name] \in Nat
  BY TenthsOfOne
<1>4. Cardinality(Tenths(names) \cap W) = 0
  BY <1>2, FS_EmptySet
<1>5. Cardinality(Tenths(names)) \in Nat
  BY FS_CardinalityType
<1> HIDE DEF W
<1>6. /\ IsFiniteSet(Tenths(names) \cup W)
      /\ Cardinality(Tenths(names) \cup W) =
           Cardinality(Tenths(names)) + Cardinality(W) - Cardinality(Tenths(names) \cap W)
  BY <1>3, FS_Union
<1>7. IsFiniteSet(Tenths(names \cup {name}))
  BY <1>1, <1>6
<1>8. Cardinality(Tenths(names \cup {name})) = Cardinality(Tenths(names)) + Weight[name]
  <2> DEFINE c == Cardinality(Tenths(names))
             w == Weight[name]
             d == Cardinality(Tenths(names) \cup W)
  <2>1. c \in Nat /\ w \in Nat /\ d = c + w - 0
    BY <1>3, <1>4, <1>5, <1>6
  <2> HIDE DEF c, w, d
  <2>2. d = c + w
    BY <2>1
  <2> QED
    BY <1>1, <2>2 DEF c, w, d
<1> QED
  BY <1>7, <1>8 DEF SumOfWeights

\* The same, for a rule that may hold or not.
LEMMA SumWithPoints ==
  ASSUME NEW names, IsFiniteSet(Tenths(names)), SumOfWeights(names) \in Nat,
         NEW name \in RuleNames, name \notin names, NEW fires \in BOOLEAN, NEW more,
         more = IF fires THEN names \cup {name} ELSE names
  PROVE  /\ IsFiniteSet(Tenths(more)) /\ SumOfWeights(more) \in Nat
         /\ SumOfWeights(more) = SumOfWeights(names) + Points(name, fires)
<1>1. Weight[name] \in Nat
  BY TenthsOfOne
<1>2. CASE fires
  BY <1>1, <1>2, SumWithRule DEF Points
<1>3. CASE ~fires
  BY <1>3 DEF Points
<1> QED
  BY <1>2, <1>3

\* The two copies of the rules agree: the weights of the rules that fire add up
\* to what the scoring copy adds up.
LEMMA SumOfFired ==
  ASSUME NEW p, NEW n
  PROVE  SumOfWeights(FiredRules(p, n)) =
           StaticScore(p) + Points("high_velocity", HighVelocity(n))
<1> DEFINE A == IF LargeAmount(p) THEN {} \cup {"large_amount"} ELSE {}
           B == IF International(p) THEN A \cup {"international"} ELSE A
           C == IF RoundAmount(p) THEN B \cup {"round_amount"} ELSE B
           D == IF UnusualHour(p) THEN C \cup {"unusual_hour"} ELSE C
           E == IF HighVelocity(n) THEN D \cup {"high_velocity"} ELSE D
<1>1. E = FiredRules(p, n)
  BY DEF FiredRules, RuleNames
<1>2. /\ LargeAmount(p) \in BOOLEAN /\ International(p) \in BOOLEAN
      /\ RoundAmount(p) \in BOOLEAN /\ UnusualHour(p) \in BOOLEAN
      /\ HighVelocity(n) \in BOOLEAN
  BY DEF LargeAmount, International, RoundAmount, UnusualHour, HighVelocity
<1>3. /\ "large_amount" \notin {} /\ "international" \notin A /\ "round_amount" \notin B
      /\ "unusual_hour" \notin C /\ "high_velocity" \notin D
  OBVIOUS
<1>4. /\ "large_amount" \in RuleNames /\ "international" \in RuleNames
      /\ "round_amount" \in RuleNames /\ "unusual_hour" \in RuleNames
      /\ "high_velocity" \in RuleNames
  BY DEF RuleNames
<1>5. Tenths({}) = {}
  BY DEF Tenths
<1>6. IsFiniteSet(Tenths({})) /\ SumOfWeights({}) = 0
  BY <1>5, FS_EmptySet DEF SumOfWeights
<1>7. /\ IsFiniteSet(Tenths(A)) /\ SumOfWeights(A) \in Nat
      /\ SumOfWeights(A) = SumOfWeights({}) + Points("large_amount", LargeAmount(p))
  BY <1>2, <1>3, <1>4, <1>6, SumWithPoints
<1>8. /\ IsFiniteSet(Tenths(B)) /\ SumOfWeights(B) \in Nat
      /\ SumOfWeights(B) = SumOfWeights(A) + Points("international", International(p))
  <2> HIDE DEF A
  <2> QED
    BY <1>2, <1>3, <1>4, <1>7, SumWithPoints
<1>9. /\ IsFiniteSet(Tenths(C)) /\ SumOfWeights(C) \in Nat
      /\ SumOfWeights(C) = SumOfWeights(B) + Points("round_amount", RoundAmount(p))
  <2> HIDE DEF B
  <2> QED
    BY <1>2, <1>3, <1>4, <1>8, SumWithPoints
<1>10. /\ IsFiniteSet(Tenths(D)) /\ SumOfWeights(D) \in Nat
       /\ SumOfWeights(D) = SumOfWeights(C) + Points("unusual_hour", UnusualHour(p))
  <2> HIDE DEF C
  <2> QED
    BY <1>2, <1>3, <1>4, <1>9, SumWithPoints
<1>11. SumOfWeights(E) = SumOfWeights(D) + Points("high_velocity", HighVelocity(n))
  <2> HIDE DEF D
  <2> QED
    BY <1>2, <1>3, <1>4, <1>10, SumWithPoints
<1>12. /\ Points("large_amount", LargeAmount(p)) \in Nat
       /\ Points("international", International(p)) \in Nat
       /\ Points("round_amount", RoundAmount(p)) \in Nat
       /\ Points("unusual_hour", UnusualHour(p)) \in Nat
       /\ Points("high_velocity", HighVelocity(n)) \in Nat
  BY DEF Points, Weight
<1> HIDE DEF A, B, C, D, E
<1> QED
  BY <1>1, <1>6, <1>7, <1>8, <1>9, <1>10, <1>11, <1>12 DEF StaticScore

\* What the rules of the payload can add up to, and the velocity rule on top.
LEMMA Points0To3 ==
  ASSUME NEW p, NEW n
  PROVE  /\ StaticScore(p) \in 0..8
         /\ Points("high_velocity", HighVelocity(n)) \in {0, 3}
<1>1. /\ Points("large_amount", LargeAmount(p)) \in {0, 3}
      /\ Points("international", International(p)) \in {0, 2}
      /\ Points("round_amount", RoundAmount(p)) \in {0, 1}
      /\ Points("unusual_hour", UnusualHour(p)) \in {0, 2}
      /\ Points("high_velocity", HighVelocity(n)) \in {0, 3}
  BY DEF Points, Weight
<1> QED
  BY <1>1 DEF StaticScore

-----------------------------------------------------------------------------
(* Reasons add up *)

\* Reasons that are the rules of the payload, the velocity rule aside, are the
\* rules that fire for five recent payloads or for none.
LEMMA ReasonsOfCount ==
  ASSUME NEW p, NEW reason, reason \ {"high_velocity"} = FiredRules(p, 0)
  PROVE  /\ "high_velocity" \in reason => reason = FiredRules(p, 5)
         /\ "high_velocity" \notin reason => reason = FiredRules(p, 0)
<1>1. /\ FiredRules(p, 5) \ {"high_velocity"} = FiredRules(p, 0)
      /\ "high_velocity" \in FiredRules(p, 5)
  BY FiredByCount
<1> QED
  BY <1>1

\* A velocity rule that fired only for the reasons, while the clock stood still,
\* counted a payload which was not there when the request arrived.
LEMMA OvertakenByOthers ==
  ASSUME TypeOK, ScoringInv, NEW r \in Request, NEW row, row.owner = r,
         Justified(r, row), before[r].time <= now,
         ~(WithinHour(Earlier(r), row.txn.customer, now) >= 5)
  PROVE  Overtaken(row)
<1> SUFFICES ASSUME ~Overtaken(row) PROVE FALSE
  OBVIOUS
<1> DEFINE W(rows) == {other \in rows : other.txn.customer = row.txn.customer
                                          /\ now - other.txn.time <= 60}
<1>1. ~(before[r].time < now)
  BY DEF Overtaken
<1>2. PICK m \in Instants : /\ before[r].time <= m /\ m <= now
                            /\ WithinHour(Others(r), row.txn.customer, m) >= 5
  BY DEF Justified
<1>3. m = now
  BY <1>1, <1>2, TimesTyped
<1>4. WithinHour(Others(r), row.txn.customer, now) >= 5
  BY <1>2, <1>3
<1>5. W(Others(r)) \subseteq W(Earlier(r))
  BY DEF Overtaken, Others, Earlier
<1>6. IsFiniteSet(W(Earlier(r)))
  BY FS_Subset DEF ScoringInv, Earlier
<1> HIDE DEF W
<1>7. /\ Cardinality(W(Earlier(r))) \in Nat /\ Cardinality(W(Others(r))) \in Nat
      /\ Cardinality(W(Others(r))) <= Cardinality(W(Earlier(r)))
  BY <1>5, <1>6, FS_Subset, FS_CardinalityType
<1>8. Cardinality(W(Others(r))) >= 5 /\ ~(Cardinality(W(Earlier(r))) >= 5)
  BY <1>4 DEF WithinHour, W
<1> QED
  BY <1>7, <1>8

\* The reasons of a flag are rules whose weights miss its score by 0.3 at most,
\* and add up to it when the customer had the same recent payloads, in the same
\* hour, from the arrival of the request on: the two copies of the rules agree,
\* and what is left between them is what others did.
THEOREM ReasonsDoAddUp == Spec => []ReasonsAddUp
<1>1. ASSUME StoredInv, ScoringInv, NEW row \in table, row.reason # {}, ~row.txn.is_fraud
      PROVE  /\ row.reason \subseteq RuleNames
             /\ SumOfWeights(row.reason) - row.score \in -3..3
             /\ \/ row.score = IF SumOfWeights(row.reason) > 10 THEN 10
                                ELSE SumOfWeights(row.reason)
                \/ Overtaken(row)
  <2> DEFINE p == row.txn
             r == row.owner
             V(n) == Points("high_velocity", HighVelocity(n))
             sum == SumOfWeights(row.reason)
  <2>1. r \in Request /\ RowScored(r, row) /\ RowExplained(r, row)
    BY <1>1, StoredIsBuilt
  <2>2. /\ row.reason \ {"high_velocity"} = FiredRules(p, 0)
        /\ "high_velocity" \notin row.reason /\ row.score # Score(p, 0)
             => before[r].time < now
    BY <1>1, <2>1 DEF RowExplained
  <2>3. /\ "high_velocity" \in row.reason => row.reason = FiredRules(p, 5)
        /\ "high_velocity" \notin row.reason => row.reason = FiredRules(p, 0)
    BY <2>2, ReasonsOfCount
  <2>4. row.reason \subseteq RuleNames
    BY <2>3 DEF FiredRules
  <2>5. /\ "high_velocity" \in row.reason => sum = StaticScore(p) + V(5)
        /\ "high_velocity" \notin row.reason => sum = StaticScore(p) + V(0)
    BY <2>3, SumOfFired
  <2>6. V(5) = 3 /\ V(0) = 0 /\ StaticScore(p) \in 0..8
    BY Points0To3 DEF Points, HighVelocity, Weight
  <2>7. /\ Score(p, 0) = IF StaticScore(p) > 10 THEN 10 ELSE StaticScore(p)
        /\ Score(p, 5) = IF StaticScore(p) + 3 > 10 THEN 10 ELSE StaticScore(p) + 3
    BY <1>1, <2>6 DEF Score
  <2>8. row.score \in {Score(p, 0), Score(p, 5)}
    BY <2>1 DEF RowScored
  <2> HIDE DEF V, sum
  <2>9. sum - row.score \in -3..3
    BY <2>5, <2>6, <2>7, <2>8
  <2>10. CASE "high_velocity" \in row.reason /\ row.score # Score(p, 5)
    <3>1. ~(WithinHour(Earlier(r), p.customer, now) >= 5) /\ Justified(r, row)
      BY <2>1, <2>10 DEF RowScored
    <3>2. TypeOK /\ before[r].time <= now
      BY <1>1, <2>1 DEF StoredInv, TInv, ScoringInv, Scoring
    <3>3. Overtaken(row)
      BY <1>1, <2>1, <3>1, <3>2, OvertakenByOthers
    <3> QED
      BY <2>4, <2>9, <3>3 DEF sum
  <2>11. CASE "high_velocity" \notin row.reason /\ row.score # Score(p, 0)
    <3>1. Overtaken(row)
      BY <2>2, <2>11 DEF Overtaken
    <3> QED
      BY <2>4, <2>9, <3>1 DEF sum
  <2>12. CASE \/ "high_velocity" \in row.reason /\ row.score = Score(p, 5)
              \/ "high_velocity" \notin row.reason /\ row.score = Score(p, 0)
    <3>1. row.score = IF sum > 10 THEN 10 ELSE sum
      BY <2>5, <2>6, <2>7, <2>12
    <3> QED
      BY <2>4, <2>9, <3>1 DEF sum
  <2> QED
    BY <2>10, <2>11, <2>12
<1>2. StoredInv /\ ScoringInv => ReasonsAddUp
  BY <1>1 DEF ReasonsAddUp
<1> QED
  BY StoredInvInit, ScoringInvInit, AllInvStep, <1>2, PTL DEF Spec
=============================================================================
