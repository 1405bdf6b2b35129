---------------------------- MODULE IngestProofs ----------------------------
(***************************************************************************)
(* What TLAPS proves of Ingest, for every set of requests, ids, customers  *)
(* and bodies, every clock and every size of the pool.                     *)
(***************************************************************************)
EXTENDS Ingest, FiniteSetTheorems, TLAPS

-----------------------------------------------------------------------------
(* The scorer *)

\* _calculate_fraud_score returns tenths between 0 and 10 (0.0 to 1.0),
\* whatever the count it reads.
LEMMA ScoreType ==
  ASSUME NEW p, NEW n
  PROVE  Score(p, n) \in 0..10
<1>1. /\ Points("large_amount", LargeAmount(p)) \in {0, 3}
      /\ Points("international", International(p)) \in {0, 2}
      /\ Points("round_amount", RoundAmount(p)) \in {0, 1}
      /\ Points("unusual_hour", UnusualHour(p)) \in {0, 2}
      /\ Points("high_velocity", HighVelocity(n)) \in {0, 3}
  BY DEF Points, Weight
<1>2. StaticScore(p) \in 0..8
  BY <1>1 DEF StaticScore
<1> QED
  BY <1>1, <1>2 DEF Score

\* _build_fraud_reason names rules only, or one of the two other constants.
LEMMA ReasonsType ==
  ASSUME NEW p, NEW n
  PROVE  Reasons(p, n) \subseteq AllReasons
  BY DEF Reasons, FiredRules, AllReasons

\* A row that _calculate_fraud_score flags always has a rule that fires
\* for _build_fraud_reason, whatever the second count: the velocity rule's
\* three tenths alone do not reach the threshold, so that the fallback
\* rule_threshold is dead code.
THEOREM FallbackUnreachable ==
  ASSUME NEW p, NEW n, NEW m, Flags(Score(p, n))
  PROVE  "rule_threshold" \notin Reasons(p, m)
<1>1. CASE p.is_fraud
  BY <1>1 DEF Reasons
<1>2. CASE ~p.is_fraud
  <2>1. StaticScore(p) # 0
    <3>1. SUFFICES ASSUME StaticScore(p) = 0 PROVE FALSE
      OBVIOUS
    <3>2. Points("high_velocity", HighVelocity(n)) \in {0, 3}
      BY DEF Points, Weight
    <3>3. Score(p, n) \in {0, 3}
      BY <1>2, <3>1, <3>2 DEF Score
    <3> QED
      BY <3>3 DEF Flags
  <2>2. \/ LargeAmount(p) \/ International(p) \/ RoundAmount(p) \/ UnusualHour(p)
    BY <2>1 DEF StaticScore, Points
  <2>3. /\ LargeAmount(p) => "large_amount" \in FiredRules(p, m)
        /\ International(p) => "international" \in FiredRules(p, m)
        /\ RoundAmount(p) => "round_amount" \in FiredRules(p, m)
        /\ UnusualHour(p) => "unusual_hour" \in FiredRules(p, m)
    BY DEF FiredRules, RuleNames
  <2>4. "rule_threshold" \notin FiredRules(p, m)
    BY DEF FiredRules, RuleNames
  <2> QED
    BY <1>2, <2>2, <2>3, <2>4 DEF Reasons
<1> QED
  BY <1>1, <1>2

-----------------------------------------------------------------------------
(* Type correctness *)

\* What the cardinalities of an answer need: a request builds finitely many
\* rows and finds finitely many ids.
FiniteOK ==
  \A r \in Request : IsFiniteSet(built[r]) /\ IsFiniteSet(existing[r])

TInv == TypeOK /\ FiniteOK

\* The payloads of a request, seen as a function on its positions.
LEMMA PayloadsTyped ==
  ASSUME TypeOK, NEW r \in Request
  PROVE  /\ Txns(r) \in Seq(PayloadType(TxnId, Customer))
         /\ DOMAIN Txns(r) = 1..Len(Txns(r))
         /\ \A i \in DOMAIN Txns(r) :
              i \in Nat \ {0} /\ Txns(r)[i] \in PayloadType(TxnId, Customer)
<1>1. call[r] \in CallType
  BY CallsAssumption DEF TypeOK
<1>2. Txns(r) \in Seq(PayloadType(TxnId, Customer))
  BY <1>1 DEF CallType, Txns
<1> QED
  BY <1>2

\* The ids of a request are finitely many external ids.
LEMMA IdsTyped ==
  ASSUME TypeOK, NEW r \in Request
  PROVE  Ids(r) \subseteq TxnId /\ IsFiniteSet(Ids(r))
<1>1. \A i \in DOMAIN Txns(r) : Txns(r)[i].tid \in TxnId
  BY PayloadsTyped DEF PayloadType
<1>2. Ids(r) \subseteq TxnId
  BY <1>1 DEF Ids
<1> DEFINE f == [i \in DOMAIN Txns(r) |-> Txns(r)[i].tid]
<1>3. f \in Surjection(DOMAIN Txns(r), Ids(r))
  BY DEF Surjection, Ids
<1>4. IsFiniteSet(DOMAIN Txns(r))
  <2>1. Len(Txns(r)) \in Nat
    BY PayloadsTyped
  <2>2. IsFiniteSet(1..Len(Txns(r)))
    BY <2>1, FS_Interval
  <2> QED
    BY <2>2, PayloadsTyped
<1>5. IsFiniteSet(Ids(r))
  BY <1>3, <1>4, FS_Surjection
<1> QED
  BY <1>2, <1>5

\* A row made of a payload of the request has the type of a row.
LEMMA NewRowTyped ==
  ASSUME TypeOK, NEW r \in Request, NEW i \in DOMAIN Txns(r), NEW n
  PROVE  NewRow(r, i, n) \in RowType
<1>1. /\ i \in Nat \ {0}
      /\ Txns(r)[i] \in PayloadType(TxnId, Customer)
  BY PayloadsTyped
<1>2. Score(Txns(r)[i], n) \in 0..10
  BY ScoreType
<1> QED
  BY <1>1, <1>2 DEF NewRow, RowType

LEMMA TidsTyped ==
  ASSUME NEW rows, rows \subseteq RowType
  PROVE  Tids(rows) \subseteq TxnId
  BY DEF Tids, RowType, PayloadType

\* Finish is the last step of every request: types are kept when the answer is
\* one.
LEMMA FinishTyped ==
  ASSUME TypeOK, NEW r \in Request, NEW a \in AnswerType, Finish(r, a)
  PROVE  /\ pc' \in [Request -> Places]
         /\ flushed' \in [Request -> SUBSET RowType]
         /\ answer' \in [Request -> AnswerType]
  BY DEF TypeOK, Finish, Goto, Places

LEMMA ProblemTyped ==
  ASSUME NEW code \in {401, 403, 409, 500}, NEW e \in Errors
  PROVE  Problem(code, e) \in AnswerType
  BY DEF Problem, AnswerType

LEMMA AcceptedTyped ==
  ASSUME NEW n \in Nat, NEW m \in Nat
  PROVE  Accepted(n, m) \in AnswerType
  BY DEF Accepted, AnswerType, Errors

LEMMA TInvInit == Init => TInv
<1> SUFFICES ASSUME Init PROVE TInv
  OBVIOUS
<1>1. NoAnswer \in AnswerType
  BY DEF NoAnswer, AnswerType, Errors
<1>2. TypeOK
  BY <1>1 DEF Init, TypeOK, Places
<1>3. FiniteOK
  BY FS_EmptySet DEF Init, FiniteOK
<1> QED
  BY <1>2, <1>3 DEF TInv

LEMMA TInvStep == TInv /\ [Next]_vars => TInv'
<1> SUFFICES ASSUME TInv, [Next]_vars PROVE TInv'
  OBVIOUS
<1> USE DEF TInv
<1>0. CASE UNCHANGED vars
  BY <1>0 DEF vars, TypeOK, FiniteOK
<1>1. ASSUME NEW r \in Request, Arrive(r) PROVE TInv'
  <2>1. Tids(table) \subseteq TxnId
    BY TidsTyped DEF TypeOK
  <2> QED
    BY <1>1, <2>1 DEF Arrive, Goto, TypeOK, FiniteOK, Places
<1>2. ASSUME NEW r \in Request, Authenticate(r) \/ Refresh(r) PROVE TInv'
  BY <1>2 DEF Authenticate, Refresh, Goto, TypeOK, FiniteOK, Places
<1>3. ASSUME NEW r \in Request, NEW a \in AnswerType, Finish(r, a),
             UNCHANGED <<table, timed, now, call, built, existing, before>>
      PROVE TInv'
  BY <1>3, FinishTyped DEF TypeOK, FiniteOK
<1>4. ASSUME NEW r \in Request,
             \/ Refuse(r) \/ UniqueViolation(r) \/ DeadlockAbort(r) \/ Fail(r)
      PROVE TInv'
  <2>1. PICK code \in {401, 403, 500}, e \in Errors :
          /\ Finish(r, Problem(code, e))
          /\ UNCHANGED <<table, timed, now, call, built, existing, before>>
    BY <1>4 DEF Refuse, UniqueViolation, DeadlockAbort, Fail, Errors
  <2> QED
    BY <1>3, <2>1, ProblemTyped
<1>5. ASSUME NEW r \in Request, CheckDuplicate(r) PROVE TInv'
  <2>1. CASE /\ Finish(r, Problem(409, "Conflict"))
             /\ UNCHANGED <<table, timed, now, call, built, existing, before>>
    <3>1. Problem(409, "Conflict") \in AnswerType
      BY ProblemTyped DEF Errors
    <3> QED
      BY <1>3, <2>1, <3>1
  <2>2. CASE Goto(r, "score") /\ UNCHANGED <<answer, flushed>>
    BY <1>5, <2>2 DEF CheckDuplicate, Goto, TypeOK, FiniteOK, Places
  <2> QED
    BY <1>5, <2>1, <2>2 DEF CheckDuplicate
<1>6. ASSUME NEW r \in Request, SelectExisting(r) PROVE TInv'
  <2> DEFINE known == {t \in Ids(r) : Known(t)}
  <2>1. /\ known \subseteq TxnId
        /\ IsFiniteSet(known)
    BY IdsTyped, FS_Subset
  <2>2. Cardinality(known) \in Nat
    BY <2>1, FS_CardinalityType
  <2>3. Accepted(0, Cardinality(known)) \in AnswerType
    BY <2>2, AcceptedTyped
  <2>4. existing' = [existing EXCEPT ![r] = known]
    BY <1>6 DEF SelectExisting
  <2>5. FiniteOK'
    BY <1>6, <2>1, <2>4 DEF SelectExisting, FiniteOK, TypeOK
  <2>6. CASE Finish(r, Accepted(0, Cardinality(known)))
    BY <1>6, <2>1, <2>3, <2>4, <2>5, <2>6, FinishTyped DEF SelectExisting, TypeOK
  <2>7. CASE Goto(r, "score") /\ UNCHANGED <<answer, flushed>>
    BY <1>6, <2>1, <2>4, <2>5, <2>7 DEF SelectExisting, Goto, TypeOK, Places
  <2> QED
    BY <1>6, <2>6, <2>7 DEF SelectExisting
<1>7. ASSUME NEW r \in Request, ScoreRow(r) PROVE TInv'
  <2>1. PICK i \in Fresh(r) :
          LET row == NewRow(r, i, RecentCount(table, Txns(r)[i].customer, now))
          IN /\ built' = [built EXCEPT ![r] = @ \cup {row}]
             /\ Goto(r, IF Flags(row.score) THEN "reason"
                        ELSE AfterRow(r, built[r] \cup {row}))
    BY <1>7 DEF ScoreRow
  <2> DEFINE row == NewRow(r, i, RecentCount(table, Txns(r)[i].customer, now))
  <2>2. row \in RowType
    BY NewRowTyped DEF Fresh
  <2>3. IsFiniteSet(built[r] \cup {row})
    BY FS_AddElement DEF FiniteOK
  <2>4. pc' \in [Request -> Places]
    BY <2>1 DEF Goto, AfterRow, TypeOK, Places
  <2> HIDE DEF row
  <2>5. built' = [built EXCEPT ![r] = @ \cup {row}]
    BY <2>1 DEF row
  <2> QED
    BY <1>7, <2>2, <2>3, <2>4, <2>5 DEF ScoreRow, TypeOK, FiniteOK
<1>8. ASSUME NEW r \in Request, ExplainRow(r) PROVE TInv'
  <2>1. PICK row \in built[r] :
          built' = [built EXCEPT ![r] = (@ \ {row}) \cup
            {[row EXCEPT !.reason =
                Reasons(row.txn, RecentCount(table, row.txn.customer, now))]}]
    BY <1>8 DEF ExplainRow
  <2> DEFINE n         == RecentCount(table, row.txn.customer, now)
             explained == [row EXCEPT !.reason = Reasons(row.txn, n)]
  <2>2. explained \in RowType
    <3>1. row \in RowType
      BY DEF TypeOK
    <3>2. Reasons(row.txn, n) \subseteq AllReasons
      BY ReasonsType
    <3> HIDE DEF n
    <3> QED
      BY <3>1, <3>2 DEF RowType
  <2>3. IsFiniteSet((built[r] \ {row}) \cup {explained})
    <3>1. IsFiniteSet(built[r] \ {row})
      BY FS_RemoveElement DEF FiniteOK
    <3> QED
      BY <3>1, FS_AddElement
  <2>4. AfterRow(r, built[r]) \in Places
    BY DEF AfterRow, Places
  <2> HIDE DEF explained
  <2>5. built' = [built EXCEPT ![r] = (@ \ {row}) \cup {explained}]
    BY <2>1 DEF explained
  <2> QED
    BY <1>8, <2>2, <2>3, <2>4, <2>5 DEF ExplainRow, Goto, TypeOK, FiniteOK
<1>9. ASSUME NEW r \in Request, InsertRow(r) PROVE TInv'
  BY <1>9 DEF InsertRow, Goto, TypeOK, FiniteOK, Places
<1>10. ASSUME NEW r \in Request, CommitRows(r) PROVE TInv'
  BY <1>10 DEF CommitRows, Goto, TypeOK, FiniteOK, Places
<1>11. ASSUME NEW r \in Request, RecordTime(r) PROVE TInv'
  BY <1>11, IdsTyped DEF RecordTime, Goto, TypeOK, FiniteOK, Places
<1>12. ASSUME NEW r \in Request, RespondIngest(r) PROVE TInv'
  <2>1. /\ Problem(500, "ResponseValidationError") \in AnswerType
        /\ Accepted(1, 0) \in AnswerType
    BY ProblemTyped, AcceptedTyped DEF Errors
  <2> QED
    BY <1>3, <1>12, <2>1 DEF RespondIngest
<1>13. ASSUME NEW r \in Request, RespondBatch(r) PROVE TInv'
  <2>1. Cardinality(built[r]) \in Nat /\ Cardinality(existing[r]) \in Nat
    BY FS_CardinalityType DEF FiniteOK
  <2>2. Accepted(Cardinality(built[r]), Cardinality(existing[r])) \in AnswerType
    BY <2>1, AcceptedTyped
  <2> QED
    BY <1>3, <1>13, <2>2 DEF RespondBatch
<1>14. ASSUME NEW r \in Request, Crash(r) PROVE TInv'
  BY <1>14 DEF Crash, Goto, TypeOK, FiniteOK, Places
<1>15. CASE Tick
  BY <1>15 DEF Tick, TypeOK, FiniteOK
<1> QED
  BY <1>0, <1>1, <1>2, <1>4, <1>5, <1>6, <1>7, <1>8, <1>9, <1>10, <1>11, <1>12,
     <1>13, <1>14, <1>15 DEF Next, Progress

\* Type correctness: the state stays typed, scores stay between 0.0 and 1.0 and
\* the counts a batch is answered with are numbers.
THEOREM TypeCorrect == Spec => []TypeOK
<1>1. TInv => TypeOK
  BY DEF TInv
<1> QED
  BY TInvInit, TInvStep, <1>1, PTL DEF Spec

-----------------------------------------------------------------------------
(* Each id is stored once *)

\* Why the unique index suffices: a key is in at most one of the committed
\* rows and of the open transactions, once.
KeyInv ==
  /\ StoredOnce
  /\ \A p \in Request : \A row \in flushed[p] : ~Stored(row.txn.tid)
  /\ \A p, q \in Request : \A row1 \in flushed[p], row2 \in flushed[q] :
       row1.txn.tid = row2.txn.tid => p = q /\ row1 = row2

\* A step that only takes rows out of the open transactions keeps the keys apart.
LEMMA KeysRolledBack ==
  ASSUME KeyInv, UNCHANGED table,
         \A p \in Request : flushed'[p] \subseteq flushed[p]
  PROVE  KeyInv'
  BY DEF KeyInv, StoredOnce, Stored, Tids

LEMMA KeyInvStep == TInv /\ KeyInv /\ [Next]_vars => KeyInv'
<1> SUFFICES ASSUME TypeOK, KeyInv, [Next]_vars PROVE KeyInv'
  BY DEF TInv
<1>1. CASE UNCHANGED <<table, flushed>>
  BY <1>1, KeysRolledBack
<1>2. ASSUME NEW r \in Request, NEW a, Finish(r, a), UNCHANGED table PROVE KeyInv'
  <2>1. \A p \in Request : flushed'[p] \subseteq flushed[p]
    BY <1>2 DEF Finish, TypeOK
  <2> QED
    BY <1>2, <2>1, KeysRolledBack
<1>3. ASSUME NEW r \in Request, Crash(r) PROVE KeyInv'
  <2>1. \A p \in Request : flushed'[p] \subseteq flushed[p]
    BY <1>3 DEF Crash, TypeOK
  <2> QED
    BY <1>3, <2>1, KeysRolledBack DEF Crash
<1>4. ASSUME NEW r \in Request, InsertRow(r) PROVE KeyInv'
  <2>1. PICK row \in built[r] :
          /\ ~Taken(r, row.txn.tid)
          /\ HoldersOf(r, row.txn.tid) = {}
          /\ flushed' = [flushed EXCEPT ![r] = @ \cup {row}]
    BY <1>4 DEF InsertRow
  <2>2. table' = table
    BY <1>4 DEF InsertRow
  <2>3. \A p \in Request : \A other \in flushed[p] : other.txn.tid # row.txn.tid
    BY <2>1 DEF Taken, HoldersOf, Tids
  <2>4. \A p \in Request : \A other \in flushed'[p] :
          other \in flushed[p] \/ (p = r /\ other = row)
    <3>1. flushed \in [Request -> SUBSET RowType]
      BY DEF TypeOK
    <3>2. /\ flushed'[r] = flushed[r] \cup {row}
          /\ \A p \in Request \ {r} : flushed'[p] = flushed[p]
      BY <2>1, <3>1
    <3> QED
      BY <3>2
  <2>5. ~Stored(row.txn.tid)
    BY <2>1 DEF Taken
  <2>6. \A p \in Request : \A other \in flushed'[p] : ~Stored(other.txn.tid)'
    BY <2>2, <2>4, <2>5 DEF KeyInv, Stored, Tids
  <2>7. \A p, q \in Request : \A row1 \in flushed'[p], row2 \in flushed'[q] :
          row1.txn.tid = row2.txn.tid => p = q /\ row1 = row2
    BY <2>3, <2>4 DEF KeyInv
  <2> QED
    BY <2>2, <2>6, <2>7 DEF KeyInv, StoredOnce
<1>5. ASSUME NEW r \in Request, CommitRows(r) PROVE KeyInv'
  <2>1. /\ table' = table \cup flushed[r]
        /\ flushed'[r] = {}
        /\ \A p \in Request \ {r} : flushed'[p] = flushed[p]
    BY <1>5 DEF CommitRows, TypeOK
  <2>2. StoredOnce'
    <3> SUFFICES ASSUME NEW row1 \in table', NEW row2 \in table',
                        row1.txn.tid = row2.txn.tid
                 PROVE  row1 = row2
      BY DEF StoredOnce
    <3>1. CASE row1 \in table /\ row2 \in table
      BY <3>1 DEF KeyInv, StoredOnce
    <3>2. CASE row1 \in flushed[r] /\ row2 \in flushed[r]
      BY <3>2 DEF KeyInv
    <3>3. \A old \in table, new \in flushed[r] : old.txn.tid # new.txn.tid
      BY DEF KeyInv, Stored, Tids
    <3> QED
      BY <2>1, <3>1, <3>2, <3>3
  <2>3. \A p \in Request : \A row \in flushed'[p] : ~Stored(row.txn.tid)'
    BY <2>1 DEF KeyInv, Stored, Tids
  <2>4. \A p \in Request : flushed'[p] \subseteq flushed[p]
    BY <2>1
  <2> QED
    BY <2>2, <2>3, <2>4 DEF KeyInv
<1>6. ASSUME NEW r \in Request, CheckDuplicate(r) \/ SelectExisting(r) PROVE KeyInv'
  <2>1. UNCHANGED table
    BY <1>6 DEF CheckDuplicate, SelectExisting
  <2>2. UNCHANGED flushed \/ \E a : Finish(r, a)
    BY <1>6 DEF CheckDuplicate, SelectExisting
  <2> QED
    BY <1>1, <1>2, <2>1, <2>2
<1>7. ASSUME NEW r \in Request,
             \/ Refuse(r) \/ UniqueViolation(r) \/ DeadlockAbort(r) \/ Fail(r)
             \/ RespondIngest(r) \/ RespondBatch(r)
      PROVE KeyInv'
  <2>1. UNCHANGED table /\ \E a : Finish(r, a)
    BY <1>7 DEF Refuse, UniqueViolation, DeadlockAbort, Fail, RespondIngest, RespondBatch
  <2> QED
    BY <1>2, <2>1
<1>8. ASSUME NEW r \in Request,
             \/ Arrive(r) \/ Authenticate(r) \/ ScoreRow(r) \/ ExplainRow(r)
             \/ Refresh(r) \/ RecordTime(r)
      PROVE KeyInv'
  BY <1>1, <1>8 DEF Arrive, Authenticate, ScoreRow, ExplainRow, Refresh, RecordTime
<1> QED
  BY <1>1, <1>3, <1>4, <1>5, <1>6, <1>7, <1>8 DEF Next, Progress, Tick, vars

\* An external id is never stored twice: the index alone gives it, whatever the
\* existence checks have read.
THEOREM IdsStoredOnce == Spec => []StoredOnce
<1>1. Init => KeyInv
  BY DEF Init, KeyInv, StoredOnce
<1>2. KeyInv => StoredOnce
  BY DEF KeyInv
<1> QED
  BY TInvInit, TInvStep, KeyInvStep, <1>1, <1>2, PTL DEF Spec

-----------------------------------------------------------------------------
(* All the fresh payloads of a request are stored, or none *)

Refusals == {"Refused", "Conflict", "IntegrityError", "DeadlockDetected"}

\* What a request has done by the time it is where it is.
Stage(r) ==
  /\ \A row \in built[r] : row.owner = r
  /\ flushed[r] \subseteq built[r]
  /\ flushed[r] # {} => pc[r] \in {"flush", "commit"}
  /\ pc[r] \in {"idle", "auth", "check"} => built[r] = {}
  /\ pc[r] \in {"flush", "commit", "refresh", "time", "respond"}
       => Scored(built[r]) = Fresh(r)
  /\ pc[r] = "commit" => flushed[r] = built[r]
  /\ pc[r] \in {"idle", "auth", "check", "score", "reason", "flush", "commit"}
       => RowsOf(r) = {}
  /\ pc[r] \in {"refresh", "time", "respond"} => RowsOf(r) = built[r]
  /\ RowsOf(r) # {} => RowsOf(r) = built[r] /\ Scored(built[r]) = Fresh(r)
  /\ pc[r] # "done" => answer[r] = NoAnswer
  /\ answer[r].error \in Refusals => RowsOf(r) = {}

StageInv == \A r \in Request : Stage(r)

Step(r) == Arrive(r) \/ Refuse(r) \/ Progress(r) \/ Fail(r) \/ Crash(r)

\* A step of one request leaves the others where they are, and commits no row
\* of theirs.
LEMMA OthersUntouched ==
  ASSUME TypeOK, StageInv, NEW r \in Request, Step(r), NEW s \in Request, s # r
  PROVE  /\ call' = call
         /\ pc'[s] = pc[s]
         /\ existing'[s] = existing[s]
         /\ built'[s] = built[s]
         /\ flushed'[s] = flushed[s]
         /\ answer'[s] = answer[s]
         /\ RowsOf(s)' = RowsOf(s)
<1> USE DEF TypeOK
<1>1. CASE CommitRows(r)
  <2>1. \A row \in flushed[r] : row.owner = r
    BY DEF StageInv, Stage
  <2>2. RowsOf(s)' = RowsOf(s)
    BY <1>1, <2>1 DEF CommitRows, RowsOf
  <2> QED
    BY <1>1, <2>2 DEF CommitRows, Goto
<1>2. CASE Refuse(r) \/ Fail(r) \/ UniqueViolation(r) \/ DeadlockAbort(r)
           \/ RespondIngest(r) \/ RespondBatch(r) \/ Crash(r)
  BY <1>2 DEF Refuse, Fail, UniqueViolation, DeadlockAbort, RespondIngest, RespondBatch,
     Crash, Finish, Goto, RowsOf
<1>3. CASE CheckDuplicate(r)
  BY <1>3 DEF CheckDuplicate, Finish, Goto, RowsOf
<1>4. CASE SelectExisting(r)
  BY <1>4 DEF SelectExisting, Finish, Goto, RowsOf
<1>5. CASE Arrive(r) \/ Authenticate(r) \/ Refresh(r) \/ RecordTime(r)
  BY <1>5 DEF Arrive, Authenticate, Refresh, RecordTime, Goto, RowsOf
<1>6. CASE ScoreRow(r)
  BY <1>6 DEF ScoreRow, Goto, RowsOf
<1>7. CASE ExplainRow(r) \/ InsertRow(r)
  BY <1>7 DEF ExplainRow, InsertRow, Goto, RowsOf
<1> QED
  BY <1>1, <1>2, <1>3, <1>4, <1>5, <1>6, <1>7 DEF Step, Progress

LEMMA StageOthers ==
  ASSUME TypeOK, StageInv, NEW r \in Request, Step(r), NEW s \in Request, s # r
  PROVE  Stage(s)'
<1>1. Fresh(s)' = Fresh(s)
  BY OthersUntouched DEF Fresh, Txns
<1> QED
  BY <1>1, OthersUntouched DEF StageInv, Stage, Scored

\* A request that ends keeps what it has stored, which is nothing when it ends
\* before its commit.
LEMMA StageEnds ==
  ASSUME TypeOK, StageInv, NEW r \in Request,
         UNCHANGED <<table, call, existing, built>>,
         \/ Goto(r, "lost") /\ UNCHANGED answer
         \/ Goto(r, "done") /\ \E a : /\ answer' = [answer EXCEPT ![r] = a]
                                      /\ a.error \in Refusals => RowsOf(r) = {},
         flushed' = [flushed EXCEPT ![r] = {}],
         pc[r] # "done"
  PROVE  Stage(r)'
<1> USE DEF TypeOK
<1>1. /\ Fresh(r)' = Fresh(r)
      /\ RowsOf(r)' = RowsOf(r)
      /\ built'[r] = built[r]
      /\ flushed'[r] = {}
  BY DEF Fresh, Txns, RowsOf
<1>2. Stage(r)
  BY DEF StageInv
<1>3. CASE Goto(r, "lost") /\ UNCHANGED answer
  BY <1>1, <1>2, <1>3 DEF Stage, Goto, NoAnswer, Refusals, Scored
<1>4. CASE Goto(r, "done") /\ \E a : /\ answer' = [answer EXCEPT ![r] = a]
                                    /\ a.error \in Refusals => RowsOf(r) = {}
  BY <1>1, <1>2, <1>4 DEF Stage, Goto, Scored
<1> QED
  BY <1>3, <1>4

\* PostgreSQL only aborts a transaction that others wait for.
LEMMA WaitedFor ==
  ASSUME StageInv, NEW r \in Request, InWaitCycle(r)
  PROVE  pc[r] \in {"flush", "commit"}
<1>1. PICK q \in Request : r \in WaitsFor(q)
  BY DEF InWaitCycle
<1>2. flushed[r] # {}
  BY <1>1 DEF WaitsFor, HoldersOf, Tids
<1> QED
  BY <1>2 DEF StageInv, Stage

LEMMA StageOwn ==
  ASSUME TypeOK, StageInv, NEW r \in Request, Step(r)
  PROVE  Stage(r)'
<1> USE DEF TypeOK
<1>0. Stage(r)
  BY DEF StageInv
<1>1. CASE Refuse(r)
  <2>1. RowsOf(r) = {} /\ pc[r] = "auth"
    BY <1>0, <1>1 DEF Refuse, Stage
  <2>2. \E code \in {401, 403} : Finish(r, Problem(code, "Refused"))
    BY <1>1 DEF Refuse
  <2> QED
    BY <1>1, <2>1, <2>2, StageEnds DEF Refuse, Finish
<1>2. CASE Fail(r)
  <2>1. Problem(500, "DBError").error \notin Refusals
    BY DEF Problem, Refusals
  <2> QED
    BY <1>2, <2>1, StageEnds DEF Fail, Finish, InFlight
<1>3. CASE UniqueViolation(r)
  BY <1>0, <1>3, StageEnds DEF UniqueViolation, Finish, Problem, Stage
<1>4. CASE DeadlockAbort(r)
  BY <1>0, <1>4, StageEnds, WaitedFor DEF DeadlockAbort, Finish, Problem, Stage
<1>5. CASE RespondIngest(r)
  <2>1. /\ Problem(500, "ResponseValidationError").error \notin Refusals
        /\ Accepted(1, 0).error \notin Refusals
    BY DEF Problem, Accepted, Refusals
  <2> QED
    BY <1>5, <2>1, StageEnds DEF RespondIngest, Finish
<1>6. CASE RespondBatch(r)
  <2>1. \A n, m : Accepted(n, m).error \notin Refusals
    BY DEF Accepted, Refusals
  <2> QED
    BY <1>6, <2>1, StageEnds DEF RespondBatch, Finish
<1>7. CASE Crash(r)
  BY <1>7, StageEnds DEF Crash, InFlight
<1>8. CASE CheckDuplicate(r)
  <2>1. CASE Finish(r, Problem(409, "Conflict"))
    BY <1>0, <1>8, <2>1, StageEnds DEF CheckDuplicate, Finish, Problem, Stage
  <2>2. CASE Goto(r, "score") /\ UNCHANGED <<answer, flushed>>
    BY <1>0, <1>8, <2>2 DEF CheckDuplicate, Goto, Stage, RowsOf
  <2> QED
    BY <1>8, <2>1, <2>2 DEF CheckDuplicate
<1>9. CASE SelectExisting(r)
  <2>1. /\ built[r] = {} /\ RowsOf(r) = {} /\ flushed[r] = {} /\ pc[r] = "check"
        /\ UNCHANGED <<table, built>>
    BY <1>0, <1>9 DEF SelectExisting, Stage
  <2>2. CASE \E n : Finish(r, Accepted(0, n))
    BY <2>1, <2>2 DEF Finish, Goto, Accepted, Stage, RowsOf, Refusals
  <2>3. CASE Goto(r, "score") /\ UNCHANGED <<answer, flushed>>
    BY <1>0, <2>1, <2>3 DEF Goto, Stage, RowsOf
  <2> QED
    BY <1>9, <2>2, <2>3 DEF SelectExisting
<1>10. CASE Arrive(r) \/ Authenticate(r)
  BY <1>0, <1>10 DEF Arrive, Authenticate, Goto, Stage, RowsOf
<1>11. CASE ScoreRow(r)
  <2>1. PICK row : /\ row.owner = r
                   /\ built' = [built EXCEPT ![r] = @ \cup {row}]
                   /\ Goto(r, IF Flags(row.score) THEN "reason"
                              ELSE AfterRow(r, built[r] \cup {row}))
    BY <1>11 DEF ScoreRow, NewRow
  <2>2. /\ UNCHANGED <<table, call, existing, flushed, answer>>
        /\ pc[r] = "score"
        /\ flushed[r] = {} /\ RowsOf(r) = {} /\ answer[r] = NoAnswer
        /\ Fresh(r)' = Fresh(r) /\ RowsOf(r)' = RowsOf(r)
    BY <1>0, <1>11 DEF ScoreRow, Stage, RowsOf, Fresh, Txns
  <2>3. built'[r] = built[r] \cup {row}
    BY <2>1
  <2>4. \/ pc'[r] \in {"reason", "score"}
        \/ pc'[r] = "flush" /\ Scored(built'[r]) = Fresh(r)
    BY <2>1, <2>3 DEF Goto, AfterRow
  <2> QED
    BY <1>0, <2>1, <2>2, <2>3, <2>4 DEF Stage, NoAnswer, Refusals, Scored
<1>12. CASE ExplainRow(r)
  <2>1. PICK row \in built[r] : \E explained :
          /\ explained.owner = row.owner /\ explained.pos = row.pos
          /\ built' = [built EXCEPT ![r] = (@ \ {row}) \cup {explained}]
    <3>1. PICK row \in built[r] : \E reason :
            built' = [built EXCEPT ![r] =
              (@ \ {row}) \cup {[row EXCEPT !.reason = reason]}]
      BY <1>12 DEF ExplainRow
    <3>2. row \in RowType
      OBVIOUS
    <3> QED
      BY <3>1, <3>2 DEF RowType
  <2>2. /\ UNCHANGED <<table, call, existing, flushed, answer>>
        /\ flushed[r] = {} /\ RowsOf(r) = {} /\ answer[r] = NoAnswer
        /\ Fresh(r)' = Fresh(r) /\ RowsOf(r)' = RowsOf(r)
    BY <1>0, <1>12 DEF ExplainRow, Stage, RowsOf, Fresh, Txns
  <2>3. Scored(built'[r]) = Scored(built[r])
    BY <2>1 DEF Scored
  <2>4. \A other \in built'[r] : other.owner = r
    BY <1>0, <2>1 DEF Stage
  <2>5. \/ pc'[r] = "score"
        \/ pc'[r] = "flush" /\ Scored(built[r]) = Fresh(r)
    BY <1>12 DEF ExplainRow, Goto, AfterRow
  <2> QED
    BY <1>0, <2>2, <2>3, <2>4, <2>5 DEF Stage, NoAnswer, Refusals, Scored
<1>13. CASE InsertRow(r)
  <2>1. PICK row \in built[r] :
          /\ flushed' = [flushed EXCEPT ![r] = @ \cup {row}]
          /\ Goto(r, IF flushed'[r] = built[r] THEN "commit" ELSE "flush")
    BY <1>13 DEF InsertRow
  <2>2. /\ UNCHANGED <<table, call, existing, built, answer>>
        /\ pc[r] = "flush"
        /\ Fresh(r)' = Fresh(r) /\ RowsOf(r)' = RowsOf(r)
    BY <1>13 DEF InsertRow, RowsOf, Fresh, Txns
  <2>3. flushed'[r] \subseteq built[r]
    BY <1>0, <2>1 DEF Stage
  <2>4. pc'[r] \in {"flush", "commit"} /\ (pc'[r] = "commit" => flushed'[r] = built[r])
    BY <2>1 DEF Goto
  <2> QED
    BY <1>0, <2>2, <2>3, <2>4 DEF Stage, Scored
<1>14. CASE CommitRows(r)
  <2>1. /\ flushed[r] = built[r] /\ RowsOf(r) = {} /\ answer[r] = NoAnswer
        /\ Scored(built[r]) = Fresh(r)
        /\ \A row \in built[r] : row.owner = r
    BY <1>0, <1>14 DEF CommitRows, Stage
  <2>2. RowsOf(r)' = built[r]
    BY <1>14, <2>1 DEF CommitRows, RowsOf
  <2>3. /\ UNCHANGED <<call, existing, built, answer>>
        /\ flushed'[r] = {} /\ pc'[r] \in {"refresh", "respond"}
        /\ Fresh(r)' = Fresh(r)
    BY <1>14 DEF CommitRows, Goto, Fresh, Txns
  <2> QED
    BY <2>1, <2>2, <2>3 DEF Stage, Scored, NoAnswer, Refusals
<1>15. CASE Refresh(r) \/ RecordTime(r)
  BY <1>0, <1>15 DEF Refresh, RecordTime, Goto, Stage, RowsOf, Fresh, Txns, Scored
<1> QED
  BY <1>1, <1>2, <1>3, <1>4, <1>5, <1>6, <1>7, <1>8, <1>9, <1>10, <1>11, <1>12,
     <1>13, <1>14, <1>15 DEF Step, Progress

LEMMA StageInvStep == TInv /\ StageInv /\ [Next]_vars => StageInv'
<1> SUFFICES ASSUME TypeOK, StageInv, [Next]_vars PROVE StageInv'
  BY DEF TInv
<1>1. ASSUME NEW r \in Request, Step(r) PROVE StageInv'
  BY <1>1, StageOwn, StageOthers DEF StageInv
<1>2. CASE Tick \/ UNCHANGED vars
  BY <1>2 DEF Tick, vars, StageInv, Stage, RowsOf, Fresh, Txns, Scored
<1> QED
  BY <1>1, <1>2 DEF Next, Step

\* A request stores all its fresh payloads or none, and none when it is refused.
THEOREM StoresAllOrNothing == Spec => []AllOrNothing
<1>1. Init => StageInv
  BY DEF Init, StageInv, Stage, RowsOf, NoAnswer, Refusals
<1>2. StageInv => AllOrNothing
  BY DEF StageInv, Stage, AllOrNothing, Refusals
<1> QED
  BY TInvInit, TInvStep, StageInvStep, <1>1, <1>2, PTL DEF Spec

-----------------------------------------------------------------------------
(* A duplicate is a stored one *)

\* Rows are never lost and never change hands.
LEMMA OthersRowsStay ==
  ASSUME [Next]_vars, NEW r \in Request
  PROVE  /\ Ids(r)' = Ids(r)
         /\ Tids(table \ RowsOf(r)) \subseteq Tids(table \ RowsOf(r))'
<1>1. table \subseteq table' /\ call' = call
  BY DEF Next, Step, Progress, Tick, vars, Arrive, Refuse, Authenticate, CheckDuplicate,
     SelectExisting, ScoreRow, ExplainRow, InsertRow, UniqueViolation, DeadlockAbort,
     CommitRows, Refresh, RecordTime, RespondIngest, RespondBatch, Fail, Crash
<1> QED
  BY <1>1 DEF Ids, Txns, Tids, RowsOf

\* Before its commit a request sees no row of its own.
LEMMA KnownByOthers ==
  ASSUME StageInv, NEW r \in Request, pc[r] = "check", NEW t, Known(t)
  PROVE  t \in Tids(table \ RowsOf(r))
<1>1. RowsOf(r) = {}
  BY DEF StageInv, Stage
<1> QED
  BY <1>1 DEF Known, Stored

LEMMA ConflictStep == TInv /\ StageInv /\ ConflictStored /\ [Next]_vars => ConflictStored'
<1> SUFFICES ASSUME TypeOK, StageInv, ConflictStored, [Next]_vars, NEW s \in Request
             PROVE  /\ answer'[s].status = 409 =>
                         Ids(s)' \subseteq Tids(table \ RowsOf(s))'
                    /\ existing'[s] \subseteq Tids(table \ RowsOf(s))'
  BY DEF TInv, ConflictStored
<1> DEFINE byOthers == Tids(table \ RowsOf(s))
<1>1. /\ Ids(s)' = Ids(s)
      /\ byOthers \subseteq byOthers'
  BY OthersRowsStay
<1>2. /\ answer[s].status = 409 => Ids(s) \subseteq byOthers
      /\ existing[s] \subseteq byOthers
  BY DEF ConflictStored
<1>3. SUFFICES /\ answer'[s].status = 409 => Ids(s) \subseteq byOthers
               /\ existing'[s] \subseteq byOthers
  BY <1>1
<1> HIDE DEF byOthers
<1>4. CASE CheckDuplicate(s)
  <2>1. existing' = existing
    BY <1>4 DEF CheckDuplicate
  <2>2. CASE \A t \in Ids(s) : Known(t)
    <3>1. Ids(s) \subseteq byOthers
      BY <1>4, <2>2, KnownByOthers DEF CheckDuplicate, byOthers
    <3> QED
      BY <1>2, <2>1, <3>1
  <2>3. CASE UNCHANGED answer
    BY <1>2, <2>1, <2>3
  <2> QED
    BY <1>4, <2>2, <2>3 DEF CheckDuplicate
<1>5. CASE SelectExisting(s)
  <2>1. existing'[s] \subseteq byOthers
    BY <1>5, KnownByOthers DEF SelectExisting, TypeOK, byOthers
  <2>2. answer'[s] = answer[s] \/ answer'[s].status # 409
    BY <1>5 DEF SelectExisting, Finish, Accepted, TypeOK
  <2> QED
    BY <1>2, <2>1, <2>2
<1>6. ASSUME NEW r \in Request, r # s, Step(r)
      PROVE  answer'[s] = answer[s] /\ existing'[s] = existing[s]
  BY <1>6, OthersUntouched
<1>7. CASE \/ Arrive(s) \/ Authenticate(s) \/ ScoreRow(s) \/ ExplainRow(s) \/ InsertRow(s)
           \/ CommitRows(s) \/ Refresh(s) \/ RecordTime(s) \/ Crash(s) \/ Tick
           \/ UNCHANGED vars
  <2>1. UNCHANGED <<existing, answer>>
    BY <1>7 DEF Arrive, Authenticate, ScoreRow, ExplainRow, InsertRow, CommitRows,
       Refresh, RecordTime, Crash, Tick, vars
  <2> QED
    BY <1>2, <2>1
<1>8. CASE \/ Refuse(s) \/ UniqueViolation(s) \/ DeadlockAbort(s) \/ Fail(s)
           \/ RespondIngest(s) \/ RespondBatch(s)
  <2>1. existing' = existing
    BY <1>8 DEF Refuse, UniqueViolation, DeadlockAbort, Fail, RespondIngest, RespondBatch
  <2>2. PICK a : a.status # 409 /\ Finish(s, a)
    <3>1. /\ \A code \in {401, 403, 500} : \A e : Problem(code, e).status # 409
          /\ \A n, m : Accepted(n, m).status # 409
      BY DEF Problem, Accepted
    <3> QED
      BY <1>8, <3>1 DEF Refuse, UniqueViolation, DeadlockAbort, Fail, RespondIngest,
         RespondBatch
  <2>3. answer'[s].status # 409
    BY <2>2 DEF Finish, TypeOK
  <2>4. existing'[s] = existing[s]
    BY <2>1
  <2> QED
    BY <1>2, <2>3, <2>4
<1>9. ASSUME NEW r \in Request, Step(r)
      PROVE  /\ answer'[s].status = 409 => Ids(s) \subseteq byOthers
             /\ existing'[s] \subseteq byOthers
  <2>1. CASE r # s
    <3>1. answer'[s] = answer[s] /\ existing'[s] = existing[s]
      BY <1>6, <1>9, <2>1
    <3> QED
      BY <1>2, <3>1
  <2>2. CASE r = s
    BY <1>4, <1>5, <1>7, <1>8, <1>9, <2>2 DEF Step, Progress
  <2> QED
    BY <2>1, <2>2
<1> QED
  BY <1>7, <1>9 DEF Next, Step

\* A 409, and an id a batch leaves out, is about a row another request has
\* committed: no interleaving makes the two sides of a race both refuse.
THEOREM DuplicatesAreStored == Spec => []ConflictStored
<1>1. Init => StageInv
  BY DEF Init, StageInv, Stage, RowsOf, NoAnswer, Refusals
<1>2. Init => ConflictStored
  BY DEF Init, ConflictStored, NoAnswer
<1> QED
  BY TInvInit, TInvStep, StageInvStep, ConflictStep, <1>1, <1>2, PTL DEF Spec
=============================================================================
