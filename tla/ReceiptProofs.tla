---------------------------- MODULE ReceiptProofs ----------------------------
(***************************************************************************)
(* What TLAPS proves of the answers of Ingest: a 202 says what was stored. *)
(***************************************************************************)
EXTENDS IngestProofs

-----------------------------------------------------------------------------
(* The inductive invariant *)

\* The rows of a request are made of its fresh payloads, one of each.
RowsFaithful(r) ==
  /\ \A row \in built[r] : row.pos \in Fresh(r) /\ row.txn = Txns(r)[row.pos]
  /\ \A row1, row2 \in built[r] : row1.pos = row2.pos => row1 = row2

\* What a 202 was made of when it was given: the rows committed are those
\* built, one for each fresh payload.
Told(r) ==
  /\ RowsOf(r) = built[r]
  /\ Scored(built[r]) = Fresh(r)
  /\ Ingest(r) => Ids(r) \subseteq timed
  /\ ~Ingest(r) => /\ answer[r].accepted = Cardinality(built[r])
                   /\ answer[r].duplicates = Cardinality(existing[r])

Receipt(r) ==
  /\ RowsFaithful(r)
  /\ existing[r] \subseteq Ids(r)
  /\ Ingest(r) => existing[r] = {}
  /\ pc[r] = "respond" /\ Ingest(r) => Ids(r) \subseteq timed
  /\ answer[r].status = 202 => Told(r)

ReceiptInv == \A r \in Request : Receipt(r)

-----------------------------------------------------------------------------
(* It is kept by every step *)

\* A step that changes none of what a receipt is about.
LEMMA ReceiptKept ==
  ASSUME TypeOK, ReceiptInv, NEW r \in Request,
         call' = call, existing'[r] = existing[r], built'[r] = built[r],
         timed \subseteq timed',
         pc'[r] = "respond" /\ Ingest(r) => pc[r] = "respond" \/ Ids(r) \subseteq timed',
         answer'[r].status = 202 => answer'[r] = answer[r] /\ RowsOf(r)' = RowsOf(r)
  PROVE  Receipt(r)'
<1>1. /\ Txns(r)' = Txns(r) /\ Ids(r)' = Ids(r) /\ Ingest(r)' = Ingest(r)
      /\ Fresh(r)' = Fresh(r) /\ Scored(built[r])' = Scored(built[r])
  BY DEF Txns, Ids, Ingest, Fresh, Scored
<1>2. Receipt(r)
  BY DEF ReceiptInv
<1>3. RowsFaithful(r)'
  BY <1>1, <1>2 DEF Receipt, RowsFaithful
<1>4. answer'[r].status = 202 => Told(r)'
  BY <1>1, <1>2 DEF Receipt, Told
<1> QED
  BY <1>1, <1>2, <1>3, <1>4 DEF Receipt

\* Processing times are only added.
LEMMA TimedGrows == [Next]_vars => timed \subseteq timed' /\ call' = call
  BY DEF Next, Step, Progress, Tick, vars, Arrive, Refuse, Authenticate, CheckDuplicate,
     SelectExisting, ScoreRow, ExplainRow, InsertRow, UniqueViolation, DeadlockAbort,
     CommitRows, Refresh, RecordTime, RespondIngest, RespondBatch, Fail, Crash

\* An answer that is not a receipt leaves the others as they were.
LEMMA ReceiptRefused ==
  ASSUME TypeOK, ReceiptInv, NEW r \in Request,
         NEW code, code # 202, NEW e, Finish(r, Problem(code, e)),
         UNCHANGED <<table, timed, call, existing, built>>
  PROVE  Receipt(r)'
<1>1. answer'[r].status # 202 /\ pc'[r] = "done"
  BY DEF Finish, Goto, Problem, TypeOK
<1> QED
  BY <1>1, ReceiptKept

LEMMA ReceiptOwn ==
  ASSUME TypeOK, StageInv, ReceiptInv, NEW r \in Request, Step(r)
  PROVE  Receipt(r)'
<1> USE DEF TypeOK
<1>0. Receipt(r) /\ Stage(r)
  BY DEF ReceiptInv, StageInv
<1>1. CASE Refuse(r) \/ UniqueViolation(r) \/ DeadlockAbort(r) \/ Fail(r)
  <2>1. PICK code \in {401, 403, 500}, e \in Errors : Finish(r, Problem(code, e))
    BY <1>1 DEF Refuse, UniqueViolation, DeadlockAbort, Fail, Errors
  <2>2. UNCHANGED <<table, timed, call, existing, built>>
    BY <1>1 DEF Refuse, UniqueViolation, DeadlockAbort, Fail
  <2> QED
    BY <2>1, <2>2, ReceiptRefused
<1>2. CASE Arrive(r) \/ Authenticate(r) \/ InsertRow(r) \/ Refresh(r) \/ Crash(r)
  <2>1. /\ UNCHANGED <<table, timed, call, existing, built, answer>>
        /\ pc'[r] # "respond"
    BY <1>2 DEF Arrive, Authenticate, InsertRow, Refresh, Crash, Goto
  <2>2. RowsOf(r)' = RowsOf(r)
    BY <2>1 DEF RowsOf
  <2> QED
    BY <2>1, <2>2, ReceiptKept
<1>3. CASE CheckDuplicate(r)
  <2>1. CASE Finish(r, Problem(409, "Conflict"))
    BY <1>3, <2>1, ReceiptRefused DEF CheckDuplicate
  <2>2. CASE Goto(r, "score") /\ UNCHANGED <<answer, flushed>>
    BY <1>3, <2>2, ReceiptKept DEF CheckDuplicate, Goto, RowsOf
  <2> QED
    BY <1>3, <2>1, <2>2 DEF CheckDuplicate
<1>4. CASE SelectExisting(r)
  <2> DEFINE known == {t \in Ids(r) : Known(t)}
  <2>1. /\ pc[r] = "check" /\ ~Ingest(r)
        /\ built[r] = {} /\ RowsOf(r) = {} /\ answer[r] = NoAnswer
        /\ UNCHANGED <<table, timed, call, built>>
        /\ existing'[r] = known
    BY <1>0, <1>4 DEF SelectExisting, Stage
  <2>2. /\ Txns(r)' = Txns(r) /\ Ids(r)' = Ids(r) /\ Ingest(r)' = Ingest(r)
        /\ RowsOf(r)' = {} /\ built'[r] = {}
    BY <2>1 DEF Txns, Ids, Ingest, RowsOf
  <2>3. RowsFaithful(r)'
    BY <2>2 DEF RowsFaithful
  <2>4. answer'[r].status = 202 => Told(r)'
    <3>1. CASE known = Ids(r) /\ Finish(r, Accepted(0, Cardinality(known)))
      <4>1. Fresh(r)' = {}
        BY <2>1, <2>2, <3>1 DEF Fresh, Ids
      <4>2. /\ answer'[r].accepted = 0
            /\ answer'[r].duplicates = Cardinality(known)
        BY <3>1 DEF Finish, Accepted
      <4>3. Cardinality(built'[r]) = 0
        BY <2>2, FS_EmptySet
      <4> QED
        BY <2>1, <2>2, <4>1, <4>2, <4>3 DEF Told, Scored
    <3>2. CASE UNCHANGED answer
      BY <2>1, <3>2 DEF NoAnswer
    <3> QED
      BY <1>4, <3>1, <3>2 DEF SelectExisting
  <2>5. pc'[r] # "respond"
    BY <1>4 DEF SelectExisting, Finish, Goto
  <2> QED
    BY <2>1, <2>2, <2>3, <2>4, <2>5 DEF Receipt
<1>5. CASE ScoreRow(r)
  <2>1. PICK i \in Fresh(r) \ Scored(built[r]) : \E row :
          /\ row = NewRow(r, i, RecentCount(table, Txns(r)[i].customer, now))
          /\ built' = [built EXCEPT ![r] = @ \cup {row}]
    BY <1>5 DEF ScoreRow
  <2>2. PICK row : /\ row.pos = i /\ row.txn = Txns(r)[i]
                   /\ built'[r] = built[r] \cup {row}
    BY <2>1 DEF NewRow
  <2>3. /\ UNCHANGED <<table, timed, call, existing, answer>>
        /\ answer[r] = NoAnswer
        /\ pc'[r] # "respond"
    BY <1>0, <1>5 DEF ScoreRow, Stage, Goto, AfterRow
  <2>4. /\ Txns(r)' = Txns(r) /\ Ids(r)' = Ids(r) /\ Ingest(r)' = Ingest(r)
        /\ Fresh(r)' = Fresh(r)
    BY <2>3 DEF Txns, Ids, Ingest, Fresh
  <2>5. \A other \in built[r] : other.pos # i
    BY <2>1 DEF Scored
  <2>6. RowsFaithful(r)'
    BY <1>0, <2>1, <2>2, <2>4, <2>5 DEF Receipt, RowsFaithful
  <2> QED
    BY <1>0, <2>3, <2>4, <2>6 DEF Receipt, NoAnswer
<1>6. CASE ExplainRow(r)
  <2>1. PICK row \in built[r] : \E reason :
          built' = [built EXCEPT ![r] =
            (@ \ {row}) \cup {[row EXCEPT !.reason = reason]}]
    BY <1>6 DEF ExplainRow
  <2>2. row \in RowType
    OBVIOUS
  <2>3. PICK explained : /\ explained.pos = row.pos /\ explained.txn = row.txn
                         /\ built'[r] = (built[r] \ {row}) \cup {explained}
    BY <2>1, <2>2 DEF RowType
  <2>4. /\ UNCHANGED <<table, timed, call, existing, answer>>
        /\ answer[r] = NoAnswer
        /\ pc'[r] # "respond"
    BY <1>0, <1>6 DEF ExplainRow, Stage, Goto, AfterRow
  <2>5. /\ Txns(r)' = Txns(r) /\ Ids(r)' = Ids(r) /\ Ingest(r)' = Ingest(r)
        /\ Fresh(r)' = Fresh(r)
    BY <2>4 DEF Txns, Ids, Ingest, Fresh
  <2>6. RowsFaithful(r)'
    BY <1>0, <2>3, <2>5 DEF Receipt, RowsFaithful
  <2> QED
    BY <1>0, <2>4, <2>5, <2>6 DEF Receipt, NoAnswer
<1>7. CASE CommitRows(r)
  <2>1. /\ UNCHANGED <<timed, call, existing, built, answer>>
        /\ answer[r] = NoAnswer
        /\ pc'[r] = "respond" => ~Ingest(r)
    BY <1>0, <1>7 DEF CommitRows, Goto, Stage
  <2> QED
    BY <2>1, ReceiptKept DEF NoAnswer
<1>8. CASE RecordTime(r)
  <2>1. /\ UNCHANGED <<table, call, existing, built, answer>>
        /\ timed \subseteq timed' /\ Ids(r) \subseteq timed'
    BY <1>8 DEF RecordTime
  <2>2. RowsOf(r)' = RowsOf(r)
    BY <2>1 DEF RowsOf
  <2> QED
    BY <2>1, <2>2, ReceiptKept
<1>9. CASE RespondIngest(r)
  <2>1. UNCHANGED <<table, timed, now, call, existing, built>>
    BY <1>9 DEF RespondIngest
  <2>2. CASE Finish(r, Problem(500, "ResponseValidationError"))
    BY <2>1, <2>2, ReceiptRefused
  <2>3. CASE Finish(r, Accepted(1, 0))
    <3>1. /\ RowsOf(r) = built[r] /\ Scored(built[r]) = Fresh(r)
          /\ Ingest(r) /\ Ids(r) \subseteq timed
      BY <1>0, <1>9 DEF RespondIngest, Stage, Receipt
    <3>2. /\ Txns(r)' = Txns(r) /\ Ids(r)' = Ids(r) /\ Ingest(r)' = Ingest(r)
          /\ Fresh(r)' = Fresh(r) /\ RowsOf(r)' = RowsOf(r)
          /\ Scored(built[r])' = Scored(built[r])
      BY <2>1 DEF Txns, Ids, Ingest, Fresh, RowsOf, Scored
    <3>3. Told(r)'
      BY <2>1, <3>1, <3>2 DEF Told
    <3>4. RowsFaithful(r)'
      BY <1>0, <2>1, <3>2 DEF Receipt, RowsFaithful
    <3> QED
      BY <1>0, <2>1, <3>1, <3>2, <3>3, <3>4 DEF Receipt
  <2> QED
    BY <1>9, <2>2, <2>3 DEF RespondIngest
<1>10. CASE RespondBatch(r)
  <2>1. /\ UNCHANGED <<table, timed, now, call, existing, built>>
        /\ Finish(r, Accepted(Cardinality(built[r]), Cardinality(existing[r])))
        /\ RowsOf(r) = built[r] /\ Scored(built[r]) = Fresh(r) /\ ~Ingest(r)
    BY <1>0, <1>10 DEF RespondBatch, Stage
  <2>2. /\ answer'[r].accepted = Cardinality(built[r])
        /\ answer'[r].duplicates = Cardinality(existing[r])
    BY <2>1 DEF Finish, Accepted
  <2>3. /\ Txns(r)' = Txns(r) /\ Ids(r)' = Ids(r) /\ Ingest(r)' = Ingest(r)
        /\ Fresh(r)' = Fresh(r) /\ RowsOf(r)' = RowsOf(r)
        /\ Scored(built[r])' = Scored(built[r])
    BY <2>1 DEF Txns, Ids, Ingest, Fresh, RowsOf, Scored
  <2>4. Told(r)'
    BY <2>1, <2>2, <2>3 DEF Told
  <2>5. RowsFaithful(r)'
    BY <1>0, <2>1, <2>3 DEF Receipt, RowsFaithful
  <2> QED
    BY <1>0, <2>1, <2>3, <2>4, <2>5 DEF Receipt
<1> QED
  BY <1>1, <1>2, <1>3, <1>4, <1>5, <1>6, <1>7, <1>8, <1>9, <1>10 DEF Step, Progress

LEMMA ReceiptInvStep == TInv /\ StageInv /\ ReceiptInv /\ [Next]_vars => ReceiptInv'
<1> SUFFICES ASSUME TypeOK, StageInv, ReceiptInv, [Next]_vars PROVE ReceiptInv'
  BY DEF TInv
<1>0. timed \subseteq timed' /\ call' = call
  BY TimedGrows
<1>1. ASSUME NEW r \in Request, Step(r) PROVE ReceiptInv'
  <2>1. ASSUME NEW s \in Request, s # r PROVE Receipt(s)'
    <3>1. /\ pc'[s] = pc[s] /\ existing'[s] = existing[s] /\ built'[s] = built[s]
          /\ answer'[s] = answer[s] /\ RowsOf(s)' = RowsOf(s)
      BY <1>1, <2>1, OthersUntouched
    <3> QED
      BY <1>0, <3>1, ReceiptKept
  <2> QED
    BY <1>1, <2>1, ReceiptOwn DEF ReceiptInv
<1>2. CASE Tick \/ UNCHANGED vars
  <2>1. UNCHANGED <<table, pc, call, existing, built, answer>>
    BY <1>2 DEF Tick, vars
  <2>2. \A s \in Request : RowsOf(s)' = RowsOf(s)
    BY <2>1 DEF RowsOf
  <2> QED
    BY <1>0, <2>1, <2>2, ReceiptKept DEF ReceiptInv
<1> QED
  BY <1>1, <1>2 DEF Next, Step

-----------------------------------------------------------------------------
(* The receipt *)

\* Rows that are stored once are as many as their ids.
LEMMA RowsAreIds ==
  ASSUME StoredOnce, NEW r \in Request, IsFiniteSet(RowsOf(r))
  PROVE  Cardinality(Tids(RowsOf(r))) = Cardinality(RowsOf(r))
<1> DEFINE f == [row \in RowsOf(r) |-> row.txn.tid]
<1>1. f \in Surjection(RowsOf(r), Tids(RowsOf(r)))
  BY DEF Surjection, Tids
<1>2. f \in Injection(RowsOf(r), Tids(RowsOf(r)))
  <2>1. \A row1, row2 \in RowsOf(r) : f[row1] = f[row2] => row1 = row2
    BY DEF StoredOnce, RowsOf
  <2>2. f \in [RowsOf(r) -> Tids(RowsOf(r))]
    BY DEF Tids
  <2> HIDE DEF f
  <2> QED
    BY <2>1, <2>2 DEF Injection, IsInjective
<1> QED
  BY <1>1, <1>2, FS_Surjection

\* The ids of the rows of a request, when it has stored one for each fresh
\* payload, are those it did not find.
LEMMA FreshIds ==
  ASSUME NEW r \in Request, RowsFaithful(r), Scored(built[r]) = Fresh(r)
  PROVE  Tids(built[r]) = Ids(r) \ existing[r]
<1>1. ASSUME NEW row \in built[r] PROVE row.txn.tid \in Ids(r) \ existing[r]
  <2>1. row.pos \in Fresh(r) /\ row.txn = Txns(r)[row.pos]
    BY DEF RowsFaithful
  <2> QED
    BY <2>1 DEF Fresh, Ids
<1>2. ASSUME NEW t \in Ids(r) \ existing[r] PROVE t \in Tids(built[r])
  <2>1. PICK i \in DOMAIN Txns(r) : t = Txns(r)[i].tid
    BY DEF Ids
  <2>2. i \in Scored(built[r])
    BY <1>2, <2>1 DEF Fresh
  <2>3. PICK row \in built[r] : row.pos = i
    BY <2>2 DEF Scored
  <2> QED
    BY <2>1, <2>3 DEF RowsFaithful, Tids
<1> QED
  BY <1>1, <1>2 DEF Tids

\* A request that was told 202 has all its ids stored, those it did not find by
\* itself.
LEMMA ToldStored ==
  ASSUME ReceiptInv, ConflictStored, NEW r \in Request, answer[r].status = 202
  PROVE  /\ Tids(RowsOf(r)) = Ids(r) \ existing[r]
         /\ Ids(r) \subseteq Tids(table)
<1>1. Told(r) /\ RowsFaithful(r)
  BY DEF ReceiptInv, Receipt
<1>2. Tids(RowsOf(r)) = Ids(r) \ existing[r]
  BY <1>1, FreshIds DEF Told
<1>3. Tids(RowsOf(r)) \subseteq Tids(table) /\ existing[r] \subseteq Tids(table)
  BY DEF Tids, RowsOf, ConflictStored
<1> QED
  BY <1>2, <1>3

LEMMA HonestyFollows ==
  ASSUME TInv, StoredOnce, ConflictStored, ReceiptInv
  PROVE  ReceiptHonest
<1> SUFFICES ASSUME NEW r \in Request, answer[r].status = 202
             PROVE  /\ RowsOf(r) = built[r]
                    /\ Ids(r) \subseteq Tids(table)
                    /\ Ingest(r) => RowsOf(r) # {} /\ Ids(r) \subseteq timed
                    /\ ~Ingest(r) =>
                         /\ answer[r].accepted = Cardinality(Tids(RowsOf(r)))
                         /\ answer[r].duplicates = Cardinality(Ids(r) \ Tids(RowsOf(r)))
  BY DEF ReceiptHonest
<1>1. Told(r) /\ existing[r] \subseteq Ids(r) /\ (Ingest(r) => existing[r] = {})
  BY DEF ReceiptInv, Receipt
<1>2. /\ Tids(RowsOf(r)) = Ids(r) \ existing[r]
      /\ Ids(r) \subseteq Tids(table)
  BY ToldStored
<1>3. Ids(r) # {}
  <2>1. call[r] \in Calls
    BY DEF TInv, TypeOK
  <2>2. \A n \in 1..1000 : n >= 1
    OBVIOUS
  <2>3. Len(Txns(r)) >= 1
    <3>1. Len(call[r].txns) \in 1..1000
      BY <2>1, CallsAssumption
    <3>2. Len(call[r].txns) >= 1
      BY <2>2, <3>1, Zenon
    <3> QED
      BY <3>2 DEF Txns
  <2>4. 1 \in DOMAIN Txns(r)
    BY <2>3, PayloadsTyped DEF TInv
  <2>5. Txns(r)[1].tid \in Ids(r)
    BY <2>4 DEF Ids
  <2> QED
    BY <2>5
<1>4. CASE Ingest(r)
  BY <1>1, <1>2, <1>3, <1>4 DEF Told, Tids
<1>5. CASE ~Ingest(r)
  <2>1. Cardinality(Tids(RowsOf(r))) = Cardinality(built[r])
    BY <1>1, RowsAreIds DEF Told, TInv, FiniteOK
  <2>2. Ids(r) \ Tids(RowsOf(r)) = existing[r]
    BY <1>1, <1>2
  <2> QED
    BY <1>1, <1>2, <1>5, <2>1, <2>2 DEF Told
<1> QED
  BY <1>4, <1>5

\* What the theorems of IngestProofs establish, as one invariant.
StoredInv == TInv /\ KeyInv /\ StageInv /\ ConflictStored /\ ReceiptInv

LEMMA StoredInvInit == Init => StoredInv
<1> SUFFICES ASSUME Init PROVE StoredInv
  OBVIOUS
<1>1. TInv
  BY TInvInit
<1>2. KeyInv
  BY DEF Init, KeyInv, StoredOnce
<1>3. StageInv
  BY DEF Init, StageInv, Stage, RowsOf, NoAnswer, Refusals
<1>4. ConflictStored
  BY DEF Init, ConflictStored, NoAnswer
<1>5. ReceiptInv
  BY DEF Init, ReceiptInv, Receipt, RowsFaithful, NoAnswer
<1> QED
  BY <1>1, <1>2, <1>3, <1>4, <1>5 DEF StoredInv

LEMMA StoredInvStep == StoredInv /\ [Next]_vars => StoredInv'
  BY TInvStep, KeyInvStep, StageInvStep, ConflictStep, ReceiptInvStep DEF StoredInv

\* A 202 is honest: what it counts as accepted is what the request committed,
\* what it counts as duplicates another request had committed, an accepted
\* ingest has its processing time, whatever ran beside it or failed.
THEOREM ReceiptsAreHonest == Spec => []ReceiptHonest
<1>1. StoredInv => ReceiptHonest
  BY HonestyFollows DEF StoredInv, KeyInv
<1> QED
  BY StoredInvInit, StoredInvStep, <1>1, PTL DEF Spec
=============================================================================
