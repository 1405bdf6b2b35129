----------------------------- MODULE StoreProofs -----------------------------
(***************************************************************************)
(* Every step of Ingest is a step of the write-once map, or none.          *)
(***************************************************************************)
EXTENDS IngestStore, ReceiptProofs

-----------------------------------------------------------------------------
(* The map *)

\* Of rows with distinct ids, the one with an id is the one chosen for it.
LEMMA ChosenRow ==
  ASSUME NEW rows, NEW row \in rows,
         \A row1, row2 \in rows : row1.txn.tid = row2.txn.tid => row1 = row2
  PROVE  (CHOOSE other \in rows : other.txn.tid = row.txn.tid) = row
  OBVIOUS

\* The owner of a stored id is that of its row.
LEMMA OwnerIs ==
  ASSUME StoredOnce, NEW row \in table
  PROVE  OwnerOf(row.txn.tid) = row.owner
  BY ChosenRow DEF OwnerOf, StoredOnce

\* What a request owns in the map are the ids of its rows.
LEMMA OwnedIs ==
  ASSUME StoredOnce, NEW r \in Request
  PROVE  Store!Owned(r) = Tids(RowsOf(r))
<1> DEFINE map == [t \in Tids(table) |-> OwnerOf(t)]
<1>1. Store!Owned(r) = {t \in Tids(table) : OwnerOf(t) = r}
  BY DEF Store!Owned, Store!Stored
<1>2. ASSUME NEW t \in Tids(table) PROVE OwnerOf(t) = r <=> t \in Tids(RowsOf(r))
  <2>1. PICK row \in table : row.txn.tid = t
    BY DEF Tids
  <2>2. OwnerOf(t) = row.owner
    BY <2>1, OwnerIs
  <2>3. \A other \in table : other.txn.tid = t => other = row
    BY <2>1 DEF StoredOnce
  <2> QED
    BY <2>1, <2>2, <2>3 DEF Tids, RowsOf
<1>3. Tids(RowsOf(r)) \subseteq Tids(table)
  BY DEF Tids, RowsOf
<1> QED
  BY <1>1, <1>2, <1>3

\* The ids a request has stored, and those the map has.
LEMMA StoredIs == Store!Stored = Tids(table)
  BY DEF Store!Stored

\* The replies a client can see are those of the map.
LEMMA ViewTold ==
  ASSUME TypeOK, NEW r \in Request, NEW a \in AnswerType, Finish(r, a)
  PROVE  [s \in Request |-> View(s)]' =
           [[s \in Request |-> View(s)] EXCEPT ![r] = View(r)']
<1>1. \A s \in Request \ {r} : answer'[s] = answer[s]
  BY DEF Finish, TypeOK
<1>2. \A s \in Request \ {r} : View(s)' = View(s)
  BY <1>1 DEF View
<1> QED
  BY <1>2

LEMMA NotYetTold ==
  ASSUME TypeOK, StageInv, NEW r \in Request, pc[r] # "done"
  PROVE  View(r) = "none" /\ [s \in Request |-> View(s)][r] = "none"
<1>1. answer[r] = NoAnswer
  BY DEF StageInv, Stage
<1> QED
  BY <1>1 DEF View, NoAnswer

-----------------------------------------------------------------------------
(* Steps *)

\* A step that changes neither the table nor an answer.
LEMMA StoreStutters ==
  ASSUME UNCHANGED <<table, call, answer>>
  PROVE  UNCHANGED Store!vars
<1>1. \A r \in Request : Ids(r)' = Ids(r) /\ View(r)' = View(r)
  BY DEF Ids, Txns, View
<1>2. Tids(table)' = Tids(table) /\ \A t : OwnerOf(t)' = OwnerOf(t)
  BY DEF Tids, OwnerOf
<1> QED
  BY <1>1, <1>2 DEF Store!vars

\* The first commit is the one step that changes the map: the ids of the rows
\* it commits get their owner, all together.
LEMMA CommitStores ==
  ASSUME StoredInv, StoredInv', NEW r \in Request, CommitRows(r)
  PROVE  Store!Store(r) \/ UNCHANGED Store!vars
<1> DEFINE ids == Tids(flushed[r])
<1>0. TypeOK /\ KeyInv /\ StageInv /\ StoredOnce /\ StoredOnce'
  BY DEF StoredInv, TInv, KeyInv
<1>1. /\ table' = table \cup flushed[r]
      /\ UNCHANGED <<call, answer>>
      /\ pc[r] = "commit"
  BY DEF CommitRows
<1>2. CASE flushed[r] = {}
  BY <1>1, <1>2, StoreStutters
<1>3. CASE flushed[r] # {}
  <2>1. Tids(table)' = Tids(table) \cup ids
    BY <1>1 DEF Tids
  <2>2. ids # {} /\ ids \cap Tids(table) = {}
    BY <1>0, <1>3 DEF Tids, KeyInv, Stored
  <2>3. ids \subseteq Ids(r)
    <3>1. \A row \in flushed[r] : row.pos \in Fresh(r) /\ row.txn = Txns(r)[row.pos]
      BY <1>0 DEF StoredInv, ReceiptInv, Receipt, RowsFaithful, StageInv, Stage
    <3> QED
      BY <3>1 DEF Tids, Ids, Fresh
  <2>4. ASSUME NEW t \in ids PROVE OwnerOf(t)' = r
    <3>1. PICK row \in flushed[r] : row.txn.tid = t
      BY DEF Tids
    <3>2. row \in table' /\ row.owner = r
      BY <1>0, <1>1 DEF StageInv, Stage
    <3>3. (CHOOSE other \in table' : other.txn.tid = row.txn.tid) = row
      BY <1>0, <3>2, ChosenRow DEF StoredOnce
    <3> QED
      BY <3>1, <3>2, <3>3 DEF OwnerOf
  <2>5. ASSUME NEW t \in Tids(table) PROVE OwnerOf(t)' = OwnerOf(t)
    <3>1. PICK row \in table : row.txn.tid = t
      BY DEF Tids
    <3>2. (CHOOSE other \in table' : other.txn.tid = row.txn.tid) = row
      BY <1>0, <1>1, ChosenRow DEF StoredOnce
    <3>3. OwnerOf(t) = row.owner
      BY <1>0, <3>1, OwnerIs
    <3>4. OwnerOf(t)' = row.owner
      BY <3>1, <3>2 DEF OwnerOf
    <3> QED
      BY <3>3, <3>4
  <2> DEFINE owner == [t \in Tids(table) |-> OwnerOf(t)]
  <2>6. owner' = [t \in Tids(table) \cup ids |-> IF t \in ids THEN r ELSE owner[t]]
    BY <2>1, <2>2, <2>4, <2>5
  <2>7. owner' # owner
    <3>1. DOMAIN owner' = Tids(table) \cup ids /\ DOMAIN owner = Tids(table)
      BY <2>1
    <3> QED
      BY <2>2, <3>1
  <2>8. Store!Owned(r) = {}
    <3>1. RowsOf(r) = {}
      BY <1>0, <1>1 DEF StageInv, Stage
    <3> QED
      BY <1>0, <3>1, OwnedIs DEF Tids
  <2>9. [s \in Request |-> View(s)][r] = "none"
    BY <1>0, <1>1, NotYetTold
  <2>10. /\ [s \in Request |-> View(s)]' = [s \in Request |-> View(s)]
         /\ [s \in Request |-> Ids(s)]' = [s \in Request |-> Ids(s)]
    BY <1>1 DEF View, Ids, Txns
  <2>11. ids \in SUBSET ([s \in Request |-> Ids(s)][r] \ Store!Stored)
    BY <2>2, <2>3, StoredIs
  <2> HIDE DEF ids, owner
  <2> QED
    BY <2>6, <2>7, <2>8, <2>9, <2>10, <2>11, StoredIs DEF Store!Store, owner
<1> QED
  BY <1>2, <1>3

\* An answer is told once, and changes nothing else.
LEMMA FinishTells ==
  ASSUME TypeOK, StageInv, NEW r \in Request, pc[r] # "done",
         NEW a \in AnswerType, Finish(r, a), UNCHANGED <<table, call>>,
         NEW claim, View(r)' = claim
  PROVE  Store!Tell(r, claim)
<1>1. [s \in Request |-> View(s)][r] = "none"
  BY NotYetTold
<1>2. [s \in Request |-> View(s)]' = [[s \in Request |-> View(s)] EXCEPT ![r] = claim]
  BY ViewTold
<1>3. UNCHANGED <<[s \in Request |-> Ids(s)], [t \in Tids(table) |-> OwnerOf(t)]>>
  BY DEF Ids, Txns, Tids, OwnerOf
<1> QED
  BY <1>1, <1>2, <1>3 DEF Store!Tell

\* An error claims nothing.
LEMMA ErrorTold ==
  ASSUME TypeOK, StageInv, NEW r \in Request, pc[r] # "done",
         NEW e \in Errors, Finish(r, Problem(500, e)), UNCHANGED <<table, call>>
  PROVE  Store!Fail(r)
<1>1. Problem(500, e) \in AnswerType
  BY ProblemTyped
<1>2. answer'[r].status = 500
  BY DEF Finish, Problem, TypeOK
<1>3. View(r)' = "failed"
  BY <1>2 DEF View
<1> QED
  BY <1>1, <1>3, FinishTells DEF Store!Fail

\* A 202 is told when every id of the request is stored.
LEMMA AcceptTold ==
  ASSUME TypeOK, StageInv, NEW r \in Request, pc[r] # "done", NEW n \in Nat, NEW m \in Nat,
         Finish(r, Accepted(n, m)), UNCHANGED <<table, call>>, Ids(r) \subseteq Tids(table)
  PROVE  Store!Accept(r)
<1>1. Accepted(n, m) \in AnswerType
  BY AcceptedTyped
<1>2. answer'[r].status = 202
  BY DEF Finish, Accepted, TypeOK
<1>3. View(r)' = "accepted"
  BY <1>2 DEF View
<1>4. Store!Tell(r, "accepted")
  BY <1>1, <1>3, FinishTells
<1> QED
  BY <1>4, StoredIs DEF Store!Accept

\* A request that has committed has all its ids stored, by itself or by others.
LEMMA CommittedAll ==
  ASSUME StoredInv, NEW r \in Request, pc[r] = "respond"
  PROVE  Ids(r) \subseteq Tids(table)
<1>1. /\ RowsOf(r) = built[r] /\ Scored(built[r]) = Fresh(r) /\ RowsFaithful(r)
      /\ existing[r] \subseteq Tids(table \ RowsOf(r))
  BY DEF StoredInv, StageInv, Stage, ReceiptInv, Receipt, ConflictStored
<1>2. Tids(built[r]) = Ids(r) \ existing[r]
  BY <1>1, FreshIds
<1>3. Tids(built[r]) \subseteq Tids(table) /\ existing[r] \subseteq Tids(table)
  BY <1>1 DEF Tids, RowsOf
<1> QED
  BY <1>2, <1>3

LEMMA StepImplements ==
  ASSUME StoredInv, StoredInv', NEW r \in Request, Step(r)
  PROVE  Store!Next \/ UNCHANGED Store!vars
<1>0. TypeOK /\ FiniteOK /\ StageInv /\ Stage(r)
  BY DEF StoredInv, TInv, StageInv
<1>1. CASE Refuse(r)
  <2>1. PICK code \in {401, 403} : Finish(r, Problem(code, "Refused"))
    BY <1>1 DEF Refuse
  <2>2. Problem(code, "Refused") \in AnswerType
    BY ProblemTyped DEF Errors
  <2>3. answer'[r].status \in {401, 403}
    BY <1>0, <2>1 DEF Finish, Problem, TypeOK
  <2>4. View(r)' = "refused"
    BY <2>3 DEF View
  <2>5. pc[r] = "auth" /\ UNCHANGED <<table, call>>
    BY <1>1 DEF Refuse
  <2>6. Store!Tell(r, "refused")
    BY <1>0, <2>1, <2>2, <2>4, <2>5, FinishTells
  <2>7. Store!Owned(r) = {}
    <3>1. RowsOf(r) = {}
      BY <1>0, <2>5 DEF Stage
    <3> QED
      BY <3>1, OwnedIs DEF StoredInv, KeyInv, Tids
  <2> QED
    BY <2>6, <2>7 DEF Store!Next, Store!Refuse
<1>2. CASE UniqueViolation(r) \/ DeadlockAbort(r) \/ Fail(r)
  <2>1. PICK e \in Errors : Finish(r, Problem(500, e))
    BY <1>2 DEF UniqueViolation, DeadlockAbort, Fail, Errors
  <2>2. UNCHANGED <<table, call>>
    BY <1>2 DEF UniqueViolation, DeadlockAbort, Fail
  <2>3. pc[r] # "done"
    BY <1>0, <1>2, WaitedFor DEF UniqueViolation, DeadlockAbort, Fail, InFlight
  <2> QED
    BY <1>0, <2>1, <2>2, <2>3, ErrorTold DEF Store!Next
<1>3. CASE CheckDuplicate(r)
  <2>1. pc[r] = "check" /\ UNCHANGED <<table, call>>
    BY <1>3 DEF CheckDuplicate
  <2>2. CASE UNCHANGED answer
    BY <2>1, <2>2, StoreStutters
  <2>3. CASE Finish(r, Problem(409, "Conflict")) /\ \A t \in Ids(r) : Known(t)
    <3>1. Problem(409, "Conflict") \in AnswerType
      BY ProblemTyped DEF Errors
    <3>2. answer'[r].status = 409
      BY <1>0, <2>3 DEF Finish, Problem, TypeOK
    <3>3. View(r)' = "conflict"
      BY <3>2 DEF View
    <3>4. Store!Tell(r, "conflict")
      BY <1>0, <2>1, <2>3, <3>1, <3>3, FinishTells
    <3>5. Store!Owned(r) = {}
      <4>1. RowsOf(r) = {}
        BY <1>0, <2>1 DEF Stage
      <4> QED
        BY <4>1, OwnedIs DEF StoredInv, KeyInv, Tids
    <3>6. Ids(r) \subseteq Store!Stored
      BY <2>3, StoredIs DEF Known, Stored
    <3> QED
      BY <3>4, <3>5, <3>6 DEF Store!Next, Store!Conflict
  <2> QED
    BY <1>3, <2>2, <2>3 DEF CheckDuplicate
<1>4. CASE SelectExisting(r)
  <2> DEFINE known == {t \in Ids(r) : Known(t)}
  <2>1. pc[r] = "check" /\ UNCHANGED <<table, call>>
    BY <1>4 DEF SelectExisting
  <2>2. CASE UNCHANGED answer
    BY <2>1, <2>2, StoreStutters
  <2>3. CASE known = Ids(r) /\ Finish(r, Accepted(0, Cardinality(known)))
    <3>1. Cardinality(known) \in Nat
      BY <1>0, <2>3, IdsTyped, FS_CardinalityType
    <3>2. Ids(r) \subseteq Tids(table)
      BY <2>3 DEF Known, Stored
    <3> QED
      BY <1>0, <2>1, <2>3, <3>1, <3>2, AcceptTold DEF Store!Next
  <2> QED
    BY <1>4, <2>2, <2>3 DEF SelectExisting
<1>5. CASE RespondIngest(r)
  <2>1. pc[r] = "respond" /\ UNCHANGED <<table, call>>
    BY <1>5 DEF RespondIngest
  <2>2. CASE Finish(r, Problem(500, "ResponseValidationError"))
    BY <1>0, <2>1, <2>2, ErrorTold DEF Store!Next, Errors
  <2>3. CASE Finish(r, Accepted(1, 0))
    BY <1>0, <2>1, <2>3, AcceptTold, CommittedAll DEF Store!Next
  <2> QED
    BY <1>5, <2>2, <2>3 DEF RespondIngest
<1>6. CASE RespondBatch(r)
  <2>1. /\ pc[r] = "respond" /\ UNCHANGED <<table, call>>
        /\ Finish(r, Accepted(Cardinality(built[r]), Cardinality(existing[r])))
    BY <1>6 DEF RespondBatch
  <2>2. Cardinality(built[r]) \in Nat /\ Cardinality(existing[r]) \in Nat
    BY <1>0, FS_CardinalityType DEF FiniteOK
  <2> QED
    BY <1>0, <2>1, <2>2, AcceptTold, CommittedAll DEF Store!Next
<1>7. CASE CommitRows(r)
  BY <1>7, CommitStores DEF Store!Next
<1>8. CASE \/ Arrive(r) \/ Authenticate(r) \/ ScoreRow(r) \/ ExplainRow(r) \/ InsertRow(r)
           \/ Refresh(r) \/ RecordTime(r) \/ Crash(r)
  <2>1. UNCHANGED <<table, call, answer>>
    BY <1>8 DEF Arrive, Authenticate, ScoreRow, ExplainRow, InsertRow, Refresh, RecordTime,
       Crash
  <2> QED
    BY <2>1, StoreStutters
<1> QED
  BY <1>1, <1>2, <1>3, <1>4, <1>5, <1>6, <1>7, <1>8 DEF Step, Progress

LEMMA NextImplements == StoredInv /\ StoredInv' /\ [Next]_vars => [Store!Next]_(Store!vars)
<1> SUFFICES ASSUME StoredInv, StoredInv', [Next]_vars
             PROVE  Store!Next \/ UNCHANGED Store!vars
  OBVIOUS
<1>1. CASE Tick \/ UNCHANGED vars
  <2>1. UNCHANGED <<table, call, answer>>
    BY <1>1 DEF Tick, vars
  <2> QED
    BY <2>1, StoreStutters
<1>2. ASSUME NEW r \in Request, Step(r) PROVE Store!Next \/ UNCHANGED Store!vars
  BY <1>2, StepImplements
<1> QED
  BY <1>1, <1>2 DEF Next, Step

LEMMA InitImplements == Init => Store!Init
<1> SUFFICES ASSUME Init PROVE Store!Init
  OBVIOUS
<1>1. \A r \in Request : Ids(r) \subseteq TxnId
  BY TInvInit, IdsTyped DEF TInv
<1>2. Tids(table) = {}
  BY DEF Init, Tids
<1>3. \A r \in Request : View(r) = "none"
  BY DEF Init, View, NoAnswer
<1> QED
  BY <1>1, <1>2, <1>3 DEF Store!Init

\* The service implements the write-once map: whatever is interleaved, lost or
\* aborted, its steps store ids atomically, once, for one owner, before the
\* owner is answered, and no answer claims what the map does not hold.
THEOREM IngestImplementsStore == Spec => ImplementsStore
<1> QED
  BY StoredInvInit, StoredInvStep, InitImplements, NextImplements, PTL
     DEF Spec, ImplementsStore, Store!Spec
=============================================================================
