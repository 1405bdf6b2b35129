------------------------------- MODULE Ingest -------------------------------
(***************************************************************************)
(* POST /transactions/ingest and POST /transactions/batch: requests served *)
(* concurrently by the workers of the API over one PostgreSQL table.       *)
(*                                                                         *)
(* A request runs alone between two database calls and is interleaved with *)
(* the others at each of them: an action is the code from one await of the *)
(* database to the next.  Statements run at READ COMMITTED, the default of *)
(* the engine of db/session.py: they read what is committed when they run. *)
(* An INSERT whose key another transaction has inserted and not committed  *)
(* waits for that transaction; PostgreSQL breaks a cycle of such waits.    *)
(*                                                                         *)
(* A session takes a connection of the pool with its first statement and   *)
(* gives it back when it commits, rolls back or closes.                    *)
(***************************************************************************)
EXTENDS FraudRules, Sequences

CONSTANTS
  Request,    \* the HTTP requests
  TxnId,      \* the external transaction ids
  Customer,   \* the customers
  Calls,      \* the bodies a request may carry
  Instants,   \* the values of the clock, in minutes
  PoolSize    \* DATABASE_POOL_SIZE (DATABASE_MAX_OVERFLOW is 0)

CallType ==
  [kind : {"ingest", "batch"}, txns : Seq(PayloadType(TxnId, Customer))]

ASSUME CallsAssumption ==
  /\ Calls \subseteq CallType
  /\ \A c \in Calls : /\ Len(c.txns) \in 1..1000
                      /\ c.kind = "ingest" => Len(c.txns) = 1

ASSUME InstantsAssumption == Instants \subseteq Nat /\ Instants # {}

ASSUME PoolAssumption == PoolSize \in Nat \ {0}

VARIABLES
  table,     \* the committed rows of the transactions table
  timed,     \* the ids of the rows whose processing_time_ms is set
  now,       \* the clock of the service
  call,      \* the body of each request
  pc,        \* where each request is
  existing,  \* existing_ids of create_batch
  built,     \* the Transaction objects a request has made (to_insert)
  flushed,   \* those it has inserted in its open database transaction
  answer,    \* the response
  before     \* history: the ids stored, and the time, when the request arrived

vars == <<table, timed, now, call, pc, existing, built, flushed, answer, before>>

-----------------------------------------------------------------------------
(* What the state says *)

Ingest(r) == call[r].kind = "ingest"
Txns(r)   == call[r].txns
Ids(r)    == {Txns(r)[i].tid : i \in DOMAIN Txns(r)}

Tids(rows)   == {row.txn.tid : row \in rows}
RowsOf(r)    == {row \in table : row.owner = r}
Stored(t)    == t \in Tids(table)

RowType ==
  [ owner  : Request,
    pos    : Nat \ {0},
    txn    : PayloadType(TxnId, Customer),
    score  : 0..10,
    status : {"pending", "flagged"},
    reason : SUBSET AllReasons ]

Errors == { "none", "Refused", "Conflict", "IntegrityError", "DeadlockDetected",
            "DBError", "ResponseValidationError" }

AnswerType ==
  [status : {0, 202, 401, 403, 409, 500}, error : Errors, accepted : Nat, duplicates : Nat]

NoAnswer           == [status |-> 0, error |-> "none", accepted |-> 0, duplicates |-> 0]
Problem(code, e)   == [status |-> code, error |-> e, accepted |-> 0, duplicates |-> 0]
Accepted(n, dups)  == [status |-> 202, error |-> "none", accepted |-> n, duplicates |-> dups]

Places == { "idle", "auth", "check", "score", "reason", "flush", "commit",
            "refresh", "time", "respond", "done", "lost" }

InFlight == Places \ {"idle", "done", "lost"}

\* A plausible bug: the session of an answered request is never closed.
LeakedPlaces == {"check", "score", "reason", "flush", "commit", "time", "done"}

\* Where a request has a connection: from its first statement to a commit, and
\* from the first refresh to the second commit.
HoldingPlaces == {"check", "score", "reason", "flush", "commit", "time"}

FreeConnection == Cardinality({q \in Request : pc[q] \in HoldingPlaces}) < PoolSize

-----------------------------------------------------------------------------
(* Helpers of the service *)

\* A plausible bug: the window is half an hour.
CountHalfHour(rows, c, m) ==
  Cardinality({row \in rows : row.txn.customer = c /\ row.txn.time >= m - 30})

\* A plausible bug: the lower bound of the window is forgotten.
CountAll(rows, c, m) == Cardinality({row \in rows : row.txn.customer = c})

\* get_customer_transaction_count(c, minutes=60) at time m.
RecentCount(rows, c, m) ==
  Cardinality({row \in rows : row.txn.customer = c /\ row.txn.time >= m - 60})

\* A plausible bug: the existence check sees what others have only flushed.
DirtyKnown(t) == Stored(t) \/ \E q \in Request : t \in Tids(flushed[q])

\* _is_duplicate, and the SELECT ... IN of create_batch, for one id.
Known(t) == Stored(t)

\* The positions create_batch does not skip.
Fresh(r) == {i \in DOMAIN Txns(r) : Txns(r)[i].tid \notin existing[r]}

\* A Transaction built and scored from payload i, n being the count it read.
NewRow(r, i, n) ==
  LET s == Score(Txns(r)[i], n)
  IN [ owner |-> r, pos |-> i, txn |-> Txns(r)[i], score |-> s,
       status |-> IF Flags(s) THEN "flagged" ELSE "pending", reason |-> {} ]

Scored(rows) == {row.pos : row \in rows}

\* The loop goes on until every fresh payload has its row.
AfterRow(r, rows) == IF Fresh(r) = Scored(rows) THEN "flush" ELSE "score"

-----------------------------------------------------------------------------
(* The database *)

\* The row an open flush inserts next: the unit of work keeps their order.
NextToInsert(r, row) ==
  /\ row \in built[r] \ flushed[r]
  /\ \A other \in built[r] \ flushed[r] : row.pos <= other.pos

\* A plausible bug: transaction_id has an index that is not unique.
TakenByPrimaryKeyOnly(r, t) == FALSE

\* The unique index on transaction_id refuses a second row with the same key.
Taken(r, t) == Stored(t) \/ t \in Tids(flushed[r])

\* Whose uncommitted row has the key: the INSERT waits for their outcome.
HoldersOf(r, t) == {q \in Request \ {r} : t \in Tids(flushed[q])}

WaitsFor(r) ==
  IF pc[r] # "flush" THEN {}
  ELSE {q \in Request : \E row \in built[r] :
          /\ NextToInsert(r, row)
          /\ ~Taken(r, row.txn.tid)
          /\ q \in HoldersOf(r, row.txn.tid)}

\* A transaction waits for one other at most, so that a set which is exactly
\* what its members wait for is made of cycles.
InWaitCycle(r) ==
  \E C \in SUBSET Request : r \in C /\ C = UNION {WaitsFor(q) : q \in C}

-----------------------------------------------------------------------------
(* Steps of a request *)

Init ==
  /\ table = {}
  /\ timed = {}
  /\ now \in Instants
  /\ call \in [Request -> Calls]
  /\ pc = [r \in Request |-> "idle"]
  /\ existing = [r \in Request |-> {}]
  /\ built = [r \in Request |-> {}]
  /\ flushed = [r \in Request |-> {}]
  /\ answer = [r \in Request |-> NoAnswer]
  /\ before = [r \in Request |-> [ids |-> {}, time |-> now]]

Goto(r, place) == pc' = [pc EXCEPT ![r] = place]

\* The response is made and get_db closes the session: what was flushed and
\* not committed is rolled back.
Finish(r, a) ==
  /\ Goto(r, "done")
  /\ answer' = [answer EXCEPT ![r] = a]
  /\ flushed' = [flushed EXCEPT ![r] = {}]

\* The body is a valid TransactionCreate or TransactionBatchCreate.
Arrive(r) ==
  /\ pc[r] = "idle"
  /\ Goto(r, "auth")
  /\ before' = [before EXCEPT ![r] = [ids |-> Tids(table), time |-> now]]
  /\ UNCHANGED <<table, timed, now, call, existing, built, flushed, answer>>

\* get_current_user reads the user: the session has a connection from here.
Authenticate(r) ==
  /\ pc[r] = "auth"
  /\ FreeConnection
  /\ Goto(r, "check")
  /\ UNCHANGED <<table, timed, now, call, existing, built, flushed, answer, before>>

\* The token is refused, or its user is unknown or inactive.
Refuse(r) ==
  /\ pc[r] = "auth"
  /\ \E code \in {401, 403} : Finish(r, Problem(code, "Refused"))
  /\ UNCHANGED <<table, timed, now, call, existing, built, before>>

\* create_transaction, step 1.
CheckDuplicate(r) ==
  /\ pc[r] = "check"
  /\ Ingest(r)
  /\ \/ /\ \A t \in Ids(r) : Known(t)
        /\ Finish(r, Problem(409, "Conflict"))
     \/ /\ \A t \in Ids(r) : ~Known(t)
        /\ Goto(r, "score")
        /\ UNCHANGED <<answer, flushed>>
  /\ UNCHANGED <<table, timed, now, call, existing, built, before>>

\* create_batch up to its loop; when nothing is fresh it answers at once.
SelectExisting(r) ==
  /\ pc[r] = "check"
  /\ ~Ingest(r)
  /\ LET known == {t \in Ids(r) : Known(t)}
     IN /\ existing' = [existing EXCEPT ![r] = known]
        /\ \/ /\ known = Ids(r)
              /\ Finish(r, Accepted(0, Cardinality(known)))
           \/ /\ known # Ids(r)
              /\ Goto(r, "score")
              /\ UNCHANGED <<answer, flushed>>
  /\ UNCHANGED <<table, timed, now, call, built, before>>

\* The next payload of the loop (the only one of an ingest) is scored with a
\* count of the customer's committed rows.
ScoreRow(r) ==
  /\ pc[r] = "score"
  /\ \E i \in Fresh(r) \ Scored(built[r]) :
       /\ \A j \in Fresh(r) \ Scored(built[r]) : i <= j
       /\ LET row  == NewRow(r, i, RecentCount(table, Txns(r)[i].customer, now))
              rows == built[r] \cup {row}
          IN /\ built' = [built EXCEPT ![r] = rows]
             /\ Goto(r, IF Flags(row.score) THEN "reason" ELSE AfterRow(r, rows))
  /\ UNCHANGED <<table, timed, now, call, existing, flushed, answer, before>>

\* A flagged row is explained with a count of its own.
ExplainRow(r) ==
  /\ pc[r] = "reason"
  /\ \E row \in built[r] :
       /\ Flags(row.score) /\ row.reason = {}
       /\ LET n == RecentCount(table, row.txn.customer, now)
          IN built' = [built EXCEPT ![r] =
               (@ \ {row}) \cup {[row EXCEPT !.reason = Reasons(row.txn, n)]}]
  /\ Goto(r, AfterRow(r, built[r]))
  /\ UNCHANGED <<table, timed, now, call, existing, flushed, answer, before>>

\* A plausible bug: the engine is set to AUTOCOMMIT.
InsertRowAutocommit(r) ==
  /\ pc[r] = "flush"
  /\ \E row \in built[r] :
       /\ NextToInsert(r, row)
       /\ ~Taken(r, row.txn.tid)
       /\ table' = table \cup {row}
       /\ flushed' = [flushed EXCEPT ![r] = @ \cup {row}]
       /\ Goto(r, IF flushed'[r] = built[r] THEN "commit" ELSE "flush")
  /\ UNCHANGED <<timed, now, call, existing, built, answer, before>>

\* The flush of the first commit inserts a row.
InsertRow(r) ==
  /\ pc[r] = "flush"
  /\ \E row \in built[r] :
       /\ NextToInsert(r, row)
       /\ ~Taken(r, row.txn.tid)
       /\ HoldersOf(r, row.txn.tid) = {}
       /\ flushed' = [flushed EXCEPT ![r] = @ \cup {row}]
       /\ Goto(r, IF flushed'[r] = built[r] THEN "commit" ELSE "flush")
  /\ UNCHANGED <<table, timed, now, call, existing, built, answer, before>>

\* The index refuses a row: nothing catches IntegrityError before main.py.
UniqueViolation(r) ==
  /\ pc[r] = "flush"
  /\ \E row \in built[r] : NextToInsert(r, row) /\ Taken(r, row.txn.tid)
  /\ Finish(r, Problem(500, "IntegrityError"))
  /\ UNCHANGED <<table, timed, now, call, existing, built, before>>

\* PostgreSQL makes one of the transactions of a cycle fail.
DeadlockAbort(r) ==
  /\ InWaitCycle(r)
  /\ Finish(r, Problem(500, "DeadlockDetected"))
  /\ UNCHANGED <<table, timed, now, call, existing, built, before>>

\* The first commit; an ingest goes on to refresh its object.
CommitRows(r) ==
  /\ pc[r] = "commit"
  /\ table' = table \cup flushed[r]
  /\ flushed' = [flushed EXCEPT ![r] = {}]
  /\ Goto(r, IF Ingest(r) THEN "refresh" ELSE "respond")
  /\ UNCHANGED <<timed, now, call, existing, built, answer, before>>

\* The first refresh opens the transaction of the second commit.
Refresh(r) ==
  /\ pc[r] = "refresh"
  /\ FreeConnection
  /\ Goto(r, "time")
  /\ UNCHANGED <<table, timed, now, call, existing, built, flushed, answer, before>>

\* A plausible bug: the second commit is dropped, and the refresh that follows
\* reads the row without its processing time.
RecordTimeUncommitted(r) ==
  /\ pc[r] = "time"
  /\ Goto(r, "respond")
  /\ UNCHANGED <<table, timed, now, call, existing, built, flushed, answer, before>>

\* The second commit stores processing_time_ms.
RecordTime(r) ==
  /\ pc[r] = "time"
  /\ timed' = timed \cup Ids(r)
  /\ Goto(r, "respond")
  /\ UNCHANGED <<table, now, call, existing, built, flushed, answer, before>>

\* The second refresh, and TransactionResponse made of the stored row: its
\* transaction_metadata may not be null, that of TransactionCreate may.
RespondIngest(r) ==
  /\ pc[r] = "respond"
  /\ Ingest(r)
  /\ FreeConnection
  /\ Finish(r, IF Txns(r)[1].metadata = "null"
               THEN Problem(500, "ResponseValidationError")
               ELSE Accepted(1, 0))
  /\ UNCHANGED <<table, timed, now, call, existing, built, before>>

\* The plain dict of create_batch.
RespondBatch(r) ==
  /\ pc[r] = "respond"
  /\ ~Ingest(r)
  /\ Finish(r, Accepted(Cardinality(built[r]), Cardinality(existing[r])))
  /\ UNCHANGED <<table, timed, now, call, existing, built, before>>

-----------------------------------------------------------------------------
(* What happens to a request *)

\* A statement fails, no connection comes free within the pool's timeout, or
\* the acknowledgement of a commit is lost: get_db rolls back, main.py answers.
Fail(r) ==
  /\ pc[r] \in InFlight
  /\ Finish(r, Problem(500, "DBError"))
  /\ UNCHANGED <<table, timed, now, call, existing, built, before>>

\* The worker process dies: the client has no answer, PostgreSQL rolls back.
Crash(r) ==
  /\ pc[r] \in InFlight
  /\ Goto(r, "lost")
  /\ flushed' = [flushed EXCEPT ![r] = {}]
  /\ UNCHANGED <<table, timed, now, call, existing, built, answer, before>>

Tick ==
  /\ now' \in Instants
  /\ now' > now
  /\ UNCHANGED <<table, timed, call, pc, existing, built, flushed, answer, before>>

\* What the event loop and the database do by themselves for a request.
Progress(r) ==
  \/ Authenticate(r) \/ CheckDuplicate(r) \/ SelectExisting(r)
  \/ ScoreRow(r) \/ ExplainRow(r) \/ InsertRow(r) \/ UniqueViolation(r)
  \/ DeadlockAbort(r) \/ CommitRows(r) \/ Refresh(r) \/ RecordTime(r)
  \/ RespondIngest(r) \/ RespondBatch(r)

Next ==
  \/ \E r \in Request : Arrive(r) \/ Refuse(r) \/ Progress(r) \/ Fail(r) \/ Crash(r)
  \/ Tick

Spec == Init /\ [][Next]_vars

Fairness == \A r \in Request : WF_vars(Progress(r))

FairSpec == Spec /\ Fairness

-----------------------------------------------------------------------------
(* Properties *)

\* Types of the state.  Scores are tenths between 0 and 10: the cap of
\* _calculate_fraud_score is what keeps them there.
TypeOK ==
  /\ table \subseteq RowType
  /\ timed \subseteq TxnId
  /\ now \in Instants
  /\ call \in [Request -> Calls]
  /\ pc \in [Request -> Places]
  /\ existing \in [Request -> SUBSET TxnId]
  /\ built \in [Request -> SUBSET RowType]
  /\ flushed \in [Request -> SUBSET RowType]
  /\ answer \in [Request -> AnswerType]
  /\ before \in [Request -> [ids : SUBSET TxnId, time : Instants]]

\* An external id is stored once, whatever the interleaving of the existence
\* checks of create_transaction and create_batch with the commits of others:
\* the check alone is a race, the unique index closes it.
StoredOnce ==
  \A row1, row2 \in table : row1.txn.tid = row2.txn.tid => row1 = row2

\* A 202 says what was stored.  For an ingest its row is committed and carries
\* its processing time; for a batch every id it named is stored, by itself or
\* by another, and accepted and duplicates count these two kinds exactly.
ReceiptHonest ==
  \A r \in Request : answer[r].status = 202 =>
    /\ RowsOf(r) = built[r]
    /\ Ids(r) \subseteq Tids(table)
    /\ Ingest(r) => RowsOf(r) # {} /\ Ids(r) \subseteq timed
    /\ ~Ingest(r) => /\ answer[r].accepted = Cardinality(Tids(RowsOf(r)))
                     /\ answer[r].duplicates = Cardinality(Ids(r) \ Tids(RowsOf(r)))

\* A request stores all its fresh payloads or none, whichever of its
\* statements fails and wherever its worker dies; a refusal stores nothing.
AllOrNothing ==
  \A r \in Request :
    /\ RowsOf(r) # {} => RowsOf(r) = built[r] /\ Scored(built[r]) = Fresh(r)
    /\ answer[r].error \in {"Refused", "Conflict", "IntegrityError", "DeadlockDetected"}
         => RowsOf(r) = {}

\* A 409, or an id a batch skips as a duplicate, is never an id whose first
\* writer may still roll back: it is stored, by another request.
ConflictStored ==
  \A r \in Request :
    /\ answer[r].status = 409 => Ids(r) \subseteq Tids(table \ RowsOf(r))
    /\ existing[r] \subseteq Tids(table \ RowsOf(r))

\* How many rows a customer has within the hour before m.
WithinHour(rows, c, m) ==
  Cardinality({row \in rows : row.txn.customer = c /\ m - row.txn.time <= 60})

\* The velocity rule, in a score or in a reason, is only applied to a customer
\* that other requests had stored five payloads of, within an hour before some
\* time at which the request was running.
VelocityJustified ==
  \A row \in table :
    row.score # Score(row.txn, 0) \/ "high_velocity" \in row.reason =>
      \E m \in Instants :
        /\ before[row.owner].time <= m /\ m <= now
        /\ WithinHour(table \ RowsOf(row.owner), row.txn.customer, m) >= 5

\* Five payloads of the customer that were stored before the request arrived,
\* and are still within the hour now, are never overlooked.
VelocityNotMissed ==
  \A row \in table :
    LET known == {other \in table : other.txn.tid \in before[row.owner].ids}
    IN WithinHour(known, row.txn.customer, now) >= 5
         => row.score = Score(row.txn, 5)

\* A row is flagged exactly from 0.7 and only then explained.  The reasons are
\* the rules that hold for the payload, and the velocity rule may be missing
\* from those of a row it was counted for only when the clock has moved since
\* the request arrived: the rows the first count saw can only leave the window.
ReasonFits ==
  \A row \in table :
    /\ row.status = "flagged" <=> Flags(row.score)
    /\ row.reason # {} <=> Flags(row.score)
    /\ row.reason # {} /\ ~row.txn.is_fraud =>
         /\ row.reason \ {"high_velocity"} = FiredRules(row.txn, 0)
         /\ "high_velocity" \notin row.reason /\ row.score # Score(row.txn, 0)
              => before[row.owner].time < now

\* The tenths that rules add up to, each of them a pair of its own.
Tenths(names) == UNION {{name} \X (1..Weight[name]) : name \in names}

SumOfWeights(names) == Cardinality(Tenths(names))

\* What others did for the customer of a row while its request was running.
Overtaken(row) ==
  \/ before[row.owner].time < now
  \/ \E other \in table \ RowsOf(row.owner) :
       /\ other.txn.customer = row.txn.customer
       /\ other.txn.tid \notin before[row.owner].ids

\* The score and the reasons of a row come from two reads of the table and two
\* copies of the rules.  The reasons are always rules, never the fallback, and
\* their weights miss the score by those of the velocity rule at most; they add
\* up to it, capped at 1.0, unless time has passed or others have stored
\* payloads of the customer since the request arrived.
ReasonsAddUp ==
  \A row \in table : row.reason # {} /\ ~row.txn.is_fraud =>
    LET sum == SumOfWeights(row.reason)
    IN /\ row.reason \subseteq RuleNames
       /\ sum - row.score \in -3..3
       /\ \/ row.score = IF sum > 10 THEN 10 ELSE sum
          \/ Overtaken(row)

\* Every request that reached the service is answered, unless its worker died:
\* waits for a connection or for another transaction's key come to an end.
Answered ==
  \A r \in Request : pc[r] = "auth" ~> pc[r] \in {"done", "lost"}

-----------------------------------------------------------------------------
(* What the documentation and the schemas say, and the code does not do *)

\* create_transaction's docstring: "Idempotency check (duplicate
\* transaction_id -> 409)".  An ingest never fails on the unique index.
DuplicateIs409 ==
  \A r \in Request : Ingest(r) => answer[r].error # "IntegrityError"

\* test_batch_skips_duplicates: a batch skips the ids it finds twice and
\* stores the others.
BatchSkipsDuplicates ==
  \A r \in Request : ~Ingest(r) => answer[r].error # "IntegrityError"

\* TransactionCreate takes a null transaction_metadata, and the route promises
\* 202 for a body the schema takes: a stored payload is not answered by an
\* error of its own response.
StoredIsAccepted ==
  \A r \in Request : answer[r].error # "ResponseValidationError"
=============================================================================
