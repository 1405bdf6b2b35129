-------------------------------- MODULE Stats --------------------------------
(***************************************************************************)
(* GET /transactions/stats/summary: four statements at READ COMMITTED over *)
(* the rows of the last hours, while requests of Ingest commit rows and    *)
(* the clock goes on.  The start of the period is fixed before the first.  *)
(*                                                                         *)
(* A row is a record with the transaction's time (in hours), type, status  *)
(* and is_fraud; statistics change nothing, so that one request is enough. *)
(***************************************************************************)
EXTENDS Integers, FiniteSets

CONSTANTS
  Rows,      \* the rows that requests may commit
  Hours,     \* the periods a client may ask for
  Clock      \* bound: the values of the clock, in hours

VARIABLES
  table,      \* the committed rows
  now,        \* the clock of the service
  pc,         \* the next statement
  start,      \* start_time
  total,      \* total_count
  byType,     \* the count of each transaction_type
  byStatus,   \* the count of each status
  fraud       \* fraud_count

vars == <<table, now, pc, start, total, byType, byStatus, fraud>>

-----------------------------------------------------------------------------
(* Statements *)

\* A plausible bug: the instant a period starts at is left out.
SinceAfter(rows, time) == {row \in rows : row.time > time}

\* WHERE transaction_time >= start_time.
Since(rows, time) == {row \in rows : row.time >= time}

\* SELECT column, count(*) ... GROUP BY column.
GroupedBy(rows, column) ==
  [value \in {row[column] : row \in rows} |->
     Cardinality({row \in rows : row[column] = value})]

\* What the groups count together.
Sum(groups) == Cardinality(UNION {{value} \X (1..groups[value]) : value \in DOMAIN groups})

-----------------------------------------------------------------------------
(* Steps *)

Init ==
  /\ table \in SUBSET Rows
  /\ now \in Clock
  /\ pc = "totals"
  /\ start \in {now - hours : hours \in Hours}
  /\ total = 0
  /\ byType = [value \in {} |-> 0]
  /\ byStatus = [value \in {} |-> 0]
  /\ fraud = 0

\* An ingest or a batch commits: all its rows at once.
Commit ==
  /\ \E new \in (SUBSET (Rows \ table)) \ {{}} : table' = table \cup new
  /\ UNCHANGED <<now, pc, start, total, byType, byStatus, fraud>>

Tick ==
  /\ now' \in Clock
  /\ now' > now
  /\ UNCHANGED <<table, pc, start, total, byType, byStatus, fraud>>

SelectTotals ==
  /\ pc = "totals"
  /\ pc' = "by_type"
  /\ total' = Cardinality(Since(table, start))
  /\ UNCHANGED <<table, now, start, byType, byStatus, fraud>>

\* A plausible bug: the period is computed again, with the clock's new value.
SelectByTypeAgain ==
  /\ pc = "by_type"
  /\ pc' = "by_status"
  /\ byType' = GroupedBy(Since(table, IF now > start + 1 THEN now - 1 ELSE start), "type")
  /\ UNCHANGED <<table, now, start, total, byStatus, fraud>>

SelectByType ==
  /\ pc = "by_type"
  /\ pc' = "by_status"
  /\ byType' = GroupedBy(Since(table, start), "type")
  /\ UNCHANGED <<table, now, start, total, byStatus, fraud>>

SelectByStatus ==
  /\ pc = "by_status"
  /\ pc' = "fraud"
  /\ byStatus' = GroupedBy(Since(table, start), "status")
  /\ UNCHANGED <<table, now, start, total, byType, fraud>>

\* The last statement, and the answer.
SelectFraud ==
  /\ pc = "fraud"
  /\ pc' = "answered"
  /\ fraud' = Cardinality({row \in Since(table, start) : row.is_fraud})
  /\ UNCHANGED <<table, now, start, total, byType, byStatus>>

Next == Commit \/ Tick \/ SelectTotals \/ SelectByType \/ SelectByStatus \/ SelectFraud

Spec == Init /\ [][Next]_vars

-----------------------------------------------------------------------------
(* Properties *)

\* The figures of one answer are ordered as their statements are: the groups
\* by type are at least the total, those by status at least those by type.
\* It takes a table that only grows and one period for the four statements.
FiguresOrdered ==
  pc = "answered" => total <= Sum(byType) /\ Sum(byType) <= Sum(byStatus)

=============================================================================
