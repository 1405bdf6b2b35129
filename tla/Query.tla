-------------------------------- MODULE Query --------------------------------
(***************************************************************************)
(* GET /transactions/: a client reads the transactions page by page while  *)
(* requests of Ingest commit rows.                                         *)
(*                                                                         *)
(* Readers change nothing, so that one client is enough.  Each request is  *)
(* two statements at READ COMMITTED, the page and then the count: commits  *)
(* happen before, between and after them.  Rows are never deleted, and the *)
(* one column ever updated, processing_time_ms, is in no filter.           *)
(***************************************************************************)
EXTENDS Integers, Sequences, SequencesExt

CONSTANTS
  Rows,       \* the rows that requests may commit
  Filters,    \* the filters a client may ask for
  Limits,     \* the page sizes a client may ask for
  PageCap     \* the largest page served (1000 in the code)

EqualityKeys == {"transaction_type", "customer_id", "merchant_id", "is_fraud", "status_filter"}
RangeKeys    == {"start_time", "end_time", "min_amount", "max_amount", "min_fraud_score"}

ASSUME RowsAssumption == IsFiniteSet(Rows) /\ \A row \in Rows : row.time \in Int

ASSUME FiltersAssumption ==
  \A f \in Filters : DOMAIN f \subseteq EqualityKeys \cup RangeKeys

\* The endpoint takes any limit.
ASSUME LimitsAssumption == Limits \subseteq Int /\ PageCap \in Nat \ {0}

VARIABLES
  table,     \* the committed rows
  pc,        \* where the client's current request is
  filter,    \* the query parameters, kept for all the pages
  limit,
  stride,    \* how the client goes on: by "rows" or by the "limit"
  offset,
  page,      \* the rows of the last page
  total,     \* the count that came with it
  fetched,   \* the rows of all the pages, in the order they came
  base       \* history: the rows committed when the first page was read

vars == <<table, pc, filter, limit, stride, offset, page, total, fetched, base>>

-----------------------------------------------------------------------------
(* Filters and pages *)

\* A criterion of _build_filters.  A null merchant equals nothing.
Meets(row, key, value) ==
  CASE key = "transaction_type" -> row.type = value
    [] key = "customer_id"      -> row.customer = value
    [] key = "merchant_id"      -> row.merchant = value
    [] key = "is_fraud"         -> row.is_fraud = value
    [] key = "status_filter"    -> row.status = value
    [] key = "start_time"       -> row.time >= value
    [] key = "end_time"         -> row.time <= value
    [] key = "min_amount"       -> row.amount >= value
    [] key = "max_amount"       -> row.amount <= value
    [] key = "min_fraud_score"  -> row.score >= value

\* All the given criteria hold; a parameter that is None is not in DOMAIN f.
Matching(rows, f) == {row \in rows : \A key \in DOMAIN f : Meets(row, key, f[key])}

\* A plausible bug: ORDER BY is lost.
AnyOrder(rows) == SetToSeqs(rows)

\* ORDER BY transaction_time DESC: rows of equal time come in any order, and
\* not in the same one each time.
Orders(rows) ==
  {order \in SetToSeqs(rows) :
     \A i, j \in DOMAIN order : i < j => order[i].time >= order[j].time}

Least(m, n) == IF m < n THEN m ELSE n

\* A plausible bug: OFFSET is taken for the position of the first row.
PageFromOffset(order, lim, off) ==
  SubSeq(order, IF off = 0 THEN 1 ELSE off, Least(off + Least(lim, PageCap), Len(order)))

\* LIMIT min(limit, 1000) OFFSET offset.
PageOf(order, lim, off) ==
  SubSeq(order, off + 1, Least(off + Least(lim, PageCap), Len(order)))

-----------------------------------------------------------------------------
(* Steps *)

Init ==
  /\ table \in SUBSET Rows
  /\ pc = "page"
  /\ filter \in Filters
  /\ limit \in Limits
  /\ stride \in {"rows", "limit"}
  /\ offset = 0
  /\ page = <<>>
  /\ total = 0
  /\ fetched = <<>>
  /\ base = {}

\* An ingest or a batch commits: all its rows at once.
Commit ==
  /\ \E new \in (SUBSET (Rows \ table)) \ {{}} : table' = table \cup new
  /\ UNCHANGED <<pc, filter, limit, stride, offset, page, total, fetched, base>>

\* A plausible bug: the count is read before the page.
CountFirst ==
  /\ pc = "page"
  /\ limit >= 0
  /\ pc' = "answered"
  /\ \E more \in SUBSET (Rows \ table) :
       \E order \in Orders(Matching(table \cup more, filter)) :
         /\ table' = table \cup more
         /\ page' = PageOf(order, limit, offset)
  /\ total' = Cardinality(Matching(table, filter))
  /\ base' = IF offset = 0 THEN table ELSE base
  /\ UNCHANGED <<filter, limit, stride, offset, fetched>>

\* The first statement of list_transactions.
SelectPage ==
  /\ pc = "page"
  /\ limit >= 0
  /\ pc' = "count"
  /\ \E order \in Orders(Matching(table, filter)) : page' = PageOf(order, limit, offset)
  /\ base' = IF offset = 0 THEN table ELSE base
  /\ UNCHANGED <<table, filter, limit, stride, offset, total, fetched>>

\* PostgreSQL refuses a negative LIMIT: the list fails.
RefusePage ==
  /\ pc = "page"
  /\ limit < 0
  /\ pc' = "failed"
  /\ UNCHANGED <<table, filter, limit, stride, offset, page, total, fetched, base>>

\* The second statement, and the response: a row with null metadata does not
\* fit TransactionResponse, and the list fails with it.
SelectCount ==
  /\ pc = "count"
  /\ total' = Cardinality(Matching(table, filter))
  /\ pc' = IF \E i \in DOMAIN page : page[i].metadata = "null" THEN "failed" ELSE "answered"
  /\ UNCHANGED <<table, filter, limit, stride, offset, page, fetched, base>>

\* How far the client goes on: the answer has the rows, and repeats the limit.
Step == IF stride = "rows" THEN Len(page) ELSE limit

\* The client goes on until there are no rows or it is as far as the total.
NextPage ==
  /\ pc = "answered"
  /\ fetched' = fetched \o page
  /\ offset' = offset + Step
  /\ pc' = IF page = <<>> \/ offset + Step >= total THEN "done" ELSE "page"
  /\ UNCHANGED <<table, filter, limit, stride, page, total, base>>

Next == Commit \/ SelectPage \/ RefusePage \/ SelectCount \/ NextPage

Spec == Init /\ [][Next]_vars

-----------------------------------------------------------------------------
(* Properties *)

\* The total that comes with a page is never less than what the client has
\* been shown by its positions: it is read after the page, of a table that
\* only grows.
TotalCoversPage ==
  pc = "answered" /\ page # <<>> => total >= offset + Len(page)

\* A client may step by the rows it was given, or by a limit that is served.
Paging == limit > 0 /\ (stride = "rows" \/ limit <= PageCap)

\* Commits during the scan move rows to later pages, never to earlier ones: a
\* scan to the end has seen every matching row that was stored when it began
\* (their times being distinct), even when it steps over the end of a short
\* page and rows are committed before the total is counted.
NoRowSkipped ==
  pc = "done" /\ Paging => Matching(base, filter) \subseteq {fetched[i] : i \in DOMAIN fetched}

\* Only commits during the scan make it show a row twice.
NoRowTwiceWhenQuiet ==
  table = base => \A i, j \in DOMAIN fetched : fetched[i] = fetched[j] => i = j

-----------------------------------------------------------------------------
(* What the documentation says, and the code does not do *)

\* README: "Handles transaction retrieval operations with advanced filtering,
\* pagination, and sorting capabilities".  With nothing committed meanwhile,
\* the pages together are the transactions.
PagesComplete ==
  pc = "done" /\ table = base =>
    Matching(base, filter) \subseteq {fetched[i] : i \in DOMAIN fetched}
=============================================================================
