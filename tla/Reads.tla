-------------------------------- MODULE Reads --------------------------------
(***************************************************************************)
(* The list and the statistics over one table: a client scans the list     *)
(* page by page while another asks for the statistics, beside the commits  *)
(* of Ingest and the clock.                                                *)
(***************************************************************************)
EXTENDS Query

CONSTANTS
  Hours,     \* the periods the second client may ask for
  Clock      \* bound: the values of the clock, in hours

ASSUME HoursAssumption == Hours \subseteq Nat \ {0} /\ Clock \subseteq Nat

VARIABLES
  now, statement, start, count, byType, byStatus, fraud,   \* as in Stats
  asked,     \* whether the second client asks
  listed     \* history: the total of the list when the statistics began

statsVars == <<asked, now, statement, start, count, byType, byStatus, fraud>>
listVars  == <<pc, filter, limit, stride, offset, page, total, fetched, base>>

S == INSTANCE Stats WITH pc <- statement, total <- count

ReadsInit == Init /\ S!Init /\ asked \in BOOLEAN /\ listed = 0

\* A step of the list.
Listing ==
  /\ SelectPage \/ RefusePage \/ SelectCount \/ NextPage
  /\ UNCHANGED <<statsVars, listed>>

\* The first statement of the statistics, with what the list has said before.
Begin ==
  /\ asked
  /\ S!SelectTotals
  /\ listed' = total
  /\ UNCHANGED <<asked, listVars>>

\* A later step of the statistics, or of the clock.
Summing ==
  /\ S!SelectByType \/ S!SelectByStatus \/ S!SelectFraud \/ S!Tick
  /\ UNCHANGED <<asked, listVars, listed>>

\* A commit is seen by both.
Store == Commit /\ S!Commit /\ UNCHANGED <<asked, listed>>

ReadsNext == Listing \/ Begin \/ Summing \/ Store

ReadsSpec == ReadsInit /\ [][ReadsNext]_<<vars, statsVars, listed>>

-----------------------------------------------------------------------------
(* Properties *)

\* The groups by type of one answer add up to at least its total, those by
\* status to at least those by type: one period, and a table that only grows.
FiguresOrdered == S!FiguresOrdered

\* Both endpoints mean the same by a period: statistics that were begun after
\* the list of the same period was counted do not count fewer transactions.
SummaryCoversList ==
  statement # "totals" /\ filter = [key \in {"start_time"} |-> start] => count >= listed
=============================================================================
