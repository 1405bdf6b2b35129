------------------------------ MODULE MCReads ------------------------------
(***************************************************************************)
(* The scan of the list with all filters, and with the statistics beside   *)
(* it, on small instances.                                                 *)
(***************************************************************************)
EXTENDS Reads, TLC

\* Rows of distinct times: both labels, two types, one with null metadata.
\* With pages of one or two rows (and a limit above the cap) a scan takes up
\* to four requests.
Row(t, label) ==
  [ time |-> t, type |-> IF t = 4 THEN "TRANSFER" ELSE "PAYMENT", customer |-> "c",
    merchant |-> "null", is_fraud |-> label,
    status |-> IF label THEN "flagged" ELSE "pending",
    amount |-> 100 * t, score |-> IF label THEN 10 ELSE 0, metadata |-> "object" ]

Unservable == [Row(0, FALSE) EXCEPT !.metadata = "null"]

DistinctRows == {Row(1, FALSE), Row(2, TRUE), Row(3, FALSE), Row(4, TRUE), Unservable}

SincePeriod == "start_time" :> 2

NoFilter == [key \in {} |-> {}]

SomeFilters ==
  { NoFilter, SincePeriod, "is_fraud" :> FALSE, "status_filter" :> "flagged",
    "start_time" :> 2 @@ "max_amount" :> 300,
    "merchant_id" :> "m", "min_fraud_score" :> 10 @@ "end_time" :> 3,
    "transaction_type" :> "PAYMENT" @@ "customer_id" :> "c" @@ "min_amount" :> 200 }

SomeLimits == {-1, 0, 1, 2, 3}

\* The statistics of the last one or two hours, asked for at three o'clock.
TwoPeriods == {1, 2}
TwoTimes   == {3, 4}

\* All scans by themselves, by the rows or, through the whole list and the
\* unlabelled part, by the limit; and the statistics beside the scan of a period.
SomeReadsInit ==
  /\ ReadsInit
  /\ \/ /\ ~asked /\ now = 4 /\ start = 2
        /\ limit > 0 \/ filter = NoFilter
        /\ stride = "limit" => filter \in {NoFilter, "is_fraud" :> FALSE}
     \/ asked /\ now = 3 /\ filter = SincePeriod /\ limit = 2 /\ stride = "rows"

SomeReads == SomeReadsInit /\ [][ReadsNext]_<<vars, statsVars, listed>>

-----------------------------------------------------------------------------
(* Two rows of one time, without the statistics. *)

TiedRows == {Row(1, FALSE), [Row(1, FALSE) EXCEPT !.amount = 200]}

OnlyNoFilter == {NoFilter}
OneLimit     == {1}
=============================================================================
