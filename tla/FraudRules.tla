----------------------------- MODULE FraudRules -----------------------------
(***************************************************************************)
(* The rule-based fraud scorer of TransactionService.                      *)
(*                                                                         *)
(* The code writes every rule twice: once in _calculate_fraud_score, which *)
(* decides the score, and once in _build_fraud_reason, which explains it.  *)
(* Each evaluation reads the customer's recent transaction count for       *)
(* itself, so the two are operators of the payload p and of a count.       *)
(*                                                                         *)
(* Amounts are in cents and scores in tenths.  The code adds floats and    *)
(* rounds the sum to four digits, which gives the exact tenth again, so    *)
(* that its comparisons with 0.7 are comparisons with 7 here.              *)
(***************************************************************************)
EXTENDS Integers, FiniteSets

\* What a country code says: absent (None or ""), US in any case, another one.
Countries == {"absent", "US", "foreign"}

\* A validated TransactionCreate, reduced to the fields the service reads.
\* hour is the wall-clock hour of transaction_time in the offset the client
\* sent it with, whatever the hour in UTC; time is the instant, in minutes;
\* metadata is what transaction_metadata holds, a JSON object or null.
PayloadType(TxnId, Customer) ==
  [ tid      : TxnId,
    customer : Customer,
    amount   : Nat \ {0},
    country  : Countries,
    hour     : 0..23,
    time     : Int,
    is_fraud : BOOLEAN,
    metadata : {"object", "null"} ]

-----------------------------------------------------------------------------
(* The rules *)

LargeAmount(p)   == p.amount > 1000000
International(p) == p.country = "foreign"
HighVelocity(n)  == n >= 5
RoundAmount(p)   == p.amount >= 50000 /\ p.amount % 10000 = 0
UnusualHour(p)   == p.hour \in 2..4

\* What each rule adds, in tenths, by the name _build_fraud_reason gives it.
Weight ==
  [ large_amount  |-> 3, international |-> 2, high_velocity |-> 3,
    round_amount  |-> 1, unusual_hour  |-> 2 ]

RuleNames == {"large_amount", "international", "high_velocity",
              "round_amount", "unusual_hour"}

Points(name, fires) == IF fires THEN Weight[name] ELSE 0

\* The rules that depend on the payload alone.
StaticScore(p) ==
  Points("large_amount", LargeAmount(p)) + Points("international", International(p))
    + Points("round_amount", RoundAmount(p)) + Points("unusual_hour", UnusualHour(p))

\* A plausible bug: the cap at 1.0 is forgotten.
ScoreUncapped(p, n) ==
  IF p.is_fraud THEN 10
  ELSE StaticScore(p) + Points("high_velocity", HighVelocity(n))

\* _calculate_fraud_score, n being the count it read.
Score(p, n) ==
  LET sum == StaticScore(p) + Points("high_velocity", HighVelocity(n))
  IN IF p.is_fraud THEN 10 ELSE IF sum > 10 THEN 10 ELSE sum

Flags(score) == score >= 7

\* The rules that fire for the explanation, tested again one by one.
FiredRules(p, n) ==
  {name \in RuleNames :
     \/ name = "large_amount"  /\ LargeAmount(p)
     \/ name = "international" /\ International(p)
     \/ name = "high_velocity" /\ HighVelocity(n)
     \/ name = "round_amount"  /\ RoundAmount(p)
     \/ name = "unusual_hour"  /\ UnusualHour(p)}

\* A plausible bug: one copy of the large-amount rule is edited, not the other.
ReasonsStale(p, n) ==
  IF p.is_fraud THEN {"pre_labelled_fraud"}
  ELSE LET fired == FiredRules(p, n) \ IF p.amount <= 2000000 THEN {"large_amount"} ELSE {}
       IN IF fired = {} THEN {"rule_threshold"} ELSE fired

\* A plausible bug: the explanation takes the docstring's ">5" for the code's.
ReasonsAboveFive(p, n) ==
  LET fired == FiredRules(p, IF n > 5 THEN n ELSE 0)
  IN IF p.is_fraud THEN {"pre_labelled_fraud"}
     ELSE IF fired = {} THEN {"rule_threshold"} ELSE fired

\* _build_fraud_reason, n being the count it read.
Reasons(p, n) ==
  LET fired == FiredRules(p, n)
  IN IF p.is_fraud THEN {"pre_labelled_fraud"}
     ELSE IF fired = {} THEN {"rule_threshold"} ELSE fired

AllReasons == RuleNames \cup {"pre_labelled_fraud", "rule_threshold"}
=============================================================================
