------------------------------ MODULE MCIngest ------------------------------
(***************************************************************************)
(* Ingest and its refinement of TxnStore on small instances.               *)
(***************************************************************************)
EXTENDS IngestStore, TLC

CONSTANTS
  r1, r2, r3,                  \* requests
  a, b, v1, v2, v3, v4, v5,    \* external ids
  c, d                         \* customers

\* A harmless payload, and the changes that make the others.
Plain(t, cust, time) ==
  [ tid |-> t, customer |-> cust, amount |-> 1999, country |-> "US", hour |-> 12,
    time |-> time, is_fraud |-> FALSE, metadata |-> "object" ]

Single(p) == [kind |-> "ingest", txns |-> <<p>>]
Batch(ps) == [kind |-> "batch", txns |-> ps]

TwoRequests   == {r1, r2}
ThreeRequests == {r1, r2, r3}
Symmetric     == Permutations(Request)

AllIds       == {a, b, v1, v2, v3, v4, v5}
AllCustomers == {c, d}

-----------------------------------------------------------------------------
(* Races for the same ids: batches in opposite orders, one that repeats an   *)
(* id, an ingest of each id, one of them with null metadata.                 *)

A == Plain(a, c, 161)
B == Plain(b, d, 161)

RaceCalls ==
  { Single(A), Single([B EXCEPT !.metadata = "null"]), Batch(<<A, B>>),
    Batch(<<B, A>>), Batch(<<B, B>>) }

(* The velocity rule: five payloads of c in two requests, so that a third   *)
(* sees any part of them.  Of its payloads one is flagged without the rule    *)
(* and would score above 1.0 with it (Foreign), one is flagged only with it  *)
(* (Round).  All were made at 100: they leave the window between the         *)
(* instants 160 and 161.                                                     *)

Round   == [Plain(a, c, 100) EXCEPT !.amount = 2000000]
Foreign == [Plain(b, c, 100) EXCEPT !.amount = 2000000, !.country = "foreign", !.hour = 3]

Velocity ==
     r1 :> Batch(<<Plain(v1, c, 100), Plain(v2, c, 100)>>)
  @@ r2 :> Batch(<<Plain(v3, c, 100), Plain(v4, c, 100), Plain(v5, c, 100)>>)
  @@ r3 :> Batch(<<Round, Foreign>>)

SafetyCalls == RaceCalls \cup {Velocity[r] : r \in Request}

EndOfHour == {160, 161}

\* A race of three different bodies, or of a batch, an ingest and its retry,
\* when the clock has run out; or the one assignment of the velocity payloads
\* (with others the third request sees fewer of them).
Races ==
  {calls \in [Request -> RaceCalls] :
     \/ Cardinality({calls[r] : r \in Request}) = 3
     \/ {r \in Request : calls[r] # Single(A)} = {r1} /\ calls[r1] = Batch(<<A, B>>)}

SafetyInit ==
  /\ Init
  /\ \/ call \in Races /\ now = 161
     \/ call = Velocity

SafetySpec == SafetyInit /\ [][Next]_vars

-----------------------------------------------------------------------------
(* Waiting: two batches that may wait for each other's keys and an ingest    *)
(* that may wait for either, or a batch, one that repeats an id and an       *)
(* ingest that cannot be answered, while the pool has connections for two.   *)

OneInstant == {161}

WaitInit ==
  /\ Init
  /\ \/ call = (r1 :> Batch(<<A, B>>) @@ r2 :> Batch(<<B, A>>) @@ r3 :> Single(A))
     \/ call = (r1 :> Batch(<<A, B>>) @@ r2 :> Batch(<<B, B>>)
                  @@ r3 :> Single([B EXCEPT !.metadata = "null"]))

WaitSpec == WaitInit /\ [][Next]_vars /\ Fairness

-----------------------------------------------------------------------------
(* Calls for the runs that look at one behaviour *)

OneRequest     == {r1}
SameIngest     == {Single(A)}
NullMetadata   == {Single([A EXCEPT !.metadata = "null"])}
RepeatingBatch == {Batch(<<A, A, B>>)}

=============================================================================
