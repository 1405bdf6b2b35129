------------------------------ MODULE TxnStore ------------------------------
(***************************************************************************)
(* What the ingestion API promises its clients, with nothing of how: a     *)
(* write-once map from external ids to the request that stored them.  A    *)
(* request stores ids once, all together, at a point of its own choosing;  *)
(* what its answer then claims is true of the map, and stays true.         *)
(***************************************************************************)
CONSTANTS Request, TxnId

VARIABLES
  wanted,   \* the ids each request names
  owner,    \* the stored ids, each with the request that stored it
  reply     \* what each request was told

vars == <<wanted, owner, reply>>

Replies == {"none", "accepted", "conflict", "refused", "failed"}

Stored == DOMAIN owner

Owned(r) == {t \in Stored : owner[t] = r}

Init ==
  /\ wanted \in [Request -> SUBSET TxnId]
  /\ owner = [t \in {} |-> {}]
  /\ reply = [r \in Request |-> "none"]

\* The one effect of a request: ids nobody has stored become its own, atomically.
Store(r) ==
  /\ owner' # owner
  /\ reply[r] = "none"
  /\ Owned(r) = {}
  /\ \E ids \in SUBSET (wanted[r] \ Stored) :
       owner' = [t \in Stored \cup ids |-> IF t \in ids THEN r ELSE owner[t]]
  /\ UNCHANGED <<wanted, reply>>

Tell(r, claim) ==
  /\ reply[r] = "none"
  /\ reply' = [reply EXCEPT ![r] = claim]
  /\ UNCHANGED <<wanted, owner>>

\* Every id the request named is stored.
Accept(r) == Tell(r, "accepted") /\ wanted[r] \subseteq Stored

\* Every id the request named is stored, and none by itself.
Conflict(r) == Tell(r, "conflict") /\ wanted[r] \subseteq Stored \ Owned(r)

\* Nothing was stored.
Refuse(r) == Tell(r, "refused") /\ Owned(r) = {}

\* An error, which claims nothing.
Fail(r) == Tell(r, "failed")

Next ==
  \E r \in Request : Store(r) \/ Accept(r) \/ Conflict(r) \/ Refuse(r) \/ Fail(r)

Spec == Init /\ [][Next]_vars
=============================================================================
