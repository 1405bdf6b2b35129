----------------------------- MODULE IngestStore -----------------------------
(***************************************************************************)
(* Ingest implements TxnStore: what a client can see of the table and of   *)
(* the answers.                                                            *)
(***************************************************************************)
EXTENDS Ingest

\* Who stored an id.
OwnerOf(t) == (CHOOSE row \in table : row.txn.tid = t).owner

View(r) ==
  CASE answer[r].status = 0   -> "none"
    [] answer[r].status = 202 -> "accepted"
    [] answer[r].status = 409 -> "conflict"
    [] answer[r].status \in {401, 403} -> "refused"
    [] answer[r].status = 500 -> "failed"

Store == INSTANCE TxnStore WITH
  wanted <- [r \in Request |-> Ids(r)],
  owner  <- [t \in Tids(table) |-> OwnerOf(t)],
  reply  <- [r \in Request |-> View(r)]

\* The service implements the write-once map: each request stores its ids in
\* one atomic step, before it is answered, and no answer claims more than the
\* map holds.
ImplementsStore == Store!Spec
=============================================================================
