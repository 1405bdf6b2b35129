# Verification of the transaction platform

TLA+ models of the backend under `src/backend/app`, TLC runs that check them on
small instances, and TLAPS proofs for every instance.  File references are to
`src/backend/app` unless they start with `src/`; `service` is
`services/transaction_service.py`.

## 1. Inventory

The program is a FastAPI application: several worker processes, each an event
loop that interleaves requests at their `await`s, over one PostgreSQL database.
All shared state is in the database, except for the pool of connections and the
signing key, which each process has for itself.

| component | state | operations | with whom |
|---|---|---|---|
| Transaction ingestion (`service:30-127`, `api/v1/endpoints/transaction.py`) | rows of `transactions` | `create_transaction`, `create_batch` | dependencies, scoring, session |
| Fraud scoring (`service:277-372`) | none; reads the customer's recent rows | `_calculate_fraud_score`, `_build_fraud_reason`, `get_customer_transaction_count` | called per payload by ingestion |
| Session and pool (`db/session.py`) | open database transactions, connections in use | take, commit, refresh, rollback, close | every endpoint |
| Request authentication (`api/deps.py`) | none; reads `users` | `get_current_user` and the checks above it | runs first, in the request's own session |
| Transaction list (`service:130-178`, `386-411`) | none | `list_transactions` | reads what ingestion commits |
| Statistics (`service:180-257`) | none | `get_summary_stats` | reads what ingestion commits |
| Transaction lookup | none | `get_transaction` | one statement |
| Accounts (`api/v1/endpoints/auth.py`) | rows of `users` | register, login, refresh, `/me` (read, update), change-password | session, tokens |
| Tokens (`core/security.py`, `core/config.py`) | `SECRET_KEY` of each process | create, decode | accounts, dependencies |
| Events API | rows of `events` | create | its router is not included |
| Migrations (`src/backend/alembic`) | the schema and its version | four revisions, each with an upgrade and a downgrade | database |
| Application shell (`main.py`) | none | exception handler, middleware, health | all endpoints |
| Analytics endpoint, Kafka, containers | none | a constant answer; empty files; configuration | - |

What is hard, and what correctness means:

- **Ingestion.** A check (`_is_duplicate`, or one `SELECT ... IN` for a batch)
  and the insert it guards are separated by two awaits per payload; only the
  unique index closes the race.  A batch inserts many rows in one flush, and two
  batches can wait for each other's keys.  An ingest commits twice and gives its
  connection back in between; the worker, a statement or the acknowledgement of
  a commit may be lost at any point.  Correct: an id is stored once; a request
  stores all its payloads or none; what an answer says is true of the table;
  nobody waits for ever.
- **Scoring.** The rules are written twice and each copy reads the velocity
  count for itself, while others commit and the hour moves on.  Correct: the
  reasons of a flag add up to its score, or others explain why not; a flag has a
  reason; and the velocity rule neither invents nor overlooks committed rows.
- **List.** Page and count are two statements, pages are statements of different
  requests, and rows are committed in between.  Correct: no stored row is
  skipped, no row appears twice unless rows arrived, the total covers the page.
- **Statistics.** Four statements in one answer.  Correct: one period, and
  figures that are in the order of their statements.
- **Accounts.** Check-then-insert races on email and username, an index that
  ignores the case the check looks at, lookups that may find two users, rows that
  are written from objects read earlier.  Correct: names are distinct, the answer
  to a registration is true, no request takes back what another was answered 200
  for, an inactive user gets nothing.
- **Tokens.** Two types, expiry, a key per process when none is configured.
  Correct: a session ends, and until then any worker honours its tokens.
- **Migrations.** A command may be refused or die at any statement.  Correct: the
  version tells the schema, upgrades run again after downgrades, and the newest
  version has the tables the models use.

## 2. Modules

| module | what it is |
|---|---|
| `FraudRules` | operators: the rules, the score, the flag and the reasons of one payload for a given count |
| `Ingest` | state machine: the two ingestion endpoints, the pool, the database, failures, worker deaths, the clock |
| `TxnStore` | abstract specification: a write-once map from ids to the requests that stored them |
| `Tokens` | operators: what a token holds, how a pair is made, when one is usable |
| `Accounts` | state machine: the six endpoints of `auth.py`, the `users` table, workers and their keys, restarts, deactivation, the clock |
| `Query` | state machine: one client scanning the list page by page beside commits |
| `Stats` | state machine: one statistics request beside commits and the clock |
| `Reads` | composition of `Query` and `Stats` over one table |
| `Migrations` | state machine: alembic commands over a database, statement by statement |
| `IngestStore` | the refinement of `TxnStore` by `Ingest` |
| `MCIngest`, `MCAccounts`, `MCReads`, `MCMigrations` | constants of the instances |
| `IngestProofs`, `ReceiptProofs`, `ScoringProofs`, `StoreProofs` | theorems about `Ingest`, each but the first upon those before it, and about `IngestStore` |
| `AccountsProofs`, `ReadsProofs`, `MigrationsProofs` | theorems about `Accounts`, `Reads` and `Migrations` |

`Ingest` extends `FraudRules`, `Accounts` extends `Tokens`, `Reads`
extends `Query` and instantiates `Stats`; `IngestStore` instantiates `TxnStore` over
the state of `Ingest`.  `Ingest` and `Accounts` share nothing but the database server: of the
accounts, ingestion sees only whether its caller is an active user (`Authenticate`
and `Refuse`).  The operators whose comment begins with "A plausible bug" are
variants that no specification uses: put in the place of the operator they vary,
each breaks a property, which shows that the property can see such a bug.

### Ingest, action by action

A step is the code from one database call to the next, which is all the event
loop allows.  `pc[r]` says where request `r` waits.

| action | code |
|---|---|
| `Arrive` | the body passes the schema |
| `Authenticate`, `Refuse` | `deps.py:30-89`; the first statement takes a connection |
| `CheckDuplicate` | `service:43-48`, 409 |
| `SelectExisting` | `service:84-98`; answers at once when nothing is fresh |
| `ScoreRow` | `service:50-59` or one turn of the loop `95-105`, with its read of the count |
| `ExplainRow` | `service:60-62` or `106-110`, with its own read of the count |
| `InsertRow` | one `INSERT` of the flush in the first `commit`; waits while another open transaction has the key |
| `UniqueViolation` | the index refuses; nothing catches `IntegrityError` before `main.py:55` |
| `DeadlockAbort` | PostgreSQL ends a cycle of waits |
| `CommitRows` | `service:66`, `115`; the connection goes back to the pool |
| `Refresh`, `RecordTime` | `service:67-71`; the refresh takes a connection again |
| `RespondIngest`, `RespondBatch` | the second refresh and `TransactionResponse`; the dict of `create_batch` |
| `Fail` | a statement fails, the pool times out, a commit's acknowledgement is lost: rollback and 500 |
| `Crash` | the worker dies: rollback, no answer (the death of a worker with several requests is one `Crash` for each) |
| `Tick` | the clock |

`table` holds the committed rows, `timed` the ids whose `processing_time_ms` is
set, `built` a request's `Transaction` objects, `flushed` those inserted in its
open database transaction, `existing` the `existing_ids` of a batch.  `before`
is a history variable: what was stored, and the time, when the request arrived.
A row carries the request that made it (`owner`) and its position in the body.

Details worth knowing:

- The session is made with `expire_on_commit=False` and `autoflush=False`, so
  rows reach the database at `commit` only, one `INSERT` after the other, in the
  order they were added.
- PostgreSQL is modelled from how the code uses it: READ COMMITTED, a unique
  index on `transaction_id` (`models/transaction.py:210`), waits on uncommitted
  keys, detection of cycles.
- A naive `transaction_time`, which the driver refuses, is an instance of `Fail`
  at the flush.  A commit that succeeded without its client learning of it is
  `CommitRows` followed by `Fail` or `Crash`.
- Amounts are in cents and scores in tenths; the code's rounding to four digits
  makes its comparisons the same as these.  A payload's `hour` is the hour in the
  offset the client sent, which is what `.hour` gives.
- A retry by a client is another request with the same body.

### Accounts, action by action

Again a step is the code from one database call to the next.  A transaction of
`auth.py` writes one row, so its statement and its commit are one step.

| action | code |
|---|---|
| `Arrive` | a register or a login whose body passes the schema reaches a worker |
| `PresentToken` | the others: `deps.py:30-59` or `auth.py:122-152`; any token ever issued, or a forged one, may be presented |
| `FindConflict` | `auth.py:31-50` |
| `InsertUser` | `auth.py:52-60`, with the unique indices of `models/user.py` (one on `lower(username)`) |
| `FindLogin` | `auth.py:71-95`: lookup, password, `is_active`, and the time put into the object |
| `Refresh` | `auth.py:154-180` |
| `ReadCurrentUser` | `deps.py:61-89`, and what the endpoint does before its next database call: `/me` answers, change-password compares |
| `UpdateUser` | the `UPDATE` of login, update and change-password and its commit |
| `Respond` | what follows the commit; a login makes its tokens here |
| `Fail` | any statement or the pool fails |
| `Restart` | a worker ends with all its requests and starts again, with a new key when none is configured |
| `Deactivate` | somebody clears `is_active` in the database; no endpoint does, and none sets it |
| `Tick` | the clock |

- SQLAlchemy's `UPDATE` sets the columns whose value was changed in the object, so
  `Written` changes one column of the row as it is now, not the row as it was read;
  a name that equals the one read is left out of the statement.
- A username is a word and how it is written: the lookups compare both, the index
  only the word.
- The lives of the tokens are in ticks.  A token is good in the instant it expires
  in, so `AccessLife = 0` is a token that is good until the clock moves.
- `granted` and `seen` are history variables: when each user was last given
  tokens, and who was inactive, what was granted and what time it was when a
  request arrived.

### Query, Stats and Reads

Readers change nothing, so one client of each kind is enough beside any number of
writers; `Commit` adds any set of rows, which covers what `CommitRows` of `Ingest`
can do.  In `Query`, `SelectPage` and `SelectCount` are the two statements of
`list_transactions`, and `NextPage` is the client that asks for the next one.  `stride` is how it finds the
next offset (`Step`): by the rows it was given, or by the limit that the answer
repeats.  The endpoint validates neither end of `limit`: above the cap fewer rows
come than were asked for, zero gives none, and PostgreSQL refuses a negative one
(`RefusePage`).  `Paging` is the condition under which a scan can be complete: the
limit is positive, and a client that steps by it asks for no more than the cap.
`Orders` returns every order that `ORDER BY transaction_time DESC`
allows, so rows with equal times may change places between two statements.
`PageCap` is the 1000 of `service:166`.  A page with a null `transaction_metadata`
does not fit `TransactionResponse`; the scan ends in `failed`.  In `Stats` the
four `Select...` actions are the four statements and `start` is fixed before them.
In `Reads` one commit is seen by both, and `listed` remembers what the list had
counted when the statistics began.

### Migrations

Alembic runs the revisions between the current version and the goal one after the
other: `Ahead` is the next one's statements and, after them, its change of
`alembic_version`, and `todo` what is left of it.  `Execute` runs one statement and
loads the next revision behind the last, `Refused` is a statement PostgreSQL does not execute, `Crash`
the end of the command or its connection, `Commit` the end of the one transaction
that `env.py:67` opens around all of them.  Of the schema the model keeps the
tables, the three properties of columns that revisions change, and the version.
`origin` is the database that was found.

## 3. Runs

Runs that pass:

| run | question | instance |
|---|---|---|
| `ingest_safety` | `TypeOK`, `StoredOnce`, `ReceiptHonest`, `AllOrNothing`, `ConflictStored`, `VelocityJustified`, `VelocityNotMissed`, `ReasonFits`, `ReasonsAddUp` | 3 requests, 2 connections: races of three of 5 bodies over 2 ids, or of a batch, an ingest and its retry; and 2 + 3 payloads of one customer beside a batch of two whose scores depend on them, the hour ending at any moment; 431 552 states |
| `ingest_liveness` | is every request answered, and is the service, to its clients, the write-once map of `TxnStore` | 2 connections; two batches with opposite orders and an ingest, or a batch, one that repeats an id and an ingest with null metadata; 35 252 states |
| `accounts` | `TypeOK`, `NamesDistinct`, `RegisterHonest`, `ChangesKept`, `InactiveShutOut`, `SessionsExpire`, `HonouredUntilExpiry` | a user from before and 3 requests in 6 scenarios, 1 worker with 1 restart, 3 instants, a key in the environment; 639 234 states |
| `reads` | `TotalCoversPage`, `NoRowSkipped`, `NoRowTwiceWhenQuiet`, `FiguresOrdered`, `SummaryCoversList` | 5 rows, no filter and 7 that use all ten parameters, limits -1 to 3 with a cap of 2, clients that step by rows or by the limit; the statistics of 2 periods beside the scan of a period; 766 399 states |
| `migrations` | `VersionTellsSchema`, `UpgradesRun` | every set of tables that may be found, any sequence of commands; 340 states, all there are |

What the properties say is written above each in its module.  The ones that take
the most to break: `ReceiptHonest` needs the stale `existing_ids` of a batch, the
commits of others and its own failures to agree with two numbers in an answer;
`ConflictStored` says that a 409 never refers to a writer who may still roll back;
`VelocityJustified` and `VelocityNotMissed` bound the count from both sides by
what was committed while the request ran; `ReasonsAddUp` relates two reads of the
table and two copies of the rules: where the reasons do not add up to the score,
the clock moved or others stored payloads of the customer, and even then they
differ by one rule; `RegisterHonest` relates an answer that
was decided by a stale lookup, or by an index, to the table of any later moment;
`ChangesKept` sees a lost update by any two of three endpoints that read one user
and write later; `SessionsExpire` needs a token of the wrong kind to be presented
after a grant and a tick; `NoRowSkipped` and `SummaryCoversList`
relate statements of different requests.

Why the bounds are enough.

- *Ingestion.* Two requests make every race for one key, a third is needed for a
  409 or a skipped id whose writer itself raced, and for a deadlock with a
  bystander.  Two ids make opposite orders, and a repeated id is a body of its own.
  Two connections for three requests make one wait, both before the first
  statement and before the refresh.  Five rows are the threshold of the velocity
  rule; two instants put the rows on either side of the end of the hour.
  `SafetyInit` takes three different bodies, or a batch, an ingest and its retry:
  more equal bodies repeat these races with fewer ids.  The velocity payloads have
  one assignment, as with another the third request sees fewer of them.
- *Accounts.* The lookup of register finds two users when there are two others, so
  three registrations, or one, a login and the user from before, show every case;
  the scenarios share an email, a username, or a username but for its case, in each
  pair.  Among three sessions of one user there are all pairs of endpoints that
  write.  Three instants let an access token expire and then the refresh token.
  With the key configured, workers differ in nothing but which requests they lose,
  so one worker and a restart are enough; the run without a key has two.
- *Reads.* Five rows of which one page holds two at most make a scan of up to four
  requests, with rows on both sides of every page boundary.  Limits below, at and
  above the cap, zero and negative are all there; a scan that steps by the limit is
  taken through the whole list and one filtered part, the others by rows only.

`ingest_safety` uses the symmetry of the requests; liveness is checked without
symmetry.  Deadlock checking is off where an instance has finitely many requests,
after which the model stops; it is on for `migrations`, where a command can always
be given.  That nobody waits for ever is checked by `Answered` instead.

Fairness (`FairSpec`): weak fairness of what the event loop and the database do
for each request by themselves, `Progress(r)`.  The event loop runs ready tasks
in turn; the pool serves waiters in order and gives up after its timeout;
PostgreSQL grants a lock when its holder ends and breaks cycles.  Arrivals,
refusals, failures, deaths and the clock are not fair: `Answered` does not depend
on a timeout to break a wait, although the code has one.  The other machines have
no liveness property: their requests wait for nothing but their own statements.

Runs that find a violation, each a disagreement between the code and what it says:

| run | property | what happens |
|---|---|---|
| `ingest_conflict` | `DuplicateIs409` | two ingests of one id both find it absent; the loser is answered 500, not the 409 of the docstring |
| `ingest_batch` | `BatchSkipsDuplicates` | a batch that repeats an id stores nothing and is answered 500 |
| `ingest_metadata` | `StoredIsAccepted` | null metadata is accepted and committed, then the response model fails: 500, and 409 for the retry |
| `query_ties` | `PagesComplete` | rows of equal time: a scan of a quiet table shows one twice and another never |
| `accounts_keys` | `HonouredUntilExpiry` | no key is configured: a token of one worker is answered 401 by the other |
| `migrations_tables` | `NewestHasTables` | all revisions have run and there is no table of transactions |
| `migrations_downgrade` | `DowngradesRun` | the `downgrade()` of the last revision gives `role` its type back without a `USING`, which PostgreSQL refuses: nothing goes back from the newest version |

Seen while modelling and not run:

- The hour may end between the two counts of a payload (`service:56`, `62`), so the
  reasons that are stored need not add up to the score (the exception that
  `ReasonsAddUp` makes); and the seventh payload of a customer in one batch is scored
  as the first, as none of the others is stored yet.
- The docstring has "customer made >5 transactions in the last hour"
  (`service:288`); the code takes five for enough (`service:309`), and so does
  `test_customer_velocity_increases_score` ("5+ transactions"); the docstring's "local
  2-5 AM", "approximated via UTC" (`service:290`) is neither, as the hour is that of
  the client's offset (`service:317`).  The rules are modelled as the code has them.
- A client that asks for more than 1000 rows and steps by the limit skips rows: the
  endpoint repeats the limit as it was asked for, not as it was served
  (`api/v1/endpoints/transaction.py:76-108`, `service:166`).  A limit of zero gives
  an empty page and a negative one a 500.
- `fraud_percentage` divides counts of two statements and can exceed 100 when fraud
  is committed in between (`service:237-241`).
- A list with one null-metadata row fails as a whole.
- A login that gives the email of one user and the username of another is answered
  500 (`auth.py:79`).
- Two password changes that both verified the old password overwrite each other;
  two logins may put `last_login` back; tokens stay good after a password change.
- In an empty database the first revision fails, as it alters `users`.

## 4. Theorems

`IngestProofs` proves, for any sets of requests, ids and customers, any bodies,
any instants and any size of the pool:

| theorem | statement | inductive invariant |
|---|---|---|
| `TypeCorrect` | `Spec => []TypeOK` | `TInv`: `TypeOK` and that the sets of rows are finite, without which `Cardinality` has no value and `accepted` no type |
| `IdsStoredOnce` | `Spec => []StoredOnce` | `KeyInv`: no id is both committed and open in a flush, or open in two; `StoredOnce` alone is not preserved by `CommitRows` |
| `StoresAllOrNothing` | `Spec => []AllOrNothing` | `StageInv`: what `built`, `flushed` and the request's rows in `table` are in each place |
| `DuplicatesAreStored` | `Spec => []ConflictStored` | `StageInv` and that `table` never loses a row |
| `FallbackUnreachable` | a flagged payload has a rule that fires, for any two counts | none: it is about operators |

They rest on the assumptions `CallsAssumption`, `InstantsAssumption` and
`PoolAssumption` of `Ingest`, which are the bounds of the schemas, and on lemmas
about the rules (`ScoreType`, `ReasonsType`).

`AccountsProofs` proves, for any sets of requests, workers and users from before,
any bodies, number of restarts, clock and lives of tokens:

| theorem | statement | inductive invariant |
|---|---|---|
| `TypeCorrect` | `Spec => []TypeOK` | `TInv`: `TypeOK` and what a request has in each place (`StageOK`): its worker, a token that was issued, a user it has read |
| `NamesStayDistinct` | `Spec => []NamesDistinct` | itself beside `IInv` |
| `RegistersHonest` | `Spec => []RegisterHonest` | `RegisterInv`: a register's account is there when it is past its `INSERT`, with its names and without an error of the `INSERT` |
| `ChangesStay` | `Spec => []ChangesKept` | `ReadInv`: a request reads once; `KeptInv`: what it is about to write, and what it wrote |
| `InactiveStayOut` | `Spec => []InactiveShutOut` | `ShutOutInv`: nobody is activated, and a request that goes on has read an active user |
| `SessionsEnd` | `Spec => []SessionsExpire` | `TokensExpire`: a token's end is bounded by its user's last grant; `SessionInv`: a request acts for the user of its token, and came in time |
| `ConfiguredHonours` | `Configured` implies `Spec => []HonouredUntilExpiry` | `OneKey`: every token has the configured key; `HonouredInv` |

All but the first use `IInv`: `TInv` and that a request whose account is there is
past its `INSERT`, without which an insert could overwrite a row.  Two lemmas carry
the arguments: `UsersStep` (users stay, with their names, and one is added at a
time) and `OneRequest` (a step is one of the request in question, or leaves it as
it is, or its worker dies), so that each invariant is proved for one request at a
time, with a step per action of that request.  The assumptions are those of
`Accounts` and `Tokens`: bodies fit the schemas, the users from before have distinct
names, and the names the model itself uses (`"none"`, `"forged"`, `"configured"`)
are no user and no worker.

`ReceiptProofs`, `ScoringProofs` and `StoreProofs` go on from `IngestProofs`, under the
same assumptions:

| theorem | statement | inductive invariant |
|---|---|---|
| `ReceiptsAreHonest` | `Spec => []ReceiptHonest` | `StoredInv`: those of `IngestProofs` and `ReceiptInv`: a request's rows are its fresh payloads, one of each, and a 202 was made when they were all committed |
| `VelocityIsJustified` | `Spec => []VelocityJustified` | `ScoringInv`, which holds of a row from the moment it is built, not only when it is stored |
| `VelocityIsNotMissed` | `Spec => []VelocityNotMissed` | the same |
| `ReasonsFit` | `Spec => []ReasonFits` | the same |
| `ReasonsDoAddUp` | `Spec => []ReasonsAddUp` | the same |
| `IngestImplementsStore` | `Spec => ImplementsStore` | `StoredInv` |

- A 202 gives two numbers.  That they are those of the table follows from sets:
  `ReceiptInv` makes the rows and the fresh payloads correspond one to one, and
  `StageInv` leaves no row of the request outside of them.
- `ScoringInv` says of each row that a request has built, not of those stored only:
  its score is that of a count below or above the threshold; a velocity rule that
  was applied is justified by an hour that ended between the arrival and now; one
  that the rows of before the arrival require was applied.  The last two survive
  commits of others and the clock by `CountsMonotone`: a later window over the same
  rows counts no more, more rows count no less.  The reasons add `Unexplained`:
  outside of `pc = "reason"` no flagged row is without its reasons, and there one is.
  That they add up follows without another invariant: the weights of the rules that
  fire are the score before its cap (`SumOfFired`), and a velocity rule that fired for
  the reasons alone, while the clock stood, counted a payload that others have stored
  since the arrival (`OvertakenByOthers`).
- The refinement has one lemma per kind of step.  `CommitRows` is the abstract
  `Store`, for which `KeyInv` says that the ids are new and `StageInv` that the
  request owned none; what answers is the abstract `Accept`, `Conflict`, `Refuse` or
  `Fail`, whose claims are those of `StoredInv`; every other step leaves the map and
  the replies as they are (`OwnerOf` keeps its value while the table grows because
  ids are stored once).

`MigrationsProofs`, for any database that fits `FoundAssumption`, of which the
columns are as the first revision to change them declares them:

| theorem | statement | inductive invariant |
|---|---|---|
| `TheVersionTellsTheSchema` | `Spec => []VersionTellsSchema` | `MigrationsInv` |
| `UpgradesAreRefusedAtFirst` | `Spec => []UpgradesRun` | `MigrationsInv` |

The properties speak of the committed database only and none is inductive, as it
becomes at `Commit` what a command made of `work`.  `MigrationsInv` says where a
command can be (at the start of a revision, in the middle of the first one's upgrade
or downgrade, before the change of the version) and what `work` is there, as a
function of `origin` (`Schema`); and that a command which began at the newest
version has executed nothing.

`ReadsProofs`, for any finite set of rows (`RowsAssumption`), any filters, limits,
cap, periods and clock:

| theorem | statement | inductive invariant |
|---|---|---|
| `TotalsCoverPages` | `Spec => []TotalCoversPage` | `ScanInv`: the page is of matching rows, no more than the limit and the cap, and positions up to its end exist in the table of then, so in every later one |
| `NoRowIsSkipped`, `NoRowComesTwice` | `DistinctTimes` implies `Spec => []NoRowSkipped`, `Spec => []NoRowTwiceWhenQuiet` | `PlaceInv`: to a client of `Paging`, a row that matched at the beginning is fetched, shown or ranked behind the offset, and behind a page that is not full there is none; in a quiet table the rows come in the order of their ranks, none of them behind the offset |
| `ReadsScan`, `ReadsSummarise` | `ReadsSpec` implies the `Spec` of `Query` and that of `Stats` | none |
| `FiguresAreOrdered`, `SummariesCoverLists` | `ReadsSpec => []FiguresOrdered`, `ReadsSpec => []SummaryCoversList` | `SummaryInv`: what was counted so far is no more than there is to count now |

The rank of a row is the number of matching rows that are not older.  Commits only
raise it, and with distinct times the row at a position is the one of that rank
(`PlaceIsRank`, whichever order the database chose): this is why the scan skips
nothing.  `DistinctTimes` says that no two rows have one `transaction_time`, which
the code does not promise: `query_ties` shows what happens otherwise, and `reads` is
an instance of it.  By `ReadsScan` the theorems about the scan are true of `Reads`,
the specification its run checks.

Every invariant in this section was checked by TLC, in the instance of the run,
before it was proved.  Two things in the models are as they are for the sake of the
proofs: `Sum` and `SumOfWeights` are cardinalities of sets of pairs, where a fold
over a set would be the same number, and `todo` in `Migrations` holds one revision
at a time.

Only model-checked: `Answered`, the liveness property.  It needs fairness, thus
`ENABLED`, which the prover does not handle.  The properties of the runs that find a
violation are false, and not to be proved.  All other properties of the runs are
theorems.

## 5. Not modelled, and why

- Amounts and averages of the statistics: arithmetic of one statement.
- `get_transaction`: one statement, nothing to interleave.
- `Transaction.is_high_risk` (`models/transaction.py:225`): a comparison of one
  column, which nothing in the application calls.
- The events endpoint: `api/v1/router.py` does not include its router, so no
  request reaches it.  Its default for a severity of 0.0 is a slip to look at when
  it is included.
- `require_role` and `get_current_verified_user`: no endpoint uses them.
- Password hashing and the signature itself: a password is equal or not, a
  signature good under one key.
- Formatting, logging, headers, CORS, health and root routes: no state.
- Analytics endpoint, Kafka, containers: constant, empty, configuration.
- `NullPool` of the test environment; `engine.dispose` at shutdown.
- Periods `hours` of zero or less in the statistics.
- Offline migrations (`env.py:33-56`): they write a script and change nothing.

## 6. Plan

Every component with state and a way to reach it is modelled, and every property
of the runs that holds is a theorem, but for `Answered`.  What may still be stated
and proved:

1. `Accounts`: a small abstract specification of the names (who holds an email or a
   username, given once and for good) that `Accounts` implements, as `Ingest` does
   `TxnStore`; `UsersStep` is most of it.
2. The safety part of `Answered`: that a request which waits for a key waits for one
   that another request holds, and that `DeadlockAbort` is enabled in every cycle.
3. `Reads` beside `Ingest`: its `Commit` adds any set of rows; that the commits of
   `Ingest` are such steps, under the map from its rows to those of the list.
