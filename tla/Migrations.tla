----------------------------- MODULE Migrations -----------------------------
(***************************************************************************)
(* The alembic migrations: a chain of four revisions that a command runs   *)
(* forwards or backwards, statement by statement, in one transaction of    *)
(* the database (alembic/env.py).  Kept of the schema is what a revision   *)
(* changes and what the application needs.                                 *)
(***************************************************************************)
EXTENDS Integers, Sequences

CONSTANTS
  Found      \* the databases the first command may find

VARIABLES
  db,        \* the committed database
  work,      \* the database as the open transaction of the command has it
  todo,      \* the statements it has not executed of the revision it is at
  goal,      \* the revision it was told to go to
  result,    \* how the last command ended
  origin     \* history: the database that was found

vars == <<db, work, todo, goal, result, origin>>

Newest == 4

Tables == {"users", "events", "transactions"}

\* version 0: no revision was run.  last_login and ingested_at: whether the
\* column has a default (the first is nullable just when it has one).
Column == {"plain", "default"}

DbType ==
  [ version : 0..Newest, tables : SUBSET Tables, role : {"enum", "varchar"},
    last_login : Column, ingested_at : Column ]

\* A column that is found is as the first revision to alter it declares it.
ASSUME FoundAssumption ==
  \A d \in Found :
    d \in DbType /\ d.version = 0 /\ d.role = "enum"
    /\ d.last_login = "plain" /\ d.ingested_at = "plain"

-----------------------------------------------------------------------------
(* The revisions *)

\* 49d7a5a1f8c4, 3d66cf87b961, fbc702fc02f0 and d1ddee0b433c.
Upgrade ==
  << <<"create events", "default last_login">>, <<"default ingested_at">>, <<>>,
     <<"role to varchar">> >>

\* A plausible bug: what the first revision created is not dropped.
DowngradeKeeping ==
  << <<"require last_login">>, <<"no default ingested_at">>, <<>>, <<"role to enum">> >>

Downgrade ==
  << <<"require last_login", "drop events">>, <<"no default ingested_at">>, <<>>,
     <<"role to enum">> >>

\* One revision further on the way.
Toward(from, to) == IF from < to THEN from + 1 ELSE from - 1

\* The statements of the next revision on the way, and after them the change of
\* alembic_version.
Ahead(from, to) ==
  IF from = to THEN <<>>
  ELSE Append(IF from < to THEN Upgrade[from + 1] ELSE Downgrade[from], "stamp")

\* What PostgreSQL executes: an ALTER needs its table, a CREATE that there is
\* none, and no cast leads from a string to an enumeration by itself.
Accepted(op, d) ==
  CASE op = "create events" -> "events" \notin d.tables
    [] op \in {"drop events", "default ingested_at", "no default ingested_at"} ->
         "events" \in d.tables
    [] op \in {"default last_login", "require last_login", "role to varchar"} ->
         "users" \in d.tables
    [] op = "role to enum" -> "users" \in d.tables /\ d.role = "enum"
    [] op = "stamp" -> TRUE

Executed(op, d, to) ==
  CASE op = "create events"          -> [d EXCEPT !.tables = @ \cup {"events"}]
    [] op = "drop events"            -> [d EXCEPT !.tables = @ \ {"events"}, !.ingested_at = "plain"]
    [] op = "default ingested_at"    -> [d EXCEPT !.ingested_at = "default"]
    [] op = "no default ingested_at" -> [d EXCEPT !.ingested_at = "plain"]
    [] op = "default last_login"     -> [d EXCEPT !.last_login = "default"]
    [] op = "require last_login"     -> [d EXCEPT !.last_login = "plain"]
    [] op = "role to varchar"        -> [d EXCEPT !.role = "varchar"]
    [] op = "role to enum"           -> [d EXCEPT !.role = "enum"]
    [] op = "stamp"                  -> [d EXCEPT !.version = Toward(d.version, to)]

-----------------------------------------------------------------------------
(* Steps of a command *)

Init ==
  /\ db \in Found
  /\ origin = db
  /\ work = db
  /\ todo = <<>>
  /\ goal = 0
  /\ result = "none"

\* alembic upgrade or downgrade to a revision: the version is read, and the
\* revisions to run follow from it.
Command(version) ==
  /\ result # "running"
  /\ result' = "running"
  /\ goal' = version
  /\ work' = db
  /\ todo' = Ahead(db.version, version)
  /\ UNCHANGED <<db, origin>>

\* A plausible bug: each statement commits by itself.
ExecuteAutocommit ==
  /\ result = "running"
  /\ todo # <<>>
  /\ Accepted(Head(todo), work)
  /\ work' = Executed(Head(todo), work, goal)
  /\ db' = work'
  /\ todo' = IF Tail(todo) = <<>> THEN Ahead(work'.version, goal) ELSE Tail(todo)
  /\ UNCHANGED <<goal, result, origin>>

\* A statement succeeds; behind the last one of a revision the next begins.
Execute ==
  /\ result = "running"
  /\ todo # <<>>
  /\ Accepted(Head(todo), work)
  /\ work' = Executed(Head(todo), work, goal)
  /\ todo' = IF Tail(todo) = <<>> THEN Ahead(work'.version, goal) ELSE Tail(todo)
  /\ UNCHANGED <<db, goal, result, origin>>

\* A statement fails and the command with it.
Refused ==
  /\ result = "running"
  /\ todo # <<>>
  /\ ~Accepted(Head(todo), work)
  /\ result' = "refused"
  /\ work' = db
  /\ todo' = <<>>
  /\ UNCHANGED <<db, goal, origin>>

\* The command or its connection dies.
Crash ==
  /\ result = "running"
  /\ result' = "crashed"
  /\ work' = db
  /\ todo' = <<>>
  /\ UNCHANGED <<db, goal, origin>>

Commit ==
  /\ result = "running"
  /\ todo = <<>>
  /\ db' = work
  /\ result' = "succeeded"
  /\ UNCHANGED <<work, todo, goal, origin>>

Next == (\E version \in 0..Newest : Command(version)) \/ Execute \/ Refused \/ Crash \/ Commit

Spec == Init /\ [][Next]_vars

-----------------------------------------------------------------------------
(* Properties *)

\* The version of the committed database tells its columns, whatever failed or
\* died on the way: the next command starts from the right place.  Downgraded
\* to nothing, the database is the one that was found.
VersionTellsSchema ==
  /\ db.version = 0 => db = origin
  /\ db.version >= 1 => {"users", "events"} \subseteq db.tables
  /\ db.last_login = "default"  <=> db.version >= 1
  /\ db.ingested_at = "default" <=> db.version >= 2
  /\ db.role = "varchar" <=> db.version = Newest

\* An upgrade is refused only in a database no revision was run in, which was
\* found without a users table or with an events table: what a downgrade leaves
\* behind can be upgraded again.
UpgradesRun ==
  result = "refused" /\ goal > db.version =>
    db.version = 0 /\ ("users" \notin origin.tables \/ "events" \in origin.tables)

-----------------------------------------------------------------------------
(* What the documentation says, and the code does not do *)

\* README: "Developers can spin up the complete stack including API services
\* and database with automatic schema migrations".  A database that is at the
\* newest revision has the tables of the models.
NewestHasTables == db.version = Newest => Tables \subseteq db.tables

\* Every revision has a downgrade(), and that of d1ddee0b433c says it gives role
\* its type back: "type_=postgresql.ENUM('ADMIN', 'USER', 'VIEWER',
\* name='user_role')".  A downgrade is never refused by the database.
DowngradesRun == result = "refused" => goal >= db.version
=============================================================================
