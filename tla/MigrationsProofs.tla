-------------------------- MODULE MigrationsProofs --------------------------
(***************************************************************************)
(* What TLAPS proves of the migrations, whatever database is found and     *)
(* whatever commands are run in it.                                        *)
(***************************************************************************)
EXTENDS Migrations, SequenceTheorems, TLAPS

-----------------------------------------------------------------------------
(* The invariant *)

\* The database that was found, brought to a version.
Schema(version) ==
  [ version     |-> version,
    tables      |-> origin.tables \cup (IF version >= 1 THEN {"events"} ELSE {}),
    role        |-> IF version = Newest THEN "varchar" ELSE "enum",
    last_login  |-> IF version >= 1 THEN "default" ELSE "plain",
    ingested_at |-> IF version >= 2 THEN "default" ELSE "plain" ]

\* The first revision can run in the database that was found.
Upgradable == "users" \in origin.tables /\ "events" \notin origin.tables

\* Between two revisions a database is what its version says.
Settled(d) ==
  /\ d.version \in 0..Newest
  /\ d = Schema(d.version)
  /\ d.version >= 1 => Upgradable

\* Where a command may be: at the start of a revision, at the statement in the
\* middle of one that has three, or before the change of alembic_version.
AtStart == todo = Ahead(work.version, goal) /\ Settled(work)

InFirstUpgrade ==
  /\ todo = <<"default last_login", "stamp">>
  /\ goal > 0
  /\ work = [Schema(0) EXCEPT !.tables = @ \cup {"events"}]
  /\ "events" \notin origin.tables

InFirstDowngrade ==
  /\ todo = <<"drop events", "stamp">>
  /\ goal = 0
  /\ work = [Schema(1) EXCEPT !.last_login = "plain"]
  /\ Upgradable

AtStamp ==
  /\ todo = <<"stamp">>
  /\ work.version \in 0..(Newest - 1)
  /\ work.version # goal
  /\ work = [Schema(Toward(work.version, goal)) EXCEPT !.version = work.version]
  /\ Upgradable

\* An upgrade goes from the committed version towards its goal, and nothing
\* goes on from the newest version.
Underway ==
  /\ AtStart \/ InFirstUpgrade \/ InFirstDowngrade \/ AtStamp
  /\ goal >= db.version => work.version \in db.version..goal
  /\ db.version = Newest => work = db

MigrationsInv ==
  /\ origin \in Found
  /\ goal \in 0..Newest
  /\ Settled(db)
  /\ result = "running" => Underway
  /\ result = "refused" /\ goal > db.version => db.version = 0 /\ ~Upgradable

-----------------------------------------------------------------------------
(* The statements of a command *)

\* A revision further on the way comes no further than its goal.
LEMMA TowardGoal ==
  ASSUME NEW v \in 0..Newest, NEW g \in 0..Newest, v # g
  PROVE  /\ Toward(v, g) \in 0..Newest
         /\ v < g => Toward(v, g) = v + 1
         /\ v > g => Toward(v, g) = v - 1
  BY DEF Newest, Toward

\* How the change of alembic_version goes behind a revision's statements.
LEMMA AppendToFew ==
  ASSUME NEW a, NEW b, NEW c
  PROVE  /\ Append(<<>>, a) = <<a>>
         /\ Append(<<a>>, b) = <<a, b>>
         /\ Append(<<a, b>>, c) = <<a, b, c>>
<1> DEFINE S == {a, b, c}
           one == Append(<<a>>, b)
           two == Append(<<a, b>>, c)
<1>1. <<a>> \in Seq(S) /\ Len(<<a>>) = 1 /\ <<a, b>> \in Seq(S) /\ Len(<<a, b>>) = 2
  OBVIOUS
<1>2. one \in Seq(S) /\ Len(one) = 2 /\ one[1] = a /\ one[2] = b
  BY <1>1, AppendProperties
<1>3. two \in Seq(S) /\ Len(two) = 3 /\ two[1] = a /\ two[2] = b /\ two[3] = c
  BY <1>1, AppendProperties
<1> HIDE DEF one, two
<1>4. one = <<a, b>>
  BY <1>2
<1>5. two = <<a, b, c>>
  BY <1>3
<1>6. Append(<<>>, a) = <<a>>
  OBVIOUS
<1> QED
  BY <1>4, <1>5, <1>6 DEF one, two

\* What lies ahead of a command that goes up.
LEMMA AheadUp ==
  ASSUME NEW v \in 0..Newest, NEW g \in 0..Newest, v < g
  PROVE  /\ v = 0 => Ahead(v, g) = <<"create events", "default last_login", "stamp">>
         /\ v = 1 => Ahead(v, g) = <<"default ingested_at", "stamp">>
         /\ v = 2 => Ahead(v, g) = <<"stamp">>
         /\ v = 3 => Ahead(v, g) = <<"role to varchar", "stamp">>
<1>1. Ahead(v, g) = Append(Upgrade[v + 1], "stamp")
  BY DEF Ahead, Newest
<1>2. /\ v = 0 => Upgrade[v + 1] = <<"create events", "default last_login">>
      /\ v = 1 => Upgrade[v + 1] = <<"default ingested_at">>
      /\ v = 2 => Upgrade[v + 1] = <<>>
      /\ v = 3 => Upgrade[v + 1] = <<"role to varchar">>
  <2>1. /\ Upgrade[1] = <<"create events", "default last_login">>
        /\ Upgrade[2] = <<"default ingested_at">>
        /\ Upgrade[3] = <<>>
        /\ Upgrade[4] = <<"role to varchar">>
    BY DEF Upgrade
  <2>2. 0 + 1 = 1 /\ 1 + 1 = 2 /\ 2 + 1 = 3 /\ 3 + 1 = 4
    OBVIOUS
  <2> QED
    BY <2>1, <2>2, Zenon
<1>3. Append(<<"create events", "default last_login">>, "stamp") =
        <<"create events", "default last_login", "stamp">>
  BY AppendToFew
<1>4. Append(<<"default ingested_at">>, "stamp") = <<"default ingested_at", "stamp">>
  BY AppendToFew
<1>5. Append(<<>>, "stamp") = <<"stamp">>
  BY AppendToFew
<1>6. Append(<<"role to varchar">>, "stamp") = <<"role to varchar", "stamp">>
  BY AppendToFew
<1> QED
  BY <1>1, <1>2, <1>3, <1>4, <1>5, <1>6, Zenon

\* What lies ahead of a command that goes down.
LEMMA AheadDown ==
  ASSUME NEW v \in 0..Newest, NEW g \in 0..Newest, v > g
  PROVE  /\ v = 1 => Ahead(v, g) = <<"require last_login", "drop events", "stamp">>
         /\ v = 2 => Ahead(v, g) = <<"no default ingested_at", "stamp">>
         /\ v = 3 => Ahead(v, g) = <<"stamp">>
         /\ v = 4 => Ahead(v, g) = <<"role to enum", "stamp">>
<1>1. Ahead(v, g) = Append(Downgrade[v], "stamp")
  BY DEF Ahead, Newest
<1>2. /\ Downgrade[1] = <<"require last_login", "drop events">>
      /\ Downgrade[2] = <<"no default ingested_at">>
      /\ Downgrade[3] = <<>>
      /\ Downgrade[4] = <<"role to enum">>
  BY DEF Downgrade
<1>3. Append(<<"require last_login", "drop events">>, "stamp") =
        <<"require last_login", "drop events", "stamp">>
  BY AppendToFew
<1>4. Append(<<"no default ingested_at">>, "stamp") = <<"no default ingested_at", "stamp">>
  BY AppendToFew
<1>5. Append(<<>>, "stamp") = <<"stamp">>
  BY AppendToFew
<1>6. Append(<<"role to enum">>, "stamp") = <<"role to enum", "stamp">>
  BY AppendToFew
<1> QED
  BY <1>1, <1>2, <1>3, <1>4, <1>5, <1>6, Zenon

\* How a script of at most three statements is taken apart.
LEMMA HeadAndTail ==
  ASSUME NEW a, NEW b, NEW c
  PROVE  /\ Head(<<a>>) = a /\ Tail(<<a>>) = <<>> /\ <<a>> # <<>>
         /\ Head(<<a, b>>) = a /\ Tail(<<a, b>>) = <<b>> /\ <<a, b>> # <<>>
         /\ Head(<<a, b, c>>) = a /\ Tail(<<a, b, c>>) = <<b, c>> /\ <<a, b, c>> # <<>>
  OBVIOUS

\* The first statement of what lies ahead of a command that goes up.
LEMMA HeadUp ==
  ASSUME NEW v \in 0..Newest, NEW g \in 0..Newest, v < g
  PROVE  /\ v = 0 => Head(Ahead(v, g)) = "create events"
         /\ v = 1 => Head(Ahead(v, g)) = "default ingested_at"
         /\ v = 2 => Head(Ahead(v, g)) = "stamp"
         /\ v = 3 => Head(Ahead(v, g)) = "role to varchar"
<1>1. /\ Head(<<"create events", "default last_login", "stamp">>) = "create events"
      /\ Head(<<"default ingested_at", "stamp">>) = "default ingested_at"
      /\ Head(<<"stamp">>) = "stamp"
      /\ Head(<<"role to varchar", "stamp">>) = "role to varchar"
  BY HeadAndTail
<1>2. /\ v = 0 => Ahead(v, g) = <<"create events", "default last_login", "stamp">>
      /\ v = 1 => Ahead(v, g) = <<"default ingested_at", "stamp">>
      /\ v = 2 => Ahead(v, g) = <<"stamp">>
      /\ v = 3 => Ahead(v, g) = <<"role to varchar", "stamp">>
  BY AheadUp
<1> QED
  BY <1>1, <1>2, Zenon

-----------------------------------------------------------------------------
(* One statement *)

\* What Execute does with the statement that is next.
LEMMA Stepped ==
  ASSUME NEW a, NEW b, NEW c, Execute
  PROVE  /\ origin' = origin /\ goal' = goal /\ db' = db /\ result' = result
         /\ todo # <<>>
         /\ todo = <<a>> =>
              Accepted(a, work) /\ work' = Executed(a, work, goal)
              /\ todo' = Ahead(work'.version, goal)
         /\ todo = <<a, b>> =>
              Accepted(a, work) /\ work' = Executed(a, work, goal) /\ todo' = <<b>>
         /\ todo = <<a, b, c>> =>
              Accepted(a, work) /\ work' = Executed(a, work, goal) /\ todo' = <<b, c>>
<1>1. CASE todo = <<a>>
  BY <1>1, HeadAndTail DEF Execute
<1>2. CASE todo = <<a, b>>
  <2>1. Head(todo) = a /\ Tail(todo) = <<b>> /\ <<b>> # <<>>
    BY <1>2, HeadAndTail
  <2> QED
    BY <1>2, <2>1 DEF Execute
<1>3. CASE todo = <<a, b, c>>
  <2>1. Head(todo) = a /\ Tail(todo) = <<b, c>> /\ <<b, c>> # <<>>
    BY <1>3, HeadAndTail
  <2> QED
    BY <1>3, <2>1 DEF Execute
<1>4. todo # <<a>> /\ todo # <<a, b>> /\ todo # <<a, b, c>> =>
        origin' = origin /\ goal' = goal /\ db' = db /\ result' = result /\ todo # <<>>
  BY DEF Execute
<1>5. origin' = origin /\ goal' = goal /\ db' = db /\ result' = result /\ todo # <<>>
  BY DEF Execute
<1> QED
  BY <1>1, <1>2, <1>3, <1>5

\* The versions one by one.
SchemaIs(version, tables, role, lastLogin, ingestedAt) ==
  Schema(version) =
    [ version |-> version, tables |-> tables, role |-> role,
      last_login |-> lastLogin, ingested_at |-> ingestedAt ]

LEMMA Schemas ==
  /\ SchemaIs(0, origin.tables \cup {}, "enum", "plain", "plain")
  /\ SchemaIs(1, origin.tables \cup {"events"}, "enum", "default", "plain")
  /\ SchemaIs(2, origin.tables \cup {"events"}, "enum", "default", "default")
  /\ SchemaIs(3, origin.tables \cup {"events"}, "enum", "default", "default")
  /\ SchemaIs(4, origin.tables \cup {"events"}, "varchar", "default", "default")
  BY DEF Schema, SchemaIs, Newest

\* The version goes no other way than towards the goal.
VersionMoves ==
  \/ work'.version = work.version
  \/ work.version # goal /\ work'.version = Toward(work.version, goal)

\* A step that leaves only the change of alembic_version.
LEMMA ReachesStamp ==
  ASSUME NEW v, v \in 0..(Newest - 1), v # goal, origin' = origin, goal' = goal,
         todo' = <<"stamp">>, Upgradable, work'.version = v,
         work' = [Schema(Toward(v, goal)) EXCEPT !.version = v]
  PROVE  AtStamp'
<1>1. Upgradable'
  BY DEF Upgradable
<1>2. Schema(Toward(work.version, goal))' = Schema(Toward(v, goal))
  BY DEF Schema
<1>3. (work = [Schema(Toward(work.version, goal)) EXCEPT !.version = work.version])'
  BY <1>2
<1> QED
  BY <1>1, <1>3 DEF AtStamp

\* From the start of a revision that goes up.
LEMMA UpFromStart ==
  ASSUME MigrationsInv, AtStart, Execute, work.version < goal
  PROVE  (AtStart \/ InFirstUpgrade \/ AtStamp)' /\ VersionMoves
<1> DEFINE v == work.version
<1>1. goal \in 0..Newest /\ v \in 0..Newest /\ todo = Ahead(v, goal) /\ work = Schema(v)
      /\ (v >= 1 => Upgradable)
  BY DEF MigrationsInv, AtStart, Settled
<1>2. v \in {0, 1, 2, 3} /\ Toward(v, goal) = v + 1
  BY <1>1, TowardGoal DEF Newest
<1>3. CASE v = 0
  <2>1. todo = <<"create events", "default last_login", "stamp">>
    BY <1>1, <1>3, AheadUp
  <2>2. /\ Accepted("create events", work) /\ work' = Executed("create events", work, goal)
        /\ todo' = <<"default last_login", "stamp">> /\ origin' = origin /\ goal' = goal
    BY <2>1, Stepped
  <2>3. "events" \notin work.tables /\ work' = [work EXCEPT !.tables = @ \cup {"events"}]
    BY <2>2 DEF Accepted, Executed
  <2>4. work = Schema(0) /\ "events" \notin origin.tables
    BY <1>1, <1>3, <2>3 DEF Schema
  <2>5. InFirstUpgrade'
    BY <1>1, <1>3, <2>2, <2>3, <2>4 DEF InFirstUpgrade, Schema, Newest
  <2> QED
    BY <2>3, <2>5 DEF VersionMoves, Schema
<1>4. CASE v = 1
  <2>1. todo = <<"default ingested_at", "stamp">>
    BY <1>1, <1>4, AheadUp
  <2>2. /\ work' = Executed("default ingested_at", work, goal)
        /\ todo' = <<"stamp">> /\ origin' = origin /\ goal' = goal
    BY <2>1, Stepped
  <2>3. work' = [work EXCEPT !.ingested_at = "default"]
    BY <2>2 DEF Executed
  <2>4. work'.version = 1 /\ work' = [Schema(2) EXCEPT !.version = 1]
    BY <1>1, <1>4, <2>3, Schemas DEF SchemaIs, Newest
  <2>5. Upgradable /\ 1 \in 0..(Newest - 1) /\ 1 # goal /\ Toward(1, goal) = 2
    BY <1>1, <1>2, <1>4 DEF Newest
  <2>6. AtStamp'
    BY <2>2, <2>4, <2>5, ReachesStamp
  <2> QED
    BY <1>4, <2>4, <2>6 DEF VersionMoves
<1>5. CASE v = 2
  <2>1. todo = <<"stamp">>
    BY <1>1, <1>5, AheadUp
  <2>2. /\ work' = Executed("stamp", work, goal)
        /\ todo' = Ahead(work'.version, goal) /\ origin' = origin /\ goal' = goal
    BY <2>1, Stepped
  <2>3. work' = [work EXCEPT !.version = Toward(v, goal)]
    BY <2>2 DEF Executed
  <2>4. work'.version = 3 /\ work' = Schema(3)
    BY <1>1, <1>2, <1>5, <2>3, Schemas DEF SchemaIs, Newest
  <2>5. AtStart'
    BY <1>1, <1>5, <2>2, <2>4 DEF AtStart, Settled, Schema, Upgradable, Newest
  <2> QED
    BY <1>1, <1>2, <1>5, <2>4, <2>5 DEF VersionMoves
<1>6. CASE v = 3
  <2>1. todo = <<"role to varchar", "stamp">>
    BY <1>1, <1>6, AheadUp
  <2>2. /\ work' = Executed("role to varchar", work, goal)
        /\ todo' = <<"stamp">> /\ origin' = origin /\ goal' = goal
    BY <2>1, Stepped
  <2>3. work' = [work EXCEPT !.role = "varchar"]
    BY <2>2 DEF Executed
  <2>4. work'.version = 3 /\ work' = [Schema(4) EXCEPT !.version = 3]
    BY <1>1, <1>6, <2>3, Schemas DEF SchemaIs, Newest
  <2>5. Upgradable /\ 3 \in 0..(Newest - 1) /\ 3 # goal /\ Toward(3, goal) = 4
    BY <1>1, <1>2, <1>6 DEF Newest
  <2>6. AtStamp'
    BY <2>2, <2>4, <2>5, ReachesStamp
  <2> QED
    BY <1>6, <2>4, <2>6 DEF VersionMoves
<1> QED
  BY <1>2, <1>3, <1>4, <1>5, <1>6

\* From the start of a revision that goes down.
LEMMA DownFromStart ==
  ASSUME MigrationsInv, AtStart, Execute, work.version > goal
  PROVE  (AtStart \/ InFirstDowngrade \/ AtStamp)' /\ VersionMoves /\ work.version # Newest
<1> DEFINE v == work.version
<1>1. goal \in 0..Newest /\ v \in 0..Newest /\ todo = Ahead(v, goal) /\ work = Schema(v)
      /\ (v >= 1 => Upgradable)
  BY DEF MigrationsInv, AtStart, Settled
<1>2. v \in {1, 2, 3, 4} /\ Toward(v, goal) = v - 1
  BY <1>1, TowardGoal DEF Newest
<1>3. CASE v = 1
  <2>1. todo = <<"require last_login", "drop events", "stamp">>
    BY <1>1, <1>3, AheadDown
  <2>2. /\ work' = Executed("require last_login", work, goal)
        /\ todo' = <<"drop events", "stamp">> /\ origin' = origin /\ goal' = goal
    BY <2>1, Stepped
  <2>3. work' = [work EXCEPT !.last_login = "plain"]
    BY <2>2 DEF Executed
  <2>4. work'.version = 1 /\ work' = [Schema(1) EXCEPT !.last_login = "plain"] /\ goal = 0
    BY <1>1, <1>3, <2>3, Schemas DEF SchemaIs, Newest
  <2>5. Upgradable' /\ Schema(1)' = Schema(1)
    <3>1. Upgradable
      BY <1>1, <1>3
    <3>2. Upgradable'
      BY <2>2, <3>1 DEF Upgradable
    <3>3. Schema(1)' = Schema(1)
      BY <2>2 DEF Schema
    <3> QED
      BY <3>2, <3>3
  <2>6. InFirstDowngrade'
    BY <2>2, <2>4, <2>5 DEF InFirstDowngrade
  <2> QED
    BY <1>3, <2>4, <2>6 DEF VersionMoves, Newest
<1>4. CASE v = 2
  <2>1. todo = <<"no default ingested_at", "stamp">>
    BY <1>1, <1>4, AheadDown
  <2>2. /\ work' = Executed("no default ingested_at", work, goal)
        /\ todo' = <<"stamp">> /\ origin' = origin /\ goal' = goal
    BY <2>1, Stepped
  <2>3. work' = [work EXCEPT !.ingested_at = "plain"]
    BY <2>2 DEF Executed
  <2>4. work'.version = 2 /\ work' = [Schema(1) EXCEPT !.version = 2]
    BY <1>1, <1>4, <2>3, Schemas DEF SchemaIs, Newest
  <2>5. Upgradable /\ 2 \in 0..(Newest - 1) /\ 2 # goal /\ Toward(2, goal) = 1
    BY <1>1, <1>2, <1>4 DEF Newest
  <2>6. AtStamp'
    BY <2>2, <2>4, <2>5, ReachesStamp
  <2> QED
    BY <1>4, <2>4, <2>6 DEF VersionMoves, Newest
<1>5. CASE v = 3
  <2>1. todo = <<"stamp">>
    BY <1>1, <1>5, AheadDown
  <2>2. /\ work' = Executed("stamp", work, goal)
        /\ todo' = Ahead(work'.version, goal) /\ origin' = origin /\ goal' = goal
    BY <2>1, Stepped
  <2>3. work' = [work EXCEPT !.version = Toward(v, goal)]
    BY <2>2 DEF Executed
  <2>4. work'.version = 2 /\ work' = Schema(2)
    BY <1>1, <1>2, <1>5, <2>3, Schemas DEF SchemaIs, Newest
  <2>5. AtStart'
    BY <1>1, <1>5, <2>2, <2>4 DEF AtStart, Settled, Schema, Upgradable, Newest
  <2> QED
    BY <1>1, <1>2, <1>5, <2>4, <2>5 DEF VersionMoves, Newest
<1>6. CASE v = 4
  <2>1. todo = <<"role to enum", "stamp">>
    BY <1>1, <1>6, AheadDown
  <2>2. Accepted("role to enum", work)
    BY <2>1, Stepped
  <2>3. work.role = "enum"
    BY <2>2 DEF Accepted
  <2>4. work.role = "varchar"
    BY <1>1, <1>6 DEF Schema, Newest
  <2> QED
    BY <2>3, <2>4
<1> QED
  BY <1>2, <1>3, <1>4, <1>5, <1>6

\* From within the first revision, on the way up or down.
LEMMA FromTheMiddle ==
  ASSUME MigrationsInv, Execute, InFirstUpgrade \/ InFirstDowngrade
  PROVE  AtStamp' /\ work'.version = work.version /\ work.version # Newest
<1>1. goal \in 0..Newest
  BY DEF MigrationsInv
<1>2. CASE InFirstUpgrade
  <2>1. todo = <<"default last_login", "stamp">> /\ "events" \notin origin.tables
    BY <1>2 DEF InFirstUpgrade
  <2>2. goal > 0
    BY <1>2 DEF InFirstUpgrade
  <2>3. work = [Schema(0) EXCEPT !.tables = @ \cup {"events"}]
    BY <1>2 DEF InFirstUpgrade
  <2>4. /\ Accepted("default last_login", work)
        /\ work' = Executed("default last_login", work, goal)
        /\ todo' = <<"stamp">> /\ origin' = origin /\ goal' = goal
    BY <2>1, Stepped
  <2>5. "users" \in work.tables /\ work' = [work EXCEPT !.last_login = "default"]
    BY <2>4 DEF Accepted, Executed
  <2>6. (origin.tables \cup {}) \cup {"events"} = origin.tables \cup {"events"}
    OBVIOUS
  <2>7. work = [ version |-> 0, tables |-> origin.tables \cup {"events"}, role |-> "enum",
                 last_login |-> "plain", ingested_at |-> "plain" ]
    BY <2>3, <2>6, Schemas DEF SchemaIs
  <2>8. "users" \in origin.tables
    BY <2>5, <2>7
  <2>9. work.version = 0 /\ work'.version = 0
    BY <2>5, <2>7
  <2>10. work' = [ version |-> 0, tables |-> origin.tables \cup {"events"}, role |-> "enum",
                  last_login |-> "default", ingested_at |-> "plain" ]
    BY <2>5, <2>7
  <2>11. work' = [Schema(1) EXCEPT !.version = 0]
    BY <2>10, Schemas DEF SchemaIs
  <2>12. Upgradable
    BY <2>1, <2>8 DEF Upgradable
  <2>13. 0 \in 0..(Newest - 1) /\ 0 # goal /\ 0 # Newest /\ Toward(0, goal) = 1
    BY <1>1, <2>2 DEF Toward, Newest
  <2>14. AtStamp'
    BY <2>4, <2>9, <2>11, <2>12, <2>13, ReachesStamp
  <2> QED
    BY <2>9, <2>13, <2>14
<1>3. CASE InFirstDowngrade
  <2>1. todo = <<"drop events", "stamp">> /\ Upgradable
    BY <1>3 DEF InFirstDowngrade
  <2>2. goal = 0
    BY <1>3 DEF InFirstDowngrade
  <2>3. work = [Schema(1) EXCEPT !.last_login = "plain"]
    BY <1>3 DEF InFirstDowngrade
  <2>4. /\ work' = Executed("drop events", work, goal)
        /\ todo' = <<"stamp">> /\ origin' = origin /\ goal' = goal
    BY <2>1, Stepped
  <2>5. work' = [work EXCEPT !.tables = @ \ {"events"}, !.ingested_at = "plain"]
    BY <2>4 DEF Executed
  <2>6. (origin.tables \cup {"events"}) \ {"events"} = origin.tables \cup {}
    BY <2>1 DEF Upgradable
  <2>7. work = [ version |-> 1, tables |-> origin.tables \cup {"events"}, role |-> "enum",
                 last_login |-> "plain", ingested_at |-> "plain" ]
    BY <2>3, Schemas DEF SchemaIs
  <2>8. work' = [ version |-> 1, tables |-> origin.tables \cup {}, role |-> "enum",
                  last_login |-> "plain", ingested_at |-> "plain" ]
    BY <2>5, <2>6, <2>7
  <2>9. work.version = 1 /\ work'.version = 1 /\ work' = [Schema(0) EXCEPT !.version = 1]
    BY <2>7, <2>8, Schemas DEF SchemaIs
  <2>10. 1 \in 0..(Newest - 1) /\ 1 # goal /\ 1 # Newest /\ Toward(1, goal) = 0
    BY <1>1, <2>2 DEF Toward, Newest
  <2>11. AtStamp'
    BY <2>1, <2>4, <2>9, <2>10, ReachesStamp
  <2> QED
    BY <2>9, <2>10, <2>11
<1> QED
  BY <1>2, <1>3

\* The change of alembic_version settles the database.
LEMMA FromStamp ==
  ASSUME MigrationsInv, Execute, AtStamp
  PROVE  AtStart' /\ VersionMoves /\ work.version # Newest
<1>1. /\ goal \in 0..Newest /\ todo = <<"stamp">> /\ work.version \in 0..(Newest - 1)
      /\ work.version # goal /\ Upgradable
      /\ work = [Schema(Toward(work.version, goal)) EXCEPT !.version = work.version]
  BY DEF MigrationsInv, AtStamp
<1>2. /\ work' = Executed("stamp", work, goal)
      /\ todo' = Ahead(work'.version, goal) /\ origin' = origin /\ goal' = goal
  BY <1>1, Stepped
<1> DEFINE t == Toward(work.version, goal)
<1>3. work' = [work EXCEPT !.version = t]
  BY <1>2 DEF Executed
<1>4. t \in 0..Newest
  BY <1>1, TowardGoal DEF Newest
<1> HIDE DEF t
<1>5. work' = Schema(t)
  BY <1>1, <1>3 DEF Schema, t
<1>6. work'.version = t
  BY <1>5 DEF Schema
<1>7. Schema(t) = Schema(work.version)'
  BY <1>2, <1>6 DEF Schema
<1>8. Upgradable'
  BY <1>1, <1>2 DEF Upgradable
<1>9. Settled(work)'
  BY <1>4, <1>5, <1>6, <1>7, <1>8 DEF Settled
<1>10. AtStart'
  BY <1>2, <1>9 DEF AtStart
<1> QED
  BY <1>1, <1>6, <1>10 DEF VersionMoves, t, Newest

-----------------------------------------------------------------------------
(* The invariant is inductive *)

LEMMA MigrationsInvInit == Init => MigrationsInv
<1> SUFFICES ASSUME Init PROVE MigrationsInv
  OBVIOUS
<1>1. /\ origin \in Found /\ db = origin /\ goal = 0 /\ result = "none"
      /\ origin \in DbType /\ origin.version = 0 /\ origin.role = "enum"
      /\ origin.last_login = "plain" /\ origin.ingested_at = "plain"
  BY FoundAssumption DEF Init
<1>2. origin.tables = origin.tables \cup {}
  OBVIOUS
<1>3. origin = [ version |-> 0, tables |-> origin.tables \cup {}, role |-> "enum",
                 last_login |-> "plain", ingested_at |-> "plain" ]
  BY <1>1, <1>2 DEF DbType
<1>4. db = Schema(0) /\ db.version = 0
  BY <1>1, <1>3, Schemas DEF SchemaIs
<1>5. Settled(db)
  BY <1>4 DEF Settled, Newest
<1> QED
  BY <1>1, <1>5 DEF MigrationsInv, Newest

\* What keeps the database that was found keeps what is said of a settled one.
LEMMA SettledKept ==
  ASSUME NEW d, Settled(d), origin' = origin
  PROVE  /\ Schema(d.version) = [ version |-> d.version,
              tables |-> origin'.tables \cup (IF d.version >= 1 THEN {"events"} ELSE {}),
              role |-> IF d.version = Newest THEN "varchar" ELSE "enum",
              last_login |-> IF d.version >= 1 THEN "default" ELSE "plain",
              ingested_at |-> IF d.version >= 2 THEN "default" ELSE "plain" ]
         /\ db' = d => Settled(db)'
         /\ work' = d => Settled(work)'
  BY DEF Settled, Schema, Upgradable

LEMMA CommandKeeps ==
  ASSUME MigrationsInv, NEW version \in 0..Newest, Command(version)
  PROVE  MigrationsInv'
<1>1. /\ origin' = origin /\ db' = db /\ work' = db /\ goal' = version
      /\ todo' = Ahead(db.version, version) /\ result' = "running"
  BY DEF Command
<1>2. Settled(db) /\ origin \in Found
  BY DEF MigrationsInv
<1>3. Settled(db)' /\ Settled(work)'
  BY <1>1, <1>2, SettledKept
<1>4. AtStart'
  BY <1>1, <1>3 DEF AtStart
<1>5. db.version \in 0..Newest
  BY <1>2 DEF Settled
<1>6. (goal >= db.version => work.version \in db.version..goal)'
  BY <1>1, <1>5 DEF Newest
<1>7. Underway'
  BY <1>1, <1>4, <1>6 DEF Underway
<1> QED
  BY <1>1, <1>2, <1>3, <1>7 DEF MigrationsInv

LEMMA ExecuteKeeps ==
  ASSUME MigrationsInv, Execute
  PROVE  MigrationsInv'
<1>1. origin' = origin /\ db' = db /\ goal' = goal /\ result' = "running" /\ result = "running"
      /\ todo # <<>>
  BY DEF Execute
<1>2. /\ Settled(db) /\ origin \in Found /\ goal \in 0..Newest /\ Underway
  BY <1>1 DEF MigrationsInv
<1>3. (AtStart \/ InFirstUpgrade \/ InFirstDowngrade \/ AtStamp)'
      /\ VersionMoves /\ work.version # Newest
  <2>1. CASE AtStart
    <3>1. work.version \in 0..Newest /\ todo = Ahead(work.version, goal)
      BY <2>1 DEF AtStart, Settled
    <3>2. work.version # goal
      BY <1>1, <3>1 DEF Ahead
    <3>3. work.version < goal \/ work.version > goal
      BY <1>2, <3>1, <3>2 DEF Newest
    <3>4. work.version < goal => work.version # Newest
      BY <1>2, <3>1 DEF Newest
    <3> QED
      BY <2>1, <3>3, <3>4, UpFromStart, DownFromStart
  <2>2. CASE InFirstUpgrade \/ InFirstDowngrade
    BY <2>2, FromTheMiddle DEF VersionMoves
  <2>3. CASE AtStamp
    BY <2>3, FromStamp
  <2> QED
    BY <1>2, <2>1, <2>2, <2>3 DEF Underway
<1>4. db.version # Newest
  BY <1>2, <1>3 DEF Underway
<1>5. (goal >= db.version => work.version \in db.version..goal)'
  <2>1. SUFFICES ASSUME goal >= db.version
                 PROVE  work'.version \in db.version..goal
    BY <1>1
  <2>2. db.version \in 0..Newest
    BY <1>2 DEF Settled
  <2>3. work.version \in db.version..goal /\ work.version \in 0..Newest
    BY <1>2, <2>1, <2>2 DEF Underway, Newest
  <2>4. CASE work'.version = work.version
    BY <2>3, <2>4
  <2>5. CASE work.version # goal /\ work'.version = Toward(work.version, goal)
    <3>1. work.version < goal /\ Toward(work.version, goal) = work.version + 1
      BY <1>2, <2>2, <2>3, <2>5 DEF Toward, Newest
    <3> QED
      BY <1>2, <2>2, <2>3, <2>5, <3>1 DEF Newest
  <2> QED
    BY <1>3, <2>4, <2>5 DEF VersionMoves
<1>6. Underway'
  BY <1>1, <1>3, <1>4, <1>5 DEF Underway
<1>7. Settled(db)'
  BY <1>1, <1>2, SettledKept
<1> QED
  BY <1>1, <1>2, <1>6, <1>7 DEF MigrationsInv

\* An upgrade that is refused is refused in its first revision.
LEMMA RefusedAtFirst ==
  ASSUME MigrationsInv, Refused, goal > db.version
  PROVE  db.version = 0 /\ ~Upgradable
<1>1. todo # <<>> /\ ~Accepted(Head(todo), work) /\ Underway /\ goal \in 0..Newest
      /\ Settled(db)
  BY DEF Refused, MigrationsInv
<1>2. db.version \in 0..Newest
  BY <1>1 DEF Settled
<1>3. work.version \in db.version..goal
  BY <1>1, <1>2 DEF Underway, Newest
<1>4. CASE AtStart
  <2> DEFINE v == work.version
  <2>1. /\ v \in 0..Newest /\ todo = Ahead(v, goal) /\ work = Schema(v)
        /\ (v >= 1 => Upgradable)
    BY <1>4 DEF AtStart, Settled
  <2>2. v # goal
    BY <1>1, <2>1 DEF Ahead
  <2>3. v < goal /\ v \in {0, 1, 2, 3}
    BY <1>1, <1>2, <1>3, <2>1, <2>2 DEF Newest
  <2>4. CASE v = 0
    <3>1. Head(todo) = "create events"
      BY <1>1, <2>1, <2>3, <2>4, HeadUp
    <3>2. "events" \in work.tables
      BY <1>1, <3>1 DEF Accepted
    <3>3. work.tables = origin.tables \cup {}
      BY <2>1, <2>4, Schemas DEF SchemaIs
    <3> QED
      BY <1>2, <1>3, <2>4, <3>2, <3>3 DEF Upgradable, Newest
  <2>5. CASE v \in {1, 2, 3}
    <3>1. Upgradable
      BY <2>1, <2>5
    <3>2. work.tables = origin.tables \cup {"events"}
      BY <2>1, <2>5, Schemas DEF SchemaIs
    <3>3. "users" \in work.tables /\ "events" \in work.tables
      BY <3>1, <3>2 DEF Upgradable
    <3>4. Head(todo) \in {"default ingested_at", "stamp", "role to varchar"}
      BY <1>1, <2>1, <2>3, <2>5, HeadUp
    <3>5. Accepted(Head(todo), work)
      BY <3>3, <3>4 DEF Accepted
    <3> QED
      BY <1>1, <3>5
  <2> QED
    BY <2>3, <2>4, <2>5
<1>5. CASE InFirstUpgrade
  <2>1. todo = <<"default last_login", "stamp">>
    BY <1>5 DEF InFirstUpgrade
  <2>2. Head(todo) = "default last_login"
    BY <2>1, HeadAndTail
  <2>3. "users" \notin work.tables
    BY <1>1, <2>2 DEF Accepted
  <2>4. work = [Schema(0) EXCEPT !.tables = @ \cup {"events"}]
    BY <1>5 DEF InFirstUpgrade
  <2>5. work.version = 0 /\ work.tables = (origin.tables \cup {}) \cup {"events"}
    BY <2>4, Schemas DEF SchemaIs
  <2>6. ~Upgradable
    BY <2>3, <2>5 DEF Upgradable
  <2>7. db.version = 0
    BY <1>2, <1>3, <2>5 DEF Newest
  <2> QED
    BY <2>6, <2>7
<1>6. CASE InFirstDowngrade
  <2>1. goal = 0
    BY <1>6 DEF InFirstDowngrade
  <2> QED
    BY <1>2, <2>1 DEF Newest
<1>7. CASE AtStamp
  <2>1. todo = <<"stamp">>
    BY <1>7 DEF AtStamp
  <2>2. Head(todo) = "stamp"
    BY <2>1, HeadAndTail
  <2> QED
    BY <1>1, <2>2 DEF Accepted
<1>8. AtStart \/ InFirstUpgrade \/ InFirstDowngrade \/ AtStamp
  BY <1>1 DEF Underway
<1> QED
  BY <1>4, <1>5, <1>6, <1>7, <1>8

\* A command that fails, dies or succeeds leaves a settled database.
LEMMA EndKeeps ==
  ASSUME MigrationsInv, Refused \/ Crash \/ Commit
  PROVE  MigrationsInv'
<1>1. Settled(db) /\ origin \in Found /\ goal \in 0..Newest
  BY DEF MigrationsInv
<1>2. origin' = origin /\ goal' = goal
  BY DEF Refused, Crash, Commit
<1>3. CASE Refused
  <2>1. db' = db /\ result' = "refused"
    BY <1>3 DEF Refused
  <2>2. Settled(db)'
    BY <1>1, <1>2, <2>1, SettledKept
  <2>3. (goal > db.version => db.version = 0 /\ ~Upgradable)'
    <3>1. goal > db.version => db.version = 0 /\ ~Upgradable
      BY <1>3, RefusedAtFirst
    <3>2. Upgradable' = Upgradable
      BY <1>2 DEF Upgradable
    <3> QED
      BY <1>2, <2>1, <3>1, <3>2
  <2> QED
    BY <1>1, <1>2, <2>1, <2>2, <2>3 DEF MigrationsInv
<1>4. CASE Crash
  <2>1. db' = db /\ result' = "crashed"
    BY <1>4 DEF Crash
  <2>2. Settled(db)'
    BY <1>1, <1>2, <2>1, SettledKept
  <2> QED
    BY <1>1, <1>2, <2>1, <2>2 DEF MigrationsInv
<1>5. CASE Commit
  <2>1. result = "running" /\ todo = <<>> /\ db' = work /\ result' = "succeeded"
    BY <1>5 DEF Commit
  <2>2. AtStart \/ InFirstUpgrade \/ InFirstDowngrade \/ AtStamp
    BY <2>1 DEF MigrationsInv, Underway
  <2>3. <<>> # <<"default last_login", "stamp">> /\ <<>> # <<"drop events", "stamp">>
        /\ <<>> # <<"stamp">>
    BY HeadAndTail
  <2>4. AtStart
    BY <2>1, <2>2, <2>3, Zenon DEF InFirstUpgrade, InFirstDowngrade, AtStamp
  <2>5. Settled(work)
    BY <2>4 DEF AtStart
  <2>6. Settled(db)'
    BY <1>2, <2>1, <2>5, SettledKept
  <2> QED
    BY <1>1, <1>2, <2>1, <2>6 DEF MigrationsInv
<1> QED
  BY <1>3, <1>4, <1>5

LEMMA MigrationsInvStep == MigrationsInv /\ [Next]_vars => MigrationsInv'
<1> SUFFICES ASSUME MigrationsInv, [Next]_vars PROVE MigrationsInv'
  OBVIOUS
<1>1. CASE \E version \in 0..Newest : Command(version)
  BY <1>1, CommandKeeps
<1>2. CASE Execute
  BY <1>2, ExecuteKeeps
<1>3. CASE Refused \/ Crash \/ Commit
  BY <1>3, EndKeeps
<1>4. CASE UNCHANGED vars
  BY <1>4 DEF vars, MigrationsInv, Settled, Schema, Upgradable, Underway, AtStart,
              InFirstUpgrade, InFirstDowngrade, AtStamp
<1> QED
  BY <1>1, <1>2, <1>3, <1>4 DEF Next

LEMMA MigrationsInvHolds == Spec => []MigrationsInv
  BY MigrationsInvInit, MigrationsInvStep, PTL DEF Spec

-----------------------------------------------------------------------------
(* Theorems *)

\* Whatever commands were refused or died, the committed version tells the
\* schema, and version 0 is the database that was found.
THEOREM TheVersionTellsTheSchema == Spec => []VersionTellsSchema
<1>1. MigrationsInv => VersionTellsSchema
  <2> SUFFICES ASSUME MigrationsInv PROVE VersionTellsSchema
    OBVIOUS
  <2>1. /\ db.version \in 0..Newest /\ db = Schema(db.version)
        /\ db.version >= 1 => Upgradable
    BY DEF MigrationsInv, Settled
  <2>2. db.version = 0 => db = origin
    <3>1. /\ origin \in DbType /\ origin.version = 0 /\ origin.role = "enum"
          /\ origin.last_login = "plain" /\ origin.ingested_at = "plain"
      BY FoundAssumption DEF MigrationsInv
    <3>2. origin.tables = origin.tables \cup {}
      OBVIOUS
    <3>3. origin = [ version |-> 0, tables |-> origin.tables \cup {}, role |-> "enum",
                     last_login |-> "plain", ingested_at |-> "plain" ]
      BY <3>1, <3>2 DEF DbType
    <3> QED
      BY <2>1, <3>3, Schemas DEF SchemaIs
  <2>3. db.version >= 1 => {"users", "events"} \subseteq db.tables
    BY <2>1 DEF Schema, Upgradable
  <2>4. /\ db.last_login = "default" <=> db.version >= 1
        /\ db.ingested_at = "default" <=> db.version >= 2
        /\ db.role = "varchar" <=> db.version = Newest
    BY <2>1 DEF Schema
  <2> QED
    BY <2>2, <2>3, <2>4 DEF VersionTellsSchema
<1> QED
  BY <1>1, MigrationsInvHolds, PTL

\* An upgrade is refused only in a database that was found without users or
\* with events: what downgrades leave behind can be upgraded.
THEOREM UpgradesAreRefusedAtFirst == Spec => []UpgradesRun
<1>1. MigrationsInv => UpgradesRun
  BY DEF MigrationsInv, Upgradable, UpgradesRun
<1> QED
  BY <1>1, MigrationsInvHolds, PTL
=============================================================================
