------------------------------ MODULE Accounts ------------------------------
(***************************************************************************)
(* The endpoints of auth.py over the users table: register, login,         *)
(* refresh, /me (read and update) and change-password, served concurrently *)
(* by worker processes that may be restarted.                              *)
(*                                                                         *)
(* As in Ingest, an action is the code from one database call to the next. *)
(* An INSERT or UPDATE and its COMMIT are one step here: each transaction  *)
(* writes one row, others see nothing of it before the commit and at most  *)
(* wait for it, and no two can wait for each other.  Waiting for the pool  *)
(* is modelled in Ingest; its timeout is a Fail.                           *)
(***************************************************************************)
EXTENDS Tokens, FiniteSets

CONSTANTS
  Request,       \* the HTTP requests
  Worker,        \* the processes that serve them
  Calls,         \* the bodies a request may carry
  Email, Word, Password, FullName,
  Seeded,        \* the users registered before: a function from ids to rows
  Configured,    \* whether SECRET_KEY is set in the environment
  MaxRestarts,   \* bound: how often a worker is restarted
  Horizon        \* bound: the last value of the clock

None == "none"

\* A username is a word and how it is written.
Username == [word : Word, form : {"lower", "Upper"}]

Lower(username) == username.word

NoUsername == [word |-> None, form |-> "lower"]

TokenKind == [refresh |-> "refresh", me |-> "access", update |-> "access",
              password |-> "access"]

CallType ==
  [kind : {"register"}, email : Email, username : Username, password : Password]
    \cup [kind : {"login"}, email : Email \cup {None}, username : Username \cup {NoUsername},
          password : Password]
    \cup [kind : {"refresh", "me"}]
    \cup [kind : {"update"}, name : FullName \cup {None}]
    \cup [kind : {"password"}, current : Password, new : Password]

RowType ==
  [ email : Email, username : Username, password : Password,
    name : FullName \cup {None}, active : BOOLEAN, last_login : Nat ]

UserId == Request \cup DOMAIN Seeded

Clashes(row1, row2) ==
  row1.email = row2.email \/ Lower(row1.username) = Lower(row2.username)

ASSUME CallsAssumption == Calls \subseteq CallType

ASSUME SeededAssumption ==
  /\ DOMAIN Seeded \cap Request = {}
  /\ \A id \in DOMAIN Seeded : Seeded[id] \in RowType
  /\ \A id1, id2 \in DOMAIN Seeded : Clashes(Seeded[id1], Seeded[id2]) => id1 = id2

ASSUME NamesAssumption ==
  {"forged", "configured"} \cap Worker = {} /\ None \notin UserId

ASSUME BoundsAssumption ==
  Configured \in BOOLEAN /\ MaxRestarts \in Nat /\ Horizon \in Nat /\ Worker # {}

VARIABLES
  users,      \* the committed rows of the users table, by id
  starts,     \* how often each worker was restarted
  now,        \* the clock
  issued,     \* the tokens clients were given
  call,       \* the body of each request
  pc,         \* where each request is
  worker,     \* who serves it
  token,      \* the token it presented
  read,       \* the user it has read, as it was then
  answer,     \* the response
  granted,    \* history: when each user was last given tokens
  seen        \* history: inactive users, grants and time when the request arrived

vars == <<users, starts, now, issued, call, pc, worker, token, read, answer,
          granted, seen>>

-----------------------------------------------------------------------------
(* Keys, rows, answers *)

\* A plausible bug: the environment's SECRET_KEY has another name.
KeyDrawn(w) == <<w, starts[w]>>

\* settings.SECRET_KEY: drawn at each start unless it is configured.
SigningKey(w) == IF Configured THEN <<"configured", 0>> ELSE <<w, starts[w]>>

Keys == {<<"configured", 0>>, <<"forged", 0>>} \cup (Worker \X (0..MaxRestarts))

Forged == [sub |-> None, type |-> "access", key |-> <<"forged", 0>>, exp |-> Horizon]

NoUser == [id |-> None, row |-> None]

Problems == {"none", "token", "credentials", "inactive", "email", "username", "password",
             "MultipleResultsFound", "IntegrityError", "DBError"}

AnswerType == [status : {0, 200, 201, 400, 401, 403, 500}, error : Problems]

NoAnswer         == [status |-> 0, error |-> "none"]
Answer(code)     == [status |-> code, error |-> "none"]
Problem(code, e) == [status |-> code, error |-> e]

Places == {"idle", "lookup", "write", "respond", "done", "lost"}

InFlight == {"lookup", "write", "respond"}

Kind(r) == call[r].kind

\* WHERE email = ... OR username = ...; what is None equals nothing.
Matches(body) ==
  {id \in DOMAIN users : users[id].email = body.email \/ users[id].username = body.username}

\* A plausible bug: the username is folded to a third way of writing it.
NewUserFolded(body) ==
  [ email |-> body.email, username |-> [word |-> Lower(body.username), form |-> "folded"],
    password |-> body.password, name |-> None, active |-> TRUE, last_login |-> now ]

NewUser(body) ==
  [ email |-> body.email, username |-> body.username, password |-> body.password,
    name |-> None, active |-> TRUE, last_login |-> now ]

\* A plausible bug: the index on lower(username) was never created.
TakenAsWritten(row) ==
  \E id \in DOMAIN users :
    users[id].email = row.email \/ users[id].username = row.username

\* One of the unique indices of the users table has a key of this row.
Taken(row) == \E id \in DOMAIN users : Clashes(users[id], row)

\* A plausible bug: the object the request has read is written back as a whole.
WrittenWhole(r) ==
  CASE Kind(r) = "login"    -> read[r].row
    [] Kind(r) = "password" -> [read[r].row EXCEPT !.password = call[r].new]
    [] Kind(r) = "update"   ->
         [read[r].row EXCEPT !.name = IF call[r].name = None THEN @ ELSE call[r].name]

\* The row after the UPDATE of r, which sets the columns whose value r changed
\* in the object it has read.
Written(r) ==
  LET row == users[read[r].id]
  IN CASE Kind(r) = "login"    -> [row EXCEPT !.last_login = read[r].row.last_login]
       [] Kind(r) = "password" -> [row EXCEPT !.password = call[r].new]
       [] Kind(r) = "update"   ->
            IF call[r].name \in {None, read[r].row.name} THEN row
            ELSE [row EXCEPT !.name = call[r].name]

-----------------------------------------------------------------------------
(* Steps of a request *)

Init ==
  /\ users = Seeded
  /\ starts = [w \in Worker |-> 0]
  /\ now \in 0..Horizon
  /\ \E w \in Worker : issued = UNION {TokenPair(id, SigningKey(w), now) : id \in DOMAIN Seeded}
  /\ call \in [Request -> Calls]
  /\ pc = [r \in Request |-> "idle"]
  /\ worker = [r \in Request |-> None]
  /\ token = [r \in Request |-> Forged]
  /\ read = [r \in Request |-> NoUser]
  /\ answer = [r \in Request |-> NoAnswer]
  /\ granted = [id \in UserId |-> now]
  /\ seen = [r \in Request |-> [inactive |-> {}, granted |-> granted, time |-> now]]

Goto(r, place) == pc' = [pc EXCEPT ![r] = place]

Finish(r, a) ==
  /\ Goto(r, "done")
  /\ answer' = [answer EXCEPT ![r] = a]

Inactive == {id \in DOMAIN users : ~users[id].active}

\* The request reaches worker w.
Begin(r, w) ==
  /\ pc[r] = "idle"
  /\ worker' = [worker EXCEPT ![r] = w]
  /\ seen' = [seen EXCEPT ![r] = [inactive |-> Inactive, granted |-> granted, time |-> now]]

\* A register or a login with a valid body.
Arrive(r) ==
  /\ Kind(r) \in {"register", "login"}
  /\ \E w \in Worker : Begin(r, w)
  /\ Goto(r, "lookup")
  /\ UNCHANGED <<users, starts, now, issued, call, token, read, answer, granted>>

\* The others decode their token before they touch the database.
PresentToken(r) ==
  /\ Kind(r) \in DOMAIN TokenKind
  /\ \E w \in Worker, t \in issued \cup {Forged} :
       /\ Begin(r, w)
       /\ token' = [token EXCEPT ![r] = t]
       /\ \/ /\ Usable(t, TokenKind[Kind(r)], SigningKey(w), now)
             /\ Goto(r, "lookup")
             /\ UNCHANGED answer
          \/ /\ ~Usable(t, TokenKind[Kind(r)], SigningKey(w), now)
             /\ Finish(r, Problem(401, "token"))
  /\ UNCHANGED <<users, starts, now, issued, call, read, granted>>

\* register looks for a user with its email or its username as written;
\* scalar_one_or_none fails when there are two.
FindConflict(r) ==
  /\ pc[r] = "lookup"
  /\ Kind(r) = "register"
  /\ LET found == Matches(call[r])
     IN \/ /\ found = {}
           /\ Goto(r, "write")
           /\ UNCHANGED answer
        \/ /\ Cardinality(found) = 1
           /\ \E id \in found :
                Finish(r, Problem(400, IF users[id].email = call[r].email
                                       THEN "email" ELSE "username"))
        \/ /\ Cardinality(found) > 1
           /\ Finish(r, Problem(500, "MultipleResultsFound"))
  /\ UNCHANGED <<users, starts, now, issued, call, worker, token, read, granted, seen>>

\* A plausible bug: IntegrityError is caught, and answered as a taken email.
InsertUserCaught(r) ==
  /\ pc[r] = "write"
  /\ Kind(r) = "register"
  /\ LET row == NewUser(call[r])
     IN \/ /\ ~Taken(row)
           /\ users' = [id \in DOMAIN users \cup {r} |-> IF id = r THEN row ELSE users[id]]
           /\ Goto(r, "respond")
           /\ UNCHANGED answer
        \/ /\ Taken(row)
           /\ Finish(r, Problem(400, "email"))
           /\ UNCHANGED users
  /\ UNCHANGED <<starts, now, issued, call, worker, token, read, granted, seen>>

\* The INSERT and its commit; nothing catches IntegrityError before main.py.
InsertUser(r) ==
  /\ pc[r] = "write"
  /\ Kind(r) = "register"
  /\ LET row == NewUser(call[r])
     IN \/ /\ ~Taken(row)
           /\ users' = [id \in DOMAIN users \cup {r} |-> IF id = r THEN row ELSE users[id]]
           /\ Goto(r, "respond")
           /\ UNCHANGED answer
        \/ /\ Taken(row)
           /\ Finish(r, Problem(500, "IntegrityError"))
           /\ UNCHANGED users
  /\ UNCHANGED <<starts, now, issued, call, worker, token, read, granted, seen>>

\* login: the user by email or username, then the password, then is_active;
\* last_login is set in the object, and written by the UPDATE.
FindLogin(r) ==
  /\ pc[r] = "lookup"
  /\ Kind(r) = "login"
  /\ LET found == Matches(call[r])
         right == {id \in found : users[id].password = call[r].password}
     IN \/ /\ Cardinality(found) > 1
           /\ Finish(r, Problem(500, "MultipleResultsFound"))
           /\ UNCHANGED read
        \/ /\ Cardinality(found) <= 1
           /\ right = {}
           /\ Finish(r, Problem(401, "credentials"))
           /\ UNCHANGED read
        \/ /\ Cardinality(found) = 1
           /\ \E id \in right :
                \/ /\ users[id].active
                   /\ read' = [read EXCEPT ![r] =
                                 [id |-> id, row |-> [users[id] EXCEPT !.last_login = now]]]
                   /\ Goto(r, "write")
                   /\ UNCHANGED answer
                \/ /\ ~users[id].active
                   /\ read' = [read EXCEPT ![r] = [id |-> id, row |-> users[id]]]
                   /\ Finish(r, Problem(403, "inactive"))
  /\ UNCHANGED <<users, starts, now, issued, call, worker, token, granted, seen>>

\* A pair of tokens is made and sent.
Grant(r, id) ==
  /\ issued' = issued \cup TokenPair(id, SigningKey(worker[r]), now)
  /\ granted' = [granted EXCEPT ![id] = now]
  /\ Finish(r, Answer(200))

\* A plausible bug: refresh does not ask whether the user is active.
RefreshAnyUser(r) ==
  /\ pc[r] = "lookup"
  /\ Kind(r) = "refresh"
  /\ read' = [read EXCEPT ![r] = [id |-> token[r].sub, row |-> users[token[r].sub]]]
  /\ Grant(r, token[r].sub)
  /\ UNCHANGED <<users, starts, now, call, worker, token, seen>>

\* refresh: the user is read, and new tokens are answered at once.
Refresh(r) ==
  /\ pc[r] = "lookup"
  /\ Kind(r) = "refresh"
  /\ LET id == token[r].sub
     IN /\ read' = [read EXCEPT ![r] = [id |-> id, row |-> users[id]]]
        /\ \/ users[id].active /\ Grant(r, id)
           \/ /\ ~users[id].active
              /\ Finish(r, Problem(401, "inactive"))
              /\ UNCHANGED <<issued, granted>>
  /\ UNCHANGED <<users, starts, now, call, worker, token, seen>>

\* get_current_active_user, and what the endpoint does with the user before
\* its next database call.
ReadCurrentUser(r) ==
  /\ pc[r] = "lookup"
  /\ Kind(r) \in {"me", "update", "password"}
  /\ LET id   == token[r].sub
         user == users[id]
     IN /\ read' = [read EXCEPT ![r] = [id |-> id, row |-> user]]
        /\ \/ /\ ~user.active
              /\ Finish(r, Problem(403, "inactive"))
           \/ /\ user.active
              /\ Kind(r) = "me"
              /\ Finish(r, Answer(200))
           \/ /\ user.active
              /\ Kind(r) = "password"
              /\ call[r].current # user.password \/ call[r].current = call[r].new
              /\ Finish(r, Problem(400, "password"))
           \/ /\ user.active
              /\ Kind(r) = "password" =>
                   call[r].current = user.password /\ call[r].current # call[r].new
              /\ Kind(r) # "me"
              /\ Goto(r, "write")
              /\ UNCHANGED answer
  /\ UNCHANGED <<users, starts, now, issued, call, worker, token, granted, seen>>

\* The UPDATE of login, update and change-password, and its commit.
UpdateUser(r) ==
  /\ pc[r] = "write"
  /\ Kind(r) \in {"login", "update", "password"}
  /\ users' = [users EXCEPT ![read[r].id] = Written(r)]
  /\ Goto(r, "respond")
  /\ UNCHANGED <<starts, now, issued, call, worker, token, read, answer, granted, seen>>

\* What comes after the commit.
Respond(r) ==
  /\ pc[r] = "respond"
  /\ \/ /\ Kind(r) = "login"
        /\ Grant(r, read[r].id)
     \/ /\ Kind(r) # "login"
        /\ Finish(r, Answer(IF Kind(r) = "register" THEN 201 ELSE 200))
        /\ UNCHANGED <<issued, granted>>
  /\ UNCHANGED <<users, starts, now, call, worker, token, read, seen>>

-----------------------------------------------------------------------------
(* What happens to a request, a worker, a user *)

\* A statement fails, the pool times out, a commit's acknowledgement is lost.
Fail(r) ==
  /\ pc[r] \in InFlight
  /\ Finish(r, Problem(500, "DBError"))
  /\ UNCHANGED <<users, starts, now, issued, call, worker, token, read, granted, seen>>

\* The process ends with all its requests, and starts again.
Restart(w) ==
  /\ starts[w] < MaxRestarts
  /\ starts' = [starts EXCEPT ![w] = @ + 1]
  /\ pc' = [r \in Request |-> IF worker[r] = w /\ pc[r] \in InFlight THEN "lost" ELSE pc[r]]
  /\ UNCHANGED <<users, now, issued, call, worker, token, read, answer, granted, seen>>

\* Somebody clears is_active in the database: no endpoint does.
Deactivate(id) ==
  /\ users[id].active
  /\ users' = [users EXCEPT ![id].active = FALSE]
  /\ UNCHANGED <<starts, now, issued, call, pc, worker, token, read, answer, granted, seen>>

Tick ==
  /\ now < Horizon
  /\ now' = now + 1
  /\ UNCHANGED <<users, starts, issued, call, pc, worker, token, read, answer, granted, seen>>

Step(r) ==
  \/ Arrive(r) \/ PresentToken(r) \/ FindConflict(r) \/ InsertUser(r) \/ FindLogin(r)
  \/ Refresh(r) \/ ReadCurrentUser(r) \/ UpdateUser(r) \/ Respond(r) \/ Fail(r)

Next ==
  \/ \E r \in Request : Step(r)
  \/ \E w \in Worker : Restart(w)
  \/ \E id \in DOMAIN users : Deactivate(id)
  \/ Tick

Spec == Init /\ [][Next]_vars

-----------------------------------------------------------------------------
(* Properties *)

\* Types of the state.
TypeOK ==
  /\ DOMAIN users \subseteq UserId /\ DOMAIN Seeded \subseteq DOMAIN users
  /\ \A id \in DOMAIN users : users[id] \in RowType
  /\ starts \in [Worker -> 0..MaxRestarts]
  /\ now \in 0..Horizon
  /\ issued \subseteq TokenType(DOMAIN users, Keys)
  /\ call \in [Request -> Calls]
  /\ pc \in [Request -> Places]
  /\ worker \in [Request -> Worker \cup {None}]
  /\ token \in [Request -> issued \cup {Forged}]
  /\ read \in [Request -> [id : DOMAIN users, row : RowType] \cup {NoUser}]
  /\ answer \in [Request -> AnswerType]
  /\ granted \in [UserId -> 0..Horizon]
  /\ seen \in [Request -> [inactive : SUBSET UserId, granted : [UserId -> 0..Horizon],
                           time : 0..Horizon]]

\* No two accounts have the same email, nor usernames that differ only in case:
\* the lookup of register is a race, and looks at the username as written.
NamesDistinct ==
  \A id1, id2 \in DOMAIN users : Clashes(users[id1], users[id2]) => id1 = id2

\* The answer to a register is true of the table and stays so: 201 for an
\* account with its names; 400 when another account has what the detail names;
\* an error of the database only when another account has one of its names; and
\* in the last two cases it has made no account itself.
RegisterHonest ==
  \A r \in Request : Kind(r) = "register" =>
    LET others == {users[id] : id \in DOMAIN users \ {r}}
    IN /\ answer[r].status = 201 => /\ r \in DOMAIN users
                                    /\ users[r].email = call[r].email
                                    /\ users[r].username = call[r].username
       /\ answer[r].error = "email"    => \E u \in others : u.email = call[r].email
       /\ answer[r].error = "username" => \E u \in others : u.username = call[r].username
       /\ answer[r].error \in {"IntegrityError", "MultipleResultsFound"}
            => \E u \in others : Clashes(u, call[r])
       /\ r \in DOMAIN users => answer[r].error \in {"none", "DBError"}

SameUser(r, s) == read[r].id = read[s].id /\ Kind(r) = Kind(s)

\* What a login, an update or a password change has written and answered 200
\* for lasts until another of its kind: what they have read of one user is stale
\* when they write, but they write different columns.
ChangesKept ==
  \A r \in Request :
    answer[r].status = 200 /\ (\A s \in Request \ {r} : ~SameUser(r, s)) =>
      /\ Kind(r) = "update" /\ call[r].name # None => users[read[r].id].name = call[r].name
      /\ Kind(r) = "password" => users[read[r].id].password = call[r].new
      /\ Kind(r) = "login" => users[read[r].id].last_login >= seen[r].time

\* A user who was inactive when a request arrived gets nothing from it, by
\* password, by refresh token or by access token.
InactiveShutOut ==
  \A r \in Request : read[r].id \in seen[r].inactive => answer[r].status # 200

\* Access lasts for AccessLife after the user's last login or refresh, and a
\* session that is not refreshed for RefreshLife is over: neither kind of token
\* does the other's work.
SessionsExpire ==
  \A r \in Request : Kind(r) \in DOMAIN TokenKind /\ answer[r].status = 200 =>
    seen[r].time <= seen[r].granted[read[r].id] + Life[TokenKind[Kind(r)]]

\* README: "JWT-based stateless authentication.  Enables horizontal scaling
\* without session state management".  Whichever worker gets it, and whatever
\* was restarted meanwhile, a token is honoured until it expires, for what it
\* is for, as long as its user is active.
HonouredUntilExpiry ==
  \A r \in Request :
    /\ Kind(r) \in DOMAIN TokenKind
    /\ token[r] \in issued
    /\ token[r].type = TokenKind[Kind(r)]
    /\ seen[r].time <= token[r].exp
    /\ users[token[r].sub].active
    => answer[r].status # 401
=============================================================================
