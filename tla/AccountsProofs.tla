--------------------------- MODULE AccountsProofs ---------------------------
(***************************************************************************)
(* What TLAPS proves of Accounts, for every set of requests, workers and   *)
(* users, all bodies, every clock and all lives of tokens.                 *)
(***************************************************************************)
EXTENDS Accounts, FiniteSetTheorems, TLAPS

-----------------------------------------------------------------------------
(* Calls, keys and tokens *)

Kinds == {"register", "login", "refresh", "me", "update", "password"}

\* Four kinds of request present a token.
LEMMA TokenKinds ==
  /\ DOMAIN TokenKind = {"refresh", "me", "update", "password"}
  /\ \A kind \in DOMAIN TokenKind : TokenKind[kind] \in TokenTypes
  BY DEF TokenKind, TokenTypes

\* What the body of a request has, by its kind.
LEMMA KindTyped ==
  ASSUME TypeOK, NEW r \in Request
  PROVE  /\ Kind(r) \in Kinds
         /\ Kind(r) = "register" => /\ call[r].email \in Email
                                    /\ call[r].username \in Username
                                    /\ call[r].password \in Password
         /\ Kind(r) = "update" => call[r].name \in FullName \cup {None}
         /\ Kind(r) = "password" => call[r].new \in Password
<1>1. call[r] \in CallType
  BY CallsAssumption DEF TypeOK
<1> QED
  BY <1>1 DEF CallType, Kind, Kinds

\* A worker signs with a key that nobody outside has.
LEMMA SigningKeyTyped ==
  ASSUME TypeOK, NEW w \in Worker
  PROVE  SigningKey(w) \in Keys /\ SigningKey(w) # <<"forged", 0>>
<1>1. starts[w] \in 0..MaxRestarts
  BY DEF TypeOK
<1>2. <<w, starts[w]>> \in Keys
  BY <1>1 DEF Keys
<1>3. <<w, starts[w]>> # <<"forged", 0>>
  BY NamesAssumption
<1> QED
  BY <1>2, <1>3 DEF SigningKey, Keys

LEMMA LifeTyped == \A type \in TokenTypes : Life[type] \in Nat
  BY LivesAssumption DEF Life

LEMMA TokenPairTyped ==
  ASSUME NEW User, NEW Key, NEW id \in User, NEW key \in Key, NEW time \in Nat
  PROVE  TokenPair(id, key, time) \subseteq TokenType(User, Key)
<1>1. \A type \in TokenTypes : time + Life[type] \in Nat
  BY LifeTyped
<1> QED
  BY <1>1 DEF TokenPair, Token, TokenType

-----------------------------------------------------------------------------
(* Type correctness *)

\* What a request has when it waits for the database: its worker; the token it
\* was let in with, which is one of those given out; after the lookup, the user
\* it has read, who is still there.
StageOK ==
  \A r \in Request :
    /\ pc[r] \in InFlight => worker[r] \in Worker
    /\ pc[r] \in InFlight /\ Kind(r) \in DOMAIN TokenKind =>
         token[r] \in issued /\ token[r].type = TokenKind[Kind(r)]
    /\ pc[r] \in {"write", "respond"} /\ Kind(r) # "register" =>
         read[r] \in [id : DOMAIN users, row : RowType]
    /\ pc[r] # "done" => answer[r] = NoAnswer

TInv == TypeOK /\ StageOK

LEMMA AnswerTyped ==
  /\ NoAnswer \in AnswerType
  /\ Answer(200) \in AnswerType /\ Answer(201) \in AnswerType
  /\ \A code \in {400, 401, 403, 500}, e \in Problems : Problem(code, e) \in AnswerType
  BY DEF NoAnswer, Answer, Problem, AnswerType, Problems

\* The rows of the table keep their type, and their names, whoever writes.
LEMMA WrittenTyped ==
  ASSUME TInv, NEW r \in Request, Kind(r) \in {"login", "update", "password"},
         pc[r] = "write"
  PROVE  LET row == users[read[r].id]
         IN /\ read[r].id \in DOMAIN users
            /\ Written(r) \in RowType
            /\ Written(r).email = row.email
            /\ Written(r).username = row.username
            /\ Written(r).active = row.active
<1> DEFINE row == users[read[r].id]
<1>1. read[r].id \in DOMAIN users /\ read[r].row \in RowType
  BY DEF TInv, StageOK
<1>2. row \in RowType
  BY <1>1 DEF TInv, TypeOK
<1>3. /\ Kind(r) = "update" => call[r].name \in FullName \cup {None}
      /\ Kind(r) = "password" => call[r].new \in Password
  BY KindTyped DEF TInv
<1> HIDE DEF row
<1>4. CASE Kind(r) = "login"
  <2>1. Written(r) = [row EXCEPT !.last_login = read[r].row.last_login]
    BY <1>4 DEF Written, row
  <2>2. read[r].row.last_login \in Nat
    BY <1>1 DEF RowType
  <2> QED
    BY <1>1, <1>2, <2>1, <2>2 DEF RowType, row
<1>5. CASE Kind(r) = "password"
  <2>1. Written(r) = [row EXCEPT !.password = call[r].new]
    BY <1>5 DEF Written, row
  <2> QED
    BY <1>1, <1>2, <1>3, <1>5, <2>1 DEF RowType, row
<1>6. CASE Kind(r) = "update"
  <2>1. Written(r) = row \/ Written(r) = [row EXCEPT !.name = call[r].name]
    BY <1>6 DEF Written, row
  <2> QED
    BY <1>1, <1>2, <1>3, <1>6, <2>1 DEF RowType, row
<1> QED
  BY <1>4, <1>5, <1>6

LEMMA NewUserTyped ==
  ASSUME TypeOK, NEW r \in Request, Kind(r) = "register"
  PROVE  NewUser(call[r]) \in RowType
<1>1. now \in Nat
  BY BoundsAssumption DEF TypeOK
<1> QED
  BY <1>1, KindTyped DEF NewUser, RowType

\* What a step may do to a request's answer, and to its place with it.
LEMMA FinishTyped ==
  ASSUME TInv, NEW r \in Request, NEW a \in AnswerType, Finish(r, a)
  PROVE  /\ pc' = [pc EXCEPT ![r] = "done"]
         /\ answer' = [answer EXCEPT ![r] = a]
         /\ pc' \in [Request -> Places]
         /\ answer' \in [Request -> AnswerType]
  BY DEF TInv, TypeOK, Finish, Goto, Places

\* A grant adds a pair of tokens for a user who is there.
LEMMA GrantTyped ==
  ASSUME TInv, NEW r \in Request, NEW id \in DOMAIN users, pc[r] \in InFlight, Grant(r, id)
  PROVE  /\ issued' \subseteq TokenType(DOMAIN users, Keys)
         /\ issued \subseteq issued'
         /\ granted' \in [UserId -> 0..Horizon]
         /\ Finish(r, Answer(200))
<1>1. worker[r] \in Worker /\ now \in 0..Horizon /\ Horizon \in Nat
  BY BoundsAssumption DEF TInv, StageOK, TypeOK
<1>2. SigningKey(worker[r]) \in Keys
  BY <1>1, SigningKeyTyped DEF TInv
<1>3. TokenPair(id, SigningKey(worker[r]), now) \subseteq TokenType(DOMAIN users, Keys)
  BY <1>1, <1>2, TokenPairTyped
<1>4. id \in UserId
  BY DEF TInv, TypeOK
<1> QED
  BY <1>1, <1>3, <1>4 DEF Grant, TInv, TypeOK

LEMMA TInvInit == Init => TInv
<1> SUFFICES ASSUME Init PROVE TInv
  OBVIOUS
<1>1. starts \in [Worker -> 0..MaxRestarts] /\ now \in 0..Horizon /\ now \in Nat
  BY BoundsAssumption DEF Init
<1>2. \A w \in Worker : SigningKey(w) \in Keys
  BY <1>1 DEF SigningKey, Keys
<1>3. issued \subseteq TokenType(DOMAIN users, Keys)
  <2>1. PICK w \in Worker :
          issued = UNION {TokenPair(id, SigningKey(w), now) : id \in DOMAIN Seeded}
    BY DEF Init
  <2>2. \A id \in DOMAIN users :
          TokenPair(id, SigningKey(w), now) \subseteq TokenType(DOMAIN users, Keys)
    BY <1>1, <1>2, TokenPairTyped
  <2> QED
    BY <2>1, <2>2 DEF Init
<1>4. /\ DOMAIN users \subseteq UserId /\ DOMAIN Seeded \subseteq DOMAIN users
      /\ \A id \in DOMAIN users : users[id] \in RowType
  BY SeededAssumption DEF Init, UserId
<1>5. /\ pc \in [Request -> Places] /\ worker \in [Request -> Worker \cup {None}]
      /\ token \in [Request -> issued \cup {Forged}]
      /\ read \in [Request -> [id : DOMAIN users, row : RowType] \cup {NoUser}]
      /\ answer \in [Request -> AnswerType]
  BY AnswerTyped DEF Init, Places
<1>6. granted \in [UserId -> 0..Horizon]
  BY DEF Init
<1>7. seen \in [Request -> [inactive : SUBSET UserId, granted : [UserId -> 0..Horizon],
                           time : 0..Horizon]]
  BY <1>1, <1>6 DEF Init
<1>8. TypeOK
  BY <1>1, <1>3, <1>4, <1>5, <1>6, <1>7 DEF TypeOK, Init
<1>9. StageOK
  BY DEF Init, StageOK, InFlight
<1> QED
  BY <1>8, <1>9 DEF TInv

LEMMA TInvStep == TInv /\ [Next]_vars => TInv'
<1> SUFFICES ASSUME TInv, [Next]_vars PROVE TInv'
  OBVIOUS
<1>0. CASE UNCHANGED vars
  BY <1>0 DEF vars, TInv, TypeOK, StageOK, Kind
\* A request is answered, and nothing else happens.
<1>1. ASSUME NEW r \in Request, NEW a \in AnswerType, Finish(r, a),
             UNCHANGED <<users, starts, now, issued, call, worker, token, read, granted, seen>>
      PROVE  TInv'
  <2>1. TypeOK'
    BY <1>1, FinishTyped DEF TInv, TypeOK
  <2>2. StageOK'
    BY <1>1, FinishTyped DEF TInv, TypeOK, StageOK, Kind, InFlight
  <2> QED
    BY <2>1, <2>2 DEF TInv
\* A request reaches a worker, which lets it in or not.
<1>2. ASSUME NEW r \in Request, NEW w \in Worker, Begin(r, w)
      PROVE  /\ worker' \in [Request -> Worker \cup {None}]
             /\ worker' = [worker EXCEPT ![r] = w]
             /\ seen' \in [Request -> [inactive : SUBSET UserId,
                                      granted : [UserId -> 0..Horizon], time : 0..Horizon]]
  <2>1. Inactive \subseteq UserId
    BY DEF TInv, TypeOK, Inactive
  <2> QED
    BY <1>2, <2>1 DEF Begin, TInv, TypeOK
<1>3. ASSUME NEW r \in Request, Arrive(r) PROVE TInv'
  <2>1. PICK w \in Worker : Begin(r, w)
    BY <1>3 DEF Arrive
  <2>2. Kind(r) \notin DOMAIN TokenKind
    BY <1>3, TokenKinds DEF Arrive
  <2>3. TypeOK'
    BY <1>2, <1>3, <2>1 DEF Arrive, Goto, TInv, TypeOK, Places
  <2>4. StageOK'
    BY <1>2, <1>3, <2>1, <2>2 DEF Arrive, Begin, Goto, TInv, TypeOK, StageOK, Kind, InFlight
  <2> QED
    BY <2>3, <2>4 DEF TInv
<1>4. ASSUME NEW r \in Request, PresentToken(r) PROVE TInv'
  <2>1. PICK w \in Worker, t \in issued \cup {Forged} :
          /\ Begin(r, w)
          /\ token' = [token EXCEPT ![r] = t]
          /\ \/ /\ Usable(t, TokenKind[Kind(r)], SigningKey(w), now)
                /\ Goto(r, "lookup")
                /\ UNCHANGED answer
             \/ Finish(r, Problem(401, "token"))
    BY <1>4 DEF PresentToken
  <2>2. CASE Finish(r, Problem(401, "token"))
    <3>1. Problem(401, "token") \in AnswerType
      BY AnswerTyped DEF Problems
    <3> QED
      BY <1>2, <1>4, <2>1, <2>2, <3>1, FinishTyped
      DEF PresentToken, TInv, TypeOK, StageOK, Kind, InFlight
  <2>3. CASE /\ Usable(t, TokenKind[Kind(r)], SigningKey(w), now)
             /\ Goto(r, "lookup")
             /\ UNCHANGED answer
    <3>1. t \in issued /\ t.type = TokenKind[Kind(r)]
      <4>1. t.key = SigningKey(w) /\ t.type = TokenKind[Kind(r)]
        BY <2>3 DEF Usable, Decodes
      <4>2. SigningKey(w) # <<"forged", 0>>
        BY SigningKeyTyped DEF TInv
      <4>3. Forged.key = <<"forged", 0>>
        BY DEF Forged
      <4> QED
        BY <4>1, <4>2, <4>3
    <3>2. TypeOK'
      BY <1>2, <1>4, <2>1, <2>3 DEF PresentToken, Goto, TInv, TypeOK, Places
    <3>3. StageOK'
      BY <1>2, <1>4, <2>1, <2>3, <3>1
      DEF PresentToken, Begin, Goto, TInv, TypeOK, StageOK, Kind, InFlight
    <3> QED
      BY <3>2, <3>3 DEF TInv
  <2> QED
    BY <2>1, <2>2, <2>3
<1>5. ASSUME NEW r \in Request, FindConflict(r) PROVE TInv'
  <2>1. CASE Goto(r, "write") /\ UNCHANGED answer
    BY <1>5, <2>1 DEF FindConflict, Goto, TInv, TypeOK, StageOK, Kind, Places, InFlight
  <2>2. ASSUME NEW a \in AnswerType, Finish(r, a) PROVE TInv'
    BY <1>1, <1>5, <2>2 DEF FindConflict
  <2>3. /\ Problem(500, "MultipleResultsFound") \in AnswerType
        /\ \A id : Problem(400, IF users[id].email = call[r].email
                                THEN "email" ELSE "username") \in AnswerType
    BY AnswerTyped DEF Problems
  <2> QED
    BY <1>5, <2>1, <2>2, <2>3 DEF FindConflict
\* The table has changed, and a request has gone on or nobody has.
<1>6. ASSUME DOMAIN users \subseteq DOMAIN users', DOMAIN users' \subseteq UserId,
             \A id \in DOMAIN users' : users'[id] \in RowType,
             \/ UNCHANGED pc
             \/ \E r \in Request : pc[r] = "write" /\ Goto(r, "respond"),
             UNCHANGED <<starts, now, issued, call, worker, token, read, answer, granted, seen>>
      PROVE  TInv'
  <2>1. issued \subseteq TokenType(DOMAIN users', Keys)
    BY <1>6 DEF TInv, TypeOK, TokenType
  <2>2. read \in [Request -> [id : DOMAIN users', row : RowType] \cup {NoUser}]
    <3>1. [id : DOMAIN users, row : RowType] \subseteq [id : DOMAIN users', row : RowType]
      BY <1>6
    <3> QED
      BY <3>1 DEF TInv, TypeOK
  <2>3. pc' \in [Request -> Places]
    BY <1>6 DEF TInv, TypeOK, Goto, Places
  <2>4. TypeOK'
    BY <1>6, <2>1, <2>2, <2>3 DEF TInv, TypeOK
  <2>5. StageOK'
    <3>1. \A r \in Request :
            /\ pc'[r] \in InFlight => pc[r] \in InFlight
            /\ pc'[r] \in {"write", "respond"} => pc[r] \in {"write", "respond"}
            /\ pc'[r] # "done" => pc[r] # "done"
      BY <1>6 DEF TInv, TypeOK, Goto, InFlight
    <3> QED
      BY <1>6, <3>1 DEF TInv, StageOK, Kind
  <2> QED
    BY <2>4, <2>5 DEF TInv
<1>7. ASSUME NEW r \in Request, InsertUser(r) PROVE TInv'
  <2> DEFINE row == NewUser(call[r])
  <2>1. row \in RowType
    BY <1>7, NewUserTyped DEF InsertUser, TInv
  <2> HIDE DEF row
  <2>2. CASE /\ users' = [id \in DOMAIN users \cup {r} |-> IF id = r THEN row ELSE users[id]]
             /\ Goto(r, "respond")
             /\ UNCHANGED answer
    <3>1. DOMAIN users' = DOMAIN users \cup {r}
      BY <2>2
    <3>2. \A id \in DOMAIN users' : users'[id] \in RowType
      BY <2>1, <2>2 DEF TInv, TypeOK
    <3>3. DOMAIN users' \subseteq UserId
      BY <3>1 DEF TInv, TypeOK, UserId
    <3> QED
      BY <1>6, <1>7, <2>2, <3>1, <3>2, <3>3 DEF InsertUser
  <2>3. CASE Finish(r, Problem(500, "IntegrityError")) /\ UNCHANGED users
    <3>1. Problem(500, "IntegrityError") \in AnswerType
      BY AnswerTyped DEF Problems
    <3> QED
      BY <1>1, <1>7, <2>3, <3>1 DEF InsertUser
  <2> QED
    BY <1>7, <2>2, <2>3 DEF InsertUser, row
<1>8. ASSUME NEW r \in Request, UpdateUser(r) PROVE TInv'
  <2>1. /\ users' = [users EXCEPT ![read[r].id] = Written(r)]
        /\ Written(r) \in RowType
    BY <1>8, WrittenTyped DEF UpdateUser
  <2>2. DOMAIN users' = DOMAIN users /\ \A id \in DOMAIN users' : users'[id] \in RowType
    BY <2>1 DEF TInv, TypeOK
  <2> QED
    BY <1>6, <1>8, <2>2 DEF UpdateUser, TInv, TypeOK
<1>9. ASSUME NEW id \in DOMAIN users, Deactivate(id) PROVE TInv'
  <2>1. users' = [users EXCEPT ![id].active = FALSE]
    BY <1>9 DEF Deactivate
  <2>2. [users[id] EXCEPT !.active = FALSE] \in RowType
    BY DEF TInv, TypeOK, RowType
  <2>3. DOMAIN users' = DOMAIN users /\ \A id2 \in DOMAIN users' : users'[id2] \in RowType
    BY <2>1, <2>2 DEF TInv, TypeOK
  <2> QED
    BY <1>6, <1>9, <2>3 DEF Deactivate, TInv, TypeOK
\* A request has read a user.
<1>10. ASSUME NEW r \in Request, NEW user \in [id : DOMAIN users, row : RowType],
              pc[r] = "lookup", read' = [read EXCEPT ![r] = user],
              UNCHANGED <<users, starts, now, call, worker, token, seen>>
       PROVE  /\ Goto(r, "write") /\ UNCHANGED <<issued, granted, answer>> => TInv'
              /\ \A a \in AnswerType :
                   Finish(r, a) /\ UNCHANGED <<issued, granted>> => TInv'
              /\ \A id \in DOMAIN users : Grant(r, id) => TInv'
  <2>1. read' \in [Request -> [id : DOMAIN users, row : RowType] \cup {NoUser}]
    BY <1>10 DEF TInv, TypeOK
  <2>2. ASSUME Goto(r, "write"), UNCHANGED <<issued, granted, answer>> PROVE TInv'
    BY <1>10, <2>1, <2>2 DEF Goto, TInv, TypeOK, StageOK, Kind, Places, InFlight
  <2>3. ASSUME NEW a \in AnswerType, Finish(r, a), granted' \in [UserId -> 0..Horizon],
               issued \subseteq issued', issued' \subseteq TokenType(DOMAIN users, Keys)
        PROVE  TInv'
    <3>1. TypeOK'
      BY <1>10, <2>1, <2>3, FinishTyped DEF TInv, TypeOK
    <3>2. StageOK'
      BY <1>10, <2>3, FinishTyped DEF TInv, TypeOK, StageOK, Kind, InFlight
    <3> QED
      BY <3>1, <3>2 DEF TInv
  <2>4. ASSUME NEW a \in AnswerType, Finish(r, a), UNCHANGED <<issued, granted>> PROVE TInv'
    BY <2>3, <2>4 DEF TInv, TypeOK
  <2>5. ASSUME NEW id \in DOMAIN users, Grant(r, id) PROVE TInv'
    <3>1. pc[r] \in InFlight
      BY <1>10 DEF InFlight
    <3> QED
      BY <2>3, <2>5, <3>1, GrantTyped, AnswerTyped
  <2> QED
    BY <2>2, <2>4, <2>5
<1>11. ASSUME NEW r \in Request, FindLogin(r) PROVE TInv'
  <2>1. ASSUME NEW e \in Problems, NEW code \in {401, 500},
               Finish(r, Problem(code, e)), UNCHANGED read
        PROVE  TInv'
    BY <1>1, <1>11, <2>1, AnswerTyped DEF FindLogin
  <2>2. ASSUME NEW id \in Matches(call[r]),
               \/ /\ read' = [read EXCEPT ![r] =
                                [id |-> id, row |-> [users[id] EXCEPT !.last_login = now]]]
                  /\ Goto(r, "write")
                  /\ UNCHANGED answer
               \/ /\ read' = [read EXCEPT ![r] = [id |-> id, row |-> users[id]]]
                  /\ Finish(r, Problem(403, "inactive"))
        PROVE  TInv'
    <3>1. id \in DOMAIN users /\ users[id] \in RowType
      BY DEF Matches, TInv, TypeOK
    <3>2. [users[id] EXCEPT !.last_login = now] \in RowType
      <4>1. now \in Nat
        BY BoundsAssumption DEF TInv, TypeOK
      <4> QED
        BY <3>1, <4>1 DEF RowType
    <3>3. Problem(403, "inactive") \in AnswerType
      BY AnswerTyped DEF Problems
    <3> QED
      BY <1>10, <1>11, <2>2, <3>1, <3>2, <3>3 DEF FindLogin
  <2> QED
    BY <1>11, <2>1, <2>2 DEF FindLogin, Problems
<1>12. ASSUME NEW r \in Request, pc[r] = "lookup", Kind(r) \in DOMAIN TokenKind
       PROVE  /\ token[r].sub \in DOMAIN users
              /\ [id |-> token[r].sub, row |-> users[token[r].sub]]
                   \in [id : DOMAIN users, row : RowType]
  <2>1. token[r] \in issued
    BY <1>12 DEF TInv, StageOK, InFlight
  <2> QED
    BY <2>1 DEF TInv, TypeOK, TokenType
<1>13. ASSUME NEW r \in Request, Refresh(r) PROVE TInv'
  <2>1. Kind(r) \in DOMAIN TokenKind
    BY <1>13, TokenKinds DEF Refresh
  <2>2. Problem(401, "inactive") \in AnswerType
    BY AnswerTyped DEF Problems
  <2> QED
    BY <1>10, <1>12, <1>13, <2>1, <2>2 DEF Refresh
<1>14. ASSUME NEW r \in Request, ReadCurrentUser(r) PROVE TInv'
  <2>1. Kind(r) \in DOMAIN TokenKind
    BY <1>14, TokenKinds DEF ReadCurrentUser
  <2>2. /\ Problem(403, "inactive") \in AnswerType
        /\ Problem(400, "password") \in AnswerType
        /\ Answer(200) \in AnswerType
    BY AnswerTyped DEF Problems
  <2> QED
    BY <1>10, <1>12, <1>14, <2>1, <2>2 DEF ReadCurrentUser
<1>15. ASSUME NEW r \in Request, Respond(r) PROVE TInv'
  <2>1. CASE Kind(r) = "login" /\ Grant(r, read[r].id)
    <3>1. read[r].id \in DOMAIN users /\ pc[r] \in InFlight
      BY <1>15, <2>1 DEF Respond, TInv, StageOK, InFlight
    <3>2. /\ issued' \subseteq TokenType(DOMAIN users, Keys)
          /\ issued \subseteq issued'
          /\ granted' \in [UserId -> 0..Horizon]
          /\ Finish(r, Answer(200))
      BY <2>1, <3>1, GrantTyped
    <3>3. TypeOK'
      BY <1>15, <3>2, FinishTyped, AnswerTyped DEF Respond, TInv, TypeOK
    <3>4. StageOK'
      BY <1>15, <3>2, FinishTyped, AnswerTyped DEF Respond, TInv, TypeOK, StageOK, Kind, InFlight
    <3> QED
      BY <3>3, <3>4 DEF TInv
  <2>2. CASE /\ Finish(r, Answer(IF Kind(r) = "register" THEN 201 ELSE 200))
             /\ UNCHANGED <<issued, granted>>
    BY <1>1, <1>15, <2>2, AnswerTyped DEF Respond
  <2> QED
    BY <1>15, <2>1, <2>2 DEF Respond
<1>16. ASSUME NEW r \in Request, Fail(r) PROVE TInv'
  <2>1. Problem(500, "DBError") \in AnswerType
    BY AnswerTyped DEF Problems
  <2> QED
    BY <1>1, <1>16, <2>1 DEF Fail
<1>17. ASSUME NEW w \in Worker, Restart(w) PROVE TInv'
  <2>1. starts' \in [Worker -> 0..MaxRestarts]
    BY <1>17, BoundsAssumption DEF Restart, TInv, TypeOK
  <2>2. pc' \in [Request -> Places] /\ \A r \in Request : pc'[r] \in {"lost", pc[r]}
    BY <1>17 DEF Restart, TInv, TypeOK, Places
  <2>3. TypeOK'
    BY <1>17, <2>1, <2>2 DEF Restart, TInv, TypeOK
  <2>4. StageOK'
    BY <1>17, <2>2 DEF Restart, TInv, TypeOK, StageOK, Kind, InFlight
  <2> QED
    BY <2>3, <2>4 DEF TInv
<1>18. CASE Tick
  BY <1>18, BoundsAssumption DEF Tick, TInv, TypeOK, StageOK, Kind
<1> QED
  BY <1>0, <1>3, <1>4, <1>5, <1>7, <1>8, <1>9, <1>11, <1>13, <1>14, <1>15, <1>16, <1>17, <1>18
  DEF Next, Step

\* Type correctness: tokens name users who are there and are signed by a
\* worker's key, and a request acts for a user it has read.
THEOREM TypeCorrect == Spec => []TypeOK
<1>1. TInv => TypeOK
  BY DEF TInv
<1> QED
  BY TInvInit, TInvStep, <1>1, PTL DEF Spec

-----------------------------------------------------------------------------
(* What a step can do to one request and to the table *)

Waits(r) ==
  /\ token'[r] = token[r] /\ read'[r] = read[r] /\ answer'[r] = answer[r]
  /\ seen'[r] = seen[r]
  /\ \/ pc'[r] = pc[r]
     \/ pc'[r] = "lost" /\ pc[r] \in InFlight

\* A step is one of the request, or leaves it as it is, or its worker dies.
LEMMA OneRequest ==
  ASSUME TInv, [Next]_vars, NEW r \in Request
  PROVE  Step(r) \/ Waits(r)
<1>1. ASSUME NEW s \in Request, Step(s), s # r PROVE Waits(r)
  <2>1. ASSUME NEW a, Finish(s, a) PROVE pc'[r] = pc[r] /\ answer'[r] = answer[r]
    BY <1>1, <2>1 DEF Finish, Goto, TInv, TypeOK
  <2>2. ASSUME NEW place, Goto(s, place) PROVE pc'[r] = pc[r]
    BY <1>1, <2>2 DEF Goto, TInv, TypeOK
  <2>3. CASE Arrive(s) \/ PresentToken(s)
    BY <1>1, <2>1, <2>2, <2>3 DEF Arrive, PresentToken, Begin, TInv, TypeOK, Waits
  <2>4. CASE FindConflict(s) \/ InsertUser(s) \/ UpdateUser(s) \/ Fail(s)
    BY <1>1, <2>1, <2>2, <2>4 DEF FindConflict, InsertUser, UpdateUser, Fail, TInv, TypeOK, Waits
  <2>5. CASE FindLogin(s)
    BY <1>1, <2>1, <2>2, <2>5 DEF FindLogin, TInv, TypeOK, Waits
  <2>6. CASE Refresh(s) \/ Respond(s)
    BY <1>1, <2>1, <2>6 DEF Refresh, Respond, Grant, TInv, TypeOK, Waits
  <2>7. CASE ReadCurrentUser(s)
    BY <1>1, <2>1, <2>2, <2>7 DEF ReadCurrentUser, TInv, TypeOK, Waits
  <2> QED
    BY <1>1, <2>3, <2>4, <2>5, <2>6, <2>7 DEF Step
<1>2. ASSUME NEW w \in Worker, Restart(w) PROVE Waits(r)
  BY <1>2 DEF Restart, Waits
<1>3. CASE Tick \/ UNCHANGED vars \/ \E id \in DOMAIN users : Deactivate(id)
  BY <1>3 DEF Tick, vars, Deactivate, Waits
<1> QED
  BY <1>1, <1>2, <1>3 DEF Next

\* A register that has made its account has nothing more to write.
MadeOnce == \A r \in Request : r \in DOMAIN users => pc[r] \in {"respond", "done", "lost"}

LEMMA MadeOnceStep == TInv /\ MadeOnce /\ [Next]_vars => MadeOnce'
<1> SUFFICES ASSUME TInv, MadeOnce, [Next]_vars, NEW r \in Request, r \in DOMAIN users'
             PROVE  pc'[r] \in {"respond", "done", "lost"}
  BY DEF MadeOnce
<1>1. ASSUME NEW s \in Request, InsertUser(s)
      PROVE  \/ UNCHANGED users
             \/ DOMAIN users' = DOMAIN users \cup {s} /\ pc'[s] = "respond"
  BY <1>1 DEF InsertUser, Goto, TInv, TypeOK
<1>2. \/ DOMAIN users' = DOMAIN users
      \/ \E s \in Request : InsertUser(s)
  BY DEF Next, Step, vars, Arrive, PresentToken, FindConflict, FindLogin, Refresh,
         ReadCurrentUser, Respond, Fail, Restart, Tick, UpdateUser, Deactivate
<1>3. r \notin DOMAIN users => pc'[r] = "respond"
  BY <1>1, <1>2
<1>4. ASSUME r \in DOMAIN users PROVE pc'[r] \in {"respond", "done", "lost"}
  <2>1. pc[r] \in {"respond", "done", "lost"}
    BY <1>4 DEF MadeOnce
  <2>2. CASE Waits(r)
    BY <2>1, <2>2 DEF Waits
  <2>3. CASE Step(r)
    <3>1. Respond(r) \/ Fail(r)
      BY <2>1, <2>3 DEF Step, Arrive, PresentToken, Begin, FindConflict, InsertUser, FindLogin,
           Refresh, ReadCurrentUser, UpdateUser
    <3> QED
      BY <3>1 DEF Respond, Fail, Grant, Finish, Goto, TInv, TypeOK
  <2> QED
    BY <2>2, <2>3, OneRequest
<1> QED
  BY <1>3, <1>4

IInv == TInv /\ MadeOnce

LEMMA IInvInit == Init => IInv
<1>1. Init => MadeOnce
  BY SeededAssumption DEF Init, MadeOnce
<1> QED
  BY <1>1, TInvInit DEF IInv

LEMMA IInvStep == IInv /\ [Next]_vars => IInv'
  BY TInvStep, MadeOnceStep DEF IInv

NamesKept(id) ==
  /\ users'[id].email = users[id].email
  /\ users'[id].username = users[id].username
  /\ users'[id].active => users[id].active

\* Users stay, with their names; nobody is activated; one user is added at a
\* time, by a register whose names nobody has.
LEMMA UsersStep ==
  ASSUME IInv, [Next]_vars
  PROVE  /\ call' = call
         /\ \A i \in DOMAIN users : i \in DOMAIN users' /\ NamesKept(i)
         /\ \/ DOMAIN users' = DOMAIN users
            \/ \E r \in Request :
                 /\ InsertUser(r)
                 /\ ~Taken(NewUser(call[r]))
                 /\ r \notin DOMAIN users
                 /\ DOMAIN users' = DOMAIN users \cup {r}
                 /\ users'[r] = NewUser(call[r])
<1>1. ASSUME NEW r \in Request, InsertUser(r), ~UNCHANGED users
      PROVE  /\ ~Taken(NewUser(call[r]))
             /\ r \notin DOMAIN users
             /\ users' = [id \in DOMAIN users \cup {r} |->
                            IF id = r THEN NewUser(call[r]) ELSE users[id]]
  BY <1>1 DEF InsertUser, IInv, MadeOnce
<1>2. ASSUME NEW r \in Request, InsertUser(r), ~UNCHANGED users
      PROVE  /\ DOMAIN users' = DOMAIN users \cup {r}
             /\ users'[r] = NewUser(call[r])
             /\ \A id \in DOMAIN users : users'[id] = users[id]
  BY <1>1, <1>2
<1>3. ASSUME NEW r \in Request, UpdateUser(r)
      PROVE  /\ DOMAIN users' = DOMAIN users
             /\ \A i \in DOMAIN users : NamesKept(i)
  <2>1. /\ users' = [users EXCEPT ![read[r].id] = Written(r)]
        /\ Written(r).email = users[read[r].id].email
        /\ Written(r).username = users[read[r].id].username
        /\ Written(r).active = users[read[r].id].active
    BY <1>3, WrittenTyped DEF UpdateUser, IInv
  <2> QED
    BY <2>1 DEF NamesKept
<1>4. ASSUME NEW user \in DOMAIN users, Deactivate(user)
      PROVE  /\ DOMAIN users' = DOMAIN users
             /\ \A i \in DOMAIN users : NamesKept(i)
  <2>1. users[user] \in RowType /\ users' = [users EXCEPT ![user].active = FALSE]
    BY <1>4 DEF Deactivate, IInv, TInv, TypeOK
  <2> QED
    BY <2>1 DEF RowType, NamesKept
<1>5. UNCHANGED call
  BY DEF Next, Step, vars, Arrive, PresentToken, FindConflict, InsertUser, FindLogin, Refresh,
         ReadCurrentUser, UpdateUser, Respond, Fail, Restart, Deactivate, Tick
<1>6. \/ UNCHANGED users
      \/ \E r \in Request : InsertUser(r) \/ UpdateUser(r)
      \/ \E id \in DOMAIN users : Deactivate(id)
  BY DEF Next, Step, vars, Arrive, PresentToken, FindConflict, FindLogin, Refresh,
         ReadCurrentUser, Respond, Fail, Restart, Tick
<1>7. ASSUME NEW i \in DOMAIN users
      PROVE  i \in DOMAIN users' /\ NamesKept(i)
  <2>1. CASE UNCHANGED users
    BY <2>1 DEF NamesKept
  <2>2. CASE \E r \in Request : InsertUser(r) /\ ~UNCHANGED users
    <3>1. i \in DOMAIN users' /\ users'[i] = users[i]
      BY <1>2, <2>2
    <3> QED
      BY <3>1 DEF NamesKept
  <2>3. CASE \E r \in Request : UpdateUser(r)
    BY <1>3, <2>3
  <2>4. CASE \E user \in DOMAIN users : Deactivate(user)
    BY <1>4, <2>4
  <2> QED
    BY <1>6, <2>1, <2>2, <2>3, <2>4
<1>8. ASSUME NEW r \in Request, InsertUser(r), ~UNCHANGED users
      PROVE  /\ InsertUser(r)
             /\ ~Taken(NewUser(call[r]))
             /\ r \notin DOMAIN users
             /\ DOMAIN users' = DOMAIN users \cup {r}
             /\ users'[r] = NewUser(call[r])
  BY <1>1, <1>2, <1>8
<1>9. ~(\E r \in Request : InsertUser(r) /\ ~UNCHANGED users) => DOMAIN users' = DOMAIN users
  BY <1>3, <1>4, <1>6
<1> QED
  BY <1>5, <1>7, <1>8, <1>9

-----------------------------------------------------------------------------
(* Names *)

LEMMA NamesStep == IInv /\ NamesDistinct /\ [Next]_vars => NamesDistinct'
<1> SUFFICES ASSUME IInv, NamesDistinct, [Next]_vars,
                    NEW id1 \in DOMAIN users', NEW id2 \in DOMAIN users',
                    Clashes(users'[id1], users'[id2])
             PROVE  id1 = id2
  BY DEF NamesDistinct
<1>1. \A i \in DOMAIN users : i \in DOMAIN users' /\ NamesKept(i)
  BY UsersStep
<1>2. CASE id1 \in DOMAIN users /\ id2 \in DOMAIN users
  <2>1. Clashes(users[id1], users[id2])
    BY <1>1, <1>2 DEF NamesKept, Clashes, Lower
  <2> QED
    BY <1>2, <2>1 DEF NamesDistinct
<1>3. CASE ~(id1 \in DOMAIN users /\ id2 \in DOMAIN users)
  <2>1. PICK r \in Request :
          /\ ~Taken(NewUser(call[r]))
          /\ DOMAIN users' = DOMAIN users \cup {r}
          /\ users'[r] = NewUser(call[r])
    BY <1>3, UsersStep
  <2>2. \A i \in DOMAIN users :
          ~Clashes(users'[i], users'[r]) /\ ~Clashes(users'[r], users'[i])
    BY <1>1, <2>1 DEF Taken, NamesKept, Clashes, Lower
  <2> QED
    BY <1>3, <2>1, <2>2
<1> QED
  BY <1>2, <1>3

\* Whatever the registrations race, no two accounts ever have the same email or
\* usernames that differ only in case.
THEOREM NamesStayDistinct == Spec => []NamesDistinct
<1>1. Init => NamesDistinct
  BY SeededAssumption DEF Init, NamesDistinct
<1> QED
  BY IInvInit, IInvStep, NamesStep, <1>1, PTL DEF Spec

\* Another account has the email, the username or a name of a register.
EmailElsewhere(r)    == \E id \in DOMAIN users \ {r} : users[id].email = call[r].email
UsernameElsewhere(r) == \E id \in DOMAIN users \ {r} : users[id].username = call[r].username
ClashElsewhere(r)    == \E id \in DOMAIN users \ {r} : Clashes(users[id], call[r])

\* Why the answers of register are honest: an account of a request has its
\* names, is there when the request is past its INSERT, and never with an error
\* of the INSERT; what another account has, it keeps.
HonestFor(r) ==
  /\ r \in DOMAIN users =>
       /\ users[r].email = call[r].email
       /\ users[r].username = call[r].username
       /\ answer[r].error \in {"none", "DBError"}
  /\ pc[r] = "respond" \/ answer[r].status = 201 => r \in DOMAIN users
  /\ answer[r].error = "email" => EmailElsewhere(r)
  /\ answer[r].error = "username" => UsernameElsewhere(r)
  /\ answer[r].error \in {"IntegrityError", "MultipleResultsFound"} => ClashElsewhere(r)

RegisterInv == \A r \in Request : Kind(r) = "register" => HonestFor(r)

LEMMA ElsewhereKept ==
  ASSUME IInv, [Next]_vars, NEW r \in Request
  PROVE  /\ EmailElsewhere(r) => EmailElsewhere(r)'
         /\ UsernameElsewhere(r) => UsernameElsewhere(r)'
         /\ ClashElsewhere(r) => ClashElsewhere(r)'
<1>1. /\ call' = call
      /\ \A i \in DOMAIN users : /\ i \in DOMAIN users'
                                /\ users'[i].email = users[i].email
                                /\ users'[i].username = users[i].username
  BY UsersStep DEF NamesKept
<1>2. \A i \in DOMAIN users : Clashes(users[i], call[r]) => Clashes(users'[i], call'[r])
  BY <1>1 DEF Clashes, Lower
<1> QED
  BY <1>1, <1>2 DEF EmailElsewhere, UsernameElsewhere, ClashElsewhere

LEMMA RegisterStep == IInv /\ RegisterInv /\ [Next]_vars => RegisterInv'
<1> SUFFICES ASSUME IInv, RegisterInv, [Next]_vars, NEW r \in Request, Kind(r)' = "register"
             PROVE  HonestFor(r)'
  BY DEF RegisterInv
<1>1. call' = call /\ Kind(r) = "register" /\ HonestFor(r)
  BY UsersStep DEF RegisterInv, Kind
<1>2. r \in DOMAIN users =>
        /\ r \in DOMAIN users'
        /\ users'[r].email = users[r].email
        /\ users'[r].username = users[r].username
  BY UsersStep DEF NamesKept
<1>3. r \in DOMAIN users' /\ r \notin DOMAIN users =>
        InsertUser(r) /\ users'[r] = NewUser(call[r])
  <2> SUFFICES ASSUME r \in DOMAIN users', r \notin DOMAIN users
               PROVE  InsertUser(r) /\ users'[r] = NewUser(call[r])
    OBVIOUS
  <2>1. PICK s \in Request :
          /\ InsertUser(s)
          /\ DOMAIN users' = DOMAIN users \cup {s}
          /\ users'[s] = NewUser(call[s])
    BY UsersStep
  <2> QED
    BY <2>1
\* An answer whose error, if it has one, another account justifies.
<1>4. ASSUME answer'[r] = answer[r],
             r \in DOMAIN users' => r \in DOMAIN users,
             pc'[r] = "respond" => pc[r] = "respond"
      PROVE  HonestFor(r)'
  BY <1>1, <1>2, <1>4, ElsewhereKept DEF HonestFor
<1>5. CASE Waits(r)
  <2>1. InsertUser(r) /\ r \in DOMAIN users' => pc[r] = "write" /\ pc'[r] \in {"write", "lost"}
    BY <1>5 DEF InsertUser, Waits
  <2>2. InsertUser(r) /\ r \in DOMAIN users' => r \in DOMAIN users
    BY <2>1 DEF InsertUser, Goto, IInv, TInv, TypeOK
  <2>3. answer'[r] = answer[r] /\ (pc'[r] = "respond" => pc[r] = "respond")
    BY <1>5 DEF Waits
  <2> QED
    BY <1>3, <1>4, <2>2, <2>3
<1>6. CASE Arrive(r)
  <2>1. ~InsertUser(r)
    BY <1>6 DEF Arrive, Begin, InsertUser
  <2>2. UNCHANGED answer /\ pc'[r] # "respond"
    BY <1>6 DEF Arrive, Goto, IInv, TInv, TypeOK
  <2> QED
    BY <1>3, <1>4, <2>1, <2>2
<1>7. ASSUME NEW code, NEW e, Finish(r, Problem(code, e)), code # 201,
             r \in DOMAIN users' => e = "DBError",
             r \in DOMAIN users' => r \in DOMAIN users,
             e = "email" => EmailElsewhere(r)',
             e = "username" => UsernameElsewhere(r)',
             e \in {"IntegrityError", "MultipleResultsFound"} => ClashElsewhere(r)'
      PROVE  HonestFor(r)'
  <2>1. answer'[r] = [status |-> code, error |-> e] /\ pc'[r] = "done"
    BY <1>7 DEF Finish, Goto, Problem, IInv, TInv, TypeOK
  <2> QED
    BY <1>1, <1>2, <1>7, <2>1 DEF HonestFor
<1>8. CASE FindConflict(r)
  <2>1. r \notin DOMAIN users /\ ~InsertUser(r)
    BY <1>8 DEF FindConflict, InsertUser, IInv, MadeOnce
  <2>2. CASE Goto(r, "write") /\ UNCHANGED answer
    <3>1. pc'[r] # "respond"
      BY <2>2 DEF Goto, IInv, TInv, TypeOK
    <3> QED
      BY <1>3, <1>4, <2>1, <2>2, <3>1
  <2>3. ASSUME NEW id \in Matches(call[r]),
               Finish(r, Problem(400, IF users[id].email = call[r].email
                                      THEN "email" ELSE "username"))
        PROVE  HonestFor(r)'
    <3>1. id \in DOMAIN users /\ id # r
      BY <2>1, <2>3 DEF Matches
    <3>2. CASE users[id].email = call[r].email
      <4>1. EmailElsewhere(r)'
        BY <3>1, <3>2, ElsewhereKept DEF EmailElsewhere
      <4> QED
        BY <1>3, <1>7, <2>1, <2>3, <3>2, <4>1
    <3>3. CASE users[id].email # call[r].email
      <4>1. UsernameElsewhere(r)'
        BY <2>3, <3>1, <3>3, ElsewhereKept DEF UsernameElsewhere, Matches
      <4> QED
        BY <1>3, <1>7, <2>1, <2>3, <3>3, <4>1
    <3> QED
      BY <3>2, <3>3
  <2>4. CASE Cardinality(Matches(call[r])) > 1 /\ Finish(r, Problem(500, "MultipleResultsFound"))
    <3>1. Matches(call[r]) # {}
      BY <2>4, FS_EmptySet
    <3>2. ClashElsewhere(r)
      BY <2>1, <3>1 DEF Matches, ClashElsewhere, Clashes, Lower
    <3> QED
      BY <1>3, <1>7, <2>1, <2>4, <3>2, ElsewhereKept
  <2> QED
    BY <1>8, <2>2, <2>3, <2>4 DEF FindConflict
<1>9. CASE InsertUser(r)
  <2>1. r \notin DOMAIN users
    BY <1>9 DEF InsertUser, IInv, MadeOnce
  <2>2. CASE ~Taken(NewUser(call[r]))
    <3>1. /\ users' = [id \in DOMAIN users \cup {r} |->
                        IF id = r THEN NewUser(call[r]) ELSE users[id]]
          /\ UNCHANGED answer
      BY <1>9, <2>2 DEF InsertUser
    <3>2. r \in DOMAIN users' /\ users'[r] = NewUser(call[r])
      BY <3>1
    <3>3. /\ users'[r].email = call[r].email
          /\ users'[r].username = call[r].username
      BY <3>2 DEF NewUser
    <3>4. answer'[r] = NoAnswer
      BY <1>9, <3>1 DEF InsertUser, IInv, TInv, StageOK
    <3> QED
      BY <1>1, <3>2, <3>3, <3>4 DEF HonestFor, NoAnswer
  <2>3. CASE Taken(NewUser(call[r]))
    <3>1. UNCHANGED users /\ Finish(r, Problem(500, "IntegrityError"))
      BY <1>9, <2>3 DEF InsertUser
    <3>2. ClashElsewhere(r)
      BY <2>1, <2>3 DEF Taken, ClashElsewhere, Clashes, NewUser, Lower
    <3> QED
      BY <1>7, <2>1, <3>1, <3>2, ElsewhereKept
  <2> QED
    BY <2>2, <2>3
<1>10. CASE Respond(r)
  <2>1. pc[r] = "respond" /\ UNCHANGED users /\ Finish(r, Answer(201))
    BY <1>1, <1>10 DEF Respond
  <2>2. answer'[r] = [status |-> 201, error |-> "none"] /\ pc'[r] = "done"
    BY <2>1 DEF Finish, Goto, Answer, IInv, TInv, TypeOK
  <2> QED
    BY <1>1, <2>1, <2>2 DEF HonestFor
<1>11. CASE Fail(r)
  <2>1. UNCHANGED users /\ Finish(r, Problem(500, "DBError"))
    BY <1>11 DEF Fail
  <2> QED
    BY <1>7, <2>1
<1>12. ~(PresentToken(r) \/ FindLogin(r) \/ Refresh(r) \/ ReadCurrentUser(r) \/ UpdateUser(r))
  BY <1>1, TokenKinds
  DEF PresentToken, FindLogin, Refresh, ReadCurrentUser, UpdateUser
<1> QED
  BY <1>5, <1>6, <1>8, <1>9, <1>10, <1>11, <1>12, OneRequest DEF IInv, Step

\* The answer to a register is true of the table, and stays true.
THEOREM RegistersHonest == Spec => []RegisterHonest
<1>1. Init => RegisterInv
  BY SeededAssumption DEF Init, RegisterInv, HonestFor, NoAnswer
<1>2. RegisterInv => RegisterHonest
  BY DEF RegisterInv, HonestFor, RegisterHonest, EmailElsewhere, UsernameElsewhere,
         ClashElsewhere
<1> QED
  BY IInvInit, IInvStep, RegisterStep, <1>1, <1>2, PTL DEF Spec

-----------------------------------------------------------------------------
(* Inactive users *)

\* Nobody is activated, so who was inactive when a request arrived is when the
\* request reads; a request that goes on, or was served, has read another.
ShutOutFor(r) ==
  /\ seen[r].inactive \subseteq Inactive
  /\ pc[r] \in {"write", "respond"} /\ Kind(r) # "register" => read[r].id \notin seen[r].inactive
  /\ answer[r].status = 200 => read[r].id \notin seen[r].inactive

ShutOutInv == \A r \in Request : ShutOutFor(r)

LEMMA ShutOutStep == IInv /\ ShutOutInv /\ [Next]_vars => ShutOutInv'
<1> SUFFICES ASSUME IInv, ShutOutInv, [Next]_vars, NEW r \in Request
             PROVE  ShutOutFor(r)'
  BY DEF ShutOutInv
<1>1. call' = call /\ ShutOutFor(r)
  BY UsersStep DEF ShutOutInv
<1>2. Inactive \subseteq Inactive'
  BY UsersStep DEF NamesKept, Inactive
<1>3. CASE Waits(r)
  BY <1>1, <1>2, <1>3 DEF Waits, ShutOutFor, Kind
<1>4. ASSUME Begin(r, worker'[r]), answer'[r].status # 200, pc'[r] \notin {"write", "respond"}
      PROVE  ShutOutFor(r)'
  <2>1. seen'[r].inactive = Inactive
    BY <1>4 DEF Begin, IInv, TInv, TypeOK
  <2> QED
    BY <1>2, <1>4, <2>1 DEF ShutOutFor
<1>5. ASSUME pc[r] = "idle" PROVE answer[r].status = 0
  BY <1>5 DEF IInv, TInv, StageOK, NoAnswer
<1>6. CASE Arrive(r) \/ PresentToken(r)
  <2>1. PICK w \in Worker : Begin(r, w)
    BY <1>6 DEF Arrive, PresentToken
  <2>2. pc[r] = "idle" /\ worker'[r] = w
    BY <2>1 DEF Begin, IInv, TInv, TypeOK
  <2>3. \/ UNCHANGED answer /\ Goto(r, "lookup")
        \/ Finish(r, Problem(401, "token"))
    BY <1>6 DEF Arrive, PresentToken
  <2>4. answer'[r].status # 200 /\ pc'[r] \notin {"write", "respond"}
    BY <1>5, <2>2, <2>3 DEF Finish, Goto, Problem, IInv, TInv, TypeOK
  <2> QED
    BY <1>4, <2>1, <2>2, <2>4
\* Answered with a problem, or gone on without having read a user.
<1>7. ASSUME UNCHANGED seen, pc[r] # "done",
             \/ Goto(r, "write") /\ UNCHANGED answer /\ Kind(r) = "register"
             \/ \E code \in {400, 401, 403, 500} : \E e : Finish(r, Problem(code, e))
      PROVE  ShutOutFor(r)'
  <2>1. answer[r].status = 0
    BY <1>7 DEF IInv, TInv, StageOK, NoAnswer
  <2>2. /\ answer'[r].status # 200
        /\ pc'[r] \in {"write", "respond"} => Kind(r) = "register"
    BY <1>7, <2>1 DEF Finish, Goto, Problem, IInv, TInv, TypeOK
  <2> QED
    BY <1>1, <1>2, <1>7, <2>2 DEF ShutOutFor, Kind
<1>8. CASE FindConflict(r) \/ Fail(r)
  BY <1>7, <1>8 DEF FindConflict, Fail, InFlight
\* The request has read an active user.
<1>9. ASSUME UNCHANGED <<users, seen>>, NEW id \in DOMAIN users, users[id].active, read'[r].id = id
      PROVE  ShutOutFor(r)'
  <2>1. id \notin Inactive
    BY <1>9 DEF Inactive
  <2> QED
    BY <1>1, <1>2, <1>9, <2>1 DEF ShutOutFor
<1>10. ASSUME pc[r] = "lookup", Kind(r) \in DOMAIN TokenKind
       PROVE  token[r].sub \in DOMAIN users
  <2>1. token[r] \in issued
    BY <1>10 DEF IInv, TInv, StageOK, InFlight
  <2> QED
    BY <2>1 DEF IInv, TInv, TypeOK, TokenType
<1>11. CASE FindLogin(r)
  <2>1. CASE \E id \in Matches(call[r]) :
               /\ users[id].active
               /\ read' = [read EXCEPT ![r] =
                             [id |-> id, row |-> [users[id] EXCEPT !.last_login = now]]]
    <3>1. PICK id \in DOMAIN users : users[id].active /\ read'[r].id = id
      BY <2>1 DEF Matches, IInv, TInv, TypeOK
    <3> QED
      BY <1>9, <1>11, <3>1 DEF FindLogin
  <2>2. CASE \E code \in {400, 401, 403, 500} : \E e : Finish(r, Problem(code, e))
    BY <1>7, <1>11, <2>2 DEF FindLogin
  <2> QED
    BY <1>11, <2>1, <2>2 DEF FindLogin
<1>12. CASE Refresh(r) \/ ReadCurrentUser(r)
  <2>1. token[r].sub \in DOMAIN users
    BY <1>10, <1>12, TokenKinds DEF Refresh, ReadCurrentUser
  <2>2. read'[r].id = token[r].sub /\ UNCHANGED <<users, seen>> /\ pc[r] = "lookup"
    BY <1>12 DEF Refresh, ReadCurrentUser, IInv, TInv, TypeOK
  <2>3. CASE users[token[r].sub].active
    BY <1>9, <2>1, <2>2, <2>3
  <2>4. CASE ~users[token[r].sub].active
    <3>1. \E code \in {400, 401, 403, 500} : \E e : Finish(r, Problem(code, e))
      BY <1>12, <2>4 DEF Refresh, ReadCurrentUser
    <3> QED
      BY <1>7, <2>2, <3>1
  <2> QED
    BY <2>3, <2>4
<1>13. CASE InsertUser(r)
  <2>1. UNCHANGED seen /\ Kind(r) = "register" /\ pc[r] = "write"
    BY <1>13 DEF InsertUser
  <2>2. answer[r].status = 0
    BY <2>1 DEF IInv, TInv, StageOK, NoAnswer
  <2>3. \/ UNCHANGED answer
        \/ Finish(r, Problem(500, "IntegrityError"))
    BY <1>13 DEF InsertUser
  <2>4. answer'[r].status # 200
    BY <2>2, <2>3 DEF Finish, Problem, IInv, TInv, TypeOK
  <2> QED
    BY <1>1, <1>2, <2>1, <2>4 DEF ShutOutFor, Kind
<1>14. CASE UpdateUser(r) \/ Respond(r)
  <2>1. UNCHANGED <<seen, read>> /\ pc[r] \in {"write", "respond"}
    BY <1>14 DEF UpdateUser, Respond
  <2>2. CASE Kind(r) # "register"
    BY <1>1, <1>2, <2>1, <2>2 DEF ShutOutFor
  <2>3. CASE Kind(r) = "register"
    <3>1. Finish(r, Answer(201))
      BY <1>14, <2>3 DEF UpdateUser, Respond
    <3>2. answer'[r].status = 201 /\ pc'[r] = "done"
      BY <3>1 DEF Finish, Goto, Answer, IInv, TInv, TypeOK
    <3> QED
      BY <1>1, <1>2, <2>1, <3>2 DEF ShutOutFor
  <2> QED
    BY <2>2, <2>3
<1> QED
  BY <1>3, <1>6, <1>8, <1>11, <1>12, <1>13, <1>14, OneRequest DEF IInv, Step

\* A user who was inactive when a request arrived gets nothing from it.
THEOREM InactiveStayOut == Spec => []InactiveShutOut
<1>1. Init => ShutOutInv
  BY DEF Init, ShutOutInv, ShutOutFor, NoAnswer
<1>2. ShutOutInv => InactiveShutOut
  BY DEF ShutOutInv, ShutOutFor, InactiveShutOut
<1> QED
  BY IInvInit, IInvStep, ShutOutStep, <1>1, <1>2, PTL DEF Spec

-----------------------------------------------------------------------------
(* Sessions *)

\* The clock does not go back; tokens are made by a worker, for a user who is
\* there, with the time of the grant.
LEMMA GrantsStep ==
  ASSUME IInv, [Next]_vars
  PROVE  /\ now <= now' /\ now' \in Nat
         /\ \/ UNCHANGED <<issued, granted>>
            \/ \E id \in DOMAIN users, w \in Worker :
                 /\ issued' = issued \cup TokenPair(id, SigningKey(w), now)
                 /\ granted' = [granted EXCEPT ![id] = now]
<1>1. ASSUME NEW r \in Request, NEW id, pc[r] \in InFlight, Grant(r, id)
      PROVE  \E w \in Worker :
               /\ issued' = issued \cup TokenPair(id, SigningKey(w), now)
               /\ granted' = [granted EXCEPT ![id] = now]
  BY <1>1 DEF Grant, IInv, TInv, StageOK
<1>2. ASSUME NEW r \in Request, Refresh(r), ~UNCHANGED <<issued, granted>>
      PROVE  \E id \in DOMAIN users : pc[r] \in InFlight /\ Grant(r, id)
  <2>1. pc[r] \in InFlight /\ token[r] \in issued
    BY <1>2, TokenKinds DEF Refresh, InFlight, IInv, TInv, StageOK
  <2> QED
    BY <1>2, <2>1 DEF Refresh, IInv, TInv, TypeOK, TokenType
<1>3. ASSUME NEW r \in Request, Respond(r), ~UNCHANGED <<issued, granted>>
      PROVE  \E id \in DOMAIN users : pc[r] \in InFlight /\ Grant(r, id)
  <2>1. pc[r] = "respond" /\ Kind(r) = "login" /\ Grant(r, read[r].id)
    BY <1>3 DEF Respond
  <2> QED
    BY <2>1 DEF InFlight, IInv, TInv, StageOK
<1>4. ASSUME NEW r \in Request, Step(r)
      PROVE  UNCHANGED <<issued, granted>> \/ Refresh(r) \/ Respond(r)
  BY <1>4 DEF Step, Arrive, PresentToken, FindConflict, InsertUser, FindLogin,
              ReadCurrentUser, UpdateUser, Fail
<1>5. ASSUME ~\E r \in Request : Step(r)
      PROVE  UNCHANGED <<issued, granted>>
  BY <1>5 DEF Next, vars, Restart, Tick, Deactivate
<1>6. now \in Nat /\ (now' = now \/ now' = now + 1)
  <2>1. now \in Nat
    BY BoundsAssumption DEF IInv, TInv, TypeOK
  <2>2. ASSUME NEW r \in Request, Step(r) PROVE now' = now
    BY <2>2 DEF Step, Arrive, PresentToken, FindConflict, InsertUser, FindLogin, Refresh,
                ReadCurrentUser, UpdateUser, Respond, Fail
  <2> QED
    BY <2>1, <2>2 DEF Next, vars, Restart, Deactivate, Tick
<1>7. CASE UNCHANGED <<issued, granted>>
  BY <1>6, <1>7
<1>8. CASE ~UNCHANGED <<issued, granted>>
  <2>1. PICK r \in Request, id \in DOMAIN users : pc[r] \in InFlight /\ Grant(r, id)
    BY <1>2, <1>3, <1>4, <1>5, <1>8
  <2> QED
    BY <1>1, <1>6, <2>1
<1> QED
  BY <1>7, <1>8

\* A token lives no longer than its kind after its user's last grant.
TokensExpire ==
  /\ \A id \in UserId : granted[id] <= now
  /\ \A t \in issued : t.exp <= granted[t.sub] + Life[t.type]

LEMMA PairExpires ==
  ASSUME NEW id, NEW key, NEW time \in Nat, NEW t \in TokenPair(id, key, time)
  PROVE  t.sub = id /\ t.key = key /\ t.exp = time + Life[t.type] /\ t.type \in TokenTypes
  BY DEF TokenPair, Token

LEMMA TokensExpireStep == IInv /\ TokensExpire /\ [Next]_vars => TokensExpire'
<1> SUFFICES ASSUME IInv, TokensExpire, [Next]_vars PROVE TokensExpire'
  OBVIOUS
<1>1. /\ now \in Nat /\ now <= now' /\ now' \in Nat
      /\ granted \in [UserId -> Nat]
      /\ \A t \in issued : t.sub \in UserId /\ t.type \in TokenTypes /\ t.exp \in Nat
  BY GrantsStep, BoundsAssumption DEF IInv, TInv, TypeOK, TokenType
<1>2. CASE UNCHANGED <<issued, granted>>
  BY <1>1, <1>2 DEF TokensExpire
<1>3. ASSUME NEW id \in DOMAIN users, NEW w \in Worker,
             issued' = issued \cup TokenPair(id, SigningKey(w), now),
             granted' = [granted EXCEPT ![id] = now]
      PROVE  TokensExpire'
  <2>1. id \in UserId
    BY DEF IInv, TInv, TypeOK
  <2>2. \A i \in UserId : granted'[i] <= now' /\ granted[i] <= granted'[i] /\ granted'[i] \in Nat
    BY <1>1, <1>3 DEF TokensExpire
  <2>3. ASSUME NEW t \in issued PROVE t.exp <= granted'[t.sub] + Life[t.type]
    <3>1. t.exp <= granted[t.sub] + Life[t.type]
      BY DEF TokensExpire
    <3> QED
      BY <1>1, <2>2, <3>1, LifeTyped
  <2>4. ASSUME NEW t \in TokenPair(id, SigningKey(w), now)
        PROVE  t.exp <= granted'[t.sub] + Life[t.type]
    BY <1>1, <1>3, <2>1, LifeTyped, PairExpires
  <2> QED
    BY <1>3, <2>2, <2>3, <2>4 DEF TokensExpire
<1> QED
  BY <1>2, <1>3, GrantsStep

\* A request that was let in came within the life of its token's kind after its
\* user's last grant, and acts for that user.
InTime(r, id) == seen[r].time <= seen[r].granted[id] + Life[TokenKind[Kind(r)]]

SessionFor(r) ==
  /\ pc[r] \in InFlight => InTime(r, token[r].sub)
  /\ pc[r] \in {"write", "respond"} => read[r].id = token[r].sub
  /\ answer[r].status = 200 => InTime(r, read[r].id)

SessionInv == \A r \in Request : Kind(r) \in DOMAIN TokenKind => SessionFor(r)

LEMMA SessionStep == IInv /\ TokensExpire /\ SessionInv /\ [Next]_vars => SessionInv'
<1> SUFFICES ASSUME IInv, TokensExpire, SessionInv, [Next]_vars,
                    NEW r \in Request, Kind(r)' \in DOMAIN TokenKind
             PROVE  SessionFor(r)'
  BY DEF SessionInv
<1>1. call' = call /\ Kind(r) \in DOMAIN TokenKind /\ SessionFor(r)
  BY UsersStep DEF SessionInv, Kind
<1>2. ASSUME seen'[r] = seen[r] PROVE \A id : InTime(r, id)' <=> InTime(r, id)
  BY <1>1, <1>2 DEF InTime, Kind
<1>3. pc[r] # "done" => answer[r].status = 0
  BY DEF IInv, TInv, StageOK, NoAnswer
<1>4. CASE Waits(r)
  BY <1>1, <1>2, <1>4 DEF Waits, SessionFor
<1>5. CASE PresentToken(r)
  <2>1. PICK w \in Worker, t \in issued \cup {Forged} :
          /\ Begin(r, w)
          /\ token' = [token EXCEPT ![r] = t]
          /\ \/ /\ Usable(t, TokenKind[Kind(r)], SigningKey(w), now)
                /\ Goto(r, "lookup")
                /\ UNCHANGED answer
             \/ Finish(r, Problem(401, "token"))
    BY <1>5 DEF PresentToken
  <2>2. pc[r] = "idle"
    BY <2>1 DEF Begin
  <2>3. CASE Finish(r, Problem(401, "token"))
    <3>1. pc'[r] = "done" /\ answer'[r].status = 401
      BY <2>3 DEF Finish, Goto, Problem, IInv, TInv, TypeOK
    <3> QED
      BY <3>1 DEF SessionFor, InFlight
  <2>4. CASE /\ Usable(t, TokenKind[Kind(r)], SigningKey(w), now)
             /\ Goto(r, "lookup")
             /\ UNCHANGED answer
    <3>1. t.key = SigningKey(w) /\ t.type = TokenKind[Kind(r)] /\ now <= t.exp
      BY <2>4 DEF Usable, Decodes
    <3>2. SigningKey(w) # <<"forged", 0>> /\ Forged.key = <<"forged", 0>>
      BY SigningKeyTyped DEF Forged, IInv, TInv
    <3>3. t \in issued
      BY <3>1, <3>2
    <3>4. /\ now \in Nat /\ t.exp \in Nat /\ t.sub \in UserId /\ t.type \in TokenTypes
          /\ granted \in [UserId -> Nat]
      BY <3>3, BoundsAssumption DEF IInv, TInv, TypeOK, TokenType
    <3>5. now <= granted[t.sub] + Life[TokenKind[Kind(r)]]
      BY <3>1, <3>3, <3>4, LifeTyped DEF TokensExpire
    <3>6. token'[r] = t /\ seen'[r].time = now /\ seen'[r].granted = granted
      BY <2>1 DEF Begin, IInv, TInv, TypeOK
    <3>7. InTime(r, token[r].sub)'
      BY <1>1, <3>5, <3>6 DEF InTime, Kind
    <3>8. pc'[r] = "lookup" /\ answer'[r].status = 0
      BY <1>3, <2>2, <2>4 DEF Goto, IInv, TInv, TypeOK
    <3> QED
      BY <3>7, <3>8 DEF SessionFor
  <2> QED
    BY <2>1, <2>3, <2>4
\* The user the request reads is the one its token names.
<1>6. CASE Refresh(r) \/ ReadCurrentUser(r)
  <2>1. /\ pc[r] = "lookup" /\ UNCHANGED <<seen, token>>
        /\ read'[r].id = token[r].sub
    BY <1>6 DEF Refresh, ReadCurrentUser, IInv, TInv, TypeOK
  <2>2. InTime(r, token[r].sub)
    BY <1>1, <2>1 DEF SessionFor, InFlight
  <2>3. \A id : InTime(r, id)' <=> InTime(r, id)
    BY <1>2, <2>1
  <2> QED
    BY <2>1, <2>2, <2>3 DEF SessionFor
<1>7. CASE UpdateUser(r) \/ Respond(r) \/ Fail(r)
  <2>1. UNCHANGED <<seen, token, read>> /\ pc[r] \in InFlight
    BY <1>7 DEF UpdateUser, Respond, Fail, InFlight
  <2>2. \A id : InTime(r, id)' <=> InTime(r, id)
    BY <1>2, <2>1
  <2>3. CASE Fail(r)
    <3>1. pc'[r] = "done" /\ answer'[r].status = 500
      BY <2>3 DEF Fail, Finish, Goto, Problem, IInv, TInv, TypeOK
    <3> QED
      BY <3>1 DEF SessionFor, InFlight
  <2>4. CASE UpdateUser(r) \/ Respond(r)
    <3>1. pc[r] \in {"write", "respond"}
      BY <2>4 DEF UpdateUser, Respond
    <3> QED
      BY <1>1, <2>1, <2>2, <3>1 DEF SessionFor
  <2> QED
    BY <1>7, <2>3, <2>4
<1>8. ~(Arrive(r) \/ FindConflict(r) \/ InsertUser(r) \/ FindLogin(r))
  BY <1>1, TokenKinds DEF Arrive, FindConflict, InsertUser, FindLogin
<1> QED
  BY <1>4, <1>5, <1>6, <1>7, <1>8, OneRequest DEF IInv, Step

\* A session that is not refreshed ends: no request is served later than the
\* life of its kind of token after its user's last login or refresh.
THEOREM SessionsEnd == Spec => []SessionsExpire
<1>1. Init => TokensExpire
  <2> SUFFICES ASSUME Init PROVE TokensExpire
    OBVIOUS
  <2>1. now \in Nat /\ \A id \in UserId : granted[id] = now
    BY BoundsAssumption DEF Init
  <2>2. \A t \in issued : \E id \in UserId : \E key : t \in TokenPair(id, key, now)
    BY DEF Init, UserId
  <2> QED
    BY <2>1, <2>2, PairExpires, LifeTyped DEF TokensExpire
<1>2. Init => SessionInv
  BY DEF Init, SessionInv, SessionFor, NoAnswer, InFlight
<1>3. SessionInv => SessionsExpire
  BY DEF SessionInv, SessionFor, SessionsExpire, InTime
<1> QED
  BY IInvInit, IInvStep, TokensExpireStep, SessionStep, <1>1, <1>2, <1>3, PTL DEF Spec

-----------------------------------------------------------------------------
(* A configured key *)

\* With one key for all workers, every token given out is signed with it.
OneKey == \A t \in issued : t.key = <<"configured", 0>>

LEMMA OneKeyStep ==
  ASSUME Configured PROVE IInv /\ OneKey /\ [Next]_vars => OneKey'
<1> SUFFICES ASSUME IInv, OneKey, [Next]_vars PROVE OneKey'
  OBVIOUS
<1>1. now \in Nat
  BY BoundsAssumption DEF IInv, TInv, TypeOK
<1>2. \A w \in Worker : SigningKey(w) = <<"configured", 0>>
  BY DEF SigningKey
<1>3. ASSUME NEW id, NEW w \in Worker, NEW t \in TokenPair(id, SigningKey(w), now)
      PROVE  t.key = <<"configured", 0>>
  BY <1>1, <1>2, PairExpires
<1> QED
  BY <1>3, GrantsStep DEF OneKey

HonouredFor(r) ==
  /\ token[r] \in issued
  /\ token[r].type = TokenKind[Kind(r)]
  /\ seen[r].time <= token[r].exp
  /\ users[token[r].sub].active
  => answer[r].status # 401

HonouredInv == \A r \in Request : Kind(r) \in DOMAIN TokenKind => HonouredFor(r)

LEMMA HonouredStep ==
  ASSUME Configured PROVE IInv /\ OneKey /\ HonouredInv /\ [Next]_vars => HonouredInv'
<1> SUFFICES ASSUME IInv, OneKey, HonouredInv, [Next]_vars,
                    NEW r \in Request, Kind(r)' \in DOMAIN TokenKind
             PROVE  HonouredFor(r)'
  BY DEF HonouredInv
<1>1. call' = call /\ Kind(r) \in DOMAIN TokenKind /\ HonouredFor(r)
  BY UsersStep DEF HonouredInv, Kind
<1>2. pc[r] # "done" => answer[r].status = 0
  BY DEF IInv, TInv, StageOK, NoAnswer
\* A token that is not one of those given out never becomes one, and nobody is
\* activated for whom the request was refused.
<1>3. ASSUME token'[r] = token[r], seen'[r] = seen[r], answer'[r] = answer[r]
      PROVE  HonouredFor(r)'
  <2>1. token[r] \in issued' => token[r] \in issued
    <3>1. token[r] \in issued \cup {Forged}
      BY DEF IInv, TInv, TypeOK
    <3>2. Forged.sub = None
      BY DEF Forged
    <3>3. issued' \subseteq TokenType(DOMAIN users', Keys) /\ DOMAIN users' \subseteq UserId
      BY IInvStep DEF IInv, TInv, TypeOK
    <3>4. \A t \in issued' : t.sub \in UserId
      BY <3>3 DEF TokenType
    <3> QED
      BY <3>1, <3>2, <3>4, NamesAssumption
  <2>2. token[r] \in issued => token[r].sub \in DOMAIN users
    BY DEF IInv, TInv, TypeOK, TokenType
  <2>3. token[r] \in issued /\ users'[token[r].sub].active => users[token[r].sub].active
    BY <2>2, UsersStep DEF NamesKept
  <2> QED
    BY <1>1, <1>3, <2>1, <2>3 DEF HonouredFor, Kind
<1>4. CASE Waits(r)
  BY <1>3, <1>4 DEF Waits
<1>5. CASE PresentToken(r)
  <2>1. PICK w \in Worker, t \in issued \cup {Forged} :
          /\ Begin(r, w)
          /\ token' = [token EXCEPT ![r] = t]
          /\ \/ Goto(r, "lookup") /\ UNCHANGED answer
             \/ /\ ~Usable(t, TokenKind[Kind(r)], SigningKey(w), now)
                /\ Finish(r, Problem(401, "token"))
    BY <1>5 DEF PresentToken
  <2>2. /\ token'[r] = t /\ seen'[r].time = now /\ issued' = issued
    BY <1>5, <2>1 DEF PresentToken, Begin, IInv, TInv, TypeOK
  <2>3. CASE UNCHANGED answer
    <3>1. answer'[r].status = 0
      BY <1>2, <2>1, <2>3 DEF Begin
    <3> QED
      BY <3>1 DEF HonouredFor
  <2>4. CASE ~Usable(t, TokenKind[Kind(r)], SigningKey(w), now)
    <3>1. t \in issued => t.key = SigningKey(w)
      BY DEF OneKey, SigningKey
    <3>2. ~(t \in issued /\ t.type = TokenKind[Kind(r)] /\ now <= t.exp)
      BY <2>4, <3>1 DEF Usable, Decodes
    <3> QED
      BY <1>1, <2>2, <3>2 DEF HonouredFor, Kind
  <2> QED
    BY <2>1, <2>3, <2>4
<1>6. ASSUME answer'[r].status # 401 PROVE HonouredFor(r)'
  BY <1>6 DEF HonouredFor
<1>7. CASE Refresh(r)
  <2>1. CASE users[token[r].sub].active
    <3>1. Finish(r, Answer(200))
      BY <1>7, <2>1 DEF Refresh, Grant
    <3>2. answer'[r].status = 200
      BY <3>1 DEF Finish, Answer, IInv, TInv, TypeOK
    <3> QED
      BY <1>6, <3>2
  <2>2. CASE ~users[token[r].sub].active
    <3>1. UNCHANGED <<users, token>>
      BY <1>7 DEF Refresh
    <3> QED
      BY <2>2, <3>1 DEF HonouredFor
  <2> QED
    BY <2>1, <2>2
<1>8. CASE ReadCurrentUser(r)
  <2>1. \/ UNCHANGED answer
        \/ Finish(r, Answer(200))
        \/ \E code \in {400, 403} : \E e : Finish(r, Problem(code, e))
    BY <1>8 DEF ReadCurrentUser
  <2>2. answer[r].status = 0
    BY <1>2, <1>8 DEF ReadCurrentUser
  <2>3. answer'[r].status # 401
    BY <2>1, <2>2 DEF Finish, Answer, Problem, IInv, TInv, TypeOK
  <2> QED
    BY <1>6, <2>3
<1>9. CASE UpdateUser(r)
  <2>1. answer'[r].status # 401
    BY <1>2, <1>9 DEF UpdateUser
  <2> QED
    BY <1>6, <2>1
<1>10. CASE Respond(r) \/ Fail(r)
  <2>1. \/ \E code \in {200, 201} : Finish(r, Answer(code))
        \/ Finish(r, Problem(500, "DBError"))
    BY <1>10 DEF Respond, Grant, Fail
  <2>2. answer'[r].status # 401
    BY <2>1 DEF Finish, Answer, Problem, IInv, TInv, TypeOK
  <2> QED
    BY <1>6, <2>2
<1>11. ~(Arrive(r) \/ FindConflict(r) \/ InsertUser(r) \/ FindLogin(r))
  BY <1>1, TokenKinds DEF Arrive, FindConflict, InsertUser, FindLogin
<1> QED
  BY <1>4, <1>5, <1>7, <1>8, <1>9, <1>10, <1>11, OneRequest DEF IInv, Step

\* With SECRET_KEY configured, what the README says of tokens holds: any worker
\* honours them until they expire, whatever was restarted meanwhile.
THEOREM ConfiguredHonours ==
  ASSUME Configured PROVE Spec => []HonouredUntilExpiry
<1>1. Init => OneKey
  <2> SUFFICES ASSUME Init PROVE OneKey
    OBVIOUS
  <2>1. now \in Nat /\ \A w \in Worker : SigningKey(w) = <<"configured", 0>>
    BY BoundsAssumption DEF Init, SigningKey
  <2>2. \A t \in issued : \E id : t \in TokenPair(id, <<"configured", 0>>, now)
    BY <2>1 DEF Init
  <2> QED
    BY <2>1, <2>2, PairExpires DEF OneKey
<1>2. Init => HonouredInv
  BY DEF Init, HonouredInv, HonouredFor, NoAnswer
<1>3. HonouredInv => HonouredUntilExpiry
  BY DEF HonouredInv, HonouredFor, HonouredUntilExpiry
<1> QED
  BY IInvInit, IInvStep, OneKeyStep, HonouredStep, <1>1, <1>2, <1>3, PTL DEF Spec

-----------------------------------------------------------------------------
(* Changes *)

\* A request reads once, and is served for a user who is there.
ReadFor(r) ==
  /\ pc[r] \in {"idle", "lookup"} => read[r] = NoUser
  /\ answer[r].status = 200 => read[r].id \in DOMAIN users
  /\ seen[r].time <= now

ReadInv == \A r \in Request : ReadFor(r)

LEMMA ReadStep == IInv /\ ReadInv /\ [Next]_vars => ReadInv'
<1> SUFFICES ASSUME IInv, ReadInv, [Next]_vars, NEW r \in Request
             PROVE  ReadFor(r)'
  BY DEF ReadInv
<1>1. ReadFor(r) /\ \A i \in DOMAIN users : i \in DOMAIN users'
  BY UsersStep DEF ReadInv
<1>2. now \in Nat /\ now' \in Nat /\ now <= now' /\ seen[r].time \in Nat
  BY GrantsStep, BoundsAssumption DEF IInv, TInv, TypeOK
<1>3. pc[r] # "done" => answer[r].status = 0
  BY DEF IInv, TInv, StageOK, NoAnswer
<1>4. ASSUME seen'[r] = seen[r] PROVE seen'[r].time <= now'
  BY <1>1, <1>2, <1>4 DEF ReadFor
<1>5. CASE Waits(r)
  BY <1>1, <1>4, <1>5 DEF Waits, ReadFor, InFlight
<1>6. CASE Arrive(r) \/ PresentToken(r)
  <2>1. pc[r] = "idle" /\ seen'[r].time = now /\ UNCHANGED read
    BY <1>6 DEF Arrive, PresentToken, Begin, IInv, TInv, TypeOK
  <2>2. UNCHANGED answer \/ Finish(r, Problem(401, "token"))
    BY <1>6 DEF Arrive, PresentToken
  <2>3. answer'[r].status # 200
    BY <1>3, <2>1, <2>2 DEF Finish, Problem, IInv, TInv, TypeOK
  <2> QED
    BY <1>1, <1>2, <2>1, <2>3 DEF ReadFor
\* The request has been to the database.
<1>7. ASSUME pc[r] # "idle", Step(r)
      PROVE  pc'[r] \in {"write", "respond", "done"} /\ UNCHANGED seen
  BY <1>7 DEF Step, Arrive, PresentToken, Begin, FindConflict, InsertUser, FindLogin, Refresh,
       ReadCurrentUser, UpdateUser, Respond, Fail, Grant, Finish, Goto, IInv, TInv, TypeOK
<1>8. ASSUME Refresh(r) \/ ReadCurrentUser(r) PROVE read'[r].id \in DOMAIN users
  <2>1. token[r] \in issued
    BY <1>8, TokenKinds DEF Refresh, ReadCurrentUser, InFlight, IInv, TInv, StageOK
  <2> QED
    BY <1>8, <2>1 DEF Refresh, ReadCurrentUser, IInv, TInv, TypeOK, TokenType
<1>9. ASSUME Respond(r) PROVE Kind(r) # "register" => read'[r].id \in DOMAIN users
  BY <1>9 DEF Respond, IInv, TInv, StageOK
<1>10. ASSUME FindConflict(r) \/ InsertUser(r) \/ FindLogin(r) \/ UpdateUser(r) \/ Fail(r)
       PROVE  answer'[r].status # 200
  <2>1. UNCHANGED answer \/ \E code \in {400, 401, 403, 500} : \E e : Finish(r, Problem(code, e))
    BY <1>10 DEF FindConflict, InsertUser, FindLogin, UpdateUser, Fail
  <2>2. pc[r] # "done"
    BY <1>10 DEF FindConflict, InsertUser, FindLogin, UpdateUser, Fail, InFlight
  <2> QED
    BY <1>3, <2>1, <2>2 DEF Finish, Problem, IInv, TInv, TypeOK
<1>11. ASSUME Respond(r), Kind(r) = "register" PROVE answer'[r].status # 200
  BY <1>11 DEF Respond, Finish, Answer, IInv, TInv, TypeOK
<1>12. ASSUME Step(r), pc[r] # "idle" PROVE ReadFor(r)'
  <2>1. answer'[r].status = 200 => read'[r].id \in DOMAIN users
    BY <1>8, <1>9, <1>10, <1>11, <1>12 DEF Step, Arrive, PresentToken, Begin
  <2> QED
    BY <1>1, <1>4, <1>7, <1>12, <2>1 DEF ReadFor
<1>13. ASSUME Step(r), pc[r] = "idle" PROVE Arrive(r) \/ PresentToken(r)
  BY <1>13 DEF Step, FindConflict, InsertUser, FindLogin, Refresh, ReadCurrentUser, UpdateUser,
       Respond, Fail, InFlight
<1> QED
  BY <1>5, <1>6, <1>12, <1>13, OneRequest DEF IInv

\* Each column of a user is written by one kind of request.
Writes(kind, id) == \E s \in Request : UpdateUser(s) /\ Kind(s) = kind /\ read[s].id = id

LEMMA ColumnsKept ==
  ASSUME IInv, [Next]_vars, NEW id \in DOMAIN users
  PROVE  /\ users'[id].name = users[id].name \/ Writes("update", id)
         /\ users'[id].password = users[id].password \/ Writes("password", id)
         /\ users'[id].last_login = users[id].last_login \/ Writes("login", id)
<1>1. CASE UNCHANGED users
  BY <1>1
<1>2. CASE \E s \in Request : InsertUser(s) /\ ~UNCHANGED users
  <2>1. PICK s \in Request :
          /\ s \notin DOMAIN users
          /\ users' = [i \in DOMAIN users \cup {s} |->
                         IF i = s THEN NewUser(call[s]) ELSE users[i]]
    BY <1>2 DEF InsertUser, IInv, MadeOnce
  <2>2. users'[id] = users[id]
    BY <2>1
  <2> QED
    BY <2>2
<1>3. CASE \E user \in DOMAIN users : Deactivate(user)
  <2>1. PICK user \in DOMAIN users : users' = [users EXCEPT ![user].active = FALSE]
    BY <1>3 DEF Deactivate
  <2>2. users[user] \in RowType
    BY DEF IInv, TInv, TypeOK
  <2> QED
    BY <2>1, <2>2 DEF RowType
<1>4. ASSUME NEW s \in Request, UpdateUser(s)
      PROVE  /\ users'[id].name = users[id].name \/ Writes("update", id)
             /\ users'[id].password = users[id].password \/ Writes("password", id)
             /\ users'[id].last_login = users[id].last_login \/ Writes("login", id)
  <2>1. /\ users' = [users EXCEPT ![read[s].id] = Written(s)]
        /\ Kind(s) \in {"login", "update", "password"}
    BY <1>4 DEF UpdateUser
  <2>2. CASE read[s].id # id
    <3>1. users'[id] = users[id]
      BY <2>1, <2>2
    <3> QED
      BY <3>1
  <2>3. CASE read[s].id = id
    <3> DEFINE row == users[id]
    <3>1. row \in RowType
      BY DEF IInv, TInv, TypeOK
    <3>2. users'[id] = Written(s)
      BY <2>1, <2>3
    <3>3. Writes(Kind(s), id)
      BY <1>4, <2>3 DEF Writes
    <3> HIDE DEF row
    <3>4. CASE Kind(s) = "login"
      <4>1. Written(s) = [row EXCEPT !.last_login = read[s].row.last_login]
        BY <2>3, <3>4 DEF Written, row
      <4>2. Written(s).name = row.name /\ Written(s).password = row.password
        BY <3>1, <4>1 DEF RowType
      <4> QED
        BY <3>2, <3>3, <3>4, <4>2 DEF row
    <3>5. CASE Kind(s) = "password"
      <4>1. Written(s) = [row EXCEPT !.password = call[s].new]
        BY <2>3, <3>5 DEF Written, row
      <4>2. Written(s).name = row.name /\ Written(s).last_login = row.last_login
        BY <3>1, <4>1 DEF RowType
      <4> QED
        BY <3>2, <3>3, <3>5, <4>2 DEF row
    <3>6. CASE Kind(s) = "update"
      <4>1. Written(s) = row \/ Written(s) = [row EXCEPT !.name = call[s].name]
        BY <2>3, <3>6 DEF Written, row
      <4>2. Written(s).password = row.password /\ Written(s).last_login = row.last_login
        BY <3>1, <4>1 DEF RowType
      <4> QED
        BY <3>2, <3>3, <3>6, <4>2 DEF row
    <3> QED
      BY <2>1, <3>4, <3>5, <3>6
  <2> QED
    BY <2>2, <2>3
<1>5. ASSUME NEW s \in Request, Step(s)
      PROVE  UNCHANGED users \/ InsertUser(s) \/ UpdateUser(s)
  BY <1>5 DEF Step, Arrive, PresentToken, FindConflict, FindLogin, Refresh, ReadCurrentUser,
              Respond, Fail
<1> QED
  BY <1>1, <1>2, <1>3, <1>4, <1>5 DEF Next, vars, Restart, Tick

\* No other request of its kind has read the user of r.
Alone(r) == \A s \in Request \ {r} : ~SameUser(r, s)

\* What r has written, and what it is about to write: the stamp of a login,
\* and a name that the UPDATE leaves out because the object has it already.
WroteFor(r) ==
  LET user == users[read[r].id]
  IN /\ Kind(r) = "update" /\ call[r].name # None => user.name = call[r].name
     /\ Kind(r) = "password" => user.password = call[r].new
     /\ Kind(r) = "login" => user.last_login >= seen[r].time

KeptFor(r) ==
  /\ pc[r] = "write" /\ Kind(r) = "login" => read[r].row.last_login >= seen[r].time
  /\ pc[r] = "write" /\ Kind(r) = "update" /\ Alone(r) =>
       users[read[r].id].name = read[r].row.name
  /\ pc[r] = "respond" \/ answer[r].status = 200 => (Alone(r) => WroteFor(r))

KeptInv == \A r \in Request : KeptFor(r)

\* A request that has read, read before every request that will read after it.
LEMMA AloneBefore ==
  ASSUME IInv, ReadInv, [Next]_vars, NEW r \in Request,
         read'[r] = read[r], read[r].id \in DOMAIN users, Alone(r)'
  PROVE  Alone(r)
<1> SUFFICES ASSUME NEW s \in Request \ {r}, SameUser(r, s) PROVE FALSE
  BY DEF Alone
<1>1. call' = call
  BY UsersStep
<1>2. read[s] # NoUser
  <2>1. read[s].id \in UserId
    BY DEF SameUser, IInv, TInv, TypeOK
  <2> QED
    BY <2>1, NamesAssumption DEF NoUser
<1>3. pc[s] \notin {"idle", "lookup"}
  BY <1>2 DEF ReadInv, ReadFor
<1>4. read'[s] = read[s]
  <2>1. CASE Waits(s)
    BY <2>1 DEF Waits
  <2>2. CASE Step(s)
    BY <1>3, <2>2 DEF Step, Arrive, PresentToken, Begin, FindConflict, InsertUser, FindLogin,
         Refresh, ReadCurrentUser, UpdateUser, Respond, Fail
  <2> QED
    BY <2>1, <2>2, OneRequest DEF IInv
<1>5. SameUser(r, s)'
  BY <1>1, <1>4 DEF SameUser, Kind
<1> QED
  BY <1>5 DEF Alone

\* Then nobody else writes the column that r writes.
LEMMA ColumnAlone ==
  ASSUME IInv, ReadInv, [Next]_vars, NEW r \in Request, Alone(r), ~UpdateUser(r),
         read[r].id \in DOMAIN users
  PROVE  LET id == read[r].id
         IN /\ Kind(r) = "update" => users'[id].name = users[id].name
            /\ Kind(r) = "password" => users'[id].password = users[id].password
            /\ Kind(r) = "login" => users'[id].last_login = users[id].last_login
<1>1. ~Writes(Kind(r), read[r].id)
  BY DEF Writes, Alone, SameUser
<1> QED
  BY <1>1, ColumnsKept

LEMMA KeptStep == IInv /\ ReadInv /\ KeptInv /\ [Next]_vars => KeptInv'
<1> SUFFICES ASSUME IInv, ReadInv, KeptInv, [Next]_vars, NEW r \in Request
             PROVE  KeptFor(r)'
  BY DEF KeptInv
<1>1. call' = call /\ KeptFor(r) /\ ReadFor(r)
  BY UsersStep DEF KeptInv, ReadInv
<1>2. pc[r] # "done" => answer[r].status = 0
  BY DEF IInv, TInv, StageOK, NoAnswer
<1>3. pc[r] \in {"write", "respond"} /\ Kind(r) # "register" =>
        read[r].id \in DOMAIN users /\ read[r].row \in RowType
  BY DEF IInv, TInv, StageOK
\* What r wrote stays when r does not write, and reads no more.
<1>4. ASSUME read'[r] = read[r], seen'[r] = seen[r], ~UpdateUser(r), Kind(r) # "register",
             pc[r] \in {"write", "respond"} \/ answer[r].status = 200, Alone(r)'
      PROVE  /\ Alone(r)
             /\ WroteFor(r) => WroteFor(r)'
             /\ Kind(r) = "update" => users'[read[r].id].name = users[read[r].id].name
  <2>1. read[r].id \in DOMAIN users
    BY <1>1, <1>3, <1>4 DEF ReadFor
  <2>2. Alone(r)
    BY <1>4, <2>1, AloneBefore
  <2> QED
    BY <1>1, <1>4, <2>1, <2>2, ColumnAlone DEF WroteFor, Kind
<1>5. Kind(r) = "register" => WroteFor(r)'
  BY <1>1 DEF WroteFor, Kind
<1>6. CASE Waits(r)
  <2>1. read'[r] = read[r] /\ seen'[r] = seen[r] /\ answer'[r] = answer[r]
    BY <1>6 DEF Waits
  <2>2. pc'[r] \in {"write", "respond"} => pc'[r] = pc[r]
    BY <1>6 DEF Waits
  <2>3. ~UpdateUser(r)
    BY <1>6 DEF Waits, UpdateUser, Goto, IInv, TInv, TypeOK
  <2>4. pc'[r] = "write" /\ Kind(r)' = "login" => read'[r].row.last_login >= seen'[r].time
    BY <1>1, <2>1, <2>2 DEF KeptFor, Kind
  <2>5. pc'[r] = "write" /\ Kind(r)' = "update" /\ Alone(r)' =>
          users'[read'[r].id].name = read'[r].row.name
    BY <1>1, <1>4, <2>1, <2>2, <2>3 DEF KeptFor, Kind
  <2>6. (pc'[r] = "respond" \/ answer'[r].status = 200) /\ Alone(r)' => WroteFor(r)'
    BY <1>1, <1>4, <1>5, <2>1, <2>2, <2>3 DEF KeptFor
  <2> QED
    BY <2>4, <2>5, <2>6 DEF KeptFor
\* Answered with a problem, or on its way to the database.
<1>7. ASSUME pc'[r] \notin {"write", "respond"}, answer'[r].status # 200
      PROVE  KeptFor(r)'
  BY <1>7 DEF KeptFor
<1>8. ASSUME NEW code \in {400, 401, 403, 500}, NEW e, Finish(r, Problem(code, e))
      PROVE  KeptFor(r)'
  <2>1. pc'[r] = "done" /\ answer'[r].status = code
    BY <1>8 DEF Finish, Goto, Problem, IInv, TInv, TypeOK
  <2> QED
    BY <1>7, <2>1
<1>9. CASE Arrive(r) \/ PresentToken(r)
  <2>1. CASE Finish(r, Problem(401, "token"))
    BY <1>8, <2>1
  <2>2. CASE Goto(r, "lookup") /\ UNCHANGED answer
    <3>1. pc[r] = "idle"
      BY <1>9 DEF Arrive, PresentToken, Begin
    <3>2. answer'[r].status = 0 /\ pc'[r] = "lookup"
      BY <1>2, <2>2, <3>1 DEF Goto, IInv, TInv, TypeOK
    <3> QED
      BY <1>7, <3>2
  <2> QED
    BY <1>9, <2>1, <2>2 DEF Arrive, PresentToken
<1>10. CASE Fail(r)
  BY <1>8, <1>10 DEF Fail
<1>11. ASSUME Kind(r) = "register" PROVE KeptFor(r)'
  BY <1>1, <1>5, <1>11 DEF KeptFor, Kind
<1>12. CASE FindConflict(r) \/ InsertUser(r)
  BY <1>11, <1>12 DEF FindConflict, InsertUser
<1>13. CASE FindLogin(r)
  <2>1. CASE \E code \in {400, 401, 403, 500} : \E e : Finish(r, Problem(code, e))
    BY <1>8, <2>1
  <2>2. CASE \E id \in Matches(call[r]) :
               /\ read' = [read EXCEPT ![r] =
                             [id |-> id, row |-> [users[id] EXCEPT !.last_login = now]]]
               /\ Goto(r, "write")
               /\ UNCHANGED answer
    <3>1. PICK id \in DOMAIN users :
            read'[r].row = [users[id] EXCEPT !.last_login = now]
      BY <2>2 DEF Matches, IInv, TInv, TypeOK
    <3>2. users[id] \in RowType
      BY DEF IInv, TInv, TypeOK
    <3>3. read'[r].row.last_login = now
      BY <3>1, <3>2 DEF RowType
    <3>4. seen'[r].time <= now /\ seen'[r].time \in Nat /\ now \in Nat
      BY <1>1, <1>13, BoundsAssumption DEF ReadFor, FindLogin, IInv, TInv, TypeOK
    <3>5. pc'[r] = "write" /\ answer'[r].status = 0 /\ Kind(r)' = "login"
      BY <1>1, <1>2, <1>13, <2>2 DEF FindLogin, Goto, Kind, IInv, TInv, TypeOK
    <3> QED
      BY <3>3, <3>4, <3>5 DEF KeptFor
  <2> QED
    BY <1>13, <2>1, <2>2 DEF FindLogin
<1>14. CASE Refresh(r)
  <2>1. \A kind \in {"update", "password", "login"} : Kind(r)' # kind
    BY <1>1, <1>14 DEF Refresh, Kind
  <2> QED
    BY <2>1 DEF KeptFor, WroteFor
<1>15. CASE ReadCurrentUser(r)
  <2>1. CASE \E code \in {400, 401, 403, 500} : \E e : Finish(r, Problem(code, e))
    BY <1>8, <2>1
  <2>2. CASE Kind(r) = "me"
    <3>1. \A kind \in {"update", "password", "login"} : Kind(r)' # kind
      BY <1>1, <2>2 DEF Kind
    <3> QED
      BY <3>1 DEF KeptFor, WroteFor
  <2>3. CASE Goto(r, "write") /\ UNCHANGED answer /\ Kind(r) # "me"
    <3>1. pc'[r] = "write" /\ answer'[r].status = 0
      BY <1>2, <1>15, <2>3 DEF ReadCurrentUser, Goto, IInv, TInv, TypeOK
    <3>2. read'[r].row = users'[read'[r].id] /\ Kind(r)' # "login"
      BY <1>1, <1>15 DEF ReadCurrentUser, Kind, IInv, TInv, TypeOK
    <3> QED
      BY <3>1, <3>2 DEF KeptFor
  <2> QED
    BY <1>15, <2>1, <2>2, <2>3 DEF ReadCurrentUser
<1>16. CASE UpdateUser(r)
  <2> DEFINE id == read[r].id
  <2>1. /\ pc[r] = "write" /\ UNCHANGED <<read, seen, answer>>
        /\ Kind(r) \in {"login", "update", "password"}
        /\ users' = [users EXCEPT ![id] = Written(r)]
    BY <1>16 DEF UpdateUser
  <2>2. pc'[r] = "respond" /\ answer'[r].status = 0
    BY <1>2, <1>16, <2>1 DEF UpdateUser, Goto, IInv, TInv, TypeOK
  <2>3. id \in DOMAIN users /\ users'[id] = Written(r) /\ users[id] \in RowType
    BY <1>3, <2>1 DEF IInv, TInv, TypeOK
  <2>4. Alone(r)' => Alone(r)
    BY <2>1, <2>3, AloneBefore
  <2>5. CASE Kind(r) = "login"
    <3>1. users'[id].last_login = read[r].row.last_login
      BY <2>3, <2>5 DEF Written, RowType
    <3> QED
      BY <1>1, <2>1, <2>2, <2>5, <3>1 DEF KeptFor, WroteFor, Kind
  <2>6. CASE Kind(r) = "password"
    <3>1. users'[id].password = call[r].new
      BY <2>3, <2>6 DEF Written, RowType
    <3> QED
      BY <1>1, <2>1, <2>2, <2>6, <3>1 DEF KeptFor, WroteFor, Kind
  <2>7. CASE Kind(r) = "update"
    <3>1. CASE call[r].name = None
      BY <1>1, <2>2, <2>7, <3>1 DEF KeptFor, WroteFor, Kind
    <3>2. CASE call[r].name # None
      <4>1. Alone(r) => users[id].name = read[r].row.name
        BY <1>1, <2>1, <2>7 DEF KeptFor
      <4>2. CASE call[r].name = read[r].row.name
        <5>1. Written(r) = users[id]
          BY <2>7, <4>2 DEF Written
        <5>2. Alone(r) => users'[id].name = call[r].name
          BY <2>3, <4>1, <4>2, <5>1
        <5> QED
          BY <1>1, <2>1, <2>2, <2>4, <2>7, <5>2 DEF KeptFor, WroteFor, Kind
      <4>3. CASE call[r].name # read[r].row.name
        <5>1. Written(r) = [users[id] EXCEPT !.name = call[r].name]
          BY <2>7, <3>2, <4>3 DEF Written
        <5>2. users'[id].name = call[r].name
          BY <2>3, <5>1 DEF RowType
        <5> QED
          BY <1>1, <2>1, <2>2, <2>7, <5>2 DEF KeptFor, WroteFor, Kind
      <4> QED
        BY <4>2, <4>3
    <3> QED
      BY <3>1, <3>2
  <2> QED
    BY <2>1, <2>5, <2>6, <2>7
<1>17. ASSUME Respond(r), Kind(r) # "register" PROVE KeptFor(r)'
  <2>1. pc[r] = "respond" /\ UNCHANGED <<users, read, seen>> /\ Finish(r, Answer(200))
    BY <1>17 DEF Respond, Grant
  <2>2. pc'[r] = "done" /\ ~UpdateUser(r)
    BY <2>1 DEF Finish, Goto, UpdateUser, IInv, TInv, TypeOK
  <2>3. Alone(r)' => WroteFor(r)'
    BY <1>1, <1>4, <1>17, <2>1, <2>2 DEF KeptFor
  <2> QED
    BY <2>2, <2>3 DEF KeptFor
<1> QED
  BY <1>6, <1>9, <1>10, <1>11, <1>12, <1>13, <1>14, <1>15, <1>16, <1>17, OneRequest DEF IInv, Step

\* No login, update or password change that was answered 200 is undone by
\* requests of the other kinds, though what all of them have read is stale.
THEOREM ChangesStay == Spec => []ChangesKept
<1>1. Init => ReadInv
  <2> SUFFICES ASSUME Init PROVE ReadInv
    OBVIOUS
  <2>1. now \in Nat
    BY BoundsAssumption DEF Init
  <2> QED
    BY <2>1 DEF Init, ReadInv, ReadFor, NoAnswer
<1>2. Init => KeptInv
  BY DEF Init, KeptInv, KeptFor, NoAnswer
<1>3. KeptInv => ChangesKept
  BY DEF KeptInv, KeptFor, Alone, WroteFor, ChangesKept
<1> QED
  BY IInvInit, IInvStep, ReadStep, KeptStep, <1>1, <1>2, <1>3, PTL DEF Spec
=============================================================================
