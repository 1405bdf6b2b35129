----------------------------- MODULE MCAccounts -----------------------------
(***************************************************************************)
(* Accounts on small instances.                                            *)
(***************************************************************************)
EXTENDS Accounts, TLC

CONSTANTS
  r1, r2, r3,          \* requests
  u1,                  \* the user registered before
  e1, e2, e3,          \* emails
  x1, x2,              \* words of usernames
  p, q,                \* passwords
  n1, n2,              \* full names
  w1, w2               \* workers

Small(word)   == [word |-> word, form |-> "lower"]
Capital(word) == [word |-> word, form |-> "Upper"]

Old(email, username) ==
  [ email |-> email, username |-> username, password |-> p, name |-> None,
    active |-> TRUE, last_login |-> 0 ]

OneUser  == u1 :> Old(e1, Small(x1))

Register(email, username) ==
  [kind |-> "register", email |-> email, username |-> username, password |-> p]
Login(email, username) ==
  [kind |-> "login", email |-> email, username |-> username, password |-> p]
Update(name)           == [kind |-> "update", name |-> name]
Change(current, new)   == [kind |-> "password", current |-> current, new |-> new]
Bare(kind)             == [kind |-> kind]

Three(call1, call2, call3) == r1 :> call1 @@ r2 :> call2 @@ r3 :> call3

-----------------------------------------------------------------------------
(* Registrations that share an email, a username, or a username but for its *)
(* case, with each other or with the user registered before; lookups that    *)
(* find a user by email and another by username.  The clock does not matter. *)

NameScenarios ==
  { Three(Register(e2, Small(x2)), Register(e3, Capital(x2)), Register(e2, Small(x1))),
    Three(Register(e2, Small(x2)), Register(e1, Small(x2)), Login(e1, Small(x2))),
    Three(Register(e2, Capital(x1)), Register(e1, Small(x2)), Login(e2, NoUsername)) }

-----------------------------------------------------------------------------
(* Sessions of one user: tokens from before and from within, of both types;  *)
(* requests that write what others have read.                                *)

SessionScenarios ==
  { Three(Login(e1, NoUsername), Bare("refresh"), Bare("me")),
    Three(Login(None, Small(x1)), Update(n1), Change(p, q)),
    Three(Update(n1), Update(n2), Change(p, q)) }

-----------------------------------------------------------------------------

SomeCalls == UNION {{scenario[r] : r \in Request} : scenario \in NameScenarios \cup SessionScenarios}

\* The clock has run out in the first group and starts in the second.
ScenarioInit ==
  /\ Init
  /\ \/ call \in NameScenarios /\ now = Horizon
     \/ call \in SessionScenarios /\ now = 0

ScenarioSpec == ScenarioInit /\ [][Next]_vars
=============================================================================
