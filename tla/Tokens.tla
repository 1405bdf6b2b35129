------------------------------- MODULE Tokens -------------------------------
(***************************************************************************)
(* The JSON web tokens of core/security.py: who they name, what they are   *)
(* for, the key that signs them and when they expire.  A signature is good *)
(* under the one key it was made with.                                     *)
(***************************************************************************)
EXTENDS Integers

CONSTANTS
  AccessLife,    \* ACCESS_TOKEN_EXPIRE_MINUTES
  RefreshLife    \* REFRESH_TOKEN_EXPIRE_DAYS, in the same unit

ASSUME LivesAssumption == AccessLife \in Nat /\ RefreshLife \in Nat

TokenTypes == {"access", "refresh"}

TokenType(User, Key) == [sub : User, type : TokenTypes, key : Key, exp : Nat]

\* create_access_token and create_refresh_token, which differ in two words.
Life == [type \in TokenTypes |-> IF type = "access" THEN AccessLife ELSE RefreshLife]

Token(user, type, key, now) ==
  [sub |-> user, type |-> type, key |-> key, exp |-> now + Life[type]]

TokenPair(user, key, now) == {Token(user, type, key, now) : type \in TokenTypes}

\* decode_token: the library refuses a token after the second it expires in.
Decodes(token, key, now) == token.key = key /\ now <= token.exp

\* A plausible bug: the type is not looked at.
UsableAsAny(token, type, key, now) == Decodes(token, key, now)

\* decode_token, and the test of the type that follows every call of it.
Usable(token, type, key, now) == Decodes(token, key, now) /\ token.type = type
=============================================================================
