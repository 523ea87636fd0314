------------------------------ MODULE Accounts ------------------------------
(***************************************************************************)
(* The tables users and login_tokens and the statements made of them       *)
(* (server/src/database/user.rs, sweep_tokens of server/src/export.rs).    *)
(*                                                                         *)
(* users.oidc_id is UNIQUE, so a row of users is known by the person who   *)
(* owns it.  A token is the pair of a row id, which SQLite gives out again *)
(* once the row is gone, and a random string, which is never drawn twice:  *)
(* strings are numbered in the order they are drawn.  A hash stands for    *)
(* the string it was made of.                                              *)
(***************************************************************************)
EXTENDS Rowid, FiniteSets

CONSTANTS People,            \* whom the OpenID provider knows
          TokenExpiryDays,   \* 30: what sweep_tokens lets a token live
          CookieDays         \* 31: what the browser is told to keep it

ASSUME DaysAssumption == TokenExpiryDays \in Nat /\ CookieDays \in Nat

\* User < Moderator < Administrator, and whoever may do more may do less.
User == 1
Moderator == 2
Administrator == 3
Permissions == {User, Moderator, Administrator}
Contains(mine, required) == mine >= required

Account == [permissions: Permissions, locked: BOOLEAN]
IsUsers(users) ==
    /\ DOMAIN users \subseteq People
    /\ users \in [DOMAIN users -> Account]

LoginToken == [token_id: Nat \ {0}, token: Nat \ {0}, user: People, last_used: Nat]
StaySignedInToken == [token_id: Nat \ {0}, token: Nat \ {0}]

FetchedById(users, p) == users[p]

Registered(users) == DOMAIN users

\* Faulty: someone who is neither moderator nor administrator may do nothing.
RegisterAsNothing(users, p) ==
    [q \in DOMAIN users \cup {p} |->
        IF q = p THEN [permissions |-> 0, locked |-> FALSE] ELSE users[q]]

Register(users, p) ==
    [q \in DOMAIN users \cup {p} |->
        IF q = p THEN [permissions |-> User, locked |-> FALSE] ELSE users[q]]

SetRoleByEmail(users, p, role) == [users EXCEPT ![p].permissions = role]
SetLockedByEmail(users, p, locked) == [users EXCEPT ![p].locked = locked]

-----------------------------------------------------------------------------
(* login_tokens *)

TokenIds(tokens) == {row.token_id : row \in tokens}

NextTokenId(tokens) == NextKey(TokenIds(tokens))

NewToken(tokens, token, p, today) ==
    [token_id |-> NextTokenId(tokens), token |-> token, user |-> p, last_used |-> today]

\* Faulty: the row is found by its id and the hash is not compared.
FoundById(row, cookie) == row.token_id = cookie.token_id

\* The row verify_token finds and whose hash is that of the cookie's string.
Verifies(row, cookie) == row.token_id = cookie.token_id /\ row.token = cookie.token

\* The UPDATE at the end of verify_token has its parameters the wrong way
\* round: it sets last_used in the row whose token_id is the time, and there
\* is none.
TouchLastUsed(tokens, cookie, today) == tokens

DeleteToken(tokens, cookie) == {row \in tokens : row.token_id # cookie.token_id}

\* What the daily task leaves.
Unexpired(tokens, today) == {row \in tokens : today - row.last_used <= TokenExpiryDays}
=============================================================================
