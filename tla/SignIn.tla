------------------------------- MODULE SignIn -------------------------------
(***************************************************************************)
(* Signing in, staying signed in and signing out (server/src/auth.rs), on  *)
(* several requests at once, with the OpenID provider, browsers that have  *)
(* several tabs open, the administrator's commands                         *)
(* (server/src/user_management.rs), the sweeps and restarts of the server. *)
(*                                                                         *)
(* A sign-in is known by the number of its session.  Its csrf token and    *)
(* nonce are drawn with it and go with it to the provider and back, so the *)
(* number stands for them as well.                                         *)
(***************************************************************************)
EXTENDS Accounts, Sequences

CONSTANTS Browsers, Threads,
          Routes,        \* the pages that are visited
          Commands,      \* what the administrator runs meanwhile
          MaxSignIns, MaxCodes, MaxTokens, MaxRestarts, MaxDays    \* bounds

VARIABLES
    users, login_tokens,    \* the database
    in_progress,            \* IN_PROGRESS_SIGN_INS: session -> SignInState
    requests,               \* thread -> the request it serves
    cookies,                \* browser -> its session and its token cookie
    signIns,                \* the browser each sign-in was started in
    codes,                  \* what the provider has handed out
    today, restarts,
    issued,                 \* history: the user of each token, the day it was last used
    standing                \* history: what each request was entitled to since it came

database == <<users, login_tokens, issued>>
world == <<cookies, signIns, codes>>
clock == <<today, restarts>>
vars == <<database, in_progress, requests, world, clock, standing>>

\* A page is known by the permissions it asks for, the logout by a number of
\* its own.
Logout == 0
AllRoutes == Permissions \cup {Logout}
AllCommands == {"set_role", "lock", "logout_all", "backup"}
ASSUME BoundsAssumption ==
    /\ {MaxSignIns, MaxCodes, MaxTokens, MaxRestarts, MaxDays} \subseteq Nat
    /\ Routes \subseteq AllRoutes /\ Commands \subseteq AllCommands

NoSession == 0
Sessions == 1 .. MaxSignIns
NoToken == [token_id |-> 0]
TokenCookie == [token_id: Nat \ {0}, token: Nat \ {0}, until: Nat]

\* fresh: no sweep has seen the entry since its last change.
SignInState ==
    [step: {"openid_response"}, fresh: BOOLEAN]
    \cup [step: {"sign_up"}, userinfo: People, fresh: BOOLEAN]
WaitingForOpenIdResponse == [step |-> "openid_response", fresh |-> TRUE]
WaitingForSignUp(p) == [step |-> "sign_up", userinfo |-> p, fresh |-> TRUE]

Idle == [at |-> "idle"]
At(t, step) == requests[t].at = step
Goto(t, request) == requests' = [requests EXCEPT ![t] = request]
Done(t) == Goto(t, Idle)

\* What the token in a request's cookie is good for now: to be signed in, and
\* the permissions its user has unless locked.
TokenHolds == 0
UserOf(cookie) == issued[cookie.token].user
Entitled(us, tokens, cookie) ==
    (IF \E row \in tokens : Verifies(row, cookie) THEN {TokenHolds} ELSE {})
    \cup {p \in Permissions : LET user == us[UserOf(cookie)]
                              IN  ~user.locked /\ Contains(user.permissions, p)}

Authenticated(r) == r.at \in {"verify_token", "fetch_by_id", "handle", "delete_token"}

Observe ==
    standing' =
        [t \in Threads |->
            IF ~Authenticated(requests'[t]) THEN {}
            ELSE standing[t] \cup Entitled(users', login_tokens', requests'[t].cookie)]

-----------------------------------------------------------------------------
(* Signing in *)

Remove(session) == in_progress' = [s \in DOMAIN in_progress \ {session} |-> in_progress[s]]
Insert(session, state) ==
    in_progress' = [s \in DOMAIN in_progress \cup {session} |->
                       IF s = session THEN state ELSE in_progress[s]]

\* The page that sends the browser to the provider.
reply_authorize(b) ==
    /\ Len(signIns) < MaxSignIns
    /\ signIns' = Append(signIns, b)
    /\ Insert(Len(signIns) + 1, WaitingForOpenIdResponse)
    /\ cookies' = [cookies EXCEPT ![b].session = Len(signIns) + 1]
    /\ UNCHANGED <<database, requests, codes, clock>>

\* Someone at the browser approves one of its sign-ins and the provider sends
\* the browser back with a code.  Nothing stops the provider's page from being
\* used twice.
Approve(p, session) ==
    /\ Len(codes) < MaxCodes
    /\ codes' = Append(codes, [person |-> p, session |-> session, redeemed |-> FALSE])
    /\ UNCHANGED <<database, in_progress, requests, cookies, signIns, clock>>

\* A request that carries the cookie of a sign-in in progress (with_session).
WithSession(t, b) ==
    /\ requests[t] = Idle
    /\ cookies[b].session \in DOMAIN in_progress
    /\ UNCHANGED <<database, in_progress, world, clock>>

\* The browser comes back from the provider: to the server, with whichever
\* session cookie it has by now, or again because the page is reloaded.
callback(t, b, c) ==
    /\ WithSession(t, b)
    /\ signIns[codes[c].session] = b
    /\ Goto(t, [at |-> "request_token", session |-> cookies[b].session, code |-> c])

\* mk_err of reply_login.
Unauthorized(t) == Remove(requests[t].session) /\ Done(t)

\* The sign-in the cookie names waits for the provider, and it is the one the
\* provider answers: the csrf token in the state of the query is its own.
Awaited(r) ==
    /\ r.session \in DOMAIN in_progress
    /\ in_progress[r.session].step = "openid_response"
    /\ codes[r.code].session = r.session

request_token(t) ==
    /\ At(t, "request_token")
    /\ IF Awaited(requests[t])
       THEN Goto(t, [requests[t] EXCEPT !.at = "provider"]) /\ UNCHANGED in_progress
       ELSE Unauthorized(t)
    /\ UNCHANGED <<database, world, clock>>

\* The OidcActor asks the provider, which takes a code once.  It may fail
\* before the code is taken or, fetching the user's details, after.
RequestToken(t) ==
    LET r == requests[t] IN
    /\ At(t, "provider")
    /\ \/ /\ ~codes[r.code].redeemed
          /\ codes' = [codes EXCEPT ![r.code].redeemed = TRUE]
          /\ Goto(t, [r EXCEPT !.at = "fetch_by_oidc_id"])
          /\ UNCHANGED in_progress
       \/ /\ \E taken \in {codes[r.code].redeemed, TRUE} :
                codes' = [codes EXCEPT ![r.code].redeemed = taken]
          /\ Unauthorized(t)
    /\ UNCHANGED <<database, cookies, signIns, clock>>

fetch_by_oidc_id(t) ==
    LET r == requests[t]
        p == codes[r.code].person
    IN
    /\ At(t, "fetch_by_oidc_id")
    /\ Goto(t, [at |-> IF p \in Registered(users) THEN "new_token" ELSE "insert_sign_up",
                session |-> r.session, user |-> p, connected |-> TRUE])
    /\ UNCHANGED <<database, in_progress, world, clock>>

insert_sign_up(t) ==
    /\ At(t, "insert_sign_up")
    /\ Insert(requests[t].session, WaitingForSignUp(requests[t].user))
    /\ Done(t)
    /\ UNCHANGED <<database, world, clock>>

\* Sending the sign-up form, as often as one likes.
submit_sign_up(t, b) ==
    /\ WithSession(t, b)
    /\ Goto(t, [at |-> "signup_form_submit", session |-> cookies[b].session])

\* A form that does not agree to the terms, has a bad name or whose user has no
\* verified address is shown again.
signup_form_submit(t) ==
    LET s == requests[t].session IN
    /\ At(t, "signup_form_submit")
    /\ \/ /\ s \in DOMAIN in_progress
          /\ in_progress[s].step = "sign_up"
          /\ Goto(t, [at |-> "register", session |-> s, user |-> in_progress[s].userinfo,
                      connected |-> TRUE])
       \/ Done(t)
    /\ UNCHANGED <<database, in_progress, world, clock>>

\* Faulty: the INSERT of a registered person does not fail.
RefusesNobody == {}

\* UNIQUE makes the second INSERT of a person fail, and the unwrap panic.
AlreadyRegistered == Registered(users)

register(t) ==
    LET r == requests[t] IN
    /\ At(t, "register")
    /\ \/ /\ r.user \notin AlreadyRegistered
          /\ users' = Register(users, r.user)
          /\ IF r.connected THEN Goto(t, [r EXCEPT !.at = "new_token"]) ELSE Done(t)
       \/ /\ r.user \in AlreadyRegistered
          /\ Done(t)
          /\ UNCHANGED users
    /\ UNCHANGED <<login_tokens, issued, in_progress, world, clock>>

\* StaySignedInToken::new.
new_token(t) ==
    LET r == requests[t]
        row == NewToken(login_tokens, Len(issued) + 1, r.user, today)
    IN
    /\ At(t, "new_token")
    /\ Len(issued) < MaxTokens
    /\ login_tokens' = login_tokens \cup {row}
    /\ issued' = Append(issued, [user |-> r.user, used |-> today])
    /\ IF r.connected
       THEN Goto(t, [at |-> "reply", session |-> r.session,
                     cookie |-> [token_id |-> row.token_id, token |-> row.token]])
       ELSE Done(t)
    /\ UNCHANGED <<users, in_progress, world, clock>>

\* The end of reply_insert_session: the reply goes to the browser the sign-in
\* was started in.
reply_insert_session(t) ==
    LET r == requests[t] IN
    /\ At(t, "reply")
    /\ Remove(r.session)
    /\ cookies' = [cookies EXCEPT ![signIns[r.session]].token =
                      [token_id |-> r.cookie.token_id, token |-> r.cookie.token,
                       until |-> today + CookieDays]]
    /\ Done(t)
    /\ UNCHANGED <<database, signIns, codes, clock>>

-----------------------------------------------------------------------------
(* Being signed in, and signing out *)

SignedIn(b) == cookies[b].token # NoToken /\ today < cookies[b].token.until

\* with_permissioned_auth: a page is asked for with the cookie the browser has.
visit(t, b, route) ==
    /\ requests[t] = Idle
    /\ SignedIn(b)
    /\ Goto(t, [at |-> "verify_token", browser |-> b, route |-> route,
                cookie |-> [token_id |-> cookies[b].token.token_id,
                            token |-> cookies[b].token.token]])
    /\ UNCHANGED <<database, in_progress, world, clock>>

verify_token(t) ==
    LET r == requests[t]
        Found(row) == Verifies(row, r.cookie)
    IN
    /\ At(t, "verify_token")
    /\ \/ \E row \in login_tokens :
            /\ Found(row)
            /\ login_tokens' = TouchLastUsed(login_tokens, r.cookie, today)
            /\ issued' = [issued EXCEPT ![row.token].used = today]
            /\ Goto(t, [at |-> "fetch_by_id", browser |-> r.browser, route |-> r.route,
                        cookie |-> r.cookie, user |-> row.user])
       \/ /\ \A row \in login_tokens : ~Found(row)
          /\ Done(t)
          /\ UNCHANGED <<login_tokens, issued>>
    /\ UNCHANGED <<users, in_progress, world, clock>>

Required(route) == IF route = Logout THEN User ELSE route

\* Faulty: a lock is looked at when one signs in, not here.
MayIfRegistered(user, route) == Contains(user.permissions, Required(route))

\* The lock (extract_user) and the permissions (with_permissioned_auth) of the
\* row that was read.
May(user, route) == ~user.locked /\ Contains(user.permissions, Required(route))

fetch_by_id(t) ==
    LET r == requests[t] IN
    /\ At(t, "fetch_by_id")
    /\ IF May(FetchedById(users, r.user), r.route)
       THEN Goto(t, [r EXCEPT !.at = "handle"])
       ELSE Done(t)
    /\ UNCHANGED <<database, in_progress, world, clock>>

\* The page itself.
handle(t) ==
    /\ At(t, "handle")
    /\ requests[t].route # Logout
    /\ Done(t)
    /\ UNCHANGED <<database, in_progress, world, clock>>

\* The reply deletes the browser's cookie; the token is deleted by a task that
\* nobody waits for.
reply_logout(t) ==
    /\ At(t, "handle")
    /\ requests[t].route = Logout
    /\ cookies' = [cookies EXCEPT ![requests[t].browser].token = NoToken]
    /\ Goto(t, [requests[t] EXCEPT !.at = "delete_token"])
    /\ UNCHANGED <<database, in_progress, signIns, codes, clock>>

\* The task panics when it gets no connection or the database stays busy, and
\* nothing tries again.
delete_token(t) ==
    /\ At(t, "delete_token")
    /\ login_tokens' \in {DeleteToken(login_tokens, requests[t].cookie), login_tokens}
    /\ Done(t)
    /\ UNCHANGED <<users, issued, in_progress, world, clock>>

-----------------------------------------------------------------------------
(* Everything else that happens *)

\* The browser closes the connection: the future of the request is dropped at
\* its next await.  What runs on a blocking thread runs to its end, and what was
\* sent to the OidcActor is answered: it is RequestToken that may take the code.
hang_up(t) ==
    /\ \/ /\ requests[t].at \in {"request_token", "signup_form_submit", "verify_token",
                                 "fetch_by_id"}
          /\ Done(t)
          /\ UNCHANGED codes
       \/ /\ At(t, "provider")
          /\ \E taken \in {codes[requests[t].code].redeemed, TRUE} :
                codes' = [codes EXCEPT ![requests[t].code].redeemed = taken]
          /\ Done(t)
       \/ /\ requests[t].at \in {"register", "new_token"}
          /\ requests[t].connected
          /\ Goto(t, [requests[t] EXCEPT !.connected = FALSE])
          /\ UNCHANGED codes
    /\ UNCHANGED <<database, in_progress, cookies, signIns, clock>>

\* Faulty: the comparison is the wrong way round.
KeptIfOld(entries) ==
    {kept \in SUBSET DOMAIN entries : \A s \in DOMAIN entries \ kept : entries[s].fresh}

\* Which entries a sweep may keep: one that an earlier sweep has seen is ten
\* minutes old, one that none has seen may just have become so.
Kept(entries) == SUBSET {s \in DOMAIN entries : entries[s].fresh}

sweep_in_progress_sign_ins ==
    /\ in_progress # <<>>
    /\ \E kept \in Kept(in_progress) :
          in_progress' = [s \in kept |-> [in_progress[s] EXCEPT !.fresh = FALSE]]
    /\ UNCHANGED <<database, requests, world, clock>>

sweep_tokens ==
    /\ login_tokens' = Unexpired(login_tokens, today)
    /\ UNCHANGED <<users, issued, in_progress, requests, world, clock>>

\* The administrator's commands run in a process of their own; a command about
\* someone who is not registered changes nothing.
set_role(p, role) ==
    /\ p \in Registered(users)
    /\ users' = SetRoleByEmail(users, p, role)
    /\ UNCHANGED <<login_tokens, issued, in_progress, requests, world, clock>>

lock(p, locked) ==
    /\ p \in Registered(users)
    /\ users' = SetLockedByEmail(users, p, locked)
    /\ UNCHANGED <<login_tokens, issued, in_progress, requests, world, clock>>

logout_all ==
    /\ login_tokens' = {}
    /\ UNCHANGED <<users, issued, in_progress, requests, world, clock>>

NextDay ==
    /\ today < MaxDays
    /\ today' = today + 1
    /\ UNCHANGED <<database, in_progress, requests, world, restarts>>

\* The server stops and starts again: the database and the browsers are as
\* they were.
Restart ==
    /\ restarts < MaxRestarts
    /\ restarts' = restarts + 1
    /\ in_progress' = <<>>
    /\ requests' = [t \in Threads |-> Idle]
    /\ UNCHANGED <<database, world, today>>

Init ==
    /\ users = <<>>
    /\ login_tokens = {}
    /\ issued = <<>>
    /\ in_progress = <<>>
    /\ requests = [t \in Threads |-> Idle]
    /\ cookies = [b \in Browsers |-> [session |-> NoSession, token |-> NoToken]]
    /\ signIns = <<>>
    /\ codes = <<>>
    /\ today = 0
    /\ restarts = 0
    /\ standing = [t \in Threads |-> {}]

Serve(t) ==
    \/ request_token(t) \/ RequestToken(t) \/ fetch_by_oidc_id(t) \/ insert_sign_up(t)
    \/ signup_form_submit(t) \/ register(t) \/ new_token(t) \/ reply_insert_session(t)
    \/ verify_token(t) \/ fetch_by_id(t) \/ handle(t) \/ reply_logout(t) \/ delete_token(t)

Arrive(t, b) ==
    \/ \E c \in DOMAIN codes : callback(t, b, c)
    \/ submit_sign_up(t, b)
    \/ \E route \in Routes : visit(t, b, route)

Command ==
    \/ "set_role" \in Commands /\ \E p \in People, role \in Permissions : set_role(p, role)
    \/ "lock" \in Commands /\ \E p \in People, locked \in BOOLEAN : lock(p, locked)
    \/ "logout_all" \in Commands /\ logout_all
    \/ "backup" \in Commands /\ sweep_tokens

Step ==
    \/ \E b \in Browsers : reply_authorize(b)
    \/ \E p \in People, session \in DOMAIN signIns : Approve(p, session)
    \/ \E t \in Threads : Serve(t) \/ hang_up(t) \/ \E b \in Browsers : Arrive(t, b)
    \/ sweep_in_progress_sign_ins
    \/ Command
    \/ NextDay
    \/ Restart

Next == Step /\ Observe

Spec == Init /\ [][Next]_vars

\* The sweep is a loop that sleeps for ten minutes.
FairSpec ==
    /\ Spec
    /\ WF_vars(sweep_in_progress_sign_ins /\ Observe)

-----------------------------------------------------------------------------
(* Type correctness *)

Requests ==
    {Idle}
    \cup [at: {"request_token", "provider", "fetch_by_oidc_id"},
          session: Sessions, code: 1 .. MaxCodes]
    \cup [at: {"signup_form_submit"}, session: Sessions]
    \cup [at: {"register", "new_token", "insert_sign_up"}, session: Sessions,
          user: People, connected: BOOLEAN]
    \cup [at: {"reply"}, session: Sessions, cookie: StaySignedInToken]
    \cup [at: {"verify_token"}, browser: Browsers, route: Routes, cookie: StaySignedInToken]
    \cup [at: {"fetch_by_id", "handle", "delete_token"}, browser: Browsers, route: Routes,
          cookie: StaySignedInToken, user: People]

CalledBack(r) == r.at \in {"request_token", "provider", "fetch_by_oidc_id"}
SigningIn(r) == CalledBack(r) \/ r.at \in {"signup_form_submit", "register", "new_token",
                                          "insert_sign_up", "reply"}

Code == [person: People, session: Sessions, redeemed: BOOLEAN]

Types ==
    /\ IsUsers(users)
    /\ login_tokens \subseteq LoginToken
    /\ IsFiniteSet(login_tokens)
    /\ issued \in Seq([user: People, used: Nat])
    /\ DOMAIN in_progress \subseteq Sessions
    /\ in_progress \in [DOMAIN in_progress -> SignInState]
    /\ requests \in [Threads -> Requests]
    /\ cookies \in [Browsers -> [session: Nat, token: TokenCookie \cup {NoToken}]]
    /\ signIns \in Seq(Browsers) /\ Len(signIns) <= MaxSignIns
    /\ codes \in Seq(Code) /\ Len(codes) <= MaxCodes
    /\ today \in 0 .. MaxDays
    /\ restarts \in 0 .. MaxRestarts
    /\ standing \in [Threads -> SUBSET (Permissions \cup {TokenHolds})]

\* Whatever refers to a sign-in, a code, a token or an account refers to one
\* that there is.
NothingDangles ==
    /\ DOMAIN in_progress \subseteq DOMAIN signIns
    /\ \A b \in Browsers : cookies[b].session \in {NoSession} \cup DOMAIN signIns
    /\ \A b \in Browsers : cookies[b].token # NoToken => cookies[b].token.token \in DOMAIN issued
    /\ \A c \in DOMAIN codes : codes[c].session \in DOMAIN signIns
    /\ \A row \in login_tokens : row.token \in DOMAIN issued
    /\ \A i \in DOMAIN issued : issued[i].user \in Registered(users)
    /\ \A t \in Threads : LET r == requests[t] IN
          /\ SigningIn(r) => r.session \in DOMAIN signIns
          /\ CalledBack(r) => r.code \in DOMAIN codes
          /\ Authenticated(r) \/ r.at = "reply" => r.cookie.token \in DOMAIN issued
          /\ r.at = "new_token" => r.user \in Registered(users)

\* Every variable keeps its type; a token never outlives the account it is of.
TypeOK == Types /\ NothingDangles

-----------------------------------------------------------------------------
(* Safety *)

\* A page is shown as the user the request's token was issued to, although
\* SQLite gives the id of a deleted token to the next user who signs in
\* (login_tokens.token_id, verify_token).
NobodyActsAsAnother ==
    \A t \in Threads :
        requests[t].at \in {"fetch_by_id", "handle"} =>
            requests[t].user = UserOf(requests[t].cookie)

\* A page is shown only to a request whose token was good at some moment since
\* it came, and whose user had the permissions and no lock at some moment since:
\* what a logout, a lock or a lost role took away before the request came does
\* not come back through a statement that read too early (extract_user,
\* with_permissioned_auth).
ServedWhileAllowed ==
    \A t \in Threads :
        At(t, "handle") => {TokenHolds, Required(requests[t].route)} \subseteq standing[t]

\* However often callbacks are reloaded and sign-up forms sent, by however many
\* tabs, somebody has at most as many tokens as sign-ins they approved
\* (request_token, register, reply_insert_session).
OneTokenPerApproval ==
    \A p \in People :
        Cardinality({i \in DOMAIN issued : issued[i].user = p})
            <= Cardinality({c \in DOMAIN codes : codes[c].person = p /\ codes[c].redeemed})

-----------------------------------------------------------------------------
(* Liveness *)

\* No sign-in stays in IN_PROGRESS_SIGN_INS for ever, not even one that a late
\* callback has put back after it was finished (sweep_in_progress_sign_ins).
SignInsAreSwept ==
    \A s \in Sessions : s \in DOMAIN in_progress ~> s \notin DOMAIN in_progress

-----------------------------------------------------------------------------
(* What the code says of itself *)

\* "back up the database and sweep unused login tokens": the daily task leaves
\* the tokens that were used in the last thirty days.
SweepSparesTokensInUse ==
    [][sweep_tokens =>
          \A row \in login_tokens \ login_tokens' :
              today - issued[row.token].used > TokenExpiryDays]_vars
=============================================================================
