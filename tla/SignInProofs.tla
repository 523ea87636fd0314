---------------------------- MODULE SignInProofs ----------------------------
(* What holds of signing in for any people, browsers, requests and bounds.  *)
EXTENDS SignIn, FiniteSetTheorems, WellFoundedInduction, TLAPS

-----------------------------------------------------------------------------
(* There always is a next key of a table, and it is not in use.             *)

\* A finite set of numbers that is not empty has a largest one: the smallest
\* subset without one would get it from what is left when a number is taken out.
LEMMA FiniteHasLargest ==
    ASSUME NEW S \in SUBSET Nat, IsFiniteSet(S), S # {}
    PROVE  \E n \in S : \A i \in S : i <= n
<1> DEFINE Largest(U, n) == n \in U /\ \A i \in U : i <= n
           without == {U \in SUBSET S : U # {} /\ ~ \E n \in U : Largest(U, n)}
<1>1. SUFFICES ASSUME S \in without
               PROVE  FALSE
  OBVIOUS
<1>2. IsWellFoundedOn(StrictSubsetOrdering(S), FiniteSubsetsOf(S))
  BY FS_StrictSubsetOrderingWellFounded
<1>3. without \subseteq FiniteSubsetsOf(S)
  BY FS_Subset DEF FiniteSubsetsOf
<1>4. without # {}
  BY <1>1
<1> HIDE DEF without
<1>5. PICK U \in without : \A V \in without : <<V, U>> \notin StrictSubsetOrdering(S)
  BY <1>2, <1>3, <1>4, WFMin
<1>6. U \in SUBSET S /\ U # {} /\ ~ \E n \in U : Largest(U, n)
  BY <1>5 DEF without
<1>7. PICK x \in U : TRUE
  BY <1>6
<1>8. U \ {x} \notin without
  <2>1. <<U \ {x}, U>> \in StrictSubsetOrdering(S)
    BY <1>6 DEF StrictSubsetOrdering
  <2>2. QED
    BY <1>5, <2>1
<1>9. CASE U \ {x} = {}
  BY <1>6, <1>9
<1>10. CASE U \ {x} # {}
  <2>1. PICK n \in U \ {x} : \A i \in U \ {x} : i <= n
    BY <1>6, <1>8, <1>10 DEF without
  <2>2. n \in Nat /\ x \in Nat
    BY <1>6
  <2>3. Largest(U, IF n < x THEN x ELSE n)
    BY <1>6, <2>1, <2>2
  <2>4. QED
    BY <1>6, <2>3
<1>11. QED
  BY <1>9, <1>10

\* The key a table of finitely many rows gives out is not in use in it.
LEMMA NextKeyType ==
    ASSUME NEW ids \in SUBSET (Nat \ {0}), IsFiniteSet(ids)
    PROVE  NextKey(ids) \in Nat \ {0} /\ NextKey(ids) \notin ids
<1> DEFINE free == {1} \cup {i + 1 : i \in ids}
<1>1. \E n \in free : \A i \in ids : i < n
  <2>1. CASE ids = {}
    BY <2>1
  <2>2. CASE ids # {}
    <3>1. PICK n \in ids : \A i \in ids : i <= n
      BY <2>2, FiniteHasLargest
    <3>2. n + 1 \in free /\ \A i \in ids : i < n + 1
      BY <3>1
    <3>3. QED
      BY <3>2
  <2>3. QED
    BY <2>1, <2>2
<1>2. NextKey(ids) \in free /\ \A i \in ids : i < NextKey(ids)
  BY <1>1 DEF NextKey
<1>3. QED
  BY <1>2

-----------------------------------------------------------------------------
(* Requests and what they carry *)
CallbackRequest == [at: {"request_token", "provider", "fetch_by_oidc_id"},
                    session: Sessions, code: 1 .. MaxCodes]
FormRequest == [at: {"signup_form_submit"}, session: Sessions]
KnownRequest == [at: {"register", "new_token", "insert_sign_up"}, session: Sessions,
                 user: People, connected: BOOLEAN]
ReplyRequest == [at: {"reply"}, session: Sessions, cookie: StaySignedInToken]
VisitRequest == [at: {"verify_token"}, browser: Browsers, route: Routes,
                 cookie: StaySignedInToken]
VerifiedRequest == [at: {"fetch_by_id", "handle", "delete_token"}, browser: Browsers,
                    route: Routes, cookie: StaySignedInToken, user: People]

\* Where a request is says what it carries.
LEMMA RequestKinds ==
    ASSUME NEW r \in Requests
    PROVE  /\ CalledBack(r) => r \in CallbackRequest
           /\ r.at = "signup_form_submit" => r \in FormRequest
           /\ r.at \in {"register", "new_token", "insert_sign_up"} => r \in KnownRequest
           /\ r.at = "reply" => r \in ReplyRequest
           /\ r.at = "verify_token" => r \in VisitRequest
           /\ r.at \in {"fetch_by_id", "handle", "delete_token"} => r \in VerifiedRequest
BY DEF Requests, Idle, CalledBack, CallbackRequest, FormRequest, KnownRequest,
       ReplyRequest, VisitRequest, VerifiedRequest

\* And the other way round.
LEMMA KindsAreRequests ==
    /\ Idle \in Requests /\ CallbackRequest \subseteq Requests
    /\ FormRequest \subseteq Requests /\ KnownRequest \subseteq Requests
    /\ ReplyRequest \subseteq Requests /\ VisitRequest \subseteq Requests
    /\ VerifiedRequest \subseteq Requests
BY DEF Requests, CallbackRequest, FormRequest, KnownRequest,
       ReplyRequest, VisitRequest, VerifiedRequest

-----------------------------------------------------------------------------
(* Tokens *)

\* The id of a new token is a row id.
LEMMA NextTokenIdType ==
    ASSUME NEW tokens \in SUBSET LoginToken, IsFiniteSet(tokens)
    PROVE  NextTokenId(tokens) \in Nat \ {0}
<1> DEFINE f == [row \in tokens |-> row.token_id]
<1>1. f \in Surjection(tokens, TokenIds(tokens))
  BY DEF Surjection, TokenIds
<1>2. IsFiniteSet(TokenIds(tokens))
  BY <1>1, FS_Surjection DEF ExistsSurjection
<1>3. TokenIds(tokens) \in SUBSET (Nat \ {0})
  BY DEF TokenIds, LoginToken
<1>4. QED
  BY <1>2, <1>3, NextKeyType DEF NextTokenId

\* Deleting tokens keeps the table's type and refers to nothing new.
LEMMA FewerTokens ==
    ASSUME TypeOK, login_tokens' \subseteq login_tokens
    PROVE  /\ login_tokens' \subseteq LoginToken /\ IsFiniteSet(login_tokens')
           /\ \A row \in login_tokens' : row.token \in DOMAIN issued
BY FS_Subset DEF TypeOK, Types, NothingDangles

\* What a request was entitled to keeps its type.
LEMMA StandingType ==
    ASSUME TypeOK, Observe
    PROVE  standing' \in [Threads -> SUBSET (Permissions \cup {TokenHolds})]
<1> DEFINE now(t) == Entitled(users', login_tokens', requests'[t].cookie)
<1>1. \A t \in Threads : now(t) \subseteq Permissions \cup {TokenHolds}
  BY DEF Entitled
<1> HIDE DEF now
<1>2. standing' = [t \in Threads |-> IF ~Authenticated(requests'[t]) THEN {}
                                     ELSE standing[t] \cup now(t)]
  BY DEF Observe, now
<1>3. QED
  BY <1>1, <1>2 DEF TypeOK, Types

-----------------------------------------------------------------------------
(* The parts of the type invariant that a step changes one by one *)

DatabaseOK ==
    /\ IsUsers(users)
    /\ login_tokens \subseteq LoginToken
    /\ IsFiniteSet(login_tokens)
    /\ issued \in Seq([user: People, used: Nat])
    /\ \A row \in login_tokens : row.token \in DOMAIN issued
    /\ \A i \in DOMAIN issued : issued[i].user \in Registered(users)

InProgressOK ==
    /\ DOMAIN in_progress \subseteq Sessions \cap DOMAIN signIns
    /\ in_progress \in [DOMAIN in_progress -> SignInState]

WorldOK ==
    /\ cookies \in [Browsers -> [session: Nat, token: TokenCookie \cup {NoToken}]]
    /\ \A b \in Browsers : cookies[b].session \in {NoSession} \cup DOMAIN signIns
    /\ \A b \in Browsers :
          cookies[b].token # NoToken => cookies[b].token.token \in DOMAIN issued
    /\ signIns \in Seq(Browsers) /\ Len(signIns) <= MaxSignIns
    /\ codes \in Seq(Code) /\ Len(codes) <= MaxCodes
    /\ \A c \in DOMAIN codes : codes[c].session \in DOMAIN signIns
    /\ today \in 0 .. MaxDays
    /\ restarts \in 0 .. MaxRestarts

RequestOK(r) ==
    /\ r \in Requests
    /\ SigningIn(r) => r.session \in DOMAIN signIns
    /\ CalledBack(r) => r.code \in DOMAIN codes
    /\ Authenticated(r) \/ r.at = "reply" => r.cookie.token \in DOMAIN issued
    /\ r.at = "new_token" => r.user \in Registered(users)

RequestsOK ==
    /\ requests \in [Threads -> Requests]
    /\ \A t \in Threads : RequestOK(requests[t])

\* What a request may refer to does not go away.
Grows ==
    /\ DOMAIN signIns \subseteq DOMAIN signIns'
    /\ DOMAIN codes \subseteq DOMAIN codes'
    /\ DOMAIN issued \subseteq DOMAIN issued'
    /\ Registered(users) \subseteq Registered(users')

\* The parts make up the invariant.
LEMMA PartsOfTypeOK ==
    ASSUME TypeOK
    PROVE  DatabaseOK /\ InProgressOK /\ WorldOK /\ RequestsOK
BY DEF TypeOK, Types, NothingDangles, DatabaseOK, InProgressOK, WorldOK, RequestsOK, RequestOK

\* So they do after a step that keeps each of them.
LEMMA TypeOfParts ==
    ASSUME TypeOK, Observe, DatabaseOK', InProgressOK', WorldOK', RequestsOK'
    PROVE  TypeOK'
<1>1. standing' \in [Threads -> SUBSET (Permissions \cup {TokenHolds})]
  BY StandingType
<1>2. Types'
  BY <1>1 DEF Types, DatabaseOK, InProgressOK, WorldOK, RequestsOK
<1>3. NothingDangles'
  BY DEF NothingDangles, DatabaseOK, InProgressOK, WorldOK, RequestsOK, RequestOK
<1>4. QED
  BY <1>2, <1>3 DEF TypeOK

\* A request stays well formed while what it refers to stays.
LEMMA RequestStaysOK ==
    ASSUME NEW r, RequestOK(r), Grows
    PROVE  RequestOK(r)'
BY DEF RequestOK, Grows

\* One thread goes on to a well-formed request, the others wait.
LEMMA GotoOK ==
    ASSUME RequestsOK, Grows, NEW t \in Threads, NEW r, Goto(t, r), RequestOK(r)'
    PROVE  RequestsOK'
<1>1. r \in Requests
  BY DEF RequestOK
<1>2. requests' \in [Threads -> Requests]
  BY <1>1 DEF RequestsOK, Goto
<1>3. ASSUME NEW u \in Threads
      PROVE  RequestOK(requests[u])'
  <2>1. CASE u = t
    <3>1. requests'[u] = r
      BY <2>1 DEF RequestsOK, Goto
    <3>2. QED
      BY <3>1 DEF RequestOK
  <2>2. CASE u # t
    <3>1. requests'[u] = requests[u] /\ RequestOK(requests[u])
      BY <2>2 DEF RequestsOK, Goto
    <3>2. QED
      BY <3>1 DEF RequestOK, Grows
  <2>3. QED
    BY <2>1, <2>2
<1>4. QED
  BY <1>2, <1>3 DEF RequestsOK

\* A thread that is done refers to nothing.
LEMMA DoneOK ==
    ASSUME RequestsOK, Grows, NEW t \in Threads, Done(t)
    PROVE  RequestsOK'
<1>1. RequestOK(Idle)'
  BY KindsAreRequests DEF RequestOK, Idle, SigningIn, CalledBack, Authenticated
<1>2. QED
  BY <1>1, GotoOK DEF Done

\* Nothing changes for the requests.
LEMMA RequestsStayOK ==
    ASSUME RequestsOK, Grows, UNCHANGED requests
    PROVE  RequestsOK'
BY DEF RequestsOK, RequestOK, Grows

\* Steps that leave the database, the world or the clock alone.
LEMMA Unchanged ==
    /\ UNCHANGED database /\ DatabaseOK => DatabaseOK'
    /\ UNCHANGED world /\ UNCHANGED clock /\ UNCHANGED issued /\ WorldOK => WorldOK'
    /\ UNCHANGED <<in_progress, signIns>> /\ InProgressOK => InProgressOK'
    /\ UNCHANGED <<database, world>> => Grows
BY DEF DatabaseOK, WorldOK, InProgressOK, Grows, database, world, clock

\* Entries of IN_PROGRESS_SIGN_INS come and go.
LEMMA InsertOK ==
    ASSUME InProgressOK, NEW s \in Sessions, s \in DOMAIN signIns',
           DOMAIN signIns \subseteq DOMAIN signIns',
           NEW state \in SignInState, Insert(s, state)
    PROVE  InProgressOK'
BY DEF InProgressOK, Insert

LEMMA RemoveOK ==
    ASSUME InProgressOK, UNCHANGED signIns, NEW s, Remove(s)
    PROVE  InProgressOK'
BY DEF InProgressOK, Remove

-----------------------------------------------------------------------------
(* Signing in keeps the types *)

\* A new sign-in and its cookie.
LEMMA AuthorizeType ==
    ASSUME TypeOK, Observe, NEW b \in Browsers, reply_authorize(b)
    PROVE  TypeOK'
<1> DEFINE s == Len(signIns) + 1
<1>1. DatabaseOK /\ InProgressOK /\ WorldOK /\ RequestsOK
  BY PartsOfTypeOK
<1>2. signIns' \in Seq(Browsers) /\ Len(signIns') <= MaxSignIns /\ DOMAIN signIns' = 1 .. s
  BY <1>1, BoundsAssumption DEF reply_authorize, WorldOK
<1>3. DOMAIN signIns \subseteq DOMAIN signIns' /\ s \in DOMAIN signIns' /\ s \in Sessions
  BY <1>1, <1>2, BoundsAssumption DEF WorldOK, Sessions, reply_authorize
<1>4. InProgressOK'
  BY <1>1, <1>3, InsertOK DEF reply_authorize, WaitingForOpenIdResponse, SignInState
<1>5. cookies' \in [Browsers -> [session: Nat, token: TokenCookie \cup {NoToken}]]
      /\ \A a \in Browsers : cookies'[a].token = cookies[a].token
                              /\ cookies'[a].session \in {s, cookies[a].session}
  BY <1>1, <1>3 DEF WorldOK, reply_authorize, Sessions
<1>6. WorldOK'
  BY <1>1, <1>2, <1>3, <1>5 DEF WorldOK, reply_authorize, clock, database
<1>7. RequestsOK'
  BY <1>1, <1>3, RequestsStayOK DEF Grows, reply_authorize, database
<1>8. QED
  BY <1>1, <1>4, <1>6, <1>7, Unchanged, TypeOfParts DEF reply_authorize

\* A new code.
LEMMA ApproveType ==
    ASSUME TypeOK, Observe, NEW p \in People, NEW s \in DOMAIN signIns, Approve(p, s)
    PROVE  TypeOK'
<1> DEFINE code == [person |-> p, session |-> s, redeemed |-> FALSE]
<1>1. DatabaseOK /\ InProgressOK /\ WorldOK /\ RequestsOK
  BY PartsOfTypeOK
<1>2. code \in Code
  BY <1>1, BoundsAssumption DEF Code, Sessions, WorldOK
<1>3. codes' \in Seq(Code) /\ Len(codes') <= MaxCodes /\ DOMAIN codes \subseteq DOMAIN codes'
      /\ \A c \in DOMAIN codes' : codes'[c] \in {code, codes[c]} /\ codes'[c].session \in DOMAIN signIns
  BY <1>1, <1>2, BoundsAssumption DEF Approve, WorldOK
<1>4. WorldOK'
  BY <1>1, <1>3 DEF WorldOK, Approve, clock, database
<1>5. RequestsOK'
  BY <1>1, <1>3, RequestsStayOK DEF Grows, Approve, database
<1>6. QED
  BY <1>1, <1>4, <1>5, Unchanged, TypeOfParts DEF Approve

\* A request that comes with the cookie of a sign-in in progress.
LEMMA ArriveSigningInType ==
    ASSUME TypeOK, Observe, NEW t \in Threads, NEW b \in Browsers,
           (\E c \in DOMAIN codes : callback(t, b, c)) \/ submit_sign_up(t, b)
    PROVE  TypeOK'
<1>1. DatabaseOK /\ InProgressOK /\ WorldOK /\ RequestsOK
  BY PartsOfTypeOK
<1>2. WithSession(t, b)
  BY DEF callback, submit_sign_up
<1>3. UNCHANGED <<database, in_progress, world, clock>> /\ cookies[b].session \in DOMAIN in_progress
  BY <1>2 DEF WithSession
<1>4. RequestsOK'
  <2>1. CASE \E c \in DOMAIN codes : callback(t, b, c)
    <3>1. PICK c \in DOMAIN codes : callback(t, b, c)
      BY <2>1
    <3>2. PICK r : r = [at |-> "request_token", session |-> cookies[b].session, code |-> c]
      OBVIOUS
    <3>3. r \in CallbackRequest
      BY <3>2, <1>1, <1>3, BoundsAssumption DEF CallbackRequest, InProgressOK, WorldOK
    <3>4. RequestOK(r)'
      BY <1>1, <1>3, <3>2, <3>3, KindsAreRequests
      DEF RequestOK, InProgressOK, Authenticated, SigningIn, CalledBack, world
    <3>5. QED
      BY <1>1, <1>3, <3>1, <3>2, <3>4, GotoOK, Unchanged DEF callback
  <2>2. CASE submit_sign_up(t, b)
    <3>1. PICK r : r = [at |-> "signup_form_submit", session |-> cookies[b].session]
      OBVIOUS
    <3>2. r \in FormRequest
      BY <3>1, <1>1, <1>3 DEF FormRequest, InProgressOK
    <3>3. RequestOK(r)'
      BY <1>1, <1>3, <3>1, <3>2, KindsAreRequests
      DEF RequestOK, InProgressOK, Authenticated, SigningIn, CalledBack, world
    <3>4. QED
      BY <1>1, <1>3, <2>2, <3>1, <3>3, GotoOK, Unchanged DEF submit_sign_up
  <2>3. QED
    BY <2>1, <2>2
<1>5. QED
  BY <1>1, <1>3, <1>4, Unchanged, TypeOfParts DEF world, database

\* What the provider has handed out are codes.
LEMMA CodeType ==
    ASSUME WorldOK, NEW c \in DOMAIN codes
    PROVE  codes[c] \in Code
BY DEF WorldOK

\* The provider's answer marks a code and keeps the rest of it.
LEMMA CodesOK ==
    ASSUME WorldOK, UNCHANGED <<cookies, signIns, clock, issued>>, NEW c \in DOMAIN codes,
           NEW taken \in BOOLEAN, codes' = [codes EXCEPT ![c].redeemed = taken]
    PROVE  WorldOK' /\ DOMAIN codes' = DOMAIN codes
<1> DEFINE new == [codes[c] EXCEPT !.redeemed = taken]
<1>1. codes[c] \in Code /\ codes \in Seq(Code)
  BY DEF WorldOK
<1>2. new \in Code /\ new.session = codes[c].session
  BY <1>1 DEF Code
<1>3. codes' = [codes EXCEPT ![c] = new]
  OBVIOUS
<1> HIDE DEF new
<1>4. codes' \in Seq(Code) /\ Len(codes') = Len(codes)
      /\ \A d \in DOMAIN codes : codes'[d].session = codes[d].session
  BY <1>1, <1>2, <1>3
<1>5. QED
  BY <1>4 DEF WorldOK, clock

\* An error ends the sign-in and the request.
LEMMA UnauthorizedOK ==
    ASSUME InProgressOK, RequestsOK, Grows, UNCHANGED signIns,
           NEW t \in Threads, Unauthorized(t)
    PROVE  InProgressOK' /\ RequestsOK'
BY DoneOK, RemoveOK DEF Unauthorized

\* What a request at each step is.
LEMMA CurrentRequest ==
    ASSUME RequestsOK, NEW t \in Threads
    PROVE  RequestOK(requests[t]) /\ requests[t] \in Requests
BY DEF RequestsOK, RequestOK

\* The csrf check and what follows it.
LEMMA RequestTokenStepType ==
    ASSUME TypeOK, Observe, NEW t \in Threads, request_token(t)
    PROVE  TypeOK'
<1>1. DatabaseOK /\ InProgressOK /\ WorldOK /\ RequestsOK /\ Grows
  BY PartsOfTypeOK, Unchanged DEF request_token
<1>2. UNCHANGED <<database, world, clock, issued, signIns>>
  BY DEF request_token, world, database
<1>3. CASE Awaited(requests[t])
  <2>1. PICK r : r = [requests[t] EXCEPT !.at = "provider"]
    OBVIOUS
  <2>2. requests[t] \in CallbackRequest /\ RequestOK(requests[t])
    BY <1>1, CurrentRequest, RequestKinds DEF request_token, At, CalledBack
  <2>3. r \in CallbackRequest /\ r.session = requests[t].session /\ r.code = requests[t].code
        /\ r.at = "provider"
    BY <2>1, <2>2 DEF CallbackRequest
  <2>4. RequestOK(r)
    BY <2>2, <2>3, KindsAreRequests
    DEF RequestOK, CalledBack, SigningIn, Authenticated, request_token, At
  <2>5. RequestsOK'
    BY <1>1, <1>3, <2>1, <2>4, RequestStaysOK, GotoOK DEF request_token
  <2>6. UNCHANGED in_progress
    BY <1>3 DEF request_token
  <2>7. QED
    BY <1>1, <1>2, <2>5, <2>6, Unchanged, TypeOfParts
<1>4. CASE ~Awaited(requests[t])
  BY <1>1, <1>2, <1>4, UnauthorizedOK, Unchanged, TypeOfParts DEF request_token
<1>5. QED
  BY <1>3, <1>4

\* The provider's answer.
LEMMA ProviderType ==
    ASSUME TypeOK, Observe, NEW t \in Threads, RequestToken(t)
    PROVE  TypeOK'
<1>1. DatabaseOK /\ InProgressOK /\ WorldOK /\ RequestsOK
  BY PartsOfTypeOK
<1>2. UNCHANGED <<database, cookies, signIns, clock, issued>>
  BY DEF RequestToken, database
<1>3. requests[t] \in CallbackRequest /\ RequestOK(requests[t])
  BY <1>1, CurrentRequest, RequestKinds DEF RequestToken, At, CalledBack
<1>4. requests[t].code \in DOMAIN codes
  BY <1>3 DEF RequestOK, RequestToken, At, CalledBack
<1>5. codes[requests[t].code].redeemed \in BOOLEAN
  BY <1>1, <1>4, CodeType DEF Code
<1>6. CASE /\ codes' = [codes EXCEPT ![requests[t].code].redeemed = TRUE]
           /\ Goto(t, [requests[t] EXCEPT !.at = "fetch_by_oidc_id"])
           /\ UNCHANGED in_progress
  <2>1. PICK r : r = [requests[t] EXCEPT !.at = "fetch_by_oidc_id"]
    OBVIOUS
  <2>2. r \in CallbackRequest /\ r.session = requests[t].session /\ r.code = requests[t].code
        /\ r.at = "fetch_by_oidc_id"
    BY <2>1, <1>3 DEF CallbackRequest
  <2>3. RequestOK(r)
    BY <1>3, <2>2, KindsAreRequests
    DEF RequestOK, CalledBack, SigningIn, Authenticated, RequestToken, At
  <2>4. WorldOK' /\ DOMAIN codes' = DOMAIN codes
    BY <1>1, <1>2, <1>4, <1>6, CodesOK
  <2>5. Grows
    BY <1>2, <2>4 DEF Grows, database
  <2>6. RequestsOK'
    BY <1>1, <1>6, <2>1, <2>3, <2>5, RequestStaysOK, GotoOK
  <2>7. QED
    BY <1>1, <1>2, <1>6, <2>4, <2>6, Unchanged, TypeOfParts
<1>7. CASE /\ \E taken \in {codes[requests[t].code].redeemed, TRUE} :
                 codes' = [codes EXCEPT ![requests[t].code].redeemed = taken]
           /\ Unauthorized(t)
  <2>1. WorldOK' /\ DOMAIN codes' = DOMAIN codes
    BY <1>1, <1>2, <1>4, <1>5, <1>7, CodesOK
  <2>2. Grows
    BY <1>2, <2>1 DEF Grows, database
  <2>3. QED
    BY <1>1, <1>2, <1>7, <2>1, <2>2, UnauthorizedOK, Unchanged, TypeOfParts
<1>8. QED
  BY <1>6, <1>7 DEF RequestToken

\* A request goes on to a request of someone known.
LEMMA GotoKnown ==
    ASSUME RequestsOK, Grows, NEW t \in Threads, NEW r \in KnownRequest,
           r.session \in DOMAIN signIns',
           r.at = "new_token" => r.user \in Registered(users'),
           Goto(t, r)
    PROVE  RequestsOK'
<1>1. RequestOK(r)'
  BY KindsAreRequests DEF RequestOK, KnownRequest, CalledBack, SigningIn, Authenticated
<1>2. QED
  BY <1>1, GotoOK

\* Whoever the code is of may be registered or not.
LEMMA FetchByOidcType ==
    ASSUME TypeOK, Observe, NEW t \in Threads, fetch_by_oidc_id(t)
    PROVE  TypeOK'
<1>1. DatabaseOK /\ InProgressOK /\ WorldOK /\ RequestsOK /\ Grows
  BY PartsOfTypeOK, Unchanged DEF fetch_by_oidc_id
<1>2. UNCHANGED <<database, in_progress, world, clock, issued, signIns, users>>
  BY DEF fetch_by_oidc_id, world, database
<1>3. requests[t] \in CallbackRequest /\ RequestOK(requests[t])
  BY <1>1, CurrentRequest, RequestKinds DEF fetch_by_oidc_id, At, CalledBack
<1>4. requests[t].code \in DOMAIN codes /\ requests[t].session \in DOMAIN signIns
  BY <1>3 DEF RequestOK, fetch_by_oidc_id, At, CalledBack, SigningIn
<1>5. codes[requests[t].code].person \in People
  BY <1>1, <1>4, CodeType DEF Code
<1>6. PICK r : r = [at |-> IF codes[requests[t].code].person \in Registered(users)
                           THEN "new_token" ELSE "insert_sign_up",
                    session |-> requests[t].session,
                    user |-> codes[requests[t].code].person, connected |-> TRUE]
  OBVIOUS
<1>7. r \in KnownRequest /\ r.session \in DOMAIN signIns
      /\ (r.at = "new_token" => r.user \in Registered(users))
  BY <1>3, <1>4, <1>5, <1>6 DEF KnownRequest, CallbackRequest
<1>8. RequestsOK'
  BY <1>1, <1>2, <1>6, <1>7, GotoKnown DEF fetch_by_oidc_id
<1>9. QED
  BY <1>1, <1>2, <1>8, Unchanged, TypeOfParts

\* Waiting for a sign-up.
LEMMA InsertSignUpType ==
    ASSUME TypeOK, Observe, NEW t \in Threads, insert_sign_up(t)
    PROVE  TypeOK'
<1>1. DatabaseOK /\ InProgressOK /\ WorldOK /\ RequestsOK /\ Grows
  BY PartsOfTypeOK, Unchanged DEF insert_sign_up
<1>2. UNCHANGED <<database, world, clock, issued, signIns>>
  BY DEF insert_sign_up, world, database
<1>3. requests[t] \in KnownRequest /\ RequestOK(requests[t])
  BY <1>1, CurrentRequest, RequestKinds DEF insert_sign_up, At
<1>4. requests[t].session \in DOMAIN signIns /\ requests[t].session \in Sessions
  BY <1>3 DEF RequestOK, insert_sign_up, At, SigningIn, KnownRequest
<1>5. WaitingForSignUp(requests[t].user) \in SignInState
  BY <1>3 DEF WaitingForSignUp, SignInState, KnownRequest
<1>6. InProgressOK'
  BY <1>1, <1>2, <1>4, <1>5, InsertOK DEF insert_sign_up
<1>7. QED
  BY <1>1, <1>2, <1>6, DoneOK, Unchanged, TypeOfParts DEF insert_sign_up

\* The form is shown again, or the person is to be registered.
LEMMA SignUpFormType ==
    ASSUME TypeOK, Observe, NEW t \in Threads, signup_form_submit(t)
    PROVE  TypeOK'
<1>1. DatabaseOK /\ InProgressOK /\ WorldOK /\ RequestsOK /\ Grows
  BY PartsOfTypeOK, Unchanged DEF signup_form_submit
<1>2. UNCHANGED <<database, in_progress, world, clock, issued, signIns>>
  BY DEF signup_form_submit, world, database
<1> DEFINE s == requests[t].session
<1>3. CASE /\ s \in DOMAIN in_progress
           /\ in_progress[s].step = "sign_up"
           /\ Goto(t, [at |-> "register", session |-> s, user |-> in_progress[s].userinfo,
                       connected |-> TRUE])
  <2>1. PICK r : r = [at |-> "register", session |-> s, user |-> in_progress[s].userinfo,
                      connected |-> TRUE]
    OBVIOUS
  <2>2. in_progress[s] \in SignInState /\ s \in Sessions /\ s \in DOMAIN signIns
    BY <1>1, <1>3 DEF InProgressOK
  <2>3. in_progress[s].userinfo \in People
    BY <1>3, <2>2 DEF SignInState
  <2>4. r \in KnownRequest /\ r.session \in DOMAIN signIns' /\ r.at # "new_token"
    BY <1>2, <2>1, <2>2, <2>3 DEF KnownRequest
  <2>5. RequestsOK'
    BY <1>1, <1>3, <2>1, <2>4, GotoKnown
  <2>6. QED
    BY <1>1, <1>2, <2>5, Unchanged, TypeOfParts
<1>4. CASE Done(t)
  BY <1>1, <1>2, <1>4, DoneOK, Unchanged, TypeOfParts
<1>5. QED
  BY <1>3, <1>4 DEF signup_form_submit

\* The world does not look at users.
LEMMA WorldIgnoresUsers ==
    ASSUME WorldOK, UNCHANGED <<world, clock, issued>>
    PROVE  WorldOK'
BY DEF WorldOK, world, clock

\* A row for a new user.
LEMMA RegisterType ==
    ASSUME TypeOK, Observe, NEW t \in Threads, register(t)
    PROVE  TypeOK'
<1>1. DatabaseOK /\ InProgressOK /\ WorldOK /\ RequestsOK
  BY PartsOfTypeOK
<1>2. UNCHANGED <<login_tokens, in_progress, world, clock, issued, signIns, codes>>
  BY DEF register, world
<1>3. requests[t] \in KnownRequest /\ RequestOK(requests[t])
  BY <1>1, CurrentRequest, RequestKinds DEF register, At
<1>4. CASE requests[t].user \notin AlreadyRegistered
  <2>1. users' = Register(users, requests[t].user)
    BY <1>4 DEF register
  <2>2. IsUsers(users') /\ DOMAIN users' = DOMAIN users \cup {requests[t].user}
    BY <1>1, <1>3, <2>1 DEF IsUsers, Register, Account, Permissions, User, DatabaseOK, KnownRequest
  <2>3. DatabaseOK' /\ Grows
    BY <1>1, <1>2, <2>2 DEF DatabaseOK, Grows, Registered
  <2>4. CASE requests[t].connected
    <3>1. PICK r : r = [requests[t] EXCEPT !.at = "new_token"]
      OBVIOUS
    <3>2. r \in KnownRequest /\ r.session = requests[t].session /\ r.user = requests[t].user
      BY <1>3, <3>1 DEF KnownRequest
    <3>3. requests[t].session \in DOMAIN signIns
      BY <1>3 DEF RequestOK, SigningIn, register, At
    <3>4. RequestsOK'
      BY <1>1, <1>2, <1>4, <2>2, <2>3, <2>4, <3>1, <3>2, <3>3, GotoKnown DEF register, Registered
    <3>5. QED
      BY <1>1, <1>2, <2>3, <3>4, Unchanged, WorldIgnoresUsers, TypeOfParts
  <2>5. CASE ~requests[t].connected
    <3>1. RequestsOK'
      BY <1>1, <1>4, <2>3, <2>5, DoneOK DEF register
    <3>2. QED
      BY <1>1, <1>2, <2>3, <3>1, Unchanged, WorldIgnoresUsers, TypeOfParts
  <2>6. QED
    BY <2>4, <2>5
<1>5. CASE requests[t].user \in AlreadyRegistered
  <2>1. UNCHANGED <<database, world>> /\ Done(t)
    BY <1>2, <1>5 DEF register, database
  <2>2. QED
    BY <1>1, <1>2, <2>1, DoneOK, Unchanged, TypeOfParts
<1>6. QED
  BY <1>4, <1>5

\* A row for a new token.
LEMMA NewTokenType ==
    ASSUME TypeOK, Observe, NEW t \in Threads, new_token(t)
    PROVE  TypeOK'
<1> DEFINE row == NewToken(login_tokens, Len(issued) + 1, requests[t].user, today)
           entry == [user |-> requests[t].user, used |-> today]
<1>1. DatabaseOK /\ InProgressOK /\ WorldOK /\ RequestsOK
  BY PartsOfTypeOK
<1>2. UNCHANGED <<users, in_progress, world, clock, signIns, codes>>
  BY DEF new_token, world
<1>3. requests[t] \in KnownRequest /\ RequestOK(requests[t])
  BY <1>1, CurrentRequest, RequestKinds DEF new_token, At
<1>4. requests[t].user \in Registered(users) /\ requests[t].user \in People
      /\ requests[t].session \in DOMAIN signIns /\ requests[t].session \in Sessions
  BY <1>3 DEF RequestOK, SigningIn, new_token, At, KnownRequest
<1>5. today \in Nat
  BY <1>1 DEF WorldOK
<1>6. issued \in Seq([user: People, used: Nat]) /\ entry \in [user: People, used: Nat]
  BY <1>1, <1>4, <1>5 DEF DatabaseOK
<1>7. row \in LoginToken /\ row.token = Len(issued) + 1
  <2>1. NextTokenId(login_tokens) \in Nat \ {0}
    BY <1>1, NextTokenIdType DEF DatabaseOK
  <2>2. Len(issued) + 1 \in Nat \ {0}
    BY <1>6
  <2>3. QED
    BY <1>4, <1>5, <2>1, <2>2 DEF NewToken, LoginToken
<1>8. /\ issued' \in Seq([user: People, used: Nat])
      /\ DOMAIN issued' = DOMAIN issued \cup {Len(issued) + 1}
      /\ \A i \in DOMAIN issued' : issued'[i] = IF i \in DOMAIN issued THEN issued[i] ELSE entry
  BY <1>6 DEF new_token
<1>9. login_tokens' = login_tokens \cup {row} /\ IsFiniteSet(login_tokens')
  BY <1>1, FS_AddElement DEF new_token, DatabaseOK
<1> HIDE DEF row
<1>10. DatabaseOK'
  BY <1>1, <1>2, <1>4, <1>7, <1>8, <1>9 DEF DatabaseOK
<1>11. WorldOK' /\ Grows
  BY <1>1, <1>2, <1>8 DEF WorldOK, Grows, world, clock
<1>12. RequestsOK'
  <2>1. CASE requests[t].connected
    <3>1. PICK r : r = [at |-> "reply", session |-> requests[t].session,
                        cookie |-> [token_id |-> row.token_id, token |-> row.token]]
      OBVIOUS
    <3>2. r \in ReplyRequest
      BY <1>4, <1>7, <3>1 DEF ReplyRequest, StaySignedInToken, LoginToken
    <3>3. r.at = "reply" /\ r.session \in DOMAIN signIns' /\ r.cookie.token \in DOMAIN issued'
      BY <1>2, <1>4, <1>7, <1>8, <3>1
    <3>4. RequestOK(r)'
      BY <3>2, <3>3, KindsAreRequests DEF RequestOK, SigningIn, CalledBack, Authenticated
    <3>5. QED
      BY <1>1, <1>11, <2>1, <3>1, <3>4, GotoOK DEF new_token, row
  <2>2. CASE ~requests[t].connected
    BY <1>1, <1>11, <2>2, DoneOK DEF new_token
  <2>3. QED
    BY <2>1, <2>2
<1>13. QED
  BY <1>1, <1>2, <1>10, <1>11, <1>12, Unchanged, TypeOfParts

\* The browser a sign-in was started in gets the token.
LEMMA ReplyType ==
    ASSUME TypeOK, Observe, NEW t \in Threads, reply_insert_session(t)
    PROVE  TypeOK'
<1>1. DatabaseOK /\ InProgressOK /\ WorldOK /\ RequestsOK
  BY PartsOfTypeOK
<1>2. UNCHANGED <<database, signIns, codes, clock, issued, users>>
  BY DEF reply_insert_session, database
<1>3. requests[t] \in ReplyRequest /\ RequestOK(requests[t])
  BY <1>1, CurrentRequest, RequestKinds DEF reply_insert_session, At
<1>4. requests[t].session \in DOMAIN signIns /\ requests[t].cookie.token \in DOMAIN issued
      /\ requests[t].cookie \in StaySignedInToken
  BY <1>3 DEF RequestOK, SigningIn, reply_insert_session, At, ReplyRequest
<1> DEFINE b == signIns[requests[t].session]
           c == requests[t].cookie
<1>5. PICK new : new = [token_id |-> c.token_id, token |-> c.token, until |-> today + CookieDays]
  OBVIOUS
<1>6. b \in Browsers /\ new \in TokenCookie /\ new.token \in DOMAIN issued
  BY <1>1, <1>4, <1>5, DaysAssumption DEF WorldOK, TokenCookie, StaySignedInToken
<1> HIDE DEF b
<1>7. cookies' = [cookies EXCEPT ![b].token = new]
  BY <1>5 DEF reply_insert_session, b
<1>8. /\ cookies' \in [Browsers -> [session: Nat, token: TokenCookie \cup {NoToken}]]
      /\ \A a \in Browsers : cookies'[a].session = cookies[a].session
                              /\ cookies'[a].token \in {new, cookies[a].token}
  BY <1>1, <1>6, <1>7 DEF WorldOK
<1>9. WorldOK'
  BY <1>1, <1>2, <1>6, <1>8 DEF WorldOK, clock
<1>10. Grows
  BY <1>2 DEF Grows
<1>11. QED
  BY <1>1, <1>2, <1>9, <1>10, DoneOK, RemoveOK, Unchanged, TypeOfParts DEF reply_insert_session

-----------------------------------------------------------------------------
(* Being signed in keeps the types *)

\* A page is asked for.
LEMMA VisitType ==
    ASSUME TypeOK, Observe, NEW t \in Threads, NEW b \in Browsers, NEW route \in Routes,
           visit(t, b, route)
    PROVE  TypeOK'
<1>1. DatabaseOK /\ InProgressOK /\ WorldOK /\ RequestsOK /\ Grows
  BY PartsOfTypeOK, Unchanged DEF visit
<1>2. UNCHANGED <<database, in_progress, world, clock, issued, signIns>>
  BY DEF visit, world, database
<1>3. cookies[b].token \in TokenCookie /\ cookies[b].token.token \in DOMAIN issued
  BY <1>1 DEF visit, SignedIn, WorldOK
<1>4. PICK r : r = [at |-> "verify_token", browser |-> b, route |-> route,
                    cookie |-> [token_id |-> cookies[b].token.token_id,
                                token |-> cookies[b].token.token]]
  OBVIOUS
<1>5. r \in VisitRequest /\ r.at = "verify_token" /\ r.cookie.token \in DOMAIN issued'
  BY <1>2, <1>3, <1>4 DEF VisitRequest, TokenCookie, StaySignedInToken
<1>6. RequestOK(r)'
  BY <1>5, KindsAreRequests DEF RequestOK, SigningIn, CalledBack, Authenticated
<1>7. RequestsOK'
  BY <1>1, <1>4, <1>6, GotoOK DEF visit
<1>8. QED
  BY <1>1, <1>2, <1>7, Unchanged, TypeOfParts

\* A request goes on with the user of its token.
LEMMA GotoVerified ==
    ASSUME RequestsOK, Grows, NEW t \in Threads, NEW r \in VerifiedRequest,
           r.cookie.token \in DOMAIN issued', Goto(t, r)
    PROVE  RequestsOK'
<1>1. RequestOK(r)'
  BY KindsAreRequests DEF RequestOK, VerifiedRequest, CalledBack, SigningIn, Authenticated
<1>2. QED
  BY <1>1, GotoOK

\* The history of tokens is a sequence.
LEMMA TokensAreIssued ==
    ASSUME DatabaseOK
    PROVE  /\ issued \in Seq([user: People, used: Nat])
           /\ \A i \in DOMAIN issued : issued[i] \in [user: People, used: Nat]
<1> DEFINE Entry == [user: People, used: Nat]
<1>1. issued \in Seq(Entry)
  BY DEF DatabaseOK
<1> HIDE DEF Entry
<1>2. \A i \in DOMAIN issued : issued[i] \in Entry
  BY <1>1
<1>3. QED
  BY <1>1, <1>2 DEF Entry

\* verify_token finds a row or none.
LEMMA VerifyType ==
    ASSUME TypeOK, Observe, NEW t \in Threads, verify_token(t)
    PROVE  TypeOK'
<1>1. DatabaseOK /\ InProgressOK /\ WorldOK /\ RequestsOK
  BY PartsOfTypeOK
<1>2. UNCHANGED <<users, in_progress, world, clock, signIns, codes>>
  BY DEF verify_token, world
<1>3. requests[t] \in VisitRequest /\ RequestOK(requests[t])
  BY <1>1, CurrentRequest, RequestKinds DEF verify_token, At
<1>4. requests[t].cookie.token \in DOMAIN issued
  BY <1>3 DEF RequestOK, Authenticated, verify_token, At
<1>5. ASSUME NEW row \in login_tokens,
             login_tokens' = TouchLastUsed(login_tokens, requests[t].cookie, today),
             issued' = [issued EXCEPT ![row.token].used = today],
             Goto(t, [at |-> "fetch_by_id", browser |-> requests[t].browser,
                      route |-> requests[t].route,
                      cookie |-> requests[t].cookie, user |-> row.user])
      PROVE  TypeOK'
  <2>1. row.user \in People /\ row.token \in DOMAIN issued /\ UNCHANGED login_tokens
    BY <1>1, <1>5 DEF DatabaseOK, LoginToken, TouchLastUsed
  <2>2. issued[row.token] \in [user: People, used: Nat] /\ today \in Nat
    <3>1. today \in Nat
      BY <1>1 DEF WorldOK
    <3>2. issued[row.token] \in [user: People, used: Nat]
      BY <1>1, <2>1, TokensAreIssued
    <3>3. QED
      BY <3>1, <3>2
  <2>3. PICK entry : entry = [issued[row.token] EXCEPT !.used = today]
    OBVIOUS
  <2>4. entry \in [user: People, used: Nat] /\ entry.user = issued[row.token].user
    BY <2>2, <2>3
  <2>5. issued' = [issued EXCEPT ![row.token] = entry]
    BY <1>5, <2>3
  <2>6. /\ issued' \in Seq([user: People, used: Nat]) /\ DOMAIN issued' = DOMAIN issued
        /\ \A i \in DOMAIN issued : issued'[i].user = issued[i].user
    BY <1>1, <2>1, <2>4, <2>5, TokensAreIssued
  <2>7. DatabaseOK' /\ WorldOK' /\ Grows
    BY <1>1, <1>2, <2>1, <2>6 DEF DatabaseOK, WorldOK, Grows, world, clock
  <2>8. PICK r : r = [at |-> "fetch_by_id", browser |-> requests[t].browser,
                      route |-> requests[t].route,
                      cookie |-> requests[t].cookie, user |-> row.user]
    OBVIOUS
  <2>9. r \in VerifiedRequest /\ r.cookie.token \in DOMAIN issued'
    BY <1>3, <1>4, <2>1, <2>6, <2>8 DEF VerifiedRequest, VisitRequest
  <2>10. RequestsOK'
    BY <1>1, <1>5, <2>7, <2>8, <2>9, GotoVerified
  <2>11. QED
    BY <1>1, <1>2, <2>7, <2>10, Unchanged, TypeOfParts
<1>6. CASE Done(t) /\ UNCHANGED <<login_tokens, issued>>
  <2>1. UNCHANGED <<database, world>>
    BY <1>2, <1>6 DEF database
  <2>2. QED
    BY <1>1, <1>2, <1>6, <2>1, DoneOK, Unchanged, TypeOfParts
<1>7. QED
  BY <1>5, <1>6 DEF verify_token

\* The lock and the permissions are looked at, the page is made.
LEMMA HandleType ==
    ASSUME TypeOK, Observe, NEW t \in Threads, fetch_by_id(t) \/ handle(t)
    PROVE  TypeOK'
<1>1. DatabaseOK /\ InProgressOK /\ WorldOK /\ RequestsOK /\ Grows
  BY PartsOfTypeOK, Unchanged DEF fetch_by_id, handle
<1>2. UNCHANGED <<database, in_progress, world, clock, issued, signIns>>
  BY DEF fetch_by_id, handle, world, database
<1>3. CASE fetch_by_id(t) /\ Goto(t, [requests[t] EXCEPT !.at = "handle"])
  <2>1. requests[t] \in VerifiedRequest /\ RequestOK(requests[t])
    BY <1>1, <1>3, CurrentRequest, RequestKinds DEF fetch_by_id, At
  <2>2. requests[t].cookie.token \in DOMAIN issued
    BY <1>3, <2>1 DEF RequestOK, Authenticated, fetch_by_id, At
  <2>3. PICK r : r = [requests[t] EXCEPT !.at = "handle"]
    OBVIOUS
  <2>4. r \in VerifiedRequest /\ r.cookie.token \in DOMAIN issued'
    BY <1>2, <2>1, <2>2, <2>3 DEF VerifiedRequest
  <2>5. RequestsOK'
    BY <1>1, <1>3, <2>3, <2>4, GotoVerified
  <2>6. QED
    BY <1>1, <1>2, <2>5, Unchanged, TypeOfParts
<1>4. CASE Done(t)
  BY <1>1, <1>2, <1>4, DoneOK, Unchanged, TypeOfParts
<1>5. QED
  BY <1>3, <1>4 DEF fetch_by_id, handle

\* Signing out takes the cookie first.
LEMMA LogoutType ==
    ASSUME TypeOK, Observe, NEW t \in Threads, reply_logout(t)
    PROVE  TypeOK'
<1>1. DatabaseOK /\ InProgressOK /\ WorldOK /\ RequestsOK
  BY PartsOfTypeOK
<1>2. UNCHANGED <<database, in_progress, signIns, codes, clock, issued, users>>
  BY DEF reply_logout, database
<1>3. requests[t] \in VerifiedRequest /\ RequestOK(requests[t])
  BY <1>1, CurrentRequest, RequestKinds DEF reply_logout, At
<1>4. requests[t].cookie.token \in DOMAIN issued /\ requests[t].browser \in Browsers
  BY <1>3 DEF RequestOK, Authenticated, reply_logout, At, VerifiedRequest
<1>5. /\ cookies' \in [Browsers -> [session: Nat, token: TokenCookie \cup {NoToken}]]
      /\ \A a \in Browsers : cookies'[a].session = cookies[a].session
                              /\ cookies'[a].token \in {NoToken, cookies[a].token}
  <2>1. PICK b \in Browsers : b = requests[t].browser
    BY <1>4
  <2>2. cookies' = [cookies EXCEPT ![b].token = NoToken]
    BY <2>1 DEF reply_logout
  <2>3. QED
    BY <1>1, <2>2 DEF WorldOK
<1>6. WorldOK' /\ Grows
  BY <1>1, <1>2, <1>5 DEF WorldOK, Grows, clock
<1>7. PICK r : r = [requests[t] EXCEPT !.at = "delete_token"]
  OBVIOUS
<1>8. r \in VerifiedRequest /\ r.cookie.token \in DOMAIN issued'
  BY <1>2, <1>3, <1>4, <1>7 DEF VerifiedRequest
<1>9. RequestsOK'
  BY <1>1, <1>6, <1>7, <1>8, GotoVerified DEF reply_logout
<1>10. QED
  BY <1>1, <1>2, <1>6, <1>9, Unchanged, TypeOfParts

\* Rows of login_tokens go: a logout, a sweep, the administrator.
LEMMA TokensGoType ==
    ASSUME TypeOK, Observe, login_tokens' \subseteq login_tokens,
           UNCHANGED <<users, issued, in_progress, world, clock>>, RequestsOK'
    PROVE  TypeOK'
<1>1. DatabaseOK /\ InProgressOK /\ WorldOK
  BY PartsOfTypeOK
<1>2. DatabaseOK'
  BY <1>1, FewerTokens DEF DatabaseOK
<1>3. QED
  BY <1>1, <1>2, Unchanged, TypeOfParts DEF world

-----------------------------------------------------------------------------
(* Everything else keeps the types *)

\* A browser that hangs up.
LEMMA HangUpType ==
    ASSUME TypeOK, Observe, NEW t \in Threads, hang_up(t)
    PROVE  TypeOK'
<1>1. DatabaseOK /\ InProgressOK /\ WorldOK /\ RequestsOK
  BY PartsOfTypeOK
<1>2. UNCHANGED <<database, in_progress, cookies, signIns, clock, issued>>
  BY DEF hang_up, database
<1>3. RequestOK(requests[t]) /\ requests[t] \in Requests
  BY <1>1, CurrentRequest
<1>4. CASE Done(t) /\ UNCHANGED codes
  BY <1>1, <1>2, <1>4, DoneOK, Unchanged, TypeOfParts DEF world
<1>5. CASE /\ At(t, "provider")
           /\ \E taken \in {codes[requests[t].code].redeemed, TRUE} :
                 codes' = [codes EXCEPT ![requests[t].code].redeemed = taken]
           /\ Done(t)
  <2>1. requests[t].code \in DOMAIN codes
    BY <1>3, <1>5 DEF RequestOK, CalledBack, At
  <2>2. codes[requests[t].code].redeemed \in BOOLEAN
    BY <1>1, <2>1, CodeType DEF Code
  <2>3. WorldOK' /\ DOMAIN codes' = DOMAIN codes
    BY <1>1, <1>2, <1>5, <2>1, <2>2, CodesOK
  <2>4. Grows
    BY <1>2, <2>3 DEF Grows, database
  <2>5. QED
    BY <1>1, <1>2, <1>5, <2>3, <2>4, DoneOK, Unchanged, TypeOfParts
<1>6. CASE /\ requests[t].at \in {"register", "new_token"}
           /\ Goto(t, [requests[t] EXCEPT !.connected = FALSE])
           /\ UNCHANGED codes
  <2>1. requests[t] \in KnownRequest
    BY <1>3, <1>6, RequestKinds
  <2>2. PICK r : r = [requests[t] EXCEPT !.connected = FALSE]
    OBVIOUS
  <2>3. r \in KnownRequest /\ r.session = requests[t].session /\ r.at = requests[t].at
        /\ r.user = requests[t].user
    BY <2>1, <2>2 DEF KnownRequest
  <2>4. requests[t].session \in DOMAIN signIns'
        /\ (requests[t].at = "new_token" => requests[t].user \in Registered(users'))
    BY <1>2, <1>3, <1>6 DEF RequestOK, SigningIn, database
  <2>5. Grows
    BY <1>2, <1>6, Unchanged DEF world
  <2>6. RequestsOK'
    BY <1>1, <1>6, <2>2, <2>3, <2>4, <2>5, GotoKnown
  <2>7. QED
    BY <1>1, <1>2, <1>6, <2>6, Unchanged, TypeOfParts DEF world
<1>7. QED
  BY <1>4, <1>5, <1>6 DEF hang_up

\* A sweep of the sign-ins in progress.
LEMMA SweepType ==
    ASSUME TypeOK, Observe, sweep_in_progress_sign_ins
    PROVE  TypeOK'
<1>1. DatabaseOK /\ InProgressOK /\ WorldOK /\ RequestsOK /\ Grows
  BY PartsOfTypeOK, Unchanged DEF sweep_in_progress_sign_ins
<1>2. UNCHANGED <<database, requests, world, clock, issued, signIns>>
  BY DEF sweep_in_progress_sign_ins, world, database
<1>3. \A s \in DOMAIN in_progress : [in_progress[s] EXCEPT !.fresh = FALSE] \in SignInState
  BY <1>1 DEF InProgressOK, SignInState
<1>4. PICK kept \in Kept(in_progress) :
         in_progress' = [s \in kept |-> [in_progress[s] EXCEPT !.fresh = FALSE]]
  BY DEF sweep_in_progress_sign_ins
<1>5. kept \subseteq DOMAIN in_progress
  BY DEF Kept
<1>6. InProgressOK'
  BY <1>1, <1>2, <1>3, <1>4, <1>5 DEF InProgressOK
<1>7. QED
  BY <1>1, <1>2, <1>6, RequestsStayOK, Unchanged, TypeOfParts

\* What the administrator runs.
LEMMA CommandType ==
    ASSUME TypeOK, Observe, Command
    PROVE  TypeOK'
<1>1. DatabaseOK /\ InProgressOK /\ WorldOK /\ RequestsOK
  BY PartsOfTypeOK
<1>2. UNCHANGED <<issued, in_progress, requests, world, clock, signIns, codes>>
  BY DEF Command, set_role, lock, logout_all, sweep_tokens, world
<1>3. CASE logout_all \/ sweep_tokens
  <2>1. login_tokens' \subseteq login_tokens /\ UNCHANGED users
    BY <1>3 DEF logout_all, sweep_tokens, Unexpired
  <2>2. Grows
    BY <1>2, <2>1 DEF Grows
  <2>3. QED
    BY <1>1, <1>2, <2>1, <2>2, RequestsStayOK, TokensGoType
<1>4. CASE UNCHANGED login_tokens /\ IsUsers(users') /\ DOMAIN users' = DOMAIN users
  <2>1. DatabaseOK' /\ Grows
    BY <1>1, <1>2, <1>4 DEF DatabaseOK, Grows, Registered
  <2>2. QED
    BY <1>1, <1>2, <2>1, RequestsStayOK, Unchanged, WorldIgnoresUsers, TypeOfParts
<1>5. ASSUME NEW p \in People, NEW role \in Permissions, set_role(p, role)
      PROVE  UNCHANGED login_tokens /\ IsUsers(users') /\ DOMAIN users' = DOMAIN users
  <2>1. users[p] \in Account /\ p \in DOMAIN users
    BY <1>1, <1>5 DEF DatabaseOK, IsUsers, set_role, Registered
  <2>2. [users[p] EXCEPT !.permissions = role] \in Account
    BY <2>1 DEF Account
  <2>3. QED
    BY <1>1, <1>5, <2>2 DEF DatabaseOK, IsUsers, set_role, SetRoleByEmail
<1>6. ASSUME NEW p \in People, NEW locked \in BOOLEAN, lock(p, locked)
      PROVE  UNCHANGED login_tokens /\ IsUsers(users') /\ DOMAIN users' = DOMAIN users
  <2>1. users[p] \in Account /\ p \in DOMAIN users
    BY <1>1, <1>6 DEF DatabaseOK, IsUsers, lock, Registered
  <2>2. [users[p] EXCEPT !.locked = locked] \in Account
    BY <2>1 DEF Account
  <2>3. QED
    BY <1>1, <1>6, <2>2 DEF DatabaseOK, IsUsers, lock, SetLockedByEmail
<1>7. QED
  BY <1>3, <1>4, <1>5, <1>6 DEF Command

\* Time passes and the server starts again.
LEMMA ClockType ==
    ASSUME TypeOK, Observe, NextDay \/ Restart
    PROVE  TypeOK'
<1>1. DatabaseOK /\ InProgressOK /\ WorldOK /\ RequestsOK
  BY PartsOfTypeOK
<1>2. UNCHANGED <<database, world, issued, signIns, cookies, codes>>
  BY DEF NextDay, Restart, world, database
<1>3. WorldOK' /\ Grows
  <2>1. today' \in 0 .. MaxDays /\ restarts' \in 0 .. MaxRestarts
    BY <1>1, BoundsAssumption DEF WorldOK, NextDay, Restart
  <2>2. QED
    BY <1>1, <1>2, <2>1, Unchanged DEF WorldOK
<1>4. InProgressOK'
  <2>1. CASE NextDay
    BY <1>1, <1>2, <2>1, Unchanged DEF NextDay
  <2>2. CASE Restart
    BY <2>2 DEF Restart, InProgressOK
  <2>3. QED
    BY <2>1, <2>2
<1>5. RequestsOK'
  <2>1. CASE NextDay
    BY <1>1, <1>3, <2>1, RequestsStayOK DEF NextDay
  <2>2. CASE Restart
    BY <2>2, KindsAreRequests
    DEF Restart, RequestsOK, RequestOK, Idle, SigningIn, CalledBack, Authenticated
  <2>3. QED
    BY <2>1, <2>2
<1>6. QED
  BY <1>1, <1>2, <1>3, <1>4, <1>5, Unchanged, TypeOfParts

\* The task that deletes a token.
LEMMA DeleteTokenType ==
    ASSUME TypeOK, Observe, NEW t \in Threads, delete_token(t)
    PROVE  TypeOK'
<1>1. login_tokens' \subseteq login_tokens
  BY DEF delete_token, DeleteToken
<1>2. Grows
  BY DEF delete_token, Grows, world
<1>3. RequestsOK'
  BY <1>2, PartsOfTypeOK, DoneOK DEF delete_token
<1>4. QED
  BY <1>1, <1>3, TokensGoType DEF delete_token

\* Every step keeps the types.
LEMMA StepType ==
    ASSUME TypeOK, [Next]_vars
    PROVE  TypeOK'
<1>1. CASE Next
  <2>1. Observe /\ Step
    BY <1>1 DEF Next
  <2>2. ASSUME NEW t \in Threads, Serve(t)
        PROVE  TypeOK'
    BY <2>1, <2>2, RequestTokenStepType, ProviderType, FetchByOidcType, InsertSignUpType,
       SignUpFormType, RegisterType, NewTokenType, ReplyType, VerifyType, HandleType,
       LogoutType, DeleteTokenType DEF Serve
  <2>3. ASSUME NEW t \in Threads, NEW b \in Browsers, Arrive(t, b)
        PROVE  TypeOK'
    BY <2>1, <2>3, ArriveSigningInType, VisitType DEF Arrive
  <2>4. QED
    BY <2>1, <2>2, <2>3, AuthorizeType, ApproveType, HangUpType, SweepType, CommandType,
       ClockType DEF Step
<1>2. CASE UNCHANGED vars
  BY <1>2 DEF vars, database, world, clock, TypeOK, Types, NothingDangles
<1>3. QED
  BY <1>1, <1>2

\* The server starts with no users and nobody signed in.
LEMMA InitialType == Init => TypeOK
<1> SUFFICES ASSUME Init PROVE TypeOK
  OBVIOUS
<1>1. IsUsers(users) /\ IsFiniteSet(login_tokens)
  BY FS_EmptySet DEF Init, IsUsers
<1>2. cookies \in [Browsers -> [session: Nat, token: TokenCookie \cup {NoToken}]]
  BY DEF Init, NoSession
<1>3. in_progress \in [DOMAIN in_progress -> SignInState] /\ DOMAIN in_progress = {}
  BY DEF Init
<1>4. requests \in [Threads -> Requests]
  BY KindsAreRequests DEF Init
<1>5. issued \in Seq([user: People, used: Nat]) /\ codes \in Seq(Code)
      /\ signIns \in Seq(Browsers)
  BY DEF Init
<1>6. Len(signIns) <= MaxSignIns /\ Len(codes) <= MaxCodes
      /\ today \in 0 .. MaxDays /\ restarts \in 0 .. MaxRestarts
  BY BoundsAssumption DEF Init
<1>7. Types
  BY <1>1, <1>2, <1>3, <1>4, <1>5, <1>6 DEF Init, Types
<1>8. NothingDangles
  BY DEF Init, NothingDangles, Idle, SigningIn, CalledBack, Authenticated
<1>9. QED
  BY <1>7, <1>8 DEF TypeOK

-----------------------------------------------------------------------------
(* Who a request is served as, and what for *)

\* A row of login_tokens is of the user its string was drawn for.
RowsKeepUsers == \A row \in login_tokens : row.user = issued[row.token].user

\* A request that has got past verify_token was entitled to be signed in at
\* some moment, one that is answered to its page as well.
Stood ==
    \A t \in Threads :
        /\ requests[t].at \in {"fetch_by_id", "handle"} => TokenHolds \in standing[t]
        /\ At(t, "handle") => Required(requests[t].route) \in standing[t]

\* A request that changes its step has it.
LEMMA NextStepOf ==
    ASSUME NEW r \in Requests, NEW step
    PROVE  /\ [r EXCEPT !.at = step].at = step
           /\ [r EXCEPT !.connected = FALSE].at = r.at
BY DEF Requests, Idle

\* A step of one thread leaves the requests of the others.
LEMMA OneThreadGoes ==
    ASSUME TypeOK, NEW t \in Threads, NEW u \in Threads, NEW r, Goto(u, r)
    PROVE  requests'[t] = IF t = u THEN r ELSE requests[t]
BY DEF TypeOK, Types, Goto

\* Only verify_token and fetch_by_id bring a request closer to its page.
LEMMA OtherStepsOfRequests ==
    ASSUME TypeOK, Step, NEW t \in Threads, ~verify_token(t), ~fetch_by_id(t)
    PROVE  requests'[t] = requests[t] \/ requests'[t].at \notin {"fetch_by_id", "handle"}
<1> DEFINE Goal == requests'[t] = requests[t] \/ requests'[t].at \notin {"fetch_by_id", "handle"}
<1> SUFFICES Goal
  OBVIOUS
<1>1. ASSUME NEW u \in Threads, NEW r, Goto(u, r), r.at \notin {"fetch_by_id", "handle"} \/ u # t
      PROVE  Goal
  BY <1>1, OneThreadGoes
<1>2. ASSUME NEW u \in Threads, Done(u)
      PROVE  Goal
  BY <1>1, <1>2 DEF Done, Idle
<1>3. ASSUME NEW u \in Threads
      PROVE  requests[u] \in Requests
  BY DEF TypeOK, Types
<1> HIDE DEF Goal
<1>4. ASSUME NEW u \in Threads, Serve(u)
      PROVE  Goal
  <2>1. CASE request_token(u)
    <3>1. PICK r : r = [requests[u] EXCEPT !.at = "provider"]
      OBVIOUS
    <3>2. Goto(u, r) \/ Done(u)
      BY <2>1, <3>1 DEF request_token, Unauthorized
    <3>3. requests[u] \in Requests
      BY <1>3
    <3>4. r.at = "provider"
      BY <3>1, <3>3, NextStepOf
    <3>5. QED
      BY <1>1, <1>2, <3>2, <3>4
  <2>2. CASE RequestToken(u)
    <3>1. PICK r : r = [requests[u] EXCEPT !.at = "fetch_by_oidc_id"]
      OBVIOUS
    <3>2. Goto(u, r) \/ Done(u)
      BY <2>2, <3>1 DEF RequestToken, Unauthorized
    <3>3. requests[u] \in Requests
      BY <1>3
    <3>4. r.at = "fetch_by_oidc_id"
      BY <3>1, <3>3, NextStepOf
    <3>5. QED
      BY <1>1, <1>2, <3>2, <3>4
  <2>3. CASE fetch_by_oidc_id(u)
    <3>1. PICK r : /\ r.at \in {"new_token", "insert_sign_up"}
                   /\ Goto(u, r)
      BY <2>3 DEF fetch_by_oidc_id
    <3>2. QED
      BY <1>1, <3>1
  <2>4. CASE signup_form_submit(u)
    <3>1. Done(u) \/ \E r : r.at = "register" /\ Goto(u, r)
      BY <2>4 DEF signup_form_submit
    <3>2. QED
      BY <1>1, <1>2, <3>1
  <2>5. CASE register(u)
    <3>1. PICK r : r = [requests[u] EXCEPT !.at = "new_token"]
      OBVIOUS
    <3>2. Goto(u, r) \/ Done(u)
      BY <2>5, <3>1 DEF register
    <3>3. requests[u] \in Requests
      BY <1>3
    <3>4. r.at = "new_token"
      BY <3>1, <3>3, NextStepOf
    <3>5. QED
      BY <1>1, <1>2, <3>2, <3>4
  <2>6. CASE new_token(u)
    <3>1. Done(u) \/ \E r : r.at = "reply" /\ Goto(u, r)
      BY <2>6 DEF new_token
    <3>2. QED
      BY <1>1, <1>2, <3>1
  <2>7. CASE verify_token(u) \/ fetch_by_id(u)
    <3>1. PICK r : Goto(u, r)
      BY <2>7 DEF verify_token, fetch_by_id, Done
    <3>2. u # t
      BY <2>7
    <3>3. QED
      BY <1>1, <3>1, <3>2
  <2>8. CASE reply_logout(u)
    <3>1. PICK r : r = [requests[u] EXCEPT !.at = "delete_token"]
      OBVIOUS
    <3>2. Goto(u, r)
      BY <2>8, <3>1 DEF reply_logout
    <3>3. requests[u] \in Requests
      BY <1>3
    <3>4. r.at = "delete_token"
      BY <3>1, <3>3, NextStepOf
    <3>5. QED
      BY <1>1, <3>2, <3>4
  <2>9. CASE insert_sign_up(u) \/ reply_insert_session(u) \/ handle(u) \/ delete_token(u)
    BY <1>2, <2>9 DEF insert_sign_up, reply_insert_session, handle, delete_token
  <2>10. QED
    BY <1>4, <2>1, <2>2, <2>3, <2>4, <2>5, <2>6, <2>7, <2>8, <2>9 DEF Serve
<1>5. ASSUME NEW u \in Threads, hang_up(u)
      PROVE  Goal
  <2>1. PICK r : r = [requests[u] EXCEPT !.connected = FALSE]
    OBVIOUS
  <2>2. Done(u) \/ (Goto(u, r) /\ requests[u].at \in {"register", "new_token"})
    BY <1>5, <2>1 DEF hang_up
  <2>3. QED
    BY <1>1, <1>2, <1>3, <2>1, <2>2, NextStepOf
<1>6. ASSUME NEW u \in Threads, NEW b \in Browsers, Arrive(u, b)
      PROVE  Goal
  <2>1. CASE \E c \in DOMAIN codes : callback(u, b, c)
    <3>1. \E r : r.at = "request_token" /\ Goto(u, r)
      BY <2>1 DEF callback
    <3>2. QED
      BY <1>1, <3>1
  <2>2. CASE submit_sign_up(u, b)
    <3>1. \E r : r.at = "signup_form_submit" /\ Goto(u, r)
      BY <2>2 DEF submit_sign_up
    <3>2. QED
      BY <1>1, <3>1
  <2>3. CASE \E route \in Routes : visit(u, b, route)
    <3>1. \E r : r.at = "verify_token" /\ Goto(u, r)
      BY <2>3 DEF visit
    <3>2. QED
      BY <1>1, <3>1
  <2>4. QED
    BY <1>6, <2>1, <2>2, <2>3 DEF Arrive
<1>7. CASE UNCHANGED requests
  BY <1>7 DEF Goal
<1>8. CASE Restart
  BY <1>8 DEF Restart, Idle, Goal
<1>9. CASE \/ \E b \in Browsers : reply_authorize(b)
           \/ \E p \in People, session \in DOMAIN signIns : Approve(p, session)
           \/ sweep_in_progress_sign_ins \/ Command \/ NextDay
  <2>1. UNCHANGED requests
    BY <1>9 DEF reply_authorize, Approve, sweep_in_progress_sign_ins, Command, set_role, lock,
                logout_all, sweep_tokens, NextDay
  <2>2. QED
    BY <1>7, <2>1
<1>10. CASE \E u \in Threads : Serve(u) \/ hang_up(u) \/ \E b \in Browsers : Arrive(u, b)
  BY <1>4, <1>5, <1>6, <1>10
<1>11. \/ Restart
       \/ \E b \in Browsers : reply_authorize(b)
       \/ \E p \in People, session \in DOMAIN signIns : Approve(p, session)
       \/ sweep_in_progress_sign_ins \/ Command \/ NextDay
       \/ \E u \in Threads : Serve(u) \/ hang_up(u) \/ \E b \in Browsers : Arrive(u, b)
  BY DEF Step
<1>12. QED
  BY <1>8, <1>9, <1>10, <1>11

\* Nobody's token changes hands.
LEMMA TokensKeepUsers ==
    ASSUME TypeOK, Step
    PROVE  \A i \in DOMAIN issued : i \in DOMAIN issued' /\ issued'[i].user = issued[i].user
<1> DEFINE Goal == \A i \in DOMAIN issued :
                      i \in DOMAIN issued' /\ issued'[i].user = issued[i].user
<1>1. issued \in Seq([user: People, used: Nat])
      /\ \A i \in DOMAIN issued : issued[i] \in [user: People, used: Nat]
  BY PartsOfTypeOK, TokensAreIssued
<1>2. CASE UNCHANGED issued
  BY <1>2
<1>3. ASSUME NEW t \in Threads, new_token(t)
      PROVE  Goal
  BY <1>1, <1>3 DEF new_token
<1>4. ASSUME NEW t \in Threads, verify_token(t), ~UNCHANGED issued
      PROVE  Goal
  <2>1. PICK row \in login_tokens : issued' = [issued EXCEPT ![row.token].used = today]
    BY <1>4 DEF verify_token
  <2>2. row.token \in DOMAIN issued
    BY PartsOfTypeOK DEF DatabaseOK
  <2>3. PICK entry : entry = [issued[row.token] EXCEPT !.used = today]
    OBVIOUS
  <2>4. entry.user = issued[row.token].user
    BY <1>1, <2>2, <2>3
  <2>5. issued' = [issued EXCEPT ![row.token] = entry]
    BY <2>1, <2>3
  <2>6. QED
    BY <1>1, <2>2, <2>4, <2>5
<1>5. UNCHANGED issued \/ \E t \in Threads : new_token(t) \/ verify_token(t)
  BY DEF Step, Serve, Arrive, Command, reply_authorize, Approve, request_token, RequestToken,
         fetch_by_oidc_id, insert_sign_up, signup_form_submit, register,
         reply_insert_session, fetch_by_id, handle, reply_logout, delete_token, hang_up,
         callback, submit_sign_up, WithSession, visit, sweep_in_progress_sign_ins,
         sweep_tokens, set_role, lock, logout_all, NextDay, Restart, database
<1>6. QED
  BY <1>2, <1>3, <1>4, <1>5

\* Rows come only with the string that was drawn for them.
LEMMA StepKeepsRows ==
    ASSUME TypeOK, RowsKeepUsers, Step
    PROVE  RowsKeepUsers'
<1>1. login_tokens' \subseteq login_tokens \/ \E t \in Threads : new_token(t)
  BY DEF Step, Serve, Arrive, Command, reply_authorize, Approve, request_token, RequestToken,
         fetch_by_oidc_id, insert_sign_up, signup_form_submit, register, verify_token,
         reply_insert_session, fetch_by_id, handle, reply_logout, delete_token, hang_up,
         callback, submit_sign_up, WithSession, visit, sweep_in_progress_sign_ins,
         sweep_tokens, set_role, lock, logout_all, NextDay, Restart, database,
         DeleteToken, Unexpired, TouchLastUsed
<1>2. ASSUME NEW row \in login_tokens
      PROVE  row.user = issued'[row.token].user
  <2>1. row.token \in DOMAIN issued
    BY PartsOfTypeOK DEF DatabaseOK
  <2>2. QED
    BY <2>1, TokensKeepUsers DEF RowsKeepUsers
<1>3. ASSUME NEW t \in Threads, new_token(t), NEW row \in login_tokens'
      PROVE  row.user = issued'[row.token].user
  <2>1. CASE row \in login_tokens
    BY <1>2, <2>1
  <2>2. CASE row = NewToken(login_tokens, Len(issued) + 1, requests[t].user, today)
    <3>1. row.token = Len(issued) + 1 /\ row.user = requests[t].user
      BY <2>2 DEF NewToken
    <3>2. issued \in Seq([user: People, used: Nat])
      BY PartsOfTypeOK, TokensAreIssued
    <3>3. issued'[Len(issued) + 1] = [user |-> requests[t].user, used |-> today]
      BY <1>3, <3>2 DEF new_token
    <3>4. QED
      BY <3>1, <3>3
  <2>3. QED
    BY <1>3, <2>1, <2>2 DEF new_token
<1>4. QED
  BY <1>1, <1>2, <1>3 DEF RowsKeepUsers

\* The user a token was issued to stays who it was.
LEMMA UserOfStays ==
    ASSUME TypeOK, Step, NEW t \in Threads, Authenticated(requests[t])
    PROVE  issued'[requests[t].cookie.token].user = UserOf(requests[t].cookie)
<1>1. requests[t].cookie.token \in DOMAIN issued
  BY PartsOfTypeOK DEF RequestsOK, RequestOK
<1>2. QED
  BY <1>1, TokensKeepUsers DEF UserOf

\* verify_token and fetch_by_id hand the request's cookie and route on.
LEMMA VerifiedStep ==
    ASSUME TypeOK, NEW t \in Threads, verify_token(t), requests'[t] # Idle
    PROVE  \E row \in login_tokens :
              /\ Verifies(row, requests[t].cookie)
              /\ requests'[t] = [at |-> "fetch_by_id", browser |-> requests[t].browser,
                                 route |-> requests[t].route,
                                 cookie |-> requests[t].cookie, user |-> row.user]
              /\ UNCHANGED <<users, login_tokens>>
<1>1. ~Done(t)
  BY DEF Done, Goto, TypeOK, Types
<1>2. QED
  BY <1>1 DEF verify_token, Goto, TypeOK, Types, TouchLastUsed

LEMMA FetchedStep ==
    ASSUME TypeOK, NEW t \in Threads, fetch_by_id(t), requests'[t] # Idle
    PROVE  /\ May(users[requests[t].user], requests[t].route)
           /\ requests'[t].at = "handle" /\ requests'[t].user = requests[t].user
           /\ requests'[t].cookie = requests[t].cookie /\ requests'[t].route = requests[t].route
           /\ UNCHANGED <<users, login_tokens, issued>>
<1>1. ~Done(t)
  BY DEF Done, Goto, TypeOK, Types
<1>2. requests[t] \in VerifiedRequest
  BY PartsOfTypeOK, CurrentRequest, RequestKinds DEF fetch_by_id, At
<1>3. requests'[t] = [requests[t] EXCEPT !.at = "handle"]
  BY <1>1 DEF fetch_by_id, Goto, TypeOK, Types
<1>4. QED
  BY <1>1, <1>2, <1>3 DEF fetch_by_id, VerifiedRequest, FetchedById, database

\* A request is served as the user of its token.
LEMMA StepKeepsUsers ==
    ASSUME TypeOK, RowsKeepUsers, NobodyActsAsAnother, Step
    PROVE  NobodyActsAsAnother'
<1> SUFFICES ASSUME NEW t \in Threads, requests'[t].at \in {"fetch_by_id", "handle"}
             PROVE  requests'[t].user = issued'[requests'[t].cookie.token].user
  BY DEF NobodyActsAsAnother, UserOf
<1>1. requests'[t] # Idle
  BY DEF Idle
<1>2. CASE verify_token(t)
  <2>1. PICK row \in login_tokens :
            /\ Verifies(row, requests[t].cookie)
            /\ requests'[t] = [at |-> "fetch_by_id", browser |-> requests[t].browser,
                              route |-> requests[t].route,
                              cookie |-> requests[t].cookie, user |-> row.user]
            /\ UNCHANGED <<users, login_tokens>>
    BY <1>1, <1>2, VerifiedStep
  <2>2. requests'[t].cookie = requests[t].cookie /\ requests'[t].user = row.user
    BY <2>1
  <2>3. row.user = issued[requests[t].cookie.token].user
    BY <2>1 DEF RowsKeepUsers, Verifies
  <2>4. issued'[requests[t].cookie.token].user = issued[requests[t].cookie.token].user
    BY <1>2, UserOfStays DEF verify_token, At, Authenticated, UserOf
  <2>5. QED
    BY <2>2, <2>3, <2>4
<1>3. CASE fetch_by_id(t)
  <2>1. requests'[t].user = requests[t].user /\ requests'[t].cookie = requests[t].cookie
        /\ UNCHANGED issued
    BY <1>1, <1>3, FetchedStep
  <2>2. requests[t].user = UserOf(requests[t].cookie)
    BY <1>3 DEF NobodyActsAsAnother, fetch_by_id, At
  <2>3. QED
    BY <2>1, <2>2 DEF UserOf
<1>4. CASE ~verify_token(t) /\ ~fetch_by_id(t)
  <2>1. requests'[t] = requests[t]
    BY <1>4, OtherStepsOfRequests
  <2>2. requests[t].user = UserOf(requests[t].cookie)
    BY <2>1 DEF NobodyActsAsAnother
  <2>3. Authenticated(requests[t])
    BY <2>1 DEF Authenticated
  <2>4. QED
    BY <2>1, <2>2, <2>3, UserOfStays
<1>5. QED
  BY <1>2, <1>3, <1>4

\* What a request was entitled to it stays entitled to, and what it is entitled
\* to now comes to it.
LEMMA StandingGrows ==
    ASSUME Observe, NEW t \in Threads, Authenticated(requests'[t])
    PROVE  /\ standing[t] \subseteq standing'[t]
           /\ Entitled(users', login_tokens', requests'[t].cookie) \subseteq standing'[t]
BY DEF Observe

\* A page was asked for with a token that held and permissions that sufficed.
LEMMA StepKeepsStanding ==
    ASSUME TypeOK, NobodyActsAsAnother, Stood, Observe, Step
    PROVE  Stood'
<1> SUFFICES ASSUME NEW t \in Threads, requests'[t].at \in {"fetch_by_id", "handle"}
             PROVE  /\ TokenHolds \in standing'[t]
                    /\ requests'[t].at = "handle" => Required(requests'[t].route) \in standing'[t]
  BY DEF Stood, At
<1>1. requests'[t] # Idle /\ Authenticated(requests'[t])
  BY DEF Idle, Authenticated
<1>2. CASE verify_token(t)
  <2>1. PICK row \in login_tokens :
            /\ Verifies(row, requests[t].cookie)
            /\ requests'[t] = [at |-> "fetch_by_id", browser |-> requests[t].browser,
                              route |-> requests[t].route,
                              cookie |-> requests[t].cookie, user |-> row.user]
            /\ UNCHANGED <<users, login_tokens>>
    BY <1>1, <1>2, VerifiedStep
  <2>2. requests'[t].at = "fetch_by_id" /\ requests'[t].cookie = requests[t].cookie
    BY <2>1
  <2>3. TokenHolds \in Entitled(users', login_tokens', requests'[t].cookie)
    BY <2>1, <2>2 DEF Entitled
  <2>4. QED
    BY <1>1, <2>2, <2>3, StandingGrows
<1>3. CASE fetch_by_id(t)
  <2>1. /\ May(users[requests[t].user], requests[t].route)
        /\ requests'[t].cookie = requests[t].cookie /\ requests'[t].route = requests[t].route
        /\ users' = users
    BY <1>1, <1>3, FetchedStep
  <2>2. requests[t].user = UserOf(requests[t].cookie) /\ TokenHolds \in standing[t]
    BY <1>3 DEF NobodyActsAsAnother, Stood, fetch_by_id, At
  <2>3. Required(requests[t].route) \in Permissions
    <3>1. requests[t] \in VerifiedRequest
      BY <1>3, PartsOfTypeOK, CurrentRequest, RequestKinds DEF fetch_by_id, At
    <3>2. requests[t].route \in AllRoutes
      BY <3>1, BoundsAssumption DEF VerifiedRequest
    <3>3. QED
      BY <3>2 DEF AllRoutes, Required, Permissions, User
  <2>4. Required(requests'[t].route) \in Entitled(users', login_tokens', requests'[t].cookie)
    BY <2>1, <2>2, <2>3 DEF Entitled, May
  <2>5. QED
    BY <1>1, <2>2, <2>4, StandingGrows
<1>4. CASE ~verify_token(t) /\ ~fetch_by_id(t)
  <2>1. requests'[t] = requests[t]
    BY <1>4, OtherStepsOfRequests
  <2>2. /\ TokenHolds \in standing[t]
        /\ requests'[t].at = "handle" => Required(requests'[t].route) \in standing[t]
    BY <2>1 DEF Stood, At
  <2>3. QED
    BY <1>1, <2>2, StandingGrows
<1>5. QED
  BY <1>2, <1>3, <1>4

-----------------------------------------------------------------------------
(* The theorems *)

Inv == TypeOK /\ RowsKeepUsers /\ NobodyActsAsAnother /\ Stood

\* Inv is inductive.
THEOREM Invariance == Spec => []Inv
<1>1. Init => Inv
  <2>1. Init => RowsKeepUsers /\ NobodyActsAsAnother /\ Stood
    BY DEF Init, RowsKeepUsers, NobodyActsAsAnother, Stood, At, Idle
  <2>2. QED
    BY <2>1, InitialType DEF Inv
<1>2. Inv /\ [Next]_vars => Inv'
  <2> SUFFICES ASSUME Inv, [Next]_vars PROVE Inv'
    OBVIOUS
  <2>1. TypeOK'
    BY StepType DEF Inv
  <2>2. CASE Next
    BY <2>1, <2>2, StepKeepsRows, StepKeepsUsers, StepKeepsStanding DEF Inv, Next
  <2>3. CASE UNCHANGED vars
    BY <2>1, <2>3 DEF Inv, RowsKeepUsers, NobodyActsAsAnother, Stood, UserOf, At, vars, database
  <2>4. QED
    BY <2>2, <2>3
<1>3. QED
  BY <1>1, <1>2, PTL DEF Spec

\* In every behaviour of the server no variable loses its type, and nothing
\* refers to a sign-in, a code, a token or an account that there is not.
THEOREM TypeCorrect == Spec => []TypeOK
<1>1. Inv => TypeOK
  BY DEF Inv
<1>2. QED
  BY <1>1, Invariance, PTL

\* However many users sign in and out, and however often SQLite gives out an id
\* again, a request is served as the user its token was issued to.
THEOREM NobodyEverActsAsAnother == Spec => []NobodyActsAsAnother
<1>1. Inv => NobodyActsAsAnother
  BY DEF Inv
<1>2. QED
  BY <1>1, Invariance, PTL

\* Whatever the administrator, the sweeps and other requests do meanwhile, a
\* page is made only for a request that was entitled to it since it came.
THEOREM OnlyServedWhileAllowed == Spec => []ServedWhileAllowed
<1>1. Inv => ServedWhileAllowed
  BY DEF Inv, ServedWhileAllowed, Stood, At
<1>2. QED
  BY <1>1, Invariance, PTL

-----------------------------------------------------------------------------
(* A sign-in that was approved is what a token costs *)

\* Steps of a request that has a token, and no other request, coming.
Paying(r) == r.at \in {"fetch_by_oidc_id", "new_token"}
Signer(r) == IF r.at = "new_token" THEN r.user ELSE codes[r.code].person

\* Someone new who may send a form, in whatever tab.
SigningUp(p) ==
    /\ p \in People \ Registered(users)
    /\ \/ \E s \in DOMAIN in_progress :
             in_progress[s].step = "sign_up" /\ in_progress[s].userinfo = p
       \/ \E t \in Threads : requests[t].at \in {"insert_sign_up", "register"}
                             /\ requests[t].user = p

\* What one approved sign-in of the person in it pays for.  All forms that
\* somebody may still send cost one together: the first that comes takes it.
TokenCharges == {<<"token", i, issued[i].user>> : i \in DOMAIN issued}
ThreadCharges ==
    {<<"thread", t, Signer(requests[t])>> : t \in {u \in Threads : Paying(requests[u])}}
SignUpCharges == {<<"sign_up", p, p>> : p \in {q \in People : SigningUp(q)}}
Charges == TokenCharges \cup ThreadCharges \cup SignUpCharges

\* Every charge has a redeemed code of the right person, and each its own.
Pays(f, charges, cs) ==
    /\ \A x \in charges : /\ f[x] \in DOMAIN cs
                          /\ cs[f[x]].redeemed
                          /\ cs[f[x]].person = x[3]
    /\ \A x, y \in charges : f[x] = f[y] => x = y

Paid == \E f : Pays(f, Charges, codes)

\* Codes stay with their person, and redeemed.
CodesStand(cs, later) ==
    \A c \in DOMAIN cs : /\ c \in DOMAIN later
                         /\ later[c].person = cs[c].person
                         /\ cs[c].redeemed => later[c].redeemed

LEMMA PaysForFewer ==
    ASSUME NEW f, NEW A, NEW cs, Pays(f, A, cs), NEW B \in SUBSET A,
           NEW later, CodesStand(cs, later)
    PROVE  Pays(f, B, later)
BY DEF Pays, CodesStand

\* One charge takes the place of another.
LEMMA PaysInPlace ==
    ASSUME NEW f, NEW A, NEW cs, Pays(f, A, cs), NEW old \in A, NEW new,
           new[3] = old[3], NEW B \in SUBSET ((A \ {old}) \cup {new})
    PROVE  \E g : Pays(g, B, cs)
<1>1. PICK g : g = [x \in B |-> IF x = new THEN f[old] ELSE f[x]]
  OBVIOUS
<1>2. Pays(g, B, cs)
  BY <1>1 DEF Pays
<1>3. QED
  BY <1>2

\* A code that is redeemed now pays for a new charge.
LEMMA PaysAfresh ==
    ASSUME NEW f, NEW A, NEW cs, Pays(f, A, cs), NEW later, CodesStand(cs, later),
           NEW c \in DOMAIN cs, ~cs[c].redeemed, later[c].redeemed,
           NEW new, new[3] = cs[c].person, NEW B \in SUBSET (A \cup {new})
    PROVE  \E g : Pays(g, B, later)
<1>1. PICK g : g = [x \in B |-> IF x = new THEN c ELSE f[x]]
  OBVIOUS
<1>2. Pays(g, B, later)
  BY <1>1 DEF Pays, CodesStand
<1>3. QED
  BY <1>2

\* So nobody has more tokens than approved sign-ins.
LEMMA PaidTokens == TypeOK /\ Paid => OneTokenPerApproval
<1> SUFFICES ASSUME TypeOK, Paid, NEW p \in People
             PROVE  Cardinality({i \in DOMAIN issued : issued[i].user = p})
                        <= Cardinality({c \in DOMAIN codes : codes[c].person = p /\ codes[c].redeemed})
  BY DEF OneTokenPerApproval
<1> DEFINE A == {i \in DOMAIN issued : issued[i].user = p}
           B == {c \in DOMAIN codes : codes[c].person = p /\ codes[c].redeemed}
<1>1. PICK f : Pays(f, Charges, codes)
  BY DEF Paid
<1>2. PICK g : g = [i \in A |-> f[<<"token", i, p>>]]
  OBVIOUS
<1>3. \A i \in A : <<"token", i, p>> \in Charges
  BY DEF Charges, TokenCharges
<1>4. g \in [A -> B]
  BY <1>1, <1>2, <1>3 DEF Pays
<1>5. \A i, j \in A : g[i] = g[j] => i = j
  <2> SUFFICES ASSUME NEW i \in A, NEW j \in A, g[i] = g[j] PROVE i = j
    OBVIOUS
  <2>1. f[<<"token", i, p>>] = f[<<"token", j, p>>]
    BY <1>2
  <2>2. <<"token", i, p>> = <<"token", j, p>>
    BY <1>1, <1>3, <2>1 DEF Pays
  <2>3. QED
    BY <2>2
<1>6. g \in Injection(A, B)
  <2> HIDE DEF A, B
  <2>1. QED
    BY <1>4, <1>5 DEF Injection, IsInjective
<1>7. IsFiniteSet(B)
  <2>1. codes \in Seq(Code)
    BY DEF TypeOK, Types
  <2>2. IsFiniteSet(1 .. Len(codes))
    BY <2>1, FS_Interval
  <2>3. B \in SUBSET (1 .. Len(codes))
    BY <2>1
  <2>4. QED
    BY <2>2, <2>3, FS_Subset
<1>8. Cardinality(A) <= Cardinality(B)
  <2> HIDE DEF A, B
  <2>1. QED
    BY <1>6, <1>7, FS_Injection
<1>9. QED
  BY <1>8

\* What is charged when a step leaves the tokens to their users, and one thread
\* goes on.
LEMMA TokenChargesStay ==
    ASSUME UNCHANGED issued
    PROVE  TokenCharges' = TokenCharges
BY DEF TokenCharges

LEMMA ThreadChargesAfter ==
    ASSUME TypeOK, NEW t \in Threads, NEW r, Goto(t, r), CodesStand(codes, codes')
    PROVE  ThreadCharges' \subseteq
              (ThreadCharges \ {<<"thread", t, Signer(requests[t])>>})
              \cup (IF Paying(r) THEN {<<"thread", t, Signer(r)'>>} ELSE {})
<1> SUFFICES ASSUME NEW u \in Threads, Paying(requests'[u])
             PROVE  <<"thread", u, Signer(requests[u])'>> \in
                       (ThreadCharges \ {<<"thread", t, Signer(requests[t])>>})
                       \cup (IF Paying(r) THEN {<<"thread", t, Signer(r)'>>} ELSE {})
  BY DEF ThreadCharges
<1>1. CASE u = t
  <2>1. requests'[u] = r
    BY <1>1, OneThreadGoes
  <2>2. Signer(requests[u])' = Signer(r)'
    BY <2>1 DEF Signer
  <2>3. QED
    BY <1>1, <2>1, <2>2
<1>2. CASE u # t
  <2>1. requests'[u] = requests[u]
    BY <1>2, OneThreadGoes
  <2>2. CalledBack(requests[u]) => requests[u].code \in DOMAIN codes
    BY DEF TypeOK, NothingDangles
  <2>3. requests[u].at \in {"fetch_by_oidc_id", "new_token"}
    BY <2>1 DEF Paying
  <2>4. Signer(requests[u])' = Signer(requests[u])
    BY <2>1, <2>2, <2>3 DEF Signer, CalledBack, CodesStand
  <2>5. <<"thread", u, Signer(requests[u])>> \in ThreadCharges
    BY <2>1 DEF ThreadCharges, Paying
  <2>6. <<"thread", u, Signer(requests[u])>> # <<"thread", t, Signer(requests[t])>>
    BY <1>2
  <2>7. QED
    BY <2>4, <2>5, <2>6
<1>3. QED
  BY <1>1, <1>2

\* Nobody begins to sign up but by these two steps.
LEMMA SignUpChargesAfter ==
    ASSUME TypeOK, Registered(users) \subseteq Registered(users'),
           NEW t \in Threads, NEW r, Goto(t, r),
           \A s \in DOMAIN in_progress' :
              in_progress'[s].step = "sign_up" =>
                 SigningUp(in_progress'[s].userinfo) \/ in_progress'[s].userinfo \in Registered(users'),
           r.at \in {"insert_sign_up", "register"} => SigningUp(r.user) \/ r.user \in Registered(users')
    PROVE  SignUpCharges' \subseteq SignUpCharges
<1> SUFFICES ASSUME NEW p \in People, SigningUp(p)' PROVE SigningUp(p)
  BY DEF SignUpCharges
<1>1. p \in People \ Registered(users') /\ p \notin Registered(users)
  BY DEF SigningUp
<1>2. CASE \E s \in DOMAIN in_progress' :
             in_progress'[s].step = "sign_up" /\ in_progress'[s].userinfo = p
  BY <1>1, <1>2
<1>3. ASSUME NEW u \in Threads, requests'[u].at \in {"insert_sign_up", "register"},
             requests'[u].user = p
      PROVE  SigningUp(p)
  <2>1. CASE u = t
    BY <1>1, <1>3, <2>1, OneThreadGoes
  <2>2. CASE u # t
    <3>1. requests'[u] = requests[u]
      BY <2>2, OneThreadGoes
    <3>2. QED
      BY <1>1, <1>3, <3>1 DEF SigningUp
  <2>3. QED
    BY <2>1, <2>2
<1>4. QED
  BY <1>2, <1>3 DEF SigningUp

\* Entries of IN_PROGRESS_SIGN_INS that stay, or go.
LEMMA SignUpsStay ==
    ASSUME TypeOK, DOMAIN in_progress' \subseteq DOMAIN in_progress,
           \A s \in DOMAIN in_progress' :
              /\ in_progress'[s].step = in_progress[s].step
              /\ in_progress[s].step = "sign_up" => in_progress'[s].userinfo = in_progress[s].userinfo
    PROVE  \A s \in DOMAIN in_progress' :
              in_progress'[s].step = "sign_up" =>
                 SigningUp(in_progress'[s].userinfo)
                 \/ in_progress'[s].userinfo \in Registered(users)
<1> SUFFICES ASSUME NEW s \in DOMAIN in_progress', in_progress'[s].step = "sign_up"
             PROVE  SigningUp(in_progress'[s].userinfo)
                    \/ in_progress'[s].userinfo \in Registered(users)
  OBVIOUS
<1>1. s \in DOMAIN in_progress /\ in_progress[s] \in SignInState /\ in_progress[s].step = "sign_up"
  BY DEF TypeOK, Types
<1>2. in_progress[s].userinfo \in People
  BY <1>1 DEF SignInState
<1>3. QED
  BY <1>1, <1>2 DEF SigningUp

\* Steps that bring no charge.
LEMMA FewerCharges ==
    ASSUME Paid, Charges' \subseteq Charges, CodesStand(codes, codes')
    PROVE  Paid'
<1>1. PICK f : Pays(f, Charges, codes)
  BY DEF Paid
<1>2. Pays(f, Charges', codes')
  BY <1>1, PaysForFewer
<1>3. QED
  BY <1>2 DEF Paid

LEMMA CodesStayPaid == UNCHANGED codes => CodesStand(codes, codes')
BY DEF CodesStand

\* While every request waits.
LEMMA WaitingStep ==
    ASSUME TypeOK, Paid, UNCHANGED <<requests, issued>>,
           Registered(users') = Registered(users), CodesStand(codes, codes'),
           \A s \in DOMAIN in_progress' :
              in_progress'[s].step = "sign_up" =>
                 SigningUp(in_progress'[s].userinfo)
                 \/ in_progress'[s].userinfo \in Registered(users)
    PROVE  Paid'
<1>1. TokenCharges' = TokenCharges
  BY TokenChargesStay
<1>2. ThreadCharges' \subseteq ThreadCharges
  <2> SUFFICES ASSUME NEW u \in Threads, Paying(requests[u])
               PROVE  Signer(requests[u])' = Signer(requests[u])
    BY DEF ThreadCharges
  <2>1. requests[u].at \in {"fetch_by_oidc_id", "new_token"}
    BY DEF Paying
  <2>2. CalledBack(requests[u]) => requests[u].code \in DOMAIN codes
    BY DEF TypeOK, NothingDangles
  <2>3. QED
    BY <2>1, <2>2 DEF Signer, CalledBack, CodesStand
<1>3. SignUpCharges' \subseteq SignUpCharges
  <2> SUFFICES ASSUME NEW p \in People, SigningUp(p)' PROVE SigningUp(p)
    BY DEF SignUpCharges
  <2>1. QED
    BY DEF SigningUp
<1>4. Charges' \subseteq Charges
  BY <1>1, <1>2, <1>3 DEF Charges
<1>5. QED
  BY <1>4, FewerCharges

\* While one request goes on, to a step that nobody pays for, or that is paid.
LEMMA OrdinaryStep ==
    ASSUME TypeOK, Paid, TokenCharges' \subseteq TokenCharges,
           Registered(users) \subseteq Registered(users'),
           CodesStand(codes, codes'), NEW t \in Threads, NEW r, Goto(t, r),
           \A s \in DOMAIN in_progress' :
              in_progress'[s].step = "sign_up" =>
                 SigningUp(in_progress'[s].userinfo)
                 \/ in_progress'[s].userinfo \in Registered(users'),
           r.at \in {"insert_sign_up", "register"} => SigningUp(r.user) \/ r.user \in Registered(users'),
           Paying(r) => <<"thread", t, Signer(r)'>> \in ThreadCharges
    PROVE  Paid'
<1>1. ThreadCharges' \subseteq ThreadCharges
  BY ThreadChargesAfter
<1>2. SignUpCharges' \subseteq SignUpCharges
  BY SignUpChargesAfter
<1>3. Charges' \subseteq Charges
  BY <1>1, <1>2 DEF Charges
<1>4. QED
  BY <1>3, FewerCharges

\* Most steps of a request leave the database, the codes and the sign-ins.
LEMMA QuietStep ==
    ASSUME TypeOK, Paid, UNCHANGED <<issued, users, codes>>,
           DOMAIN in_progress' \subseteq DOMAIN in_progress,
           \A s \in DOMAIN in_progress' : in_progress'[s] = in_progress[s],
           NEW t \in Threads, NEW r, Goto(t, r),
           r.at \notin {"insert_sign_up", "register", "fetch_by_oidc_id", "new_token"}
    PROVE  Paid'
<1>1. TokenCharges' \subseteq TokenCharges
  BY TokenChargesStay
<1>2. CodesStand(codes, codes')
  BY CodesStayPaid
<1>3. \A s \in DOMAIN in_progress' :
         in_progress'[s].step = "sign_up" =>
            SigningUp(in_progress'[s].userinfo)
            \/ in_progress'[s].userinfo \in Registered(users')
  BY SignUpsStay
<1>4. ~Paying(r)
  BY DEF Paying
<1>5. QED
  BY <1>1, <1>2, <1>3, <1>4, OrdinaryStep

LEMMA RemovedOnly ==
    ASSUME InProgressOK, NEW s, Remove(s)
    PROVE  /\ DOMAIN in_progress' \subseteq DOMAIN in_progress
           /\ \A x \in DOMAIN in_progress' : in_progress'[x] = in_progress[x]
BY DEF InProgressOK, Remove

\* The request a thread serves.
LEMMA ServedRequest ==
    ASSUME TypeOK, NEW t \in Threads
    PROVE  /\ requests[t] \in Requests
           /\ CalledBack(requests[t]) => /\ requests[t].code \in DOMAIN codes
                                         /\ codes[requests[t].code].person \in People
           /\ requests[t].at \in {"register", "new_token", "insert_sign_up"} => requests[t].user \in People
           /\ requests[t].at \in {"insert_sign_up", "register"} =>
                 SigningUp(requests[t].user) \/ requests[t].user \in Registered(users)
<1>1. requests[t] \in Requests
  BY DEF TypeOK, Types
<1>2. CalledBack(requests[t]) => requests[t].code \in DOMAIN codes
  BY DEF TypeOK, NothingDangles
<1>3. \A c \in DOMAIN codes : codes[c].person \in People
  BY PartsOfTypeOK, CodeType DEF Code
<1>4. requests[t].at \in {"register", "new_token", "insert_sign_up"} => requests[t].user \in People
  BY <1>1, RequestKinds DEF KnownRequest
<1>5. QED
  BY <1>1, <1>2, <1>3, <1>4 DEF SigningUp

LEMMA MarkedCodes ==
    ASSUME TypeOK, NEW c \in DOMAIN codes, NEW taken \in {codes[c].redeemed, TRUE},
           codes' = [codes EXCEPT ![c].redeemed = taken]
    PROVE  CodesStand(codes, codes') /\ codes'[c].redeemed = taken
<1>1. PICK new : new = [codes[c] EXCEPT !.redeemed = taken]
  OBVIOUS
<1>2. codes \in Seq(Code) /\ codes[c] \in Code
  BY DEF TypeOK, Types
<1>3. new.person = codes[c].person /\ new.redeemed = taken
  BY <1>1, <1>2 DEF Code
<1>4. codes' = [codes EXCEPT ![c] = new]
  BY <1>1
<1>5. DOMAIN codes' = DOMAIN codes /\ codes'[c] = new
      /\ \A d \in DOMAIN codes : d # c => codes'[d] = codes[d]
  BY <1>2, <1>4
<1>6. QED
  BY <1>3, <1>5 DEF CodesStand

\* The provider takes the code, and the sign-in is paid for.
LEMMA PaidRequestToken ==
    ASSUME TypeOK, Paid, NEW t \in Threads, RequestToken(t)
    PROVE  Paid'
<1>1. PICK c : c = requests[t].code
  OBVIOUS
<1>2. requests[t].at = "provider" /\ c \in DOMAIN codes /\ codes[c].person \in People
  BY <1>1, ServedRequest DEF RequestToken, At, CalledBack
<1>3. UNCHANGED <<issued, users>> /\ TokenCharges' \subseteq TokenCharges
  BY TokenChargesStay DEF RequestToken, database
<1>4. CASE ~codes[c].redeemed /\ codes' = [codes EXCEPT ![c].redeemed = TRUE]
           /\ Goto(t, [requests[t] EXCEPT !.at = "fetch_by_oidc_id"]) /\ UNCHANGED in_progress
  <2>1. PICK r : r = [requests[t] EXCEPT !.at = "fetch_by_oidc_id"]
    OBVIOUS
  <2>2. CodesStand(codes, codes') /\ codes'[c].redeemed
    BY <1>2, <1>4, MarkedCodes
  <2>3. r.at = "fetch_by_oidc_id" /\ r.code = c
    BY <1>1, <1>2, <2>1, ServedRequest, RequestKinds DEF CalledBack, CallbackRequest
  <2>4. Signer(r)' = codes[c].person
    BY <1>2, <2>2, <2>3 DEF Signer, CodesStand
  <2>5. ThreadCharges' \subseteq ThreadCharges \cup {<<"thread", t, codes[c].person>>}
    BY <1>4, <2>1, <2>2, <2>4, ThreadChargesAfter
  <2>6. SignUpCharges' \subseteq SignUpCharges
    BY <1>3, <1>4, <2>1, <2>3, SignUpsStay, SignUpChargesAfter
  <2>7. PICK new : new = <<"thread", t, codes[c].person>>
    OBVIOUS
  <2>8. Charges' \subseteq Charges \cup {new}
    BY <1>3, <2>5, <2>6, <2>7 DEF Charges
  <2>9. PICK f : Pays(f, Charges, codes)
    BY DEF Paid
  <2>10. new[3] = codes[c].person
    BY <2>7
  <2>11. \E g : Pays(g, Charges', codes')
    <3>1. PICK A, B, cs, later : A = Charges /\ B = Charges' /\ cs = codes /\ later = codes'
      OBVIOUS
    <3>2. /\ Pays(f, A, cs) /\ CodesStand(cs, later) /\ c \in DOMAIN cs
          /\ ~cs[c].redeemed /\ later[c].redeemed /\ new[3] = cs[c].person
      BY <1>2, <1>4, <2>2, <2>9, <2>10, <3>1
    <3>3. B \in SUBSET (A \cup {new})
      BY <2>8, <3>1
    <3>4. \E g : Pays(g, B, later)
      BY <3>2, <3>3, PaysAfresh
    <3>5. QED
      BY <3>1, <3>4
  <2>12. QED
    BY <2>11 DEF Paid
<1>5. CASE /\ \E taken \in {codes[c].redeemed, TRUE} :
                codes' = [codes EXCEPT ![c].redeemed = taken]
           /\ Unauthorized(t)
  <2>1. CodesStand(codes, codes')
    BY <1>2, <1>5, MarkedCodes
  <2>2. \A s \in DOMAIN in_progress' :
           in_progress'[s].step = "sign_up" =>
              SigningUp(in_progress'[s].userinfo)
              \/ in_progress'[s].userinfo \in Registered(users')
    BY <1>3, <1>5, PartsOfTypeOK, RemovedOnly, SignUpsStay DEF Unauthorized
  <2>3. Goto(t, Idle) /\ ~Paying(Idle) /\ Idle.at \notin {"insert_sign_up", "register"}
    BY <1>5 DEF Unauthorized, Done, Paying, Idle
  <2>4. QED
    BY <1>3, <2>1, <2>2, <2>3, OrdinaryStep
<1>6. QED
  BY <1>1, <1>4, <1>5 DEF RequestToken

\* The user is found, or may fill in the form: that is paid for already.
LEMMA PaidFetchByOidcId ==
    ASSUME TypeOK, Paid, NEW t \in Threads, fetch_by_oidc_id(t)
    PROVE  Paid'
<1>1. PICK p : p = codes[requests[t].code].person
  OBVIOUS
<1>2. requests[t].at = "fetch_by_oidc_id" /\ p \in People
  BY <1>1, ServedRequest DEF fetch_by_oidc_id, At, CalledBack
<1>3. UNCHANGED <<issued, users, codes, in_progress>>
  BY DEF fetch_by_oidc_id, database, world
<1>4. TokenCharges' = TokenCharges /\ CodesStand(codes, codes')
  BY <1>3, TokenChargesStay, CodesStayPaid
<1>5. PICK old : old = <<"thread", t, p>>
  OBVIOUS
<1>6. old = <<"thread", t, Signer(requests[t])>> /\ old \in ThreadCharges /\ old[3] = p
  BY <1>1, <1>2, <1>5 DEF ThreadCharges, Paying, Signer
<1>7. PICK r : /\ r.at = IF p \in Registered(users) THEN "new_token" ELSE "insert_sign_up"
               /\ r.user = p
               /\ Goto(t, r)
  BY <1>1 DEF fetch_by_oidc_id
<1>8. \A s \in DOMAIN in_progress' :
         in_progress'[s].step = "sign_up" =>
            SigningUp(in_progress'[s].userinfo)
            \/ in_progress'[s].userinfo \in Registered(users')
  BY <1>3, SignUpsStay
<1>9. CASE p \in Registered(users)
  <2>1. r.at = "new_token" /\ Signer(r)' = p
    BY <1>7, <1>9 DEF Signer
  <2>2. QED
    BY <1>3, <1>4, <1>5, <1>6, <1>7, <1>8, <2>1, OrdinaryStep
<1>10. CASE p \notin Registered(users)
  <2>1. PICK new : new = <<"sign_up", p, p>>
    OBVIOUS
  <2>2. r.at = "insert_sign_up"
    BY <1>7, <1>10
  <2>3. ThreadCharges' \subseteq ThreadCharges \ {old}
    BY <1>4, <1>6, <1>7, <2>2, ThreadChargesAfter DEF Paying
  <2>4. SignUpCharges' \subseteq SignUpCharges \cup {new}
    <3> SUFFICES ASSUME NEW q \in People, SigningUp(q)', q # p PROVE SigningUp(q)
      BY <2>1 DEF SignUpCharges
    <3>1. \A u \in Threads : requests'[u] = requests[u] \/ requests'[u].user = p
      BY <1>7, OneThreadGoes
    <3>2. QED
      BY <1>3, <3>1 DEF SigningUp
  <2>5. old \notin TokenCharges /\ old \notin SignUpCharges
    BY <1>5 DEF TokenCharges, SignUpCharges
  <2>6. Charges' \subseteq (Charges \ {old}) \cup {new} /\ old \in Charges
    BY <1>4, <1>6, <2>3, <2>4, <2>5 DEF Charges
  <2>7. PICK f : Pays(f, Charges, codes)
    BY DEF Paid
  <2>8. new[3] = old[3]
    BY <1>5, <2>1
  <2>9. \E g : Pays(g, Charges', codes)
    BY <2>6, <2>7, <2>8, PaysInPlace
  <2>10. QED
    BY <1>3, <2>9 DEF Paid
<1>11. QED
  BY <1>9, <1>10

LEMMA PaidInsertSignUp ==
    ASSUME TypeOK, Paid, NEW t \in Threads, insert_sign_up(t)
    PROVE  Paid'
<1>1. PICK p : p = requests[t].user
  OBVIOUS
<1>2. SigningUp(p) \/ p \in Registered(users)
  BY <1>1, ServedRequest DEF insert_sign_up, At
<1>3. UNCHANGED <<issued, users, codes>> /\ Goto(t, Idle)
  BY DEF insert_sign_up, database, world, Done
<1>4. \A s \in DOMAIN in_progress' :
         \/ in_progress'[s].step = "sign_up" /\ in_progress'[s].userinfo = p
         \/ s \in DOMAIN in_progress /\ in_progress'[s] = in_progress[s]
  BY <1>1 DEF insert_sign_up, Insert, WaitingForSignUp
<1>5. \A s \in DOMAIN in_progress :
         in_progress[s].step = "sign_up" =>
            SigningUp(in_progress[s].userinfo) \/ in_progress[s].userinfo \in Registered(users)
  <2> SUFFICES ASSUME NEW s \in DOMAIN in_progress, in_progress[s].step = "sign_up"
               PROVE  SigningUp(in_progress[s].userinfo) \/ in_progress[s].userinfo \in Registered(users)
    OBVIOUS
  <2>1. in_progress[s].userinfo \in People
    BY DEF TypeOK, Types, SignInState
  <2>2. QED
    BY <2>1 DEF SigningUp
<1>6. \A s \in DOMAIN in_progress' :
         in_progress'[s].step = "sign_up" =>
            SigningUp(in_progress'[s].userinfo) \/ in_progress'[s].userinfo \in Registered(users')
  BY <1>2, <1>3, <1>4, <1>5
<1>7. TokenCharges' \subseteq TokenCharges /\ CodesStand(codes, codes')
  BY <1>3, TokenChargesStay, CodesStayPaid
<1>8. ~Paying(Idle) /\ Idle.at \notin {"insert_sign_up", "register"}
  BY DEF Paying, Idle
<1>9. QED
  BY <1>3, <1>6, <1>7, <1>8, OrdinaryStep

LEMMA PaidSignUpForm ==
    ASSUME TypeOK, Paid, NEW t \in Threads, signup_form_submit(t)
    PROVE  Paid'
<1>1. UNCHANGED <<issued, users, codes, in_progress>>
  BY DEF signup_form_submit, database, world
<1>2. TokenCharges' \subseteq TokenCharges /\ CodesStand(codes, codes')
  BY <1>1, TokenChargesStay, CodesStayPaid
<1>3. \A s \in DOMAIN in_progress' :
         in_progress'[s].step = "sign_up" =>
            SigningUp(in_progress'[s].userinfo) \/ in_progress'[s].userinfo \in Registered(users')
  BY <1>1, SignUpsStay
<1>4. PICK r : /\ Goto(t, r) /\ ~Paying(r)
               /\ r.at \in {"insert_sign_up", "register"} =>
                     SigningUp(r.user) \/ r.user \in Registered(users')
  <2>1. CASE Done(t)
    BY <2>1 DEF Done, Idle, Paying
  <2>2. CASE ~Done(t)
    <3>1. PICK s : s = requests[t].session
      OBVIOUS
    <3>2. /\ s \in DOMAIN in_progress
          /\ in_progress[s].step = "sign_up"
          /\ Goto(t, [at |-> "register", session |-> s, user |-> in_progress[s].userinfo,
                      connected |-> TRUE])
      BY <2>2, <3>1 DEF signup_form_submit
    <3>3. SigningUp(in_progress[s].userinfo) \/ in_progress[s].userinfo \in Registered(users')
      BY <1>1, <1>3, <3>2
    <3>4. PICK r : r = [at |-> "register", session |-> s, user |-> in_progress[s].userinfo,
                        connected |-> TRUE]
      OBVIOUS
    <3>5. Goto(t, r) /\ ~Paying(r) /\ r.user = in_progress[s].userinfo
      BY <3>2, <3>4 DEF Paying
    <3>6. QED
      BY <3>3, <3>5
  <2>3. QED
    BY <2>1, <2>2
<1>5. QED
  BY <1>1, <1>2, <1>3, <1>4, OrdinaryStep

\* The first form that is taken: what all forms of the person cost together.
LEMMA PaidRegister ==
    ASSUME TypeOK, Paid, NEW t \in Threads, register(t)
    PROVE  Paid'
<1>1. PICK p : p = requests[t].user
  OBVIOUS
<1>2. /\ requests[t].at = "register" /\ p \in People
      /\ SigningUp(p) \/ p \in Registered(users)
  BY <1>1, ServedRequest DEF register, At
<1>3. UNCHANGED <<issued, codes, in_progress>>
  BY DEF register, world
<1>4. TokenCharges' = TokenCharges /\ CodesStand(codes, codes')
  BY <1>3, TokenChargesStay, CodesStayPaid
<1>5. Registered(users) \subseteq Registered(users')
  BY DEF register, Register, Registered
<1>6. \A s \in DOMAIN in_progress' :
         in_progress'[s].step = "sign_up" =>
            SigningUp(in_progress'[s].userinfo) \/ in_progress'[s].userinfo \in Registered(users')
  BY <1>3, <1>5, SignUpsStay
<1>7. CASE Done(t)
  <2>1. Goto(t, Idle) /\ ~Paying(Idle) /\ Idle.at \notin {"insert_sign_up", "register"}
    BY <1>7 DEF Done, Idle, Paying
  <2>2. QED
    BY <1>4, <1>5, <1>6, <2>1, OrdinaryStep
<1>8. CASE ~Done(t)
  <2>1. p \notin Registered(users) /\ p \in Registered(users')
    BY <1>1, <1>8 DEF register, Register, Registered, AlreadyRegistered
  <2>2. PICK r : r = [requests[t] EXCEPT !.at = "new_token"]
    OBVIOUS
  <2>3. Goto(t, r)
    BY <1>8, <2>2 DEF register
  <2>4. r.at = "new_token" /\ Signer(r)' = p
    BY <1>1, <1>2, <2>2, ServedRequest, RequestKinds DEF KnownRequest, Signer
  <2>5. PICK old, new : old = <<"sign_up", p, p>> /\ new = <<"thread", t, p>>
    OBVIOUS
  <2>6. ThreadCharges' \subseteq ThreadCharges \cup {new}
    BY <1>4, <2>3, <2>4, <2>5, ThreadChargesAfter
  <2>7. SignUpCharges' \subseteq SignUpCharges \ {old}
    <3>1. SignUpCharges' \subseteq SignUpCharges
      BY <1>5, <1>6, <2>3, <2>4, SignUpChargesAfter
    <3>2. ~SigningUp(p)'
      BY <2>1 DEF SigningUp
    <3>3. QED
      BY <2>5, <3>1, <3>2 DEF SignUpCharges
  <2>8. old \notin TokenCharges /\ old \notin ThreadCharges /\ old \in SignUpCharges
    BY <1>2, <2>1, <2>5 DEF TokenCharges, ThreadCharges, SignUpCharges
  <2>9. Charges' \subseteq (Charges \ {old}) \cup {new} /\ old \in Charges
    BY <1>4, <2>6, <2>7, <2>8 DEF Charges
  <2>10. PICK f : Pays(f, Charges, codes)
    BY DEF Paid
  <2>11. new[3] = old[3]
    BY <2>5
  <2>12. \E g : Pays(g, Charges', codes)
    BY <2>9, <2>10, <2>11, PaysInPlace
  <2>13. QED
    BY <1>3, <2>12 DEF Paid
<1>9. QED
  BY <1>7, <1>8

\* The token takes over from the request that makes it.
LEMMA PaidNewToken ==
    ASSUME TypeOK, Paid, NEW t \in Threads, new_token(t)
    PROVE  Paid'
<1>1. PICK p, n : p = requests[t].user /\ n = Len(issued) + 1
  OBVIOUS
<1>2. requests[t].at = "new_token" /\ p \in People
  BY <1>1, ServedRequest DEF new_token, At
<1>3. UNCHANGED <<users, codes, in_progress>>
  BY DEF new_token, world
<1>4. CodesStand(codes, codes')
  BY <1>3, CodesStayPaid
<1>5. PICK old, new : old = <<"thread", t, p>> /\ new = <<"token", n, p>>
  OBVIOUS
<1>6. TokenCharges' \subseteq TokenCharges \cup {new}
  <2>1. issued \in Seq([user: People, used: Nat])
    BY DEF TypeOK, Types
  <2>2. issued' = Append(issued, [user |-> p, used |-> today])
    BY <1>1 DEF new_token
  <2>3. \A i \in DOMAIN issued' : \/ i \in DOMAIN issued /\ issued'[i] = issued[i]
                                  \/ i = n /\ issued'[i].user = p
    BY <1>1, <2>1, <2>2
  <2>4. QED
    BY <1>5, <2>3 DEF TokenCharges
<1>7. PICK r : Goto(t, r) /\ r.at \in {"reply", "idle"}
  BY DEF new_token, Done, Idle
<1>8. old = <<"thread", t, Signer(requests[t])>> /\ old \in ThreadCharges
  BY <1>1, <1>2, <1>5 DEF ThreadCharges, Paying, Signer
<1>9. ThreadCharges' \subseteq ThreadCharges \ {old}
  BY <1>4, <1>7, <1>8, ThreadChargesAfter DEF Paying
<1>10. SignUpCharges' \subseteq SignUpCharges
  BY <1>3, <1>7, SignUpsStay, SignUpChargesAfter
<1>11. old \notin TokenCharges /\ old \notin SignUpCharges
  BY <1>5 DEF TokenCharges, SignUpCharges
<1>12. Charges' \subseteq (Charges \ {old}) \cup {new} /\ old \in Charges
  BY <1>6, <1>8, <1>9, <1>10, <1>11 DEF Charges
<1>13. PICK f : Pays(f, Charges, codes)
  BY DEF Paid
<1>14. new[3] = old[3]
  BY <1>5
<1>15. \E g : Pays(g, Charges', codes)
  BY <1>12, <1>13, <1>14, PaysInPlace
<1>16. QED
  BY <1>3, <1>15 DEF Paid

\* The other steps of a request.
LEMMA PaidServe ==
    ASSUME TypeOK, Paid, Step, NEW t \in Threads, Serve(t)
    PROVE  Paid'
<1>1. requests[t] \in Requests /\ InProgressOK
  BY ServedRequest, PartsOfTypeOK
<1>2. ASSUME UNCHANGED <<issued, users, codes>>,
             UNCHANGED in_progress \/ \E s : Remove(s),
             NEW r, Goto(t, r),
             r.at \notin {"insert_sign_up", "register", "fetch_by_oidc_id", "new_token"}
      PROVE  Paid'
  <2>1. /\ DOMAIN in_progress' \subseteq DOMAIN in_progress
        /\ \A s \in DOMAIN in_progress' : in_progress'[s] = in_progress[s]
    BY <1>1, <1>2, RemovedOnly
  <2>2. QED
    BY <1>2, <2>1, QuietStep
<1>3. ASSUME UNCHANGED <<issued, users, codes>>,
             UNCHANGED in_progress \/ \E s : Remove(s), Done(t)
      PROVE  Paid'
  BY <1>2, <1>3 DEF Done, Idle
<1>4. CASE request_token(t)
  <2>1. PICK r : r = [requests[t] EXCEPT !.at = "provider"]
    OBVIOUS
  <2>2. r.at = "provider"
    BY <1>1, <2>1, NextStepOf
  <2>3. UNCHANGED <<issued, users, codes>>
    BY <1>4 DEF request_token, database, world
  <2>4. (Goto(t, r) /\ UNCHANGED in_progress) \/ Unauthorized(t)
    BY <1>4, <2>1 DEF request_token
  <2>5. QED
    BY <1>2, <1>3, <2>2, <2>3, <2>4 DEF Unauthorized
<1>5. CASE reply_insert_session(t)
  BY <1>3, <1>5 DEF reply_insert_session, database
<1>6. CASE verify_token(t)
  <2>1. UNCHANGED <<users, codes, in_progress>>
    BY <1>6 DEF verify_token, world
  <2>2. PICK r : Goto(t, r) /\ r.at \in {"fetch_by_id", "idle"}
    <3>1. CASE Done(t)
      <4>1. Goto(t, [at |-> "idle"])
        BY <3>1 DEF Done, Idle
      <4>2. [at |-> "idle"].at = "idle"
        OBVIOUS
      <4>3. QED
        BY <4>1, <4>2
    <3>2. CASE ~Done(t)
      <4>1. PICK row \in login_tokens :
               Goto(t, [at |-> "fetch_by_id", browser |-> requests[t].browser,
                        route |-> requests[t].route, cookie |-> requests[t].cookie,
                        user |-> row.user])
        BY <1>6, <3>2 DEF verify_token
      <4>2. PICK r : r = [at |-> "fetch_by_id", browser |-> requests[t].browser,
                          route |-> requests[t].route, cookie |-> requests[t].cookie,
                          user |-> row.user]
        OBVIOUS
      <4>3. Goto(t, r)
        BY <4>1, <4>2
      <4>4. r.at = "fetch_by_id"
        BY <4>2
      <4>5. QED
        BY <4>3, <4>4
    <3>3. QED
      BY <3>1, <3>2
  <2>3. TokenCharges' \subseteq TokenCharges
    <3>1. DOMAIN issued' = DOMAIN issued
      BY <1>6 DEF verify_token
    <3>2. \A i \in DOMAIN issued : issued'[i].user = issued[i].user
      BY TokensKeepUsers
    <3>3. QED
      BY <3>1, <3>2 DEF TokenCharges
  <2>4. CodesStand(codes, codes')
    BY <2>1, CodesStayPaid
  <2>5. \A s \in DOMAIN in_progress' :
           in_progress'[s].step = "sign_up" =>
              SigningUp(in_progress'[s].userinfo) \/ in_progress'[s].userinfo \in Registered(users')
    BY <2>1, SignUpsStay
  <2>6. ~Paying(r) /\ r.at \notin {"insert_sign_up", "register"}
    BY <2>2 DEF Paying
  <2>7. QED
    BY <2>1, <2>2, <2>3, <2>4, <2>5, <2>6, OrdinaryStep
<1>7. CASE fetch_by_id(t)
  <2>1. PICK r : r = [requests[t] EXCEPT !.at = "handle"]
    OBVIOUS
  <2>2. r.at = "handle"
    BY <1>1, <2>1, NextStepOf
  <2>3. QED
    BY <1>2, <1>3, <1>7, <2>1, <2>2 DEF fetch_by_id, database, world
<1>8. CASE handle(t)
  BY <1>3, <1>8 DEF handle, database, world
<1>9. CASE reply_logout(t)
  <2>1. PICK r : r = [requests[t] EXCEPT !.at = "delete_token"]
    OBVIOUS
  <2>2. r.at = "delete_token"
    BY <1>1, <2>1, NextStepOf
  <2>3. QED
    BY <1>2, <1>9, <2>1, <2>2 DEF reply_logout, database
<1>10. CASE delete_token(t)
  BY <1>3, <1>10 DEF delete_token, world
<1>11. QED
  BY <1>4, <1>5, <1>6, <1>7, <1>8, <1>9, <1>10, PaidRequestToken, PaidFetchByOidcId,
     PaidInsertSignUp, PaidSignUpForm, PaidRegister, PaidNewToken DEF Serve

\* A browser that goes away leaves what was paid for; one that comes pays nothing.
LEMMA PaidHangUp ==
    ASSUME TypeOK, Paid, NEW t \in Threads, hang_up(t)
    PROVE  Paid'
<1>1. UNCHANGED <<issued, users, in_progress>>
  BY DEF hang_up, database
<1>2. TokenCharges' \subseteq TokenCharges
  BY <1>1, TokenChargesStay
<1>3. \A s \in DOMAIN in_progress' :
         in_progress'[s].step = "sign_up" =>
            SigningUp(in_progress'[s].userinfo) \/ in_progress'[s].userinfo \in Registered(users')
  BY <1>1, SignUpsStay
<1>4. CodesStand(codes, codes')
  <2>1. CASE UNCHANGED codes
    BY <2>1, CodesStayPaid
  <2>2. CASE At(t, "provider") /\ \E taken \in {codes[requests[t].code].redeemed, TRUE} :
                codes' = [codes EXCEPT ![requests[t].code].redeemed = taken]
    <3>1. PICK c : c = requests[t].code
      OBVIOUS
    <3>2. c \in DOMAIN codes
      BY <2>2, <3>1, ServedRequest DEF At, CalledBack
    <3>3. QED
      BY <2>2, <3>1, <3>2, MarkedCodes
  <2>3. QED
    BY <2>1, <2>2 DEF hang_up
<1>5. CASE Done(t)
  <2>1. Goto(t, Idle) /\ ~Paying(Idle) /\ Idle.at \notin {"insert_sign_up", "register"}
    BY <1>5 DEF Done, Idle, Paying
  <2>2. QED
    BY <1>1, <1>2, <1>3, <1>4, <2>1, OrdinaryStep
<1>6. CASE ~Done(t)
  <2>1. PICK q : q = requests[t]
    OBVIOUS
  <2>2. PICK r : r = [q EXCEPT !.connected = FALSE]
    OBVIOUS
  <2>3. q.at \in {"register", "new_token"} /\ Goto(t, r)
    BY <1>6, <2>1, <2>2 DEF hang_up
  <2>4. q \in KnownRequest
    BY <2>1, <2>3, ServedRequest, RequestKinds
  <2>5. r.at = q.at /\ r.user = q.user
    BY <2>2, <2>4 DEF KnownRequest
  <2>6. r.at \in {"insert_sign_up", "register"} => SigningUp(r.user) \/ r.user \in Registered(users')
    BY <1>1, <2>1, <2>3, <2>5, ServedRequest
  <2>7. Paying(r) => <<"thread", t, Signer(r)'>> \in ThreadCharges
    <3>1. SUFFICES ASSUME Paying(r) PROVE <<"thread", t, Signer(r)'>> \in ThreadCharges
      OBVIOUS
    <3>2. q.at = "new_token" /\ Signer(r)' = Signer(q) /\ Paying(q)
      BY <2>3, <2>5, <3>1 DEF Paying, Signer
    <3>3. QED
      BY <2>1, <3>2 DEF ThreadCharges
  <2>8. QED
    BY <1>1, <1>2, <1>3, <1>4, <2>3, <2>6, <2>7, OrdinaryStep
<1>7. QED
  BY <1>5, <1>6

LEMMA PaidArrive ==
    ASSUME TypeOK, Paid, NEW t \in Threads, NEW b \in Browsers, Arrive(t, b)
    PROVE  Paid'
<1>1. UNCHANGED <<issued, users, codes, in_progress>>
  BY DEF Arrive, callback, submit_sign_up, WithSession, visit, database, world
<1>2. PICK r : Goto(t, r) /\ r.at \in {"request_token", "signup_form_submit", "verify_token"}
  <2>1. CASE \E c \in DOMAIN codes : callback(t, b, c)
    BY <2>1 DEF callback
  <2>2. CASE submit_sign_up(t, b)
    BY <2>2 DEF submit_sign_up
  <2>3. CASE \E route \in Routes : visit(t, b, route)
    BY <2>3 DEF visit
  <2>4. QED
    BY <2>1, <2>2, <2>3 DEF Arrive
<1>3. QED
  BY <1>1, <1>2, QuietStep

\* What happens besides requests.
LEMMA PaidOtherwise ==
    ASSUME TypeOK, Paid,
           \/ \E b \in Browsers : reply_authorize(b)
           \/ \E p \in People, session \in DOMAIN signIns : Approve(p, session)
           \/ sweep_in_progress_sign_ins \/ Command \/ NextDay \/ Restart
    PROVE  Paid'
<1>1. CASE \E b \in Browsers : reply_authorize(b)
  <2>1. UNCHANGED <<issued, users, codes, requests>>
    BY <1>1 DEF reply_authorize, database
  <2>2. \A s \in DOMAIN in_progress' :
           \/ in_progress'[s].step = "openid_response"
           \/ s \in DOMAIN in_progress /\ in_progress'[s] = in_progress[s]
    BY <1>1 DEF reply_authorize, Insert, WaitingForOpenIdResponse
  <2>3. \A s \in DOMAIN in_progress' :
           in_progress'[s].step = "sign_up" =>
              SigningUp(in_progress'[s].userinfo) \/ in_progress'[s].userinfo \in Registered(users)
    <3>1. ASSUME NEW s \in DOMAIN in_progress, in_progress[s].step = "sign_up"
          PROVE  SigningUp(in_progress[s].userinfo) \/ in_progress[s].userinfo \in Registered(users)
      <4>1. in_progress[s].userinfo \in People
        BY <3>1 DEF TypeOK, Types, SignInState
      <4>2. QED
        BY <3>1, <4>1 DEF SigningUp
    <3>2. QED
      BY <2>2, <3>1
  <2>4. QED
    BY <2>1, <2>3, WaitingStep, CodesStayPaid
<1>2. ASSUME NEW p \in People, NEW session \in DOMAIN signIns, Approve(p, session)
      PROVE  Paid'
  <2>1. UNCHANGED <<issued, users, in_progress, requests>>
    BY <1>2 DEF Approve, database
  <2>2. CodesStand(codes, codes')
    <3>1. codes \in Seq(Code)
      BY DEF TypeOK, Types
    <3>2. PICK new : codes' = Append(codes, new)
      BY <1>2 DEF Approve
    <3>3. \A c \in DOMAIN codes : c \in DOMAIN codes' /\ codes'[c] = codes[c]
      BY <3>1, <3>2
    <3>4. QED
      BY <3>3 DEF CodesStand
  <2>3. QED
    BY <2>1, <2>2, SignUpsStay, WaitingStep
<1>3. CASE sweep_in_progress_sign_ins
  <2>1. UNCHANGED <<issued, users, codes, requests>>
    BY <1>3 DEF sweep_in_progress_sign_ins, database, world
  <2>2. PICK kept \in SUBSET DOMAIN in_progress :
           in_progress' = [s \in kept |-> [in_progress[s] EXCEPT !.fresh = FALSE]]
    BY <1>3 DEF sweep_in_progress_sign_ins, Kept
  <2>3. \A s \in kept : in_progress[s] \in SignInState
    BY DEF TypeOK, Types
  <2>4. \A s \in DOMAIN in_progress' :
           /\ in_progress'[s].step = in_progress[s].step
           /\ in_progress[s].step = "sign_up" => in_progress'[s].userinfo = in_progress[s].userinfo
    BY <2>2, <2>3 DEF SignInState
  <2>5. QED
    BY <2>1, <2>2, <2>4, SignUpsStay, WaitingStep, CodesStayPaid
<1>4. CASE Command \/ NextDay
  <2>1. UNCHANGED <<issued, codes, in_progress, requests>>
    BY <1>4 DEF Command, set_role, lock, logout_all, sweep_tokens, NextDay, database, world
  <2>2. Registered(users') = Registered(users)
    BY <1>4 DEF Command, set_role, lock, logout_all, sweep_tokens, NextDay, database,
                SetRoleByEmail, SetLockedByEmail, Registered
  <2>3. QED
    BY <2>1, <2>2, SignUpsStay, WaitingStep, CodesStayPaid
<1>5. CASE Restart
  <2>1. UNCHANGED <<issued, users, codes>> /\ in_progress' = <<>>
        /\ \A t \in Threads : requests'[t].at = "idle"
    BY <1>5 DEF Restart, database, world, Idle
  <2>2. Charges' \subseteq Charges
    BY <2>1 DEF Charges, TokenCharges, ThreadCharges, SignUpCharges, SigningUp, Paying
  <2>3. QED
    BY <2>1, <2>2, FewerCharges, CodesStayPaid
<1>6. QED
  BY <1>1, <1>2, <1>3, <1>4, <1>5

LEMMA StepIsPaid == ASSUME TypeOK, Paid, Step PROVE Paid'
BY PaidServe, PaidHangUp, PaidArrive, PaidOtherwise DEF Step

\* Whatever is reloaded and sent again, in whatever tab, and whatever stops
\* half-way: nobody has more tokens than they have approved sign-ins.
THEOREM OneTokenForEachApproval == Spec => []OneTokenPerApproval
<1>1. Init => Paid
  <2> SUFFICES ASSUME Init PROVE Paid
    OBVIOUS
  <2>1. Charges = {}
    BY DEF Init, Charges, TokenCharges, ThreadCharges, SignUpCharges, SigningUp, Paying, Idle
  <2>2. QED
    BY <2>1 DEF Paid, Pays
<1>2. TypeOK /\ Paid /\ [Next]_vars => Paid'
  <2> SUFFICES ASSUME TypeOK, Paid, [Next]_vars PROVE Paid'
    OBVIOUS
  <2>1. CASE Next
    BY <2>1, StepIsPaid DEF Next
  <2>2. CASE UNCHANGED vars
    <3>1. UNCHANGED <<requests, issued, users, codes, in_progress>>
      BY <2>2 DEF vars, database, world
    <3>2. QED
      BY <3>1, SignUpsStay, WaitingStep, CodesStayPaid
  <2>3. QED
    BY <2>1, <2>2
<1>3. QED
  BY <1>1, <1>2, TypeCorrect, PaidTokens, PTL DEF Spec
=============================================================================
