------------------------------ MODULE Session ------------------------------
(***************************************************************************)
(* Sign-in, sessions and the change of one's own password                  *)
(* (internal/auth, internal/oidc, internal/api/password.go).               *)
(*                                                                         *)
(* One browser with any number of tabs talks to the server.  What the      *)
(* server knows of a sign-in in progress travels in the signed su_oidc     *)
(* cookie, what it knows of a session in the signed session cookie; only   *)
(* the OAuth tokens are kept in its memory, by session id.  The requests   *)
(* that make remote calls (the callback and the password change) are       *)
(* processes; one action is one remote call, or one critical section of    *)
(* the token store, with the code up to the next.                          *)
(*                                                                         *)
(* The identity provider (Stalwart) does what the code needs of it: a code *)
(* is good for one exchange, an access token until it expires or its grant *)
(* is revoked, a refresh token until it is replaced or its grant is        *)
(* revoked.  Stalwart may revoke the grants of a user at any time, as it   *)
(* may on a password change.                                               *)
(*                                                                         *)
(* Time is a counter, in units no shorter than the 15 s a request may      *)
(* take; signatures are perfect, so a cookie is the record signed into it. *)
(* A sign-in is numbered, and its number stands for the state, the PKCE    *)
(* verifier and the code that belong together.  Session ids are numbers.   *)
(***************************************************************************)
EXTENDS Naturals, Sequences

CONSTANTS
  Calls,     \* requests that may be in progress at the same time
  Users,     \* who may sign in at the provider
  Rotation,  \* whether a refresh may replace the refresh token: a set of BOOLEANs
  TokenTTL,  \* lifetime of a session and of stored tokens (24 h)
  StateTTL,  \* lifetime of the su_oidc cookie (10 min)
  AccessTTL, \* lifetime of an access token, set by the provider
  Margin,    \* refreshMargin (30 s)
  CallTime,  \* callbackTimeout and ownPasswordTimeout (15 s)
  MaxFlows,  \* bound: sign-ins started
  MaxRefresh,\* bound: refresh tokens given out in one grant
  MaxTime    \* bound: the clock

ASSUME SessionAssumption ==
  /\ Rotation \subseteq BOOLEAN /\ Rotation # {}
  /\ {TokenTTL, StateTTL, AccessTTL, Margin, CallTime, MaxFlows,
      MaxRefresh, MaxTime} \subseteq Nat
  \* The code's two constants; a provider whose tokens die within a request is no use.
  /\ CallTime <= Margin /\ CallTime < AccessTTL

\* A sign-in gives at most one session; 0 is no sign-in and no session.
Flow == 1..MaxFlows
Sid  == 1..MaxFlows

\* oidc.Tokens: the grant they are of, and a refresh token, 0 when there is none.
Tokens   == [flow : Flow, expires : Nat, refresh : Nat]
NoTokens == [flow |-> 0, expires |-> 0, refresh |-> 0]
NoEntry  == [tokens |-> NoTokens, stored |-> 0]
NoCookie == [flow |-> 0, expires |-> 0]

Locations == {"idle", "exchange", "userinfo", "account",
              "authorize", "refresh", "put", "change", "answer"}

\* A request in progress: where it is, its sign-in, the session in its context
\* while it is being authorized, the session whose tokens it has looked up, the
\* tokens in its hands, whether it has refreshed them, and its deadline; as
\* history, whether it has changed the password, and whether another password
\* change of its session has been in progress with it.
Call == [at : Locations, flow : Flow \cup {0}, ctx : Sid \cup {0}, sid : Sid \cup {0},
         held : Tokens \cup {NoTokens}, refreshed : BOOLEAN, due : Nat,
         changed : BOOLEAN, overlapped : BOOLEAN]

IdleCall == [at |-> "idle", flow |-> 0, ctx |-> 0, sid |-> 0, held |-> NoTokens,
             refreshed |-> FALSE, due |-> 0, changed |-> FALSE, overlapped |-> FALSE]

VARIABLES
  now,      \* the clock
  started,  \* number of sign-ins started
  codes,    \* provider, per sign-in: "none", "issued", "used"
  who,      \* provider, per sign-in: the users who authenticated in it, at most one
  grants,   \* provider, per sign-in: the refresh token it accepts, 0 when revoked
  cookie,   \* browser: the su_oidc cookie
  jar,      \* browser: the session in the session cookie
  sessions, \* the sessions issued, in order: [user, expires]
  store,    \* TokenStore, per session: [tokens, stored]
  calls,    \* the requests in progress
  ended,    \* history: sessions whose tokens a logout or a restart removed
  busy      \* history: those of them with a password change under way then

provider == <<codes, who, grants>>
vars == <<now, started, provider, cookie, jar, sessions, store, calls, ended, busy>>

history == <<ended, busy>>

-----------------------------------------------------------------------------
(* Cookies, sessions and the token store.                                  *)

\* readStateCookie, and the comparison with the state in the callback's query.
StateMatches(f) == cookie.flow = f /\ now < cookie.expires

\* ReadSession / ParseToken: the cookie has not expired.
Valid(s) == s \in 1..Len(sessions) /\ now < sessions[s].expires

Alive(e) == e # NoEntry /\ now <= e.stored + TokenTTL

\* Mutant: the comparison of ages is the wrong way round.
PutDropsYoung(s, t) ==
  store' = [x \in Sid |-> IF x = s THEN [tokens |-> t, stored |-> now]
                          ELSE IF Alive(store[x]) THEN NoEntry ELSE store[x]]

\* TokenStore.Put, which drops the entries older than a session can live.
Put(s, t) ==
  store' = [x \in Sid |-> IF x = s THEN [tokens |-> t, stored |-> now]
                          ELSE IF Alive(store[x]) THEN store[x] ELSE NoEntry]

\* Mutant: tokens are refreshed only when they have expired.
NeedsRefreshLate(t) == now >= t.expires

NeedsRefresh(t) == now + Margin >= t.expires

\* What the provider accepts.
AcceptsAccess(t)  == grants[t.flow] # 0 /\ now < t.expires
AcceptsRefresh(t) == t.refresh # 0 /\ grants[t.flow] = t.refresh

-----------------------------------------------------------------------------
Init ==
  /\ now = 0
  /\ started = 0
  /\ codes = [f \in Flow |-> "none"]
  /\ who = [f \in Flow |-> {}]
  /\ grants = [f \in Flow |-> 0]
  /\ cookie = NoCookie
  /\ jar = 0
  /\ sessions = <<>>
  /\ store = [s \in Sid |-> NoEntry]
  /\ calls = [c \in Calls |-> IdleCall]
  /\ ended = {}
  /\ busy = {}

\* Mutant: the handler does not return after answering.
AnswerAndGoOn(c) == calls' = [calls EXCEPT ![c].sid = 0]

\* Call c is over.  What it answers shows in the action that ends it.
Answer(c) == calls' = [calls EXCEPT ![c] = IdleCall]

GoTo(c, place) == calls' = [calls EXCEPT ![c].at = place]

At(c, place) == calls[c].at = place

\* The sign-in leaves the server as it found it, except for the cookie: the
\* answer to a callback clears it.
CallbackOver(c) ==
  /\ Answer(c)
  /\ cookie' = NoCookie
  /\ UNCHANGED <<now, started, sessions, history>>

\* GET /auth/login
LoginStart ==
  /\ started < MaxFlows
  /\ started' = started + 1
  /\ cookie' = [flow |-> started + 1, expires |-> now + StateTTL]
  /\ UNCHANGED <<now, provider, jar, sessions, store, calls, history>>

\* The user signs in at the provider, which redirects the browser back.
Authorize(f, u) ==
  /\ f <= started /\ codes[f] = "none"
  /\ codes' = [codes EXCEPT ![f] = "issued"]
  /\ who' = [who EXCEPT ![f] = {u}]
  /\ UNCHANGED <<now, started, grants, cookie, jar, sessions, store, calls, history>>

\* GET /auth/callback with the code of sign-in f.  A reload sends it again.
CallbackStart(c, f) ==
  /\ At(c, "idle")
  /\ codes[f] # "none"
  /\ StateMatches(f)
  /\ calls' = [calls EXCEPT ![c] =
       [IdleCall EXCEPT !.at = "exchange", !.flow = f, !.due = now + CallTime]]
  /\ UNCHANGED <<now, started, provider, cookie, jar, sessions, store, history>>

\* The user declined, or the state is not the one in the cookie.
CallbackRefused(c) ==
  /\ At(c, "idle")
  /\ \E f \in Flow : f <= started /\ (codes[f] = "none" \/ ~ StateMatches(f))
  /\ CallbackOver(c)
  /\ UNCHANGED <<provider, jar, store>>

\* POST to the token endpoint.  The provider may leave out the refresh token.
Exchange(c) ==
  /\ At(c, "exchange")
  /\ LET f == calls[c].flow
     IN  /\ codes[f] = "issued"
         /\ codes' = [codes EXCEPT ![f] = "used"]
         /\ grants' = [grants EXCEPT ![f] = 1]
         /\ \E n \in {0, 1} :
              calls' = [calls EXCEPT ![c].at = "userinfo", ![c].held =
                [flow |-> f, expires |-> now + AccessTTL, refresh |-> n]]
  /\ UNCHANGED <<now, started, who, cookie, jar, sessions, store, history>>

\* The provider carries out the exchange and the answer does not come back.
LoseExchange(c) ==
  /\ At(c, "exchange") /\ codes[calls[c].flow] = "issued"
  /\ codes' = [codes EXCEPT ![calls[c].flow] = "used"]
  /\ CallbackOver(c)
  /\ UNCHANGED <<who, grants, jar, store>>

UserInfo(c) ==
  /\ At(c, "userinfo")
  /\ AcceptsAccess(calls[c].held)
  /\ GoTo(c, "account")
  /\ UNCHANGED <<now, started, provider, cookie, jar, sessions, store, history>>

\* GetAccount finds no User with the address; which have one is left open.
NoMailbox(c) ==
  /\ At(c, "account")
  /\ CallbackOver(c)
  /\ UNCHANGED <<provider, jar, store>>

\* GetAccount, IsAdmin, GenerateToken, TokenStore.Put and SetCookie.
SignIn(c) ==
  /\ At(c, "account")
  /\ \E u \in who[calls[c].flow] :
       sessions' = Append(sessions, [user |-> u, expires |-> now + TokenTTL])
  /\ Put(Len(sessions'), calls[c].held)
  /\ jar' = Len(sessions')
  /\ cookie' = NoCookie
  /\ Answer(c)
  /\ UNCHANGED <<now, started, provider, history>>

\* A remote call of the callback fails, or the provider refuses it.
CallbackFails(c) ==
  /\ calls[c].at \in {"exchange", "userinfo", "account"}
  /\ CallbackOver(c)
  /\ UNCHANGED <<provider, jar, store>>

-----------------------------------------------------------------------------
(* PUT /accounts/{name}/password, for the user of the session.             *)

\* The password changes of session s that have its tokens in their hands.
InProgress(s) == {c \in Calls : calls[c].sid = s /\ s # 0}

\* The session cookie is good; the middleware looks up what domains the user has.
PasswordStart(c) ==
  /\ At(c, "idle") /\ Valid(jar)
  /\ calls' = [calls EXCEPT ![c] =
       [IdleCall EXCEPT !.at = "authorize", !.ctx = jar]]
  /\ UNCHANGED <<now, started, provider, cookie, jar, sessions, store, history>>

\* The lookup fails, or the request is not well formed.
PasswordStartFails(c) ==
  /\ At(c, "authorize")
  /\ Answer(c)
  /\ UNCHANGED <<now, started, provider, cookie, jar, sessions, store, history>>

\* Look up the tokens of the session in the context, and decide on their expiry.
\* Only now the request is given a deadline.
LookUpTokens(c) ==
  /\ At(c, "authorize")
  /\ LET s == calls[c].ctx
         t == store[s].tokens
         others == InProgress(s)
         begin(place) ==
           calls' = [d \in Calls |->
                IF d = c
                THEN [IdleCall EXCEPT !.at = place, !.sid = s, !.held = t,
                        !.due = now + CallTime, !.overlapped = others # {}]
                ELSE [calls[d] EXCEPT !.overlapped = @ \/ d \in others]]
     IN  IF ~ Alive(store[s]) \/ (NeedsRefresh(t) /\ t.refresh = 0) THEN Answer(c)
         ELSE begin(IF NeedsRefresh(t) THEN "refresh" ELSE "change")
  /\ UNCHANGED <<now, started, provider, cookie, jar, sessions, store, history>>

\* Client.Refresh: the refresh token stays the same unless a new one comes back.
Refresh(c) ==
  /\ At(c, "refresh")
  /\ AcceptsRefresh(calls[c].held)
  /\ \E rotated \in Rotation :
       LET t == calls[c].held
           n == IF rotated THEN t.refresh + 1 ELSE t.refresh
       IN  /\ n <= MaxRefresh
           /\ grants' = [grants EXCEPT ![t.flow] = n]
           /\ calls' = [calls EXCEPT ![c].at = "put", ![c].refreshed = TRUE, ![c].held =
                [flow |-> t.flow, expires |-> now + AccessTTL, refresh |-> n]]
  /\ UNCHANGED <<now, started, codes, who, cookie, jar, sessions, store, history>>

RefreshRefused(c) ==
  /\ At(c, "refresh")
  /\ ~ AcceptsRefresh(calls[c].held)
  /\ Answer(c)
  /\ UNCHANGED <<now, started, provider, cookie, jar, sessions, store, history>>

\* The refresh fails or its answer is lost; the provider may have carried it out.
RefreshFails(c) ==
  /\ At(c, "refresh")
  /\ LET t == calls[c].held
     IN  \/ UNCHANGED grants
         \/ /\ AcceptsRefresh(t) /\ TRUE \in Rotation /\ t.refresh < MaxRefresh
            /\ grants' = [grants EXCEPT ![t.flow] = t.refresh + 1]
  /\ Answer(c)
  /\ UNCHANGED <<now, started, codes, who, cookie, jar, sessions, store, history>>

\* Mutant: the tokens go to the session in the browser's cookie.
StoreTokensJar(c) ==
  /\ At(c, "put")
  /\ Put(jar, calls[c].held)
  /\ GoTo(c, "change")
  /\ UNCHANGED <<now, started, provider, cookie, jar, sessions, history>>

\* TokenStore.Put with the fresh tokens.
StoreTokens(c) ==
  /\ At(c, "put")
  /\ Put(calls[c].sid, calls[c].held)
  /\ GoTo(c, "change")
  /\ UNCHANGED <<now, started, provider, cookie, jar, sessions, history>>

\* x:AccountPassword/set changes the password.
Change(c) ==
  /\ At(c, "change") /\ AcceptsAccess(calls[c].held)
  /\ calls' = [calls EXCEPT ![c].at = "answer", ![c].changed = TRUE]
  /\ UNCHANGED <<now, started, provider, cookie, jar, sessions, store, history>>

\* Its answer comes.
ChangeOk(c) ==
  /\ At(c, "answer")
  /\ Answer(c)
  /\ UNCHANGED <<now, started, provider, cookie, jar, sessions, store, history>>

\* Wrong current password, missing code, password policy.
ChangeRefused(c) ==
  /\ At(c, "change") /\ AcceptsAccess(calls[c].held)
  /\ Answer(c)
  /\ UNCHANGED <<now, started, provider, cookie, jar, sessions, store, history>>

\* Mutant: a lost answer is worth a refresh and another try, as a 401 is.
LoseChangeRetry(c) ==
  /\ At(c, "answer")
  /\ IF ~ calls[c].refreshed /\ calls[c].held.refresh # 0
     THEN GoTo(c, "refresh")
     ELSE Answer(c)
  /\ UNCHANGED <<now, started, provider, cookie, jar, sessions, store, history>>

\* The password is changed and the answer does not come back.
LoseChange(c) ==
  /\ At(c, "answer")
  /\ Answer(c)
  /\ UNCHANGED <<now, started, provider, cookie, jar, sessions, store, history>>

\* Mutant: a 401 is final.
MayRefreshNever(call) == FALSE

\* A 401 is worth one refresh in a request.
MayRefresh(call) == ~ call.refreshed /\ call.held.refresh # 0

\* 401: Stalwart does not accept the access token, perhaps one that it should.
ChangeUnauthorized(c) ==
  /\ At(c, "change")
  /\ IF MayRefresh(calls[c])
     THEN GoTo(c, "refresh")
     ELSE Answer(c)
  /\ UNCHANGED <<now, started, provider, cookie, jar, sessions, store, history>>

\* The change is not carried out, for want of an answer in time.
ChangeFails(c) ==
  /\ At(c, "change")
  /\ Answer(c)
  /\ UNCHANGED <<now, started, provider, cookie, jar, sessions, store, history>>

-----------------------------------------------------------------------------
\* Mutant: only the cookie goes.
LogoutCookie ==
  /\ ended' = IF Valid(jar) THEN ended \cup {jar} ELSE ended
  /\ busy' = IF Valid(jar) /\ InProgress(jar) # {} THEN busy \cup {jar} ELSE busy
  /\ jar' = 0
  /\ UNCHANGED <<now, started, provider, cookie, sessions, store, calls>>

\* POST /auth/logout.  A session cookie that has expired names no session.
Logout ==
  /\ IF Valid(jar)
     THEN /\ store' = [store EXCEPT ![jar] = NoEntry]
          /\ ended' = ended \cup {jar}
          /\ busy' = IF InProgress(jar) # {} THEN busy \cup {jar} ELSE busy
     ELSE UNCHANGED <<store, ended, busy>>
  /\ jar' = 0
  /\ UNCHANGED <<now, started, provider, cookie, sessions, calls>>

\* The process stops, with every request in it, and starts again.
Restart ==
  /\ store' = [s \in Sid |-> NoEntry]
  /\ calls' = [c \in Calls |-> IdleCall]
  /\ ended' = ended \cup 1..Len(sessions)
  /\ UNCHANGED <<now, started, provider, cookie, jar, sessions, busy>>

\* Stalwart revokes the grants of user u.
Revoke(u) ==
  /\ grants' = [f \in Flow |-> IF who[f] = {u} THEN 0 ELSE grants[f]]
  /\ UNCHANGED <<now, started, codes, who, cookie, jar, sessions, store, calls, history>>

\* No request outlives its deadline; the browser drops an expired su_oidc cookie.
Tick ==
  /\ now < MaxTime
  /\ \A c \in Calls : calls[c].at \in {"idle", "authorize"} \/ now < calls[c].due
  /\ now' = now + 1
  /\ cookie' = IF now' < cookie.expires THEN cookie ELSE NoCookie
  /\ UNCHANGED <<started, provider, jar, sessions, store, calls, history>>

Callback(c) ==
  \/ \E f \in Flow : CallbackStart(c, f)
  \/ CallbackRefused(c)
  \/ Exchange(c) \/ LoseExchange(c) \/ UserInfo(c)
  \/ NoMailbox(c) \/ SignIn(c) \/ CallbackFails(c)

ChangePassword(c) ==
  \/ PasswordStart(c) \/ PasswordStartFails(c) \/ LookUpTokens(c)
  \/ Refresh(c) \/ RefreshRefused(c) \/ RefreshFails(c) \/ StoreTokens(c)
  \/ Change(c) \/ ChangeOk(c) \/ ChangeRefused(c) \/ LoseChange(c)
  \/ ChangeUnauthorized(c) \/ ChangeFails(c)

Next ==
  \/ LoginStart
  \/ \E f \in Flow, u \in Users : Authorize(f, u)
  \/ \E c \in Calls : Callback(c) \/ ChangePassword(c)
  \/ Logout
  \/ Restart
  \/ \E u \in Users : Revoke(u)
  \/ Tick

Spec == Init /\ [][Next]_vars

-----------------------------------------------------------------------------
(* What must hold.                                                         *)

\* Every variable keeps its type; a password change that has got past the lookup
\* has a session and tokens, so it never goes out with an empty access token.
TypeOK ==
  /\ now \in 0..MaxTime /\ started \in 0..MaxFlows
  /\ codes \in [Flow -> {"none", "issued", "used"}]
  /\ who \in [Flow -> SUBSET Users]
  /\ grants \in [Flow -> Nat]
  /\ cookie \in [flow : Flow \cup {0}, expires : Nat]
  /\ jar \in 0..Len(sessions)
  /\ Len(sessions) <= MaxFlows
  /\ \A s \in 1..Len(sessions) : sessions[s] \in [user : Users, expires : Nat]
  /\ store \in [Sid -> [tokens : Tokens \cup {NoTokens}, stored : Nat]]
  /\ calls \in [Calls -> Call]
  /\ \A c \in Calls : calls[c].at \in {"refresh", "put", "change", "answer"} =>
       calls[c].sid \in 1..Len(sessions) /\ calls[c].held # NoTokens

\* The tokens a session's password change uses are its own user's, also when the
\* same browser has signed in as somebody else in the meantime: what is stored
\* for a session, and what a request of it holds, is a grant to the user it names.
TokensMatchSession ==
  /\ \A s \in Sid : store[s] # NoEntry => who[store[s].tokens.flow] = {sessions[s].user}
  /\ \A c \in Calls : calls[c].sid # 0 =>
       who[calls[c].held.flow] = {sessions[calls[c].sid].user}

\* As long as its cookie is good, a session has tokens, unless a logout or a
\* restart took them: Put "drops entries older than a session can live", never
\* the entry of a session that still lives.
TokensOutliveSession ==
  \A s \in 1..Len(sessions) : (Valid(s) /\ s \notin ended) => Alive(store[s])

\* The access token a password change sends does not expire while it is under
\* way: it is refreshed before it is used when it is close to expiry, and no
\* request takes as long as refreshMargin.
FreshWhenUsed ==
  \A c \in Calls : At(c, "change") => now < calls[c].held.expires

\* Logging out "forgets its OAuth tokens" (internal/auth/session.go), and so does
\* a restart: nothing brings back the tokens of a session that has ended.
LogoutForgets == \A s \in ended : store[s] = NoEntry

\* The same, for the sessions that had no password change under way when they
\* ended.
LogoutForgetsWhenIdle == \A s \in ended \ busy : store[s] = NoEntry

\* The stored tokens of session s are gone or can not be refreshed.
Gone(s) == ~ Alive(store[s]) \/ ~ AcceptsRefresh(store[s].tokens)

\* The session a password change comes with.
SessionOf(call) == IF call.at = "authorize" THEN call.ctx ELSE call.sid

\* A password change answers 401 reauth_required.
Asks(c) ==
  /\ ~ At(c, "idle") /\ calls'[c].at = "idle"
  /\ LookUpTokens(c) \/ RefreshRefused(c) \/ RefreshFails(c) \/ ChangeUnauthorized(c)

\* The provider does not answer, or refuses a token it should accept.
ProviderFails(c) ==
  \/ AcceptsRefresh(calls[c].held) /\ RefreshFails(c)
  \/ calls[c].refreshed /\ AcceptsAccess(calls[c].held) /\ ChangeUnauthorized(c)

\* Another password change of the session, which call c has overlapped, has put
\* a new refresh token in the place of the one in c's hands.
Replaced(c) ==
  calls[c].overlapped /\ store[calls[c].sid].tokens.refresh # calls[c].held.refresh

\* "401 reauth_required when the stored tokens are gone or can't be refreshed"
\* (README.md): the user is not sent to sign in again while the stored tokens
\* would do, after a restart or whenever else, unless the provider fails.  The
\* exception: of overlapping password changes at a provider that rotates refresh
\* tokens, one may come too late with a token that the other has replaced.
ReauthMeansGone ==
  [][\A c \in Calls : \A s \in {SessionOf(calls[c])} :
       (Asks(c) /\ ~ Gone(s)') => (ProviderFails(c) \/ Replaced(c))]_vars

\* What a request has done is done: after Stalwart has changed the password, and
\* whatever becomes of its answer, the request neither sends the change again,
\* where the current password would now be the wrong one, nor refreshes tokens
\* and asks the user to sign in.  Only a 401, which says that nothing was done,
\* is tried again (password.go).
ChangeIsFinal ==
  [][\A c \in Calls : calls[c].changed =>
       ~ (Change(c) \/ ChangeRefused(c) \/ ChangeUnauthorized(c) \/ Asks(c))]_vars
=============================================================================
