--------------------------- MODULE ClientSession ---------------------------
(***************************************************************************)
(* The session as the browser sees it: the client of lib/api-client.ts     *)
(* with its tokens in memory, the store of stores/auth-store.ts, the pages *)
(* that sign in and out, and the cookies that all tabs share.              *)
(*                                                                         *)
(* The server is the one of backend/src (handlers/auth.rs and              *)
(* middleware/auth.rs), seen through one account.  A sign-in and a refresh *)
(* begin a generation: its number stands for its access token, its refresh *)
(* token and its CSRF token; 0 is the absence of one.  The cookies for     *)
(* access and CSRF expire together with the access token.                  *)
(***************************************************************************)
EXTENDS Naturals, FiniteSets

CONSTANTS Tab,
          Profile,   \* permissions explored: "none", "some" or "admin"
          None,
          MaxGen,    \* bound: sign-ins and refreshes
          MaxMoves,  \* bound: actions of the user
          MaxCalls,  \* bound: requests of the pages in flight in a tab
          MaxFaults  \* bound: requests that fail, answers lost on their way

VARIABLES
    gen,      \* server: generations begun
    live,     \* server: refresh tokens that are neither used nor revoked
    fresh,    \* generations whose access token has not expired
    jar,      \* the cookies: access_token, refresh_token, csrf_token
    blocked,  \* the browser stores none of them
    profile,  \* the permissions of the user, None while they do not matter
    mem,      \* accessToken, refreshToken, csrfToken of each tab
    store,    \* isAuthenticated and isLoading of each tab
    screen,   \* the page of each tab
    calls,    \* the requests in flight
    moves, faults,
    ended,    \* history: the user signed out, or changed the password
    crossed   \* history: a sign-in met what an earlier session left (Meets)

server  == <<gen, live, fresh>>
browser == <<jar, blocked, profile>>
tabs    == <<mem, store, screen>>
vars    == <<server, browser, tabs, calls, moves, faults, ended, crossed>>

Gen   == 0..MaxGen
Keys  == [access : Gen, refresh : Gen, csrf : Gen]
NoKey == [access |-> 0, refresh |-> 0, csrf |-> 0]
KeysOf(g) == [access |-> g, refresh |-> g, csrf |-> g]

Sign  == {"login", "register"}
Store == Sign \cup {"logout", "me"}                 \* called by the store
Page  == {"read", "write", "download", "password"}  \* called by the pages
Open  == Sign \cup {"reset", "refresh"}             \* routes without a session
Safe  == {"me", "read", "download"}                 \* GET

\* The cookies a request carries: the browser drops those that have expired.
Cookies == [jar EXCEPT !.access = IF @ \in fresh THEN @ ELSE 0,
                       !.csrf   = IF @ \in fresh THEN @ ELSE 0]

Of(t, kinds) == {c \in calls : c.tab = t /\ c.kind \in kinds}
Waiting(t)   == {c \in calls : c.tab = t /\ c.phase = "waiting"}
Moving == moves < MaxMoves /\ moves' = moves + 1

ASSUME ClientAssumption ==
    /\ "nobody" \notin Tab   \* the tab of the requests that nobody waits for
    /\ MaxGen \in Nat \ {0} /\ MaxMoves \in Nat /\ MaxCalls \in Nat /\ MaxFaults \in Nat

-----------------------------------------------------------------------------
\* lib/api-client.ts

\* getCsrfToken: the one remembered, or else the cookie.
Csrf(m) == IF m.csrf # 0 THEN m.csrf ELSE Cookies.csrf

\* The request as fetch() sends it.  `held' tells whether a refresh token was
\* in memory.
Call(t, kind, m) ==
    [tab |-> t, kind |-> kind, phase |-> "sent", again |-> FALSE,
     bearer |-> m.access, header |-> IF kind \in Safe THEN 0 ELSE Csrf(m),
     body |-> m.refresh, cookies |-> Cookies, held |-> m.refresh # 0,
     status |-> 0, won |-> 0]

\* What nobody looks at once the server has read it.
Bare(c) == [c EXCEPT !.bearer = 0, !.header = 0, !.body = 0, !.cookies = NoKey]

\* getCsrfToken remembers what it returns.
Remember(m, kind) == IF kind \in Safe THEN m ELSE [m EXCEPT !.csrf = Csrf(m)]

\* request()
Send(t, kind) ==
    /\ calls' = calls \cup {Call(t, kind, mem[t])}
    /\ mem' = [mem EXCEPT ![t] = Remember(@, kind)]

MutantNoMutex(t) ==                   \* every request that fails refreshes
    {Call(t, "refresh", mem[t])}

MutantNoRefresh(t) ==                 \* isRefreshing is not reset
    IF gen > 1 THEN {} ELSE {Call(t, "refresh", mem[t])}

\* refreshAccessToken(): a refresh in flight is shared.
Refresh(t) == IF Of(t, {"refresh"}) # {} THEN {} ELSE {Call(t, "refresh", mem[t])}

\* downloadFile() uses the token in memory, and refreshes first without one.
Download(t) ==
    /\ calls' = calls \cup
          (IF mem[t].access # 0 THEN {Call(t, "download", mem[t])}
           ELSE {[Bare(Call(t, "download", mem[t])) EXCEPT !.phase = "waiting"]} \cup Refresh(t))
    /\ UNCHANGED mem

-----------------------------------------------------------------------------
\* The server.

Begin == gen < MaxGen /\ gen' = gen + 1 /\ fresh' = fresh \cup {gen + 1}

Answered(c, status, won) ==
    calls' = (calls \ {c}) \cup
        (IF c.tab \in Tab THEN {[Bare(c) EXCEPT !.phase = "answered", !.status = status, !.won = won]}
         ELSE {})

\* login and register, refused or not: the tokens of other sessions stay as they are.
ServeSign(c) ==
    /\ c.kind \in Sign
    /\ \/ Begin /\ live' = live \cup {gen + 1} /\ Answered(c, 200, gen + 1)
       \/ /\ Answered(c, IF c.kind = "login" THEN 401 ELSE 409, 0)
          /\ UNCHANGED <<gen, live, fresh>>

\* refresh_token: the body has to be JSON with a token, the cookie is used
\* first.  A token used before revokes all.
ServeRefresh(c) ==
    LET token == IF c.cookies.refresh # 0 THEN c.cookies.refresh ELSE c.body IN
    /\ c.kind = "refresh"
    /\ CASE c.body = 0 -> Answered(c, 415, 0) /\ UNCHANGED server
         [] c.body # 0 /\ token \in live ->
                /\ Begin /\ live' = (live \ {token}) \cup {gen + 1}
                /\ Answered(c, 200, gen + 1)
         [] OTHER -> /\ live' = {} /\ Answered(c, 401, 0)
                     /\ UNCHANGED <<gen, fresh>>

\* reset_password revokes all refresh tokens.
ServeReset(c) ==
    /\ c.kind = "reset"
    /\ live' = {} /\ Answered(c, 200, 0) /\ UNCHANGED <<gen, fresh>>

\* auth_middleware, then csrf_middleware, then the handler: logout and
\* change_password revoke all refresh tokens.
Identified(c) == (IF c.bearer # 0 THEN c.bearer ELSE c.cookies.access) \in fresh

Forged(c) ==
    /\ c.kind \notin Safe /\ ~(c.bearer # 0 /\ c.cookies.access = 0)
    /\ c.header = 0 \/ c.header # c.cookies.csrf

ServeProtected(c) ==
    /\ c.kind \notin Open
    /\ LET status == IF ~Identified(c) THEN 401 ELSE IF Forged(c) THEN 403 ELSE 200 IN
       /\ Answered(c, status, 0)
       /\ live' = IF status = 200 /\ c.kind \in {"logout", "password"} THEN {} ELSE live
    /\ UNCHANGED <<gen, fresh>>

Serve == \E c \in calls :
    /\ c.phase = "sent"
    /\ ServeSign(c) \/ ServeRefresh(c) \/ ServeReset(c) \/ ServeProtected(c)
    /\ UNCHANGED <<browser, tabs, moves, faults, ended, crossed>>

\* A request that does not arrive, is refused for another reason (the rate
\* limit, an error), or whose answer is lost.
Lose == \E c \in calls :
    /\ c.phase # "waiting" /\ c.tab \in Tab /\ faults < MaxFaults /\ faults' = faults + 1
    /\ calls' = (calls \ {c}) \cup {[Bare(c) EXCEPT !.phase = "answered", !.status = 500, !.won = 0]}
    /\ UNCHANGED <<server, browser, tabs, moves, ended, crossed>>

\* The oldest access token expires; not between a refresh and the second try
\* that follows it at once (it lives for minutes).
Expire ==
    \E g \in fresh :
        /\ \A h \in fresh : g <= h
        /\ \A c \in calls : c.won # g /\ ~(c.again /\ c.bearer = g)
        /\ fresh' = fresh \ {g}
        /\ UNCHANGED <<gen, live, browser, tabs, calls, moves, faults, ended, crossed>>

-----------------------------------------------------------------------------
\* The answers.

\* Set-Cookie
Stored(c) ==
    CASE blocked -> jar
      [] ~blocked /\ c.won # 0 -> KeysOf(c.won)
      [] ~blocked /\ c.kind = "logout" /\ c.status = 200 -> NoKey
      [] OTHER -> jar

MutantStoreAfter(s, kind, ok) ==      \* loadUser() stops the spinner of a success only
    CASE kind \in Sign    -> [auth |-> s.auth \/ ok, loading |-> FALSE]
      [] kind = "me"      -> [auth |-> ok, loading |-> s.loading /\ ~ok]
      [] kind = "logout"  -> [auth |-> FALSE, loading |-> FALSE]
      [] OTHER            -> s

\* stores/auth-store.ts: what login, register, logout and loadUser do when
\* their request has ended.
StoreAfter(s, kind, ok) ==
    CASE kind \in Sign    -> [auth |-> s.auth \/ ok, loading |-> FALSE]
      [] kind = "me"      -> [auth |-> ok, loading |-> FALSE]
      [] kind = "logout"  -> [auth |-> FALSE, loading |-> FALSE]
      [] OTHER            -> s

MemAfter(m, kind, ok, won) ==
    CASE kind \in Sign /\ ok             -> [m EXCEPT !.access = won, !.refresh = won]
      [] kind = "logout"                 -> NoKey
      [] kind = "me" /\ ~ok              -> NoKey
      [] OTHER                           -> m

\* router.push after login() and logout() of the page and the header.
ScreenAfter(p, kind, ok) ==
    IF kind \in Sign /\ ok THEN "app" ELSE IF kind = "logout" THEN "login" ELSE p

MutantFinish(c) ==                    \* a 401 is the end of a sign-out
    LET t == c.tab  ok == c.status = 200 IN
    /\ c.phase = "answered" /\ c.kind # "refresh"
    /\ c.status # 401 \/ c.again \/ c.kind = "logout"
    /\ calls' = calls \ {c} /\ jar' = Stored(c)
    /\ mem' = [mem EXCEPT ![t] = MemAfter(@, c.kind, ok, c.won)]
    /\ store' = [store EXCEPT ![t] = StoreAfter(@, c.kind, ok)]
    /\ screen' = [screen EXCEPT ![t] = ScreenAfter(@, c.kind, ok)]
    /\ UNCHANGED <<server, blocked, profile, moves, faults, ended, crossed>>

\* An answer that is not 401, or is the one to the second try: the end of it.
Finish(c) ==
    LET t == c.tab  ok == c.status = 200 IN
    /\ c.phase = "answered" /\ c.kind # "refresh"
    /\ c.status # 401 \/ c.again
    /\ calls' = calls \ {c} /\ jar' = Stored(c)
    /\ mem' = [mem EXCEPT ![t] = MemAfter(@, c.kind, ok, c.won)]
    /\ store' = [store EXCEPT ![t] = StoreAfter(@, c.kind, ok)]
    /\ screen' = [screen EXCEPT ![t] = ScreenAfter(@, c.kind, ok)]
    /\ UNCHANGED <<server, blocked, profile, moves, faults, ended, crossed>>

\* A first 401, whatever the request: refreshAccessToken().
Unauthorized(c) ==
    /\ c.phase = "answered" /\ c.kind # "refresh" /\ c.status = 401 /\ ~c.again
    /\ calls' = (calls \ {c}) \cup {[c EXCEPT !.phase = "waiting", !.status = 0]} \cup Refresh(c.tab)
    /\ UNCHANGED <<server, browser, tabs, moves, faults, ended, crossed>>

MutantTokensAfter(m, c) ==            \* the CSRF token is not read again
    [access |-> c.won, refresh |-> c.won, csrf |-> IF m.csrf # 0 THEN m.csrf ELSE Stored(c).csrf]

\* setTokens(), and the CSRF token read from the new cookie.
TokensAfter(m, c) == [access |-> c.won, refresh |-> c.won, csrf |-> Stored(c).csrf]

\* The refresh succeeded: the requests that wait for it are sent again.
Refreshed(c) ==
    LET t == c.tab
        m == TokensAfter(mem[t], c)
    IN  /\ c.phase = "answered" /\ c.kind = "refresh" /\ c.status = 200
        /\ jar' = Stored(c) /\ mem' = [mem EXCEPT ![t] = m]
        /\ calls' = (calls \ ({c} \cup Waiting(t))) \cup
               {[Call(t, w.kind, m) EXCEPT !.again = TRUE, !.cookies = [Stored(c) EXCEPT
                     !.access = IF @ \in fresh THEN @ ELSE 0,
                     !.csrf   = IF @ \in fresh THEN @ ELSE 0], !.held = w.held] :
                w \in Waiting(t)}
        /\ UNCHANGED <<server, blocked, profile, store, screen, moves, faults, ended, crossed>>

\* It failed: clearTokens(), onLogout(), and the waiting requests fail.
RefreshFailed(c) ==
    LET t == c.tab IN
    /\ c.phase = "answered" /\ c.kind = "refresh" /\ c.status # 200
    /\ calls' = calls \ ({c} \cup Waiting(t))
    /\ mem' = [mem EXCEPT ![t] = NoKey]
    /\ store' = [store EXCEPT ![t] = [auth |-> FALSE,
                     loading |-> @.loading /\ Waiting(t) \cap Of(t, Store) = {}]]
    /\ screen' = [screen EXCEPT ![t] =
                     IF Waiting(t) \cap Of(t, {"logout"}) # {} THEN "login" ELSE @]
    /\ UNCHANGED <<server, browser, moves, faults, ended, crossed>>

Answer == \E c \in calls :
    Finish(c) \/ Unauthorized(c) \/ Refreshed(c) \/ RefreshFailed(c)

-----------------------------------------------------------------------------
\* The pages.

\* For `crossed': what a sign-in may meet of an earlier session: its CSRF token, which the
\* client goes on to send, or a request of it, which may still begin or end one.
Meets(t) == Csrf(mem[t]) # 0 \/ \E c \in calls : c.tab \in {t, "nobody"}

\* loadUser(), login(), register() and logout() set isLoading and call.
Calling(t, kind) ==
    /\ Send(t, kind) /\ store' = [store EXCEPT ![t].loading = TRUE]
    /\ UNCHANGED <<server, browser, screen, faults>>

MutantLoginPage(t) ==                 \* the button stays enabled
    /\ screen[t] = "login" /\ ~store[t].auth /\ Moving
    /\ Calling(t, "login") /\ crossed' = (crossed \/ Meets(t)) /\ UNCHANGED ended

\* app/login/page.tsx: the button is disabled while the store is loading.
LoginPage(t) ==
    /\ screen[t] = "login" /\ ~store[t].loading /\ ~store[t].auth /\ Moving
    /\ Calling(t, "login") /\ crossed' = (crossed \/ Meets(t)) /\ UNCHANGED ended

\* app/register/page.tsx
RegisterPage(t) ==
    /\ screen[t] = "login" /\ ~store[t].loading /\ ~store[t].auth /\ Moving
    /\ Calling(t, "register") /\ crossed' = (crossed \/ Meets(t)) /\ UNCHANGED ended

\* app/reset-password/page.tsx, opened from a mail.
ResetPage(t) ==
    /\ screen[t] = "login" /\ Of(t, {"reset"}) = {} /\ Moving
    /\ Send(t, "reset") /\ ended' = TRUE
    /\ UNCHANGED <<server, browser, store, screen, faults, crossed>>

\* A page is on the screen when ProtectedRoute lets it through.
Shown(t) == screen[t] # "login" /\ store[t].auth /\ ~store[t].loading

\* components/layout/header.tsx
HeaderLogout(t) == /\ Shown(t) /\ Moving /\ Calling(t, "logout") /\ ended' = TRUE
                   /\ UNCHANGED crossed

\* components/forms/change-password-form.tsx
ChangePassword(t) ==
    /\ Shown(t) /\ Of(t, {"password"}) = {} /\ Moving
    /\ Send(t, "password") /\ ended' = TRUE
    /\ UNCHANGED <<server, browser, store, screen, faults, crossed>>

\* The pages load, save and export.
UsePage(t) ==
    /\ Shown(t) /\ Cardinality(Of(t, Page)) < MaxCalls /\ Moving
    /\ Send(t, "read") \/ Send(t, "write") \/ Download(t)
    /\ UNCHANGED <<server, browser, store, screen, faults, ended, crossed>>

\* A link to the administration page, the first that depends on permissions:
\* they are chosen here.
OpenAdmin(t) == /\ Shown(t) /\ screen[t] = "app" /\ Moving
                /\ screen' = [screen EXCEPT ![t] = "admin"]
                /\ profile' \in IF profile = None THEN Profile ELSE {profile}
                /\ UNCHANGED <<server, jar, blocked, mem, store, calls, faults, ended, crossed>>

\* The tab is loaded again: the memory is lost, the requests are abandoned
\* (the server may still serve them), and auth-provider.tsx calls
\* initialize(), which loads the user.
Reload(t) ==
    LET m == [NoKey EXCEPT !.csrf = Cookies.csrf] IN
    /\ Moving
    /\ calls' = {c \in calls : c.tab # t}
                \cup {[c EXCEPT !.tab = "nobody"] : 
                      c \in {d \in calls : d.tab = t /\ d.phase = "sent" /\ d.kind \notin Safe}}
                \cup {Call(t, "me", m)}
    /\ mem' = [mem EXCEPT ![t] = m]
    /\ store' = [store EXCEPT ![t] = [auth |-> FALSE, loading |-> TRUE]]
    /\ UNCHANGED <<server, browser, screen, faults, ended, crossed>>

MutantProtectedRoute(t) ==            \* the permission is asked of nobody who has some
    /\ ~store[t].loading
    /\ \/ /\ screen[t] # "login" /\ ~store[t].auth
          /\ screen' = [screen EXCEPT ![t] = "login"] /\ UNCHANGED <<mem, store, calls>>
       \/ /\ screen[t] = "admin" /\ store[t].auth /\ profile = "none"
          /\ Send(t, "me") /\ store' = [store EXCEPT ![t].loading = TRUE] /\ UNCHANGED screen
    /\ UNCHANGED <<server, browser, moves, faults, ended, crossed>>

\* components/auth/protected-route.tsx: nobody signed in; a user without the
\* permission; a user whose permissions are not known or empty.  The login page
\* sends a user who is signed in to the dashboard.
ProtectedRoute(t) ==
    /\ ~store[t].loading
    /\ \/ /\ screen[t] # "login" /\ ~store[t].auth
          /\ screen' = [screen EXCEPT ![t] = "login"] /\ UNCHANGED <<mem, store, calls>>
       \/ /\ screen[t] = "admin" /\ store[t].auth /\ profile = "some"
          /\ screen' = [screen EXCEPT ![t] = "app"] /\ UNCHANGED <<mem, store, calls>>
       \/ /\ screen[t] = "admin" /\ store[t].auth /\ profile = "none"
          /\ Send(t, "me") /\ store' = [store EXCEPT ![t].loading = TRUE] /\ UNCHANGED screen
    /\ UNCHANGED <<server, browser, moves, faults, ended, crossed>>

SignedInAway(t) ==
    /\ screen[t] = "login" /\ store[t].auth /\ screen' = [screen EXCEPT ![t] = "app"]
    /\ UNCHANGED <<server, browser, mem, store, calls, moves, faults, ended, crossed>>

-----------------------------------------------------------------------------
\* The tabs are opened: without cookies, and the store asks who the user is; or
\* by a user who has just signed in.
Init ==
    /\ blocked \in BOOLEAN /\ profile = None
    /\ faults = 0 /\ ended = FALSE /\ crossed = FALSE
    /\ \/ /\ moves = 1 /\ gen = 0 /\ live = {} /\ fresh = {} /\ jar = NoKey
          /\ mem = [t \in Tab |-> NoKey]
          /\ store = [t \in Tab |-> [auth |-> FALSE, loading |-> TRUE]]
          /\ screen = [t \in Tab |-> "login"]
          /\ calls = {Call(t, "me", NoKey) : t \in Tab}
       \/ /\ moves = 0 /\ gen = 1 /\ live = {1} /\ fresh = {1} /\ jar = IF blocked THEN NoKey ELSE KeysOf(1)
          /\ mem = [t \in Tab |-> [KeysOf(1) EXCEPT !.csrf = 0]]
          /\ store = [t \in Tab |-> [auth |-> TRUE, loading |-> FALSE]]
          /\ screen = [t \in Tab |-> "app"]
          /\ calls = {}

User(t) == \/ LoginPage(t) \/ RegisterPage(t) \/ ResetPage(t) \/ HeaderLogout(t)
           \/ ChangePassword(t) \/ UsePage(t) \/ OpenAdmin(t) \/ Reload(t)

Route(t) == ProtectedRoute(t) \/ SignedInAway(t)

Next == \/ Serve \/ Lose \/ Expire \/ Answer
        \/ \E t \in Tab : User(t) \/ Route(t)

\* fetch() settles, and effects run.
Spec == /\ Init /\ [][Next]_vars
        /\ WF_vars(Serve) /\ WF_vars(Answer) /\ \A t \in Tab : WF_vars(Route(t))

-----------------------------------------------------------------------------
\* Types; and a request that waits has a refresh to wait for.
TypeOK ==
    /\ gen \in Gen /\ live \subseteq 1..gen /\ fresh \subseteq 1..gen
    /\ jar \in Keys /\ profile \in Profile \cup {None} /\ mem \in [Tab -> Keys]
    /\ store \in [Tab -> [auth : BOOLEAN, loading : BOOLEAN]]
    /\ screen \in [Tab -> {"login", "app", "admin"}]
    /\ \A c \in calls : /\ c.tab \in Tab \cup {"nobody"} /\ c.kind \in Store \cup Page \cup Open
                        /\ c.phase \in {"sent", "answered", "waiting"}
                        /\ c.phase = "waiting" => Of(c.tab, {"refresh"}) # {}

\* The store never runs two of its calls at once.
OneStoreCall == \A t \in Tab : Cardinality(Of(t, Store)) <= 1

\* In one tab the CSRF header of a request agrees with its cookie, unless a
\* sign-in met an earlier session.
NoForgedCall == \A c \in calls : c.status = 403 => crossed

\* Once a sign-out has ended that began with a refresh token in memory, by its
\* own answer or with the refresh it waited for, the server has no refresh token
\* left that could be used.  Unless a request failed, or the sign-in met an
\* earlier session (Meets): then the sign-out can be refused for its CSRF token,
\* or an abandoned sign-in be served after it.
Ends(c) == \/ Finish(c)
           \/ c \in Waiting(c.tab) /\ \E r \in Of(c.tab, {"refresh"}) : RefreshFailed(r)
SignOutRevokes ==
    [][\A c \in calls : Ends(c) /\ c.kind = "logout" /\ c.held =>
           live = {} \/ crossed \/ faults > 0]_vars

\* The spinner of ProtectedRoute ends, and someone who may not see the
\* administration page leaves it.  (At the bound MaxGen a refresh is not served.)
Silent(t) == gen = MaxGen /\ Of(t, {"refresh"}) # {}
SessionSettles ==
    \A t \in Tab : store[t].loading ~> ~store[t].loading \/ profile = "none" \/ Silent(t)
AdminIsGuarded ==
    \A t \in Tab : profile = "some" /\ screen[t] = "admin" ~> screen[t] # "admin" \/ Silent(t)

\* A user who did nothing to end it, and whose requests arrive, stays signed in
\* as long as the tab remembers its refresh token: requests that fail together
\* share one refresh, for the server takes a second use for a theft.  (After a
\* reload the memory is empty: the refresh request then has no body, and the
\* server refuses it before it looks at the cookie.)  Nor is it promised to one
\* who signed in while a refresh of an earlier session was under way: when that
\* fails, it clears the tokens of the new one.
StaysSignedIn ==
    [][\A t \in Tab : store[t].auth /\ store'[t] = [auth |-> FALSE, loading |-> FALSE] =>
           ended \/ crossed \/ faults > 0 \/ mem[t].refresh = 0]_vars
=============================================================================
