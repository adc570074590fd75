------------------------------ MODULE SsoLogin ------------------------------
(* Signing in at the identity provider: discovery with its retries           *)
(* (auth/provider_retry.go), the login a browser carries in its cookie       *)
(* (auth/login_cookie.go), the callback, and the admin role it may give      *)
(* (auth/oauth2_admin.go).  The accounts behind it are in Access.            *)
EXTENDS Naturals, Sequences, FiniteSets

CONSTANTS
  Browsers,
  Calls,       \* requests in progress
  Claims,      \* what an ID token says of the person's address
  RetryAfter,  \* discoveryRetryAfter, in ticks
  Timeout,     \* discoveryTimeout
  MaxLogins    \* bound: logins begun

AllClaims == [listed : BOOLEAN, verified : BOOLEAN]

None == "none"

ASSUME SsoAssumption ==
  /\ {RetryAfter, Timeout, MaxLogins} \subseteq Nat /\ Claims \subseteq AllClaims
  /\ {"server", None} \cap Calls = {}

VARIABLES
  idp,        \* the identity provider: "up" or "down"
  connected,  \* discovery has succeeded (inner)
  since,      \* time since lastAttempt, up to RetryAfter
  mu,         \* the actor whose discovery holds the mutex
  held,       \* how long that takes already
  server,     \* "boot", then Run: "wait", "get", "done"
  due,        \* a tick of Run's ticker that it has not taken
  stopping,   \* the context of Run is cancelled
  cookie,     \* each browser's login in progress, or 0
  logins,     \* the logins begun: browser, URL sent or not, and the code: "no", "issued", "used"
  request,    \* the requests
  stored,     \* the account: the claims last stored, listed in admin_users and verified
  admin,      \* the account has the admin role
  gap,        \* history: time since a discovery failed, up to RetryAfter
  vouched     \* history: an ID token called an address listed and verified

discovery == <<connected, since, mu, held, gap>>
running == <<server, due, stopping>>
account == <<stored, admin, vouched>>
loginVars == <<idp, discovery, running, cookie, logins, account, request>>

NoRequest == [pc |-> "idle"]
Older(age) == IF age < RetryAfter THEN age + 1 ELSE age

LoginInit ==
  /\ idp \in {"up", "down"}
  /\ connected = FALSE /\ since = RetryAfter /\ gap = RetryAfter /\ mu = None /\ held = 0
  /\ server = "boot" /\ due = FALSE /\ stopping = FALSE
  /\ cookie = [b \in Browsers |-> 0] /\ logins = <<>>
  /\ stored = [listed |-> FALSE, verified |-> FALSE] /\ admin = FALSE /\ vouched = FALSE
  /\ request = [c \in Calls |-> NoRequest]

-----------------------------------------------------------------------------
(* RetryingOIDCProvider.get: who calls it, and what follows.                 *)

Proceed(c, pc) == request' = [request EXCEPT ![c].pc = pc]
Finish(c) == request' = [request EXCEPT ![c] = NoRequest]
ProceedWith(c, pc, claim) ==
  request' = [request EXCEPT ![c] = [pc |-> pc, browser |-> @.browser, login |-> @.login, claim |-> claim]]

InGet(a) == IF a = "server" THEN server \in {"boot", "get"} ELSE request[a].pc \in {"ready", "url", "exchange"}

\* Save: the browser holds one login, the one begun last.
Save(b) == cookie' = [cookie EXCEPT ![b] = Len(logins) + 1]

\* The answer of a callback takes the browser's login cookie away, also a newer
\* one; it may be lost.
Answer(c) == Finish(c) /\ cookie' \in {cookie, [cookie EXCEPT ![request[c].browser] = 0]}

\* get has returned, with the provider or with an error.  Login asks for the URL
\* after Ready; GetAuthCodeURL returns an empty one where get fails.
GetReturns(a, ok) ==
  \/ a = "server" /\ server' = "wait" /\ UNCHANGED <<due, stopping, cookie, logins, request>>
  \/ /\ a \in Calls /\ request[a].pc = "ready" /\ (IF ok THEN Proceed(a, "url") ELSE Finish(a))
     /\ UNCHANGED <<running, cookie, logins>>
  \/ /\ a \in Calls /\ request[a].pc = "url" /\ Finish(a)
     /\ logins' = Append(logins, [browser |-> request[a].browser, url |-> ok, code |-> "no"])
     /\ Save(request[a].browser)
     /\ UNCHANGED running
  \/ /\ a \in Calls /\ request[a].pc = "exchange"
     /\ IF ok THEN Proceed(a, "redeem") /\ UNCHANGED cookie ELSE Answer(a)
     /\ UNCHANGED <<running, logins>>

\* Under the mutex: the provider where there is one, the last error for a while
\* after an attempt, else discovery.
Get(a) ==
  /\ InGet(a) /\ mu = None
  /\ \/ connected /\ GetReturns(a, TRUE) /\ UNCHANGED <<mu, held>>
     \/ ~connected /\ since < RetryAfter /\ GetReturns(a, FALSE) /\ UNCHANGED <<mu, held>>
     \/ /\ ~connected /\ since = RetryAfter /\ mu' = a /\ held' = 0
        /\ UNCHANGED <<running, cookie, logins, request>>
  /\ UNCHANGED <<idp, connected, since, gap, account>>

\* Mutant of Attempted: the time of the attempt is when it began.
AttemptedAtStart(ok) ==
  connected' = ok /\ since' = (IF ok \/ held > RetryAfter THEN RetryAfter ELSE held)

\* lastAttempt is when the attempt ended; it matters where it failed.
Attempted(ok) == connected' = ok /\ since' = (IF ok THEN RetryAfter ELSE 0)

\* Discovery ends: with the provider, or with an error where it is down, too slow
\* or the caller's context is cancelled.
AttemptEnds(a, ok) ==
  /\ mu = a /\ InGet(a) /\ Attempted(ok) /\ mu' = None /\ held' = 0
  /\ gap' = (IF ok THEN RetryAfter ELSE 0)
  /\ GetReturns(a, ok)
  /\ UNCHANGED <<idp, account>>

Discovered(a) == idp = "up" /\ ~(a = "server" /\ stopping) /\ AttemptEnds(a, TRUE)
DiscoveryFails(a) == (idp = "down" \/ (a = "server" /\ stopping)) /\ AttemptEnds(a, FALSE)

\* The browser goes away while its request runs discovery.  (GetAuthCodeURL asks
\* with a context of its own.)
GivesUp(a) == a \in Calls /\ request[a].pc # "url" /\ idp = "up" /\ AttemptEnds(a, FALSE)

-----------------------------------------------------------------------------
(* Run, and the server's start and stop.                                     *)

\* Mutant of Run: it returns with the error of an attempt.
RunOnce ==
  /\ server = "wait"
  /\ \/ (connected \/ stopping \/ since < RetryAfter) /\ server' = "done" /\ due' = FALSE
     \/ ~connected /\ due /\ since = RetryAfter /\ server' = "get" /\ due' = FALSE
  /\ UNCHANGED <<idp, discovery, stopping, cookie, logins, account, request>>

\* Run retries at every tick until it has connected or is cancelled.
Run ==
  /\ server = "wait"
  /\ \/ (connected \/ stopping) /\ server' = "done" /\ due' = FALSE
     \/ ~connected /\ due /\ server' = "get" /\ due' = FALSE
  /\ UNCHANGED <<idp, discovery, stopping, cookie, logins, account, request>>

TickerTicks ==
  /\ server \in {"wait", "get"} /\ due' = TRUE
  /\ UNCHANGED <<idp, discovery, server, stopping, cookie, logins, account, request>>

\* OnStop cancels Run and waits for it.  The HTTP server is stopped before: it
\* takes no new request, and one that lasts longer than the stop goes on.
Stop ==
  /\ server # "boot" /\ ~stopping /\ stopping' = TRUE
  /\ UNCHANGED <<idp, discovery, server, due, cookie, logins, account, request>>

\* The server starts again, after a stop or a crash: what it had in memory, and
\* the requests, are gone.
ServerRestarts ==
  /\ connected' = FALSE /\ since' = RetryAfter /\ gap' = RetryAfter /\ mu' = None /\ held' = 0
  /\ server' = "boot" /\ due' = FALSE /\ stopping' = FALSE
  /\ request' = [c \in Calls |-> NoRequest]
  /\ UNCHANGED <<idp, cookie, logins, account>>

\* Time passes; discovery takes no longer than its timeout.
TimePasses ==
  /\ mu = None \/ held < Timeout
  /\ held' = (IF mu = None THEN 0 ELSE held + 1)
  /\ since' = Older(since)
  /\ gap' = (IF mu = None THEN Older(gap) ELSE gap)
  /\ UNCHANGED <<idp, connected, mu, running, cookie, logins, account, request>>

-----------------------------------------------------------------------------
(* A login and its callback.                                                 *)

Serving == server # "boot" /\ ~stopping
Beginning == {c \in Calls : request[c].pc \in {"ready", "url"}}
Begin(c, b, pc) ==
  /\ Serving /\ request[c] = NoRequest /\ Len(logins) + Cardinality(Beginning) < MaxLogins
  /\ request' = [request EXCEPT ![c] = [pc |-> pc, browser |-> b]]
  /\ UNCHANGED <<idp, discovery, running, cookie, logins, account>>

handleOAuth2Login(c, b) == Begin(c, b, "ready")

\* The login's cookie reaches its max age.
Expires(b) ==
  /\ cookie[b] # 0 /\ cookie' = [cookie EXCEPT ![b] = 0]
  /\ UNCHANGED <<idp, discovery, running, logins, account, request>>

\* Take: the browser's login has the callback's state.  Where it does not, the
\* callback is refused and leaves the cookie alone.
Take(b, login) == cookie[b] = login

\* A callback link may be opened again and in another browser; the cookie goes
\* with the answer only.
CallbackBegins(c, b, login) ==
  /\ Serving /\ request[c] = NoRequest /\ logins[login].code # "no" /\ Take(b, login)
  /\ request' = [request EXCEPT ![c] = [pc |-> "exchange", browser |-> b, login |-> login]]
  /\ UNCHANGED <<idp, discovery, running, cookie, logins, account>>

\* Exchange redeems the code, once, and VerifyLoginIDToken accepts the token; each
\* may fail.
Exchange(c) ==
  /\ request[c].pc = "redeem"
  /\ \/ /\ idp = "up" /\ logins[request[c].login].code = "issued"
        /\ logins' = [logins EXCEPT ![request[c].login].code = "used"]
        /\ \/ \E claim \in Claims :
                /\ ProceedWith(c, "store", claim)
                /\ vouched' = (vouched \/ (claim.listed /\ claim.verified))
                /\ UNCHANGED cookie
           \/ Answer(c) /\ UNCHANGED vouched
     \/ Answer(c) /\ UNCHANGED <<logins, vouched>>
  /\ UNCHANGED <<idp, discovery, running, stored, admin>>

\* Mutant of Stored: a verified address stays verified.
StoredOnceVerified(claim) == [claim EXCEPT !.verified = @ \/ stored.verified]

Stored(claim) == claim

\* FindOrCreateUser stores the claims in the account and reads it again, which
\* may give the claims of another login of the account.
StoreUser(c) ==
  /\ \/ /\ request[c].pc = "store" /\ stored' = Stored(request[c].claim) /\ UNCHANGED cookie
        /\ request' = [request EXCEPT ![c] = [pc |-> "reload", browser |-> @.browser, login |-> @.login]]
     \/ /\ request[c].pc = "reload" /\ UNCHANGED <<stored, cookie>>
        /\ ProceedWith(c, "admin", stored)
     \/ request[c].pc \in {"store", "reload"} /\ Answer(c) /\ UNCHANGED stored
  /\ UNCHANGED <<idp, discovery, running, logins, admin, vouched>>

ShouldBeAdmin(claim) == claim.listed

\* EnsureAdminRole: a verified address in admin_users gets the role.
EnsureAdminRole(claim) == admin \/ (ShouldBeAdmin(claim) /\ claim.verified)

\* The end of the callback: a failed EnsureAdminRole is logged, a failed
\* SaveSession is an error.
SaveSession(c) ==
  /\ request[c].pc = "admin" /\ Answer(c) /\ admin' \in {admin, EnsureAdminRole(request[c].claim)}
  /\ UNCHANGED <<idp, discovery, running, logins, stored, vouched>>

-----------------------------------------------------------------------------
(* The identity provider and the person.                                     *)

IdpChanges ==
  /\ idp' = (IF idp = "up" THEN "down" ELSE "up")
  /\ UNCHANGED <<discovery, running, cookie, logins, account, request>>

Authorizes(login) ==
  /\ idp = "up" /\ logins[login].code = "no" /\ logins[login].url
  /\ logins' = [logins EXCEPT ![login].code = "issued"]
  /\ UNCHANGED <<idp, discovery, running, cookie, account, request>>

-----------------------------------------------------------------------------
Actors == Calls \cup {"server"}

LoginNext ==
  \/ \E a \in Actors : Get(a) \/ Discovered(a) \/ DiscoveryFails(a) \/ GivesUp(a)
  \/ Run \/ TickerTicks \/ Stop \/ ServerRestarts \/ TimePasses
  \/ \E c \in Calls, b \in Browsers : handleOAuth2Login(c, b)
  \/ \E c \in Calls, b \in Browsers, l \in DOMAIN logins : CallbackBegins(c, b, l)
  \/ \E c \in Calls : Exchange(c) \/ StoreUser(c) \/ SaveSession(c)
  \/ \E b \in Browsers : Expires(b)
  \/ IdpChanges
  \/ \E l \in DOMAIN logins : Authorizes(l)

\* Time passes, Run gets its turns, also at the mutex, and discovery ends.
LoginFairness ==
  /\ WF_loginVars(TimePasses) /\ WF_loginVars(TickerTicks) /\ WF_loginVars(Run)
  /\ SF_loginVars(Get("server"))
  /\ WF_loginVars(\E a \in Actors : Discovered(a) \/ DiscoveryFails(a))

LoginSpec == LoginInit /\ [][LoginNext]_loginVars /\ LoginFairness

-----------------------------------------------------------------------------
(* Properties.                                                               *)

\* The types of the state; the mutex is held by who is in get, nobody discovers
\* again once connected, and every login got a URL: what Ready found is there when
\* GetAuthCodeURL asks again.
LoginTypes ==
  /\ idp \in {"up", "down"} /\ stored \in AllClaims
  /\ connected \in BOOLEAN /\ since \in 0..RetryAfter /\ held \in 0..Timeout /\ gap \in 0..RetryAfter
  /\ mu \in Actors \cup {None} /\ (mu # None => InGet(mu) /\ ~connected)
  /\ server \in {"boot", "wait", "get", "done"}
  /\ \A b \in Browsers : cookie[b] \in 0..Len(logins)
  /\ \A l \in DOMAIN logins : logins[l].url

\* A browser is signed in by a login it began, whatever links are opened where,
\* and however often (LoginCookie.Take); and the account is an administrator only
\* if one ID token called its address both listed and verified, also when logins
\* of the account overlap (EnsureAdminRole).  The types hold.
SignInVouched ==
  [][/\ LoginTypes' /\ (admin' => vouched')
     /\ \A c \in Calls : SaveSession(c) => logins[request[c].login].browser = request[c].browser]_loginVars

\* "Attempts are spaced at least retryAfter apart", also for callers queued behind
\* one that hung.
AttemptsSpaced == [][mu = None /\ mu' # None => gap = RetryAfter]_loginVars

\* An identity provider that is back is connected to in the end without a login
\* or a restart, unless browsers keep giving up during discovery.
Recovers ==
  <>[](idp = "up") /\ <>[][~Stop /\ ~ServerRestarts /\ \A c \in Calls : ~GivesUp(c)]_loginVars
    => <>[](connected \/ stopping)
=============================================================================
