----------------------------- MODULE AuthSession -----------------------------
(***************************************************************************)
(* The sessions of one account: the API's AuthService, AuthSessionService, *)
(* AuthCacheService and authenticate middleware, and the web client's      *)
(* guarded base query with its per-tab refresh mutex and auth slice.  The  *)
(* tabs of a browser share one refresh cookie.                             *)
(*                                                                         *)
(* A call is one request of a tab, from the moment it is sent to the       *)
(* moment its answer has been handled; each await on the way is a step.    *)
(***************************************************************************)
EXTENDS Naturals, FiniteSets

CONSTANTS
    Tabs,       \* tabs of one browser
    Calls,      \* calls, each made at most once
    Fetches,    \* bound: the calls that are plain authenticated requests
    First,      \* the session that exists at the start, its first token
    None,       \* no token, no holder
    MaxLost     \* bound: refresh answers the network loses

ASSUME NamesAssumption == First \notin Calls /\ None \notin Calls \union {First}
ASSUME TabsAssumption == Tabs # {}
ASSUME FetchesAssumption == Fetches \subseteq Calls
ASSUME LostAssumption == MaxLost \in Nat

\* Sessions, access tokens and refresh tokens are named after the call that made them.
Origin == Calls \union {First}

RefreshToken == [session: Origin, by: Origin]

VARIABLES
    active,         \* User.active
    cached,         \* AuthCacheService holds the user
    session,        \* the auth_sessions collection: state and refreshTokenHash
    expired,        \* access tokens past their expiry
    blacklist,      \* access tokens blacklisted by a logout
    cookie,         \* the refresh token in the browser
    tab,            \* the auth slice of each tab
    mutex,          \* the call that holds the refresh mutex of each tab
    call,           \* the calls
    lost            \* answers lost so far

server == <<active, cached, session, blacklist>>
client == <<cookie, tab, mutex>>
vars == <<server, expired, client, call, lost>>

----------------------------------------------------------------------------
(* Local states.                                                           *)

Refreshing == {"assert", "owner", "find", "rotate", "granted", "denied"}

CallPc == {"idle", "auth", "lookup", "fill", "ok", "401", "queued", "revoke", "block", "purge",
           "check", "create", "welcome", "password", "cut", "mark", "bye", "done"} \union Refreshing

Kind == {"fetch", "logout", "logoutAll", "login", "reset", "delete"}

Write == {"sessions", "cache", "token"}

Call == [kind: Kind, tab: Tabs, pc: CallPc, access: Origin \union {None},
         token: RefreshToken \union {None}, retried: BOOLEAN, pending: SUBSET Write, late: BOOLEAN]

NoCall(pc) == [kind |-> "fetch", tab |-> CHOOSE t \in Tabs : TRUE, pc |-> pc, access |-> None,
               token |-> None, retried |-> FALSE, pending |-> {}, late |-> FALSE]

TabState == [access: Origin \union {None}, isLoggedOut: BOOLEAN]

SessionDoc == [state: {"none", "live", "revoked"}, hash: Origin]

TypeOK ==
    /\ active \in BOOLEAN /\ cached \in BOOLEAN
    /\ session \in [Origin -> SessionDoc]
    /\ expired \in SUBSET Origin
    /\ blacklist \in SUBSET Origin
    /\ cookie \in RefreshToken \union {None}
    /\ tab \in [Tabs -> TabState]
    /\ mutex \in [Tabs -> Calls \union {None}]
    /\ call \in [Calls -> Call]
    /\ lost \in 0 .. MaxLost

\* Every tab has just been loaded: AuthInitializer has no access token yet.
Init ==
    /\ active = TRUE
    /\ cached = FALSE
    /\ session = [s \in Origin |-> [state |-> IF s = First THEN "live" ELSE "none", hash |-> s]]
    /\ expired = {}
    /\ blacklist = {}
    /\ cookie = [session |-> First, by |-> First]
    /\ tab = [t \in Tabs |-> [access |-> None, isLoggedOut |-> FALSE]]
    /\ mutex = [t \in Tabs |-> None]
    /\ call = [c \in Calls |-> NoCall("idle")]
    /\ lost = 0

At(c, pc) == call[c].pc = pc
Goto(c, pc) == call' = [call EXCEPT ![c].pc = pc]
Choose(c, test, yes, no) == Goto(c, IF test THEN yes ELSE no)
Home(c) == call[c].tab

----------------------------------------------------------------------------
(* authSlice.                                                              *)

ClearSession(t) == tab' = [tab EXCEPT ![t] = [access |-> None, isLoggedOut |-> TRUE]]

SetAccessToken(t, a) == tab' = [tab EXCEPT ![t] = [access |-> a, isLoggedOut |-> FALSE]]

\* A fetch may be the getMe of AuthInitializer, which keeps the user it is answered
\* with and, when it fails, drops the token.  Neither tells the tab it is logged out.
SetUser(t) == tab' = [tab EXCEPT ![t].isLoggedOut = FALSE]

MarkUnauthenticated(t) == tab' = [tab EXCEPT ![t].access = None]

\* Variant with a bug: the mutex is only released by a call that succeeds.
ReleaseOnSuccess(c) == mutex' = [mutex EXCEPT ![Home(c)] = IF @ = c /\ ~At(c, "denied") THEN None ELSE @]

\* The finally block around the refresh and the retry.
Release(c) == mutex' = [mutex EXCEPT ![Home(c)] = IF @ = c THEN None ELSE @]

Finish(c) == Release(c) /\ call' = [call EXCEPT ![c] = NoCall("done")]

----------------------------------------------------------------------------
(* The browser sends a call: baseQueryWithAuthGuard waits for the mutex.   *)

Entry == [fetch |-> "auth", logout |-> "revoke", logoutAll |-> "auth",
          login |-> "check", reset |-> "password", delete |-> "auth"]

Send(c, t, kind) ==
    /\ At(c, "idle")
    /\ c \in Fetches => kind = "fetch"
    /\ mutex[t] = None
    /\ call' = [call EXCEPT ![c].kind = kind, ![c].tab = t, ![c].pc = Entry[kind],
                            ![c].access = tab[t].access,
                            ![c].token = IF kind = "logout" THEN cookie ELSE None]
    /\ UNCHANGED <<server, expired, client, lost>>

Resend(c, a) == call' = [call EXCEPT ![c].pc = "auth", ![c].access = a, ![c].retried = TRUE]

----------------------------------------------------------------------------
(* authenticate: token, blacklist, cached user, else the user document.    *)

\* Where an authenticated route goes on.
Handler(kind) == IF kind = "logoutAll" THEN "purge" ELSE IF kind = "delete" THEN "mark" ELSE "ok"

Admit(c) == call' = [call EXCEPT ![c].pc = Handler(call[c].kind),
                                 ![c].pending = IF call[c].kind = "logoutAll" THEN Write ELSE {}]

Accepted(a) == a \notin {None} \union expired \union blacklist

Authenticate(c) ==
    /\ At(c, "auth")
    /\ IF Accepted(call[c].access) /\ cached
       THEN Admit(c)
       ELSE Choose(c, Accepted(call[c].access), "lookup", "401")
    /\ UNCHANGED <<server, expired, client, lost>>

LookupUser(c) ==
    /\ At(c, "lookup")
    /\ Choose(c, active, "fill", "401")
    /\ UNCHANGED <<server, expired, client, lost>>

\* A failing cache is ignored.
FillCache(c) ==
    /\ At(c, "fill")
    /\ cached' \in {TRUE, cached}
    /\ Admit(c)
    /\ UNCHANGED <<active, session, blacklist, expired, client, lost>>

\* Variant with a bug: the entry is set without a time to live.
NoExpiry == FALSE /\ UNCHANGED vars

\* AUTH_USER_CACHE_TTL_SECONDS.
CacheExpires ==
    /\ cached
    /\ cached' = FALSE
    /\ UNCHANGED <<active, session, blacklist, expired, client, call, lost>>

TokenExpires(t) ==
    /\ tab[t].access \notin {None} \union expired
    /\ expired' = expired \union {tab[t].access}
    /\ UNCHANGED <<server, client, call, lost>>

----------------------------------------------------------------------------
(* The client handles the answer of a guarded call.                        *)

\* Also an error other than 401: it is handed to the caller.
Answered(c) ==
    /\ At(c, "ok")
    /\ Finish(c)
    /\ \/ UNCHANGED tab
       \/ call[c].kind = "fetch" /\ (SetUser(Home(c)) \/ MarkUnauthenticated(Home(c)))
    /\ UNCHANGED <<server, expired, cookie, lost>>

\* The caller gets an error: logoutAllDevices clears the session in a finally block.
Fail(c) ==
    /\ Finish(c)
    /\ \/ call[c].kind # "logoutAll" /\ UNCHANGED tab
       \/ call[c].kind = "logoutAll" /\ ClearSession(Home(c))
       \/ call[c].kind = "fetch" /\ MarkUnauthenticated(Home(c))
    /\ UNCHANGED <<server, expired, cookie, lost>>

GiveUp(c) ==
    /\ At(c, "401")
    /\ call[c].retried \/ tab[Home(c)].isLoggedOut
    /\ Fail(c)

\* Variant with a bug: the mutex is not looked at.
NeverLocked(t) == TRUE

Unlocked(t) == mutex[t] = None

StartRefresh(c) ==
    /\ At(c, "401")
    /\ ~call[c].retried /\ ~tab[Home(c)].isLoggedOut
    /\ IF Unlocked(Home(c))
       THEN /\ mutex' = [mutex EXCEPT ![Home(c)] = c]
            /\ call' = [call EXCEPT ![c].pc = "assert", ![c].token = cookie]
       ELSE /\ Goto(c, "queued")
            /\ UNCHANGED mutex
    /\ UNCHANGED <<server, expired, cookie, tab, lost>>

WakeUp(c) ==
    /\ At(c, "queued")
    /\ mutex[Home(c)] = None
    /\ IF tab[Home(c)].isLoggedOut
       THEN Fail(c)
       ELSE /\ Resend(c, tab[Home(c)].access)
            /\ UNCHANGED <<server, expired, client, lost>>

----------------------------------------------------------------------------
(* POST /auth/refresh.                                                     *)

\* findActiveByIdAndHash
FindActive(k) == k # None /\ session[k.session] = [state |-> "live", hash |-> k.by]

AssertValidRefreshSession(c) ==
    /\ At(c, "assert")
    /\ call' = [call EXCEPT ![c].pc = IF FindActive(call[c].token) THEN "owner" ELSE "denied",
                            ![c].late = ~active]
    /\ UNCHANGED <<server, expired, client, lost>>

\* Variant with a bug: a session is trusted without its user.
TrustSession == TRUE

\* users.findById only finds an active account.
AccountExists == active

FindSessionUser(c) ==
    /\ At(c, "owner")
    /\ Choose(c, AccountExists, "find", "denied")
    /\ UNCHANGED <<server, expired, client, lost>>

RotateFind(c) ==
    /\ At(c, "find")
    /\ Choose(c, FindActive(call[c].token), "rotate", "denied")
    /\ UNCHANGED <<server, expired, client, lost>>

\* updateRefreshToken: its filter has the id and revokedAt only, its result is not used.
RotateUpdate(c) ==
    /\ At(c, "rotate")
    /\ session' = [session EXCEPT ![call[c].token.session].hash =
                        IF session[call[c].token.session].state = "live" THEN c ELSE @]
    /\ Goto(c, "granted")
    /\ UNCHANGED <<active, cached, blacklist, expired, client, lost>>

\* The answer arrives: the cookie is set, then setAccessToken and the retry.
RefreshGranted(c) ==
    /\ At(c, "granted")
    /\ cookie' = [call[c].token EXCEPT !.by = c]
    /\ SetAccessToken(Home(c), c)
    /\ Resend(c, c)
    /\ UNCHANGED <<server, expired, mutex, lost>>

\* The refresh was denied or its answer lost: extractAccessToken throws on an answer without
\* data, before clearSession is reached, so the call rejects and the tab is not logged out.
RefreshDenied(c) ==
    /\ At(c, "denied")
    /\ Fail(c)

LoseAnswer(c) ==
    /\ At(c, "granted")
    /\ lost < MaxLost
    /\ lost' = lost + 1
    /\ Goto(c, "denied")
    /\ UNCHANGED <<server, expired, client>>

----------------------------------------------------------------------------
(* Logout, logout of all devices, password reset, account deletion.        *)

\* revokeByIdAndHash, or nothing when the cookie was absent.
RevokeSession(c) ==
    /\ At(c, "revoke")
    /\ session' = [s \in Origin |-> [session[s] EXCEPT !.state =
                        IF FindActive(call[c].token) /\ s = call[c].token.session THEN "revoked" ELSE @]]
    /\ Goto(c, "block")
    /\ UNCHANGED <<active, cached, blacklist, expired, client, lost>>

BlacklistAccessToken(c) ==
    /\ At(c, "block")
    /\ blacklist' \in {blacklist, blacklist \union ({call[c].access} \ {None})}
    /\ Goto(c, "bye")
    /\ UNCHANGED <<active, cached, session, expired, client, lost>>

Revoked == [s \in Origin |-> [session[s] EXCEPT !.state = IF @ = "live" THEN "revoked" ELSE @]]

\* The branches of a Promise.all of logoutAllDevices and of deleteUserAccount.  Here and
\* above, a cache that fails or is switched off is ignored (runIfEnabled).
Purge(c, w) ==
    /\ At(c, "purge")
    /\ w \in call[c].pending
    /\ session' = IF w = "sessions" THEN Revoked ELSE session
    /\ cached' \in {cached, cached /\ w # "cache"}
    /\ blacklist' \in {blacklist, IF w = "token" THEN blacklist \union {call[c].access} ELSE blacklist}
    /\ call' = [call EXCEPT ![c].pending = @ \ {w}, ![c].pc = IF call[c].pending = {w} THEN "bye" ELSE @]
    /\ UNCHANGED <<active, expired, client, lost>>

\* updatePassword only changes an active account.
UpdatePassword(c) ==
    /\ At(c, "password")
    /\ Choose(c, active, "cut", "ok")
    /\ UNCHANGED <<server, expired, client, lost>>

RevokeAfterReset(c) ==
    /\ At(c, "cut")
    /\ session' = Revoked
    /\ Goto(c, "bye")
    /\ UNCHANGED <<active, cached, blacklist, expired, client, lost>>

MarkInactive(c) ==
    /\ At(c, "mark")
    /\ active' = FALSE
    /\ call' = [call EXCEPT ![c].pc = IF active THEN "purge" ELSE "ok",
                            ![c].pending = IF active THEN {"sessions", "cache"} ELSE {}]
    /\ UNCHANGED <<cached, session, blacklist, expired, client, lost>>

\* The answer arrives: clearSession; the two logouts also clear the cookie.
Goodbye(c) ==
    /\ At(c, "bye")
    /\ cookie' = IF call[c].kind \in {"logout", "logoutAll"} THEN None ELSE cookie
    /\ ClearSession(Home(c))
    /\ Finish(c)
    /\ UNCHANGED <<server, expired, lost>>

----------------------------------------------------------------------------
(* loginUser, googleSign and verifyOtpAndRegister.                         *)

CheckCredentials(c) ==
    /\ At(c, "check")
    /\ Choose(c, active, "create", "ok")
    /\ UNCHANGED <<server, expired, client, lost>>

CreateSession(c) ==
    /\ At(c, "create")
    /\ session' = [session EXCEPT ![c].state = "live"]
    /\ Goto(c, "welcome")
    /\ UNCHANGED <<active, cached, blacklist, expired, client, lost>>

SetCredentials(c) ==
    /\ At(c, "welcome")
    /\ cookie' = [session |-> c, by |-> c]
    /\ SetAccessToken(Home(c), c)
    /\ Finish(c)
    /\ UNCHANGED <<server, expired, lost>>

----------------------------------------------------------------------------
Step(c) ==
    \/ Authenticate(c) \/ LookupUser(c) \/ FillCache(c)
    \/ Answered(c) \/ GiveUp(c) \/ StartRefresh(c) \/ WakeUp(c)
    \/ AssertValidRefreshSession(c) \/ FindSessionUser(c) \/ RotateFind(c) \/ RotateUpdate(c)
    \/ RefreshGranted(c) \/ RefreshDenied(c)
    \/ RevokeSession(c) \/ BlacklistAccessToken(c) \/ UpdatePassword(c) \/ RevokeAfterReset(c)
    \/ MarkInactive(c) \/ (\E w \in Write : Purge(c, w)) \/ Goodbye(c)
    \/ CheckCredentials(c) \/ CreateSession(c) \/ SetCredentials(c)

Next ==
    \/ \E c \in Calls : Step(c) \/ LoseAnswer(c)
    \/ \E c \in Calls, t \in Tabs, k \in Kind : Send(c, t, k)
    \/ \E t \in Tabs : TokenExpires(t)
    \/ CacheExpires

\* The server and the browser go on; nothing makes a user send a call.
Fairness ==
    /\ \A c \in Calls : WF_vars(Step(c))
    /\ WF_vars(CacheExpires)

Spec == Init /\ [][Next]_vars /\ Fairness

----------------------------------------------------------------------------
(* Properties.                                                             *)

\* The cookie of a browser is the current token of its session, unless the session is
\* revoked, an answer carrying the newer token is on its way, or one was lost: the
\* per-tab mutex and the rotation fit together (baseQueryWithAuthGuard, rotateSession).
CookieIsCurrent ==
    lost = 0 /\ cookie # None =>
        \/ session[cookie.session].state = "revoked"
        \/ session[cookie.session].hash = cookie.by
        \/ \E c \in Calls : At(c, "granted") /\ call[c].token.session = cookie.session

\* A refresh that starts after the account was deactivated gets no tokens, even when a
\* login that checked the account before has created a session since (refresh, deleteUserAccount).
InactiveIsOut == \A c \in Calls : call[c].late => ~At(c, "rotate") /\ ~At(c, "granted")

\* authenticate may cache a user it read before a deactivation and serve it, but not for ever.
DeactivationTakesEffect == <>[](active \/ ~cached)

\* Every call ends, also when the refresh it waits for is denied, lost or throws: a waiter is
\* not left behind a mutex nobody releases, and no refresh is retried for ever.
CallsSettle == <>[](\A c \in Calls : At(c, "idle") \/ At(c, "done"))
==============================================================================
