-------------------------- MODULE AuthSession_proofs --------------------------
(***************************************************************************)
(* Type correctness of the sessions of an account, that a deactivated      *)
(* account gets no new tokens, for any number of tabs and calls, and that  *)
(* the cookie of a browser with one tab is current.                        *)
(***************************************************************************)
EXTENDS AuthSession, TLAPS

\* A refresh that goes on presented a cookie; a request that goes on presented an access token.
Equipped(x) ==
    /\ x.pc \in {"owner", "find", "rotate", "granted"} => x.token # None
    /\ x.pc \in {"lookup", "fill"} => x.access # None
    /\ "token" \in x.pending => x.pc = "purge" /\ x.access # None

CallsOK ==
    /\ call \in [Calls -> Call]
    /\ \A c \in Calls : Equipped(call[c])

DataOK ==
    /\ active \in BOOLEAN /\ cached \in BOOLEAN
    /\ session \in [Origin -> SessionDoc]
    /\ expired \in SUBSET Origin
    /\ blacklist \in SUBSET Origin
    /\ cookie \in RefreshToken \union {None}
    /\ tab \in [Tabs -> TabState]
    /\ mutex \in [Tabs -> Calls \union {None}]
    /\ lost \in 0 .. MaxLost

IInv == DataOK /\ CallsOK

LEMMA NoCallType == 
  \A pc \in {"idle", "done"} : NoCall(pc) \in Call /\ Equipped(NoCall(pc))
  <1>1. (CHOOSE t \in Tabs : TRUE) \in Tabs
    BY TabsAssumption
  <1> QED
    BY <1>1 DEF NoCall, Call, CallPc, Kind, Equipped

----------------------------------------------------------------------------
(* How a step changes the calls.                                           *)

\* A call that becomes a well-formed one leaves the calls well formed.
LEMMA UpdateOK ==
  ASSUME CallsOK, NEW c \in Calls, NEW x \in Call, Equipped(x), call' = [call EXCEPT ![c] = x]
  PROVE  CallsOK'
  BY DEF CallsOK

LEMMA GotoOK ==
  ASSUME CallsOK, NEW c \in Calls, NEW pc \in CallPc, Goto(c, pc),
         ~At(c, "purge"),
         pc \in {"owner", "find", "rotate", "granted"} => call[c].token # None,
         pc \in {"lookup", "fill"} => call[c].access # None
  PROVE  CallsOK'
  <1> DEFINE x == [call[c] EXCEPT !.pc = pc]
  <1>1. x \in Call /\ Equipped(x)
    BY DEF At, CallsOK, Call, Equipped
  <1>2. call' = [call EXCEPT ![c] = x]
    BY DEF CallsOK, Goto
  <1> QED
    BY <1>1, <1>2, UpdateOK

LEMMA FinishOK ==
  ASSUME IInv, NEW c \in Calls, Finish(c)
  PROVE  CallsOK' /\ mutex' \in [Tabs -> Calls \union {None}]
  <1>1. NoCall("done") \in Call /\ Equipped(NoCall("done"))
    BY NoCallType
  <1>2. CallsOK'
    BY <1>1, UpdateOK DEF IInv, Finish
  <1>3. mutex' \in [Tabs -> Calls \union {None}]
    BY DEF IInv, DataOK, Finish, Release
  <1> QED
    BY <1>2, <1>3

LEMMA ClearOK ==
  ASSUME DataOK, NEW t \in Tabs, ClearSession(t)
  PROVE  tab' \in [Tabs -> TabState]
  BY DEF DataOK, ClearSession, TabState

\* What an answer other than a token does to its tab.
LEMMA TabOK ==
  ASSUME DataOK, NEW t \in Tabs,
         UNCHANGED tab \/ SetUser(t) \/ MarkUnauthenticated(t) \/ ClearSession(t)
  PROVE  tab' \in [Tabs -> TabState]
  <1>1. CASE UNCHANGED tab
    BY <1>1 DEF DataOK
  <1>2. CASE SetUser(t)
    BY <1>2 DEF DataOK, SetUser, TabState
  <1>3. CASE MarkUnauthenticated(t)
    BY <1>3 DEF DataOK, MarkUnauthenticated, TabState
  <1> QED
    BY <1>1, <1>2, <1>3, ClearOK

LEMMA FailOK ==
  ASSUME IInv, NEW c \in Calls, Fail(c) \/ Answered(c)
  PROVE  CallsOK' /\ DataOK'
  <1>1. Finish(c) /\ UNCHANGED <<server, expired, cookie, lost>>
    BY DEF Fail, Answered
  <1>2. CallsOK' /\ mutex' \in [Tabs -> Calls \union {None}]
    BY <1>1, FinishOK
  <1>3. Home(c) \in Tabs
    BY DEF IInv, CallsOK, Call, Home
  <1>4. UNCHANGED tab \/ SetUser(Home(c)) \/ MarkUnauthenticated(Home(c)) \/ ClearSession(Home(c))
    BY DEF Fail, Answered
  <1>5. tab' \in [Tabs -> TabState]
    <2> DEFINE t == Home(c)
    <2>1. t \in Tabs /\ (UNCHANGED tab \/ SetUser(t) \/ MarkUnauthenticated(t) \/ ClearSession(t))
      BY <1>3, <1>4
    <2> HIDE DEF t
    <2> QED
      BY <2>1, TabOK DEF IInv
  <1> QED
    BY <1>1, <1>2, <1>5 DEF IInv, DataOK, server

LEMMA SetOK ==
  ASSUME DataOK, NEW t \in Tabs, NEW a \in Origin, SetAccessToken(t, a)
  PROVE  tab' \in [Tabs -> TabState]
  BY DEF DataOK, SetAccessToken, TabState

LEMMA ResendOK ==
  ASSUME CallsOK, NEW c \in Calls, NEW a \in Origin \union {None}, Resend(c, a), ~At(c, "purge")
  PROVE  CallsOK'
  <1> DEFINE x == [call[c] EXCEPT !.pc = "auth", !.access = a, !.retried = TRUE]
  <1>1. x \in Call /\ Equipped(x)
    BY DEF At, CallsOK, Call, CallPc, Equipped
  <1>2. call' = [call EXCEPT ![c] = x]
    BY DEF CallsOK, Resend
  <1> QED
    BY <1>1, <1>2, UpdateOK

LEMMA AdmitOK ==
  ASSUME CallsOK, NEW c \in Calls, Admit(c), call[c].access # None
  PROVE  CallsOK'
  <1> DEFINE x == [call[c] EXCEPT !.pc = Handler(call[c].kind),
                                  !.pending = IF call[c].kind = "logoutAll" THEN Write ELSE {}]
  <1>a. x \in Call
    BY DEF CallsOK, Call, CallPc, Handler
  <1>b. Equipped(x)
    BY DEF CallsOK, Call, Equipped, Handler
  <1>1. x \in Call /\ Equipped(x)
    BY <1>a, <1>b
  <1>2. call' = [call EXCEPT ![c] = x]
    BY DEF CallsOK, Admit
  <1> QED
    BY <1>1, <1>2, UpdateOK

LEMMA InitInv == Init => IInv
  <1> SUFFICES ASSUME Init PROVE IInv
    OBVIOUS
  <1>1. NoCall("idle") \in Call /\ Equipped(NoCall("idle"))
    BY NoCallType
  <1>2. CallsOK
    BY <1>1 DEF Init, CallsOK
  <1>3. session \in [Origin -> SessionDoc] /\ cookie \in RefreshToken
    BY DEF Init, SessionDoc, RefreshToken, Origin
  <1>4. tab \in [Tabs -> TabState] /\ mutex \in [Tabs -> Calls \union {None}] /\ lost \in 0 .. MaxLost
    BY LostAssumption DEF Init, TabState
  <1> QED
    BY <1>2, <1>3, <1>4 DEF IInv, DataOK, Init

----------------------------------------------------------------------------
(* The invariant holds after every step.                                   *)

LEMMA RequestSteps ==
  ASSUME IInv, NEW c \in Calls,
         \/ Authenticate(c) \/ LookupUser(c) \/ FillCache(c)
         \/ \E t \in Tabs, k \in Kind : Send(c, t, k)
  PROVE  IInv'
  <1> USE DEF At, Choose, server, client
  <1> SUFFICES CallsOK' /\ DataOK'
    BY DEF IInv
  <1>1. CASE \E t \in Tabs, k \in Kind : Send(c, t, k)
    <2>1. PICK t \in Tabs, k \in Kind : Send(c, t, k)
      BY <1>1
    <2> DEFINE x == [call[c] EXCEPT !.kind = k, !.tab = t, !.pc = Entry[k], !.access = tab[t].access,
                                    !.token = IF k = "logout" THEN cookie ELSE None]
    <2>2. tab[t].access \in Origin \union {None}
      BY DEF IInv, DataOK, TabState
    <2>3. Entry[k] \in {"auth", "revoke", "check", "password"}
      BY DEF Kind, Entry
    <2>a. "token" \notin call[c].pending
      BY <2>1 DEF Send, IInv, CallsOK, Equipped
    <2>d. call[c] \in Call /\ Entry[k] \in CallPc
      BY <2>3 DEF IInv, CallsOK, CallPc
    <2>e. (IF k = "logout" THEN cookie ELSE None) \in RefreshToken \union {None}
      BY DEF IInv, DataOK
    <2>b. x \in Call
      BY <2>2, <2>d, <2>e DEF Call
    <2>c. Equipped(x)
      BY <2>3, <2>a DEF IInv, CallsOK, Call, Equipped
    <2>4. x \in Call /\ Equipped(x)
      BY <2>b, <2>c
    <2>5. call' = [call EXCEPT ![c] = x]
      BY <2>1 DEF Send, IInv, CallsOK
    <2>6. CallsOK'
      BY <2>4, <2>5, UpdateOK DEF IInv
    <2> QED
      BY <2>1, <2>6 DEF IInv, DataOK, Send
  <1>2. CASE Authenticate(c)
    <2>1. CallsOK'
      BY <1>2, AdmitOK, GotoOK DEF Authenticate, Accepted, IInv, CallPc
    <2> QED
      BY <1>2, <2>1 DEF IInv, DataOK, Authenticate
  <1>3. CASE LookupUser(c)
    <2>1. CallsOK'
      BY <1>3, GotoOK DEF LookupUser, IInv, CallPc, CallsOK, Equipped
    <2> QED
      BY <1>3, <2>1 DEF IInv, DataOK, LookupUser
  <1>4. CASE FillCache(c)
    <2>1. CallsOK'
      BY <1>4, AdmitOK DEF FillCache, IInv, CallsOK, Equipped
    <2> QED
      BY <1>4, <2>1 DEF IInv, DataOK, FillCache
  <1> QED
    BY <1>1, <1>2, <1>3, <1>4

\* The client handles an answer and starts or joins a refresh.
LEMMA ClientSteps ==
  ASSUME IInv, NEW c \in Calls,
         Answered(c) \/ GiveUp(c) \/ StartRefresh(c) \/ WakeUp(c)
  PROVE  IInv'
  <1> USE DEF At, Choose, server, client
  <1> SUFFICES CallsOK' /\ DataOK'
    BY DEF IInv
  <1>0. Home(c) \in Tabs /\ tab[Home(c)].access \in Origin \union {None}
    BY DEF IInv, CallsOK, Call, DataOK, TabState, Home
  <1>1. CASE Answered(c)
    BY <1>1, FailOK
  <1>f. ASSUME Fail(c) PROVE CallsOK' /\ DataOK'
    BY <1>f, FailOK
  <1>2. CASE GiveUp(c)
    BY <1>2, <1>f DEF GiveUp
  <1>3. CASE StartRefresh(c)
    <2>1. CASE Unlocked(Home(c))
      <3> DEFINE x == [call[c] EXCEPT !.pc = "assert", !.token = cookie]
      <3>1. x \in Call /\ Equipped(x)
        BY <1>3 DEF StartRefresh, IInv, CallsOK, DataOK, Call, CallPc, Refreshing, Equipped
      <3>2. call' = [call EXCEPT ![c] = x]
        BY <1>3, <2>1 DEF StartRefresh, IInv, CallsOK
      <3>3. CallsOK'
        BY <3>1, <3>2, UpdateOK DEF IInv
      <3> QED
        BY <1>0, <1>3, <2>1, <3>3 DEF StartRefresh, IInv, DataOK
    <2>2. CASE ~Unlocked(Home(c))
      BY <1>3, <2>2, GotoOK DEF StartRefresh, IInv, DataOK, CallPc
    <2> QED
      BY <2>1, <2>2
  <1>4. CASE WakeUp(c)
    <2>1. CASE tab[Home(c)].isLoggedOut
      BY <1>4, <2>1, <1>f DEF WakeUp
    <2>2. CASE ~tab[Home(c)].isLoggedOut
      BY <1>0, <1>4, <2>2, ResendOK DEF WakeUp, IInv, DataOK
    <2> QED
      BY <2>1, <2>2
  <1> QED
    BY <1>1, <1>2, <1>3, <1>4

\* POST /auth/refresh and its answer.
LEMMA RefreshSteps ==
  ASSUME IInv, NEW c \in Calls,
         \/ AssertValidRefreshSession(c) \/ FindSessionUser(c) \/ RotateFind(c) \/ RotateUpdate(c)
         \/ RefreshGranted(c) \/ RefreshDenied(c) \/ LoseAnswer(c)
  PROVE  IInv'
  <1> USE DEF At, Choose, server, client
  <1> SUFFICES CallsOK' /\ DataOK'
    BY DEF IInv
  <1>0. /\ Home(c) \in Tabs
        /\ c \in Origin
        /\ call[c].pc \in {"owner", "find", "rotate", "granted"} =>
               call[c].token \in RefreshToken /\ call[c].token.session \in Origin
    BY DEF IInv, CallsOK, Call, Home, Origin, RefreshToken, Equipped
  <1>1. CASE AssertValidRefreshSession(c)
    <2> DEFINE x == [call[c] EXCEPT !.pc = IF FindActive(call[c].token) THEN "owner" ELSE "denied", !.late = ~active]
    <2>1. x \in Call /\ Equipped(x)
      BY <1>1 DEF AssertValidRefreshSession, IInv, CallsOK, DataOK, Call, CallPc, Refreshing, Equipped, FindActive
    <2>2. call' = [call EXCEPT ![c] = x]
      BY <1>1 DEF AssertValidRefreshSession, IInv, CallsOK
    <2>3. CallsOK'
      BY <2>1, <2>2, UpdateOK DEF IInv
    <2> QED
      BY <1>1, <2>3 DEF AssertValidRefreshSession, IInv, DataOK
  <1>2. CASE FindSessionUser(c)
    <2>1. CallsOK'
      BY <1>2, GotoOK DEF FindSessionUser, IInv, CallsOK, CallPc, Refreshing, Equipped
    <2> QED
      BY <1>2, <2>1 DEF FindSessionUser, IInv, DataOK
  <1>3. CASE RotateFind(c)
    <2>1. CallsOK'
      BY <1>3, GotoOK DEF RotateFind, IInv, CallsOK, CallPc, Refreshing, Equipped
    <2> QED
      BY <1>3, <2>1 DEF RotateFind, IInv, DataOK
  <1>4. CASE RotateUpdate(c)
    <2>1. CallsOK'
      BY <1>4, GotoOK DEF RotateUpdate, IInv, CallsOK, CallPc, Refreshing, Equipped
    <2>2. session' \in [Origin -> SessionDoc]
      BY <1>0, <1>4 DEF RotateUpdate, IInv, DataOK, SessionDoc
    <2> QED
      BY <1>4, <2>1, <2>2 DEF RotateUpdate, IInv, DataOK
  <1>5. CASE RefreshGranted(c)
    <2>1. CallsOK'
      BY <1>0, <1>5, ResendOK DEF RefreshGranted, IInv
    <2>2. tab' \in [Tabs -> TabState]
      BY <1>0, <1>5, SetOK DEF RefreshGranted, IInv
    <2>3. cookie' \in RefreshToken
      BY <1>0, <1>5 DEF RefreshGranted, RefreshToken
    <2> QED
      BY <1>5, <2>1, <2>2, <2>3 DEF RefreshGranted, IInv, DataOK
  <1>6. CASE RefreshDenied(c)
    BY <1>6, FailOK DEF RefreshDenied
  <1>7. CASE LoseAnswer(c)
    <2>1. CallsOK'
      BY <1>7, GotoOK DEF LoseAnswer, IInv, CallPc, Refreshing
    <2> QED
      BY <1>7, <2>1, LostAssumption DEF LoseAnswer, IInv, DataOK
  <1> QED
    BY <1>1, <1>2, <1>3, <1>4, <1>5, <1>6, <1>7

\* Logout, logout of all devices, password reset, deactivation and login.
LEMMA AccountSteps ==
  ASSUME IInv, NEW c \in Calls,
         \/ RevokeSession(c) \/ BlacklistAccessToken(c) \/ UpdatePassword(c) \/ RevokeAfterReset(c)
         \/ MarkInactive(c) \/ (\E w \in Write : Purge(c, w)) \/ Goodbye(c)
         \/ CheckCredentials(c) \/ CreateSession(c) \/ SetCredentials(c)
  PROVE  IInv'
  <1> USE DEF At, Choose, server, client
  <1> SUFFICES CallsOK' /\ DataOK'
    BY DEF IInv
  <1>0. Home(c) \in Tabs /\ c \in Origin /\ call[c].access \in Origin \union {None}
    BY DEF IInv, CallsOK, Call, Home, Origin
  <1>r. Revoked \in [Origin -> SessionDoc]
    BY DEF Revoked, IInv, DataOK, SessionDoc
  <1>1. CASE RevokeSession(c)
    <2>1. CallsOK'
      BY <1>1, GotoOK DEF RevokeSession, IInv, CallPc
    <2>2. session' \in [Origin -> SessionDoc]
      BY <1>1 DEF RevokeSession, IInv, DataOK, SessionDoc
    <2> QED
      BY <1>1, <2>1, <2>2 DEF RevokeSession, IInv, DataOK
  <1>2. CASE BlacklistAccessToken(c)
    <2>1. CallsOK'
      BY <1>2, GotoOK DEF BlacklistAccessToken, IInv, CallPc
    <2> QED
      BY <1>0, <1>2, <2>1 DEF BlacklistAccessToken, IInv, DataOK
  <1>3. CASE UpdatePassword(c)
    <2>1. CallsOK'
      BY <1>3, GotoOK DEF UpdatePassword, IInv, CallPc
    <2> QED
      BY <1>3, <2>1 DEF UpdatePassword, IInv, DataOK
  <1>4. CASE RevokeAfterReset(c)
    <2>1. CallsOK'
      BY <1>4, GotoOK DEF RevokeAfterReset, IInv, CallPc
    <2> QED
      BY <1>4, <1>r, <2>1 DEF RevokeAfterReset, IInv, DataOK
  <1>5. CASE MarkInactive(c)
    <2> DEFINE x == [call[c] EXCEPT !.pc = IF active THEN "purge" ELSE "ok",
                                    !.pending = IF active THEN {"sessions", "cache"} ELSE {}]
    <2>1. x \in Call /\ Equipped(x)
      <3>1. call[c] \in Call /\ {"sessions", "cache"} \in SUBSET Write
        BY DEF IInv, CallsOK, Write
      <3>2. x \in Call
        BY <3>1 DEF Call, CallPc
      <3>3. Equipped(x)
        BY <3>1 DEF Call, Equipped
      <3> QED
        BY <3>2, <3>3
    <2>2. call' = [call EXCEPT ![c] = x]
      BY <1>5 DEF MarkInactive, IInv, CallsOK
    <2>3. CallsOK'
      BY <2>1, <2>2, UpdateOK DEF IInv
    <2> QED
      BY <1>5, <2>3 DEF MarkInactive, IInv, DataOK
  <1>6. CASE \E w \in Write : Purge(c, w)
    <2>1. PICK w \in Write : Purge(c, w)
      BY <1>6
    <2> DEFINE x == [call[c] EXCEPT !.pending = @ \ {w},
                                    !.pc = IF call[c].pending = {w} THEN "bye" ELSE @]
    <2>a. call[c] \in Call /\ Equipped(call[c]) /\ call[c].pc = "purge"
      BY <2>1 DEF Purge, IInv, CallsOK
    <2>b. x \in Call
      BY <2>a DEF Call, CallPc
    <2>c. Equipped(x)
      BY <2>a DEF Call, Equipped
    <2>2. x \in Call /\ Equipped(x)
      BY <2>b, <2>c
    <2>3. call' = [call EXCEPT ![c] = x]
      BY <2>1 DEF Purge, IInv, CallsOK
    <2>4. CallsOK'
      BY <2>2, <2>3, UpdateOK DEF IInv
    <2>5. blacklist' \in SUBSET Origin
      BY <1>0, <2>1 DEF Purge, IInv, CallsOK, DataOK, Equipped
    <2> QED
      BY <1>r, <2>1, <2>4, <2>5 DEF Purge, IInv, DataOK
  <1>7. CASE Goodbye(c)
    BY <1>0, <1>7, FinishOK, ClearOK DEF Goodbye, IInv, DataOK
  <1>8. CASE CheckCredentials(c)
    <2>1. CallsOK'
      BY <1>8, GotoOK DEF CheckCredentials, IInv, CallPc
    <2> QED
      BY <1>8, <2>1 DEF CheckCredentials, IInv, DataOK
  <1>9. CASE CreateSession(c)
    <2>1. CallsOK'
      BY <1>9, GotoOK DEF CreateSession, IInv, CallPc
    <2>2. session' \in [Origin -> SessionDoc]
      BY <1>9 DEF CreateSession, IInv, DataOK, SessionDoc
    <2> QED
      BY <1>9, <2>1, <2>2 DEF CreateSession, IInv, DataOK
  <1>10. CASE SetCredentials(c)
    <2>1. tab' \in [Tabs -> TabState]
      BY <1>0, <1>10, SetOK DEF SetCredentials, IInv
    <2>2. cookie' \in RefreshToken
      BY <1>0, <1>10 DEF SetCredentials, RefreshToken
    <2> QED
      BY <1>10, <2>1, <2>2, FinishOK DEF SetCredentials, IInv, DataOK
  <1> QED
    BY <1>1, <1>2, <1>3, <1>4, <1>5, <1>6, <1>7, <1>8, <1>9, <1>10

LEMMA Inductive == IInv /\ [Next]_vars => IInv'
  <1> SUFFICES ASSUME IInv, [Next]_vars PROVE IInv'
    OBVIOUS
  <1>1. CASE UNCHANGED vars
    BY <1>1 DEF IInv, DataOK, CallsOK, vars, server, client
  <1>2. ASSUME NEW c \in Calls, Step(c) PROVE IInv'
    BY <1>2, RequestSteps, ClientSteps, RefreshSteps, AccountSteps DEF Step
  <1>3. ASSUME NEW t \in Tabs, TokenExpires(t) PROVE IInv'
    BY <1>3 DEF TokenExpires, IInv, DataOK, CallsOK, TabState, server, client
  <1>4. CASE CacheExpires
    BY <1>4 DEF CacheExpires, IInv, DataOK, CallsOK, client
  <1> QED
    BY <1>1, <1>2, <1>3, <1>4, RequestSteps, RefreshSteps DEF Next

LEMMA InvType == IInv => TypeOK
  BY DEF IInv, DataOK, CallsOK, TypeOK

\* The documents, tokens, tabs and calls keep their types whatever the calls do.
THEOREM TypeCorrect == Spec => []TypeOK
  BY InitInv, Inductive, InvType, PTL DEF Spec

----------------------------------------------------------------------------
(* A deactivated account gets no new tokens.                               *)

\* A refresh that began after the deactivation is stopped by the account check
\* between the two reads of its session.
Stopped(x) == x.late => ~active /\ x.pc \notin {"find", "rotate", "granted"}

LateInv == \A c \in Calls : Stopped(call[c])

LEMMA InitLate == Init => LateInv
  BY DEF Init, LateInv, Stopped, NoCall

LEMMA LateInductive == IInv /\ LateInv /\ [Next]_vars => LateInv'
  <1> SUFFICES ASSUME IInv, LateInv, [Next]_vars PROVE LateInv'
    OBVIOUS
  <1> USE DEF At, Goto, Choose, server, client
  <1>t. call \in [Calls -> Call] /\ active \in BOOLEAN
    BY DEF IInv, CallsOK, DataOK
  <1>1. CASE UNCHANGED vars
    BY <1>1 DEF LateInv, Stopped, vars
  \* What suffices for a step of call c that keeps the account as it is.
  <1>2. ASSUME NEW c \in Calls, UNCHANGED active,
               \E x : /\ call' = [call EXCEPT ![c] = x]
                      /\ x.late => ~active /\ x.pc \notin {"find", "rotate", "granted"}
        PROVE  LateInv'
    BY <1>t, <1>2 DEF LateInv, Stopped
  <1>3. ASSUME NEW c \in Calls, Finish(c), UNCHANGED active PROVE LateInv'
    <2>1. NoCall("done").late = FALSE
      BY DEF NoCall
    <2> QED
      BY <1>2, <1>3, <2>1 DEF Finish
  <1>4. ASSUME NEW c \in Calls, NEW pc, Goto(c, pc), UNCHANGED active,
               ~call[c].late \/ pc \notin {"find", "rotate", "granted"}
        PROVE  LateInv'
    BY <1>t, <1>4 DEF LateInv, Stopped, Call
  <1>5. ASSUME NEW c \in Calls,
               \/ Authenticate(c) \/ LookupUser(c) \/ FillCache(c)
               \/ \E t \in Tabs, k \in Kind : Send(c, t, k)
        PROVE  LateInv'
    <2>1. ASSUME Admit(c), UNCHANGED active PROVE LateInv'
      BY <1>t, <2>1 DEF Admit, Handler, LateInv, Stopped, Call
    <2>2. CASE \E t \in Tabs, k \in Kind : Send(c, t, k)
      <3>1. PICK t \in Tabs, k \in Kind : Send(c, t, k)
        BY <2>2
      <3>2. call'[c].pc = Entry[k] /\ call'[c].late = call[c].late /\ UNCHANGED active
        BY <1>t, <3>1 DEF Send, Call
      <3>3. \A d \in Calls \ {c} : call'[d] = call[d]
        BY <1>t, <3>1 DEF Send
      <3>4. Entry[k] \notin {"find", "rotate", "granted"}
        BY DEF Kind, Entry
      <3> QED
        BY <3>2, <3>3, <3>4 DEF LateInv, Stopped
    <2>3. CASE Authenticate(c)
      BY <1>4, <2>1, <2>3 DEF Authenticate
    <2>4. CASE LookupUser(c)
      BY <1>4, <2>4 DEF LookupUser
    <2>5. CASE FillCache(c)
      BY <2>1, <2>5 DEF FillCache
    <2> QED
      BY <1>5, <2>2, <2>3, <2>4, <2>5
  <1>6. ASSUME NEW c \in Calls, Answered(c) \/ GiveUp(c) \/ StartRefresh(c) \/ WakeUp(c)
        PROVE  LateInv'
    <2>1. CASE Answered(c) \/ GiveUp(c)
      BY <1>3, <2>1 DEF Answered, GiveUp, Fail
    <2>2. CASE StartRefresh(c)
      BY <1>t, <2>2 DEF StartRefresh, LateInv, Stopped, Call
    <2>3. CASE WakeUp(c)
      <3>1. CASE tab[Home(c)].isLoggedOut
        BY <1>3, <2>3, <3>1 DEF WakeUp, Fail
      <3>2. CASE ~tab[Home(c)].isLoggedOut
        BY <1>t, <2>3, <3>2 DEF WakeUp, Resend, LateInv, Stopped, Call
      <3> QED
        BY <3>1, <3>2
    <2> QED
      BY <1>6, <2>1, <2>2, <2>3
  <1>7. ASSUME NEW c \in Calls,
               \/ AssertValidRefreshSession(c) \/ FindSessionUser(c) \/ RotateFind(c) \/ RotateUpdate(c)
               \/ RefreshGranted(c) \/ RefreshDenied(c) \/ LoseAnswer(c)
        PROVE  LateInv'
    <2>0. call[c].late => ~active /\ call[c].pc \notin {"find", "rotate", "granted"}
      BY DEF LateInv, Stopped
    <2>1. CASE AssertValidRefreshSession(c)
      BY <1>t, <2>1 DEF AssertValidRefreshSession, LateInv, Stopped, Call
    <2>2. CASE FindSessionUser(c)
      BY <1>4, <2>0, <2>2 DEF FindSessionUser, AccountExists
    <2>3. CASE RotateFind(c)
      BY <1>4, <2>0, <2>3 DEF RotateFind
    <2>4. CASE RotateUpdate(c)
      BY <1>4, <2>0, <2>4 DEF RotateUpdate
    <2>5. CASE RefreshGranted(c)
      BY <1>t, <2>5 DEF RefreshGranted, Resend, LateInv, Stopped, Call
    <2>6. CASE RefreshDenied(c)
      BY <1>3, <2>6 DEF RefreshDenied, Fail
    <2>7. CASE LoseAnswer(c)
      BY <1>4, <2>0, <2>7 DEF LoseAnswer
    <2> QED
      BY <1>7, <2>1, <2>2, <2>3, <2>4, <2>5, <2>6, <2>7
  <1>8. ASSUME NEW c \in Calls,
               \/ RevokeSession(c) \/ BlacklistAccessToken(c) \/ UpdatePassword(c) \/ RevokeAfterReset(c)
               \/ MarkInactive(c) \/ (\E w \in Write : Purge(c, w)) \/ Goodbye(c)
               \/ CheckCredentials(c) \/ CreateSession(c) \/ SetCredentials(c)
        PROVE  LateInv'
    <2>1. CASE RevokeSession(c) \/ BlacklistAccessToken(c) \/ UpdatePassword(c) \/ RevokeAfterReset(c)
      BY <1>4, <2>1 DEF RevokeSession, BlacklistAccessToken, UpdatePassword, RevokeAfterReset
    <2>2. CASE MarkInactive(c)
      BY <1>t, <2>2 DEF MarkInactive, LateInv, Stopped, Call
    <2>3. CASE \E w \in Write : Purge(c, w)
      BY <1>t, <2>3 DEF Purge, LateInv, Stopped, Call
    <2>4. CASE Goodbye(c) \/ SetCredentials(c)
      BY <1>3, <2>4 DEF Goodbye, SetCredentials
    <2>5. CASE CheckCredentials(c) \/ CreateSession(c)
      BY <1>4, <2>5 DEF CheckCredentials, CreateSession
    <2> QED
      BY <1>8, <2>1, <2>2, <2>3, <2>4, <2>5
  <1>9. ASSUME NEW t \in Tabs, TokenExpires(t) PROVE LateInv'
    BY <1>9 DEF TokenExpires, LateInv, Stopped
  <1>10. CASE CacheExpires
    BY <1>10 DEF CacheExpires, LateInv, Stopped
  <1>11. ASSUME NEW c \in Calls, Step(c) PROVE LateInv'
    BY <1>11, <1>5, <1>6, <1>7, <1>8 DEF Step
  <1> QED
    BY <1>1, <1>5, <1>7, <1>9, <1>10, <1>11 DEF Next

LEMMA LateIsOut == LateInv => InactiveIsOut
  BY DEF LateInv, Stopped, InactiveIsOut, At

\* A refresh that starts after the deactivation gets no tokens, however the calls interleave.
THEOREM DeactivatedIsOut == Spec => []InactiveIsOut
  BY InitInv, Inductive, InitLate, LateInductive, LateIsOut, PTL DEF Spec

----------------------------------------------------------------------------
(* One tab: the mutex and the rotation fit together.                       *)

OneTab == \A t, u \in Tabs : t = u

\* Sessions a token is for were created by somebody who has long finished.
Issued(k) == k # None =>
    /\ session[k.session].state # "none"
    /\ k.session \in Calls => call[k.session].pc = "done"

\* A refresh whose answer is on its way made the current token of its session.
Fresh(c) == \/ session[call[c].token.session].state = "revoked"
            \/ session[call[c].token.session].hash = c

\* Refreshes hold the mutex; nobody rotates a session before its login has answered.
CookieInv ==
    /\ \A c \in Calls : call[c].pc \in Refreshing => mutex[call[c].tab] = c
    /\ Issued(cookie) /\ \A c \in Calls : Issued(call[c].token)
    /\ \A c \in Calls : call[c].pc # "done" => session[c].hash = c
    /\ \A c \in Calls : call[c].pc = "welcome" => session[c].state # "none"
    /\ \A c \in Calls : call[c].pc = "granted" => Fresh(c)
    /\ CookieIsCurrent

LEMMA InitCookie == Init => CookieInv
  <1> SUFFICES ASSUME Init PROVE CookieInv
    OBVIOUS
  <1>1. \A c \in Calls : call[c].pc = "idle" /\ call[c].token = None
    BY DEF Init, NoCall
  <1>2. First \in Origin /\ First # None /\ cookie = [session |-> First, by |-> First]
        /\ session[First].state = "live" /\ session[First].hash = First
    BY NamesAssumption DEF Init, Origin
  <1>3. Issued(cookie) /\ CookieIsCurrent
    BY <1>2, NamesAssumption DEF Issued, CookieIsCurrent
  <1>4. \A c \in Calls : session[c].hash = c
    BY DEF Init, Origin
  <1> QED
    BY <1>1, <1>3, <1>4 DEF CookieInv, Issued, Refreshing

LEMMA TokenType ==
  ASSUME IInv
  PROVE  /\ call \in [Calls -> Call] /\ cookie \in RefreshToken \union {None}
         /\ session \in [Origin -> SessionDoc]
         /\ \A c \in Calls : call[c].token \in RefreshToken \union {None} /\ call[c].tab \in Tabs /\ c \in Origin
         /\ \A k \in RefreshToken : k.session \in Origin
         /\ \A c \in Calls : call[c].pc \in {"owner", "find", "rotate", "granted"} => call[c].token \in RefreshToken
  BY DEF IInv, CallsOK, DataOK, Call, RefreshToken, Origin, Equipped

\* Sessions never get unmade or valid again, and this step rotates none.
Revoking == \A s \in Origin :
    /\ session'[s].hash = session[s].hash
    /\ session[s].state # "none" => session'[s].state # "none"
    /\ session[s].state = "revoked" => session'[s].state = "revoked"

\* A step that neither rotates or creates a session nor sets a cookie.
LEMMA CookieFrame ==
  ASSUME IInv, CookieInv, NEW c \in Calls, NEW x, call' = [call EXCEPT ![c] = x], lost' = lost,
         Revoking, cookie' \in {cookie, None},
         \A d \in Calls \ {c}, t \in Tabs : mutex[t] = d => mutex'[t] = d,
         x.pc \in Refreshing => mutex'[x.tab] = c,
         x.token \in {call[c].token, cookie, None},
         call[c].pc \notin {"done", "granted"}, x.pc \notin {"granted", "welcome"}
  PROVE  CookieInv'
  <1> USE TokenType
  <1>1. call'[c] = x /\ \A d \in Calls \ {c} : call'[d] = call[d]
    OBVIOUS
  <1>2. ASSUME NEW k \in RefreshToken \union {None}, Issued(k) PROVE Issued(k)'
    BY <1>1, <1>2 DEF Issued, Revoking
  <1>3. \A d \in Calls : call'[d].pc \in Refreshing => mutex'[call'[d].tab] = d
    BY <1>1 DEF CookieInv
  <1>4. Issued(cookie)' /\ \A d \in Calls : Issued(call[d].token)'
    <2>1. ASSUME NEW d \in Calls PROVE Issued(call[d].token)'
      <3>1. \E k \in {call[c].token, call[d].token, cookie, None} : call'[d].token = k
        BY <1>1
      <3>2. PICK k \in RefreshToken \union {None} : Issued(k) /\ call'[d].token = k
        BY <3>1 DEF CookieInv, Issued
      <3>3. Issued(k)'
        BY <1>2, <3>2
      <3> QED
        BY <3>2, <3>3 DEF Issued
    <2>2. PICK k \in RefreshToken \union {None} : Issued(k) /\ cookie' = k
      BY DEF CookieInv, Issued
    <2>3. Issued(k)'
      BY <1>2, <2>2
    <2>4. Issued(cookie)'
      BY <2>2, <2>3 DEF Issued
    <2> QED
      BY <2>1, <2>4
  <1>5. \A d \in Calls : call'[d].pc # "done" => session'[d].hash = d
    BY <1>1 DEF CookieInv, Revoking
  <1>6. \A d \in Calls : call'[d].pc = "welcome" => session'[d].state # "none"
    BY <1>1 DEF CookieInv, Revoking
  <1>7. ASSUME NEW d \in Calls, call'[d].pc = "granted" PROVE Fresh(d)'
    <2>1. d # c /\ Fresh(d) /\ call'[d] = call[d] /\ call[d].token.session \in Origin
      BY <1>1, <1>7 DEF CookieInv
    <2> QED
      BY <2>1 DEF Fresh, Revoking
  <1>8. CookieIsCurrent'
    <2> SUFFICES ASSUME lost' = 0, cookie' # None
                 PROVE  \/ session'[cookie'.session].state = "revoked"
                        \/ session'[cookie'.session].hash = cookie'.by
                        \/ \E d \in Calls : call'[d].pc = "granted" /\ call'[d].token.session = cookie'.session
      BY DEF CookieIsCurrent, At
    <2>1. cookie' = cookie /\ cookie.session \in Origin
      OBVIOUS
    <2>2. \/ session[cookie.session].state = "revoked"
          \/ session[cookie.session].hash = cookie.by
          \/ \E d \in Calls : call[d].pc = "granted" /\ call[d].token.session = cookie.session
      BY <2>1 DEF CookieInv, CookieIsCurrent, At
    <2>3. \A d \in Calls : call[d].pc = "granted" => call'[d] = call[d]
      BY <1>1
    <2> QED
      BY <2>1, <2>2, <2>3 DEF Revoking
  <1> QED
    BY <1>3, <1>4, <1>5, <1>6, <1>7, <1>8 DEF CookieInv

LEMMA FinishCookie ==
  ASSUME IInv, CookieInv, NEW c \in Calls, Finish(c), lost' = lost, UNCHANGED session, cookie' \in {cookie, None},
         call[c].pc \notin {"done", "granted"}
  PROVE  CookieInv'
  <1> DEFINE x == NoCall("done")
  <1>1. x.pc = "done" /\ x.token = None
    BY DEF NoCall
  <1>2. call' = [call EXCEPT ![c] = x] /\ \A d \in Calls \ {c}, t \in Tabs : mutex[t] = d => mutex'[t] = d
    BY DEF Finish, Release, IInv, DataOK
  <1>3. Revoking
    BY DEF Revoking
  <1> HIDE DEF x
  <1> QED
    BY <1>1, <1>2, <1>3, CookieFrame DEF Refreshing

\* A call that goes on and keeps its token and its tab.
LEMMA GoCookie ==
  ASSUME IInv, CookieInv, NEW c \in Calls, NEW x, call' = [call EXCEPT ![c] = x], UNCHANGED <<lost, cookie, mutex>>,
         Revoking, x.token = call[c].token, x.tab = call[c].tab,
         x.pc \in Refreshing => call[c].pc \in Refreshing,
         call[c].pc \notin {"done", "granted"}, x.pc \notin {"granted", "welcome"}
  PROVE  CookieInv'
  <1>1. x.pc \in Refreshing => mutex'[x.tab] = c
    BY DEF CookieInv
  <1> QED
    BY <1>1, CookieFrame

LEMMA GotoCookie ==
  ASSUME IInv, CookieInv, NEW c \in Calls, NEW pc, Goto(c, pc), UNCHANGED <<lost, cookie, mutex>>, Revoking,
         pc \in Refreshing => call[c].pc \in Refreshing,
         call[c].pc \notin {"done", "granted"}, pc \notin {"granted", "welcome"}
  PROVE  CookieInv'
  <1> DEFINE x == [call[c] EXCEPT !.pc = pc]
  <1>1. x.pc = pc /\ x.token = call[c].token /\ x.tab = call[c].tab /\ call' = [call EXCEPT ![c] = x]
    BY DEF Goto, IInv, CallsOK, Call
  <1> HIDE DEF x
  <1> QED
    BY <1>1, GoCookie

LEMMA KeptSessions == UNCHANGED session => Revoking
  BY DEF Revoking

LEMMA RequestCookie ==
  ASSUME IInv, CookieInv, NEW c \in Calls,
         \/ Authenticate(c) \/ LookupUser(c) \/ FillCache(c)
         \/ \E t \in Tabs, k \in Kind : Send(c, t, k)
  PROVE  CookieInv'
  <1> USE DEF At, Choose, server, client
  <1>0. call[c] \in Call
    BY DEF IInv, CallsOK
  <1>a. ASSUME Admit(c), UNCHANGED <<session, client, lost>>, call[c].pc \in {"auth", "fill"} PROVE CookieInv'
    <2> DEFINE x == [call[c] EXCEPT !.pc = Handler(call[c].kind),
                                    !.pending = IF call[c].kind = "logoutAll" THEN Write ELSE {}]
    <2>1. call' = [call EXCEPT ![c] = x] /\ x.pc \in {"purge", "mark", "ok"} /\ x.token = call[c].token /\ x.tab = call[c].tab
      BY <1>0, <1>a DEF Admit, Handler, Call, IInv, CallsOK
    <2> HIDE DEF x
    <2> QED
      BY <1>a, <2>1, KeptSessions, GoCookie DEF Refreshing
  <1>1. CASE Authenticate(c)
    BY <1>1, <1>a, KeptSessions, GotoCookie DEF Authenticate, Refreshing
  <1>2. CASE LookupUser(c)
    BY <1>2, KeptSessions, GotoCookie DEF LookupUser, Refreshing
  <1>3. CASE FillCache(c)
    BY <1>3, <1>a DEF FillCache
  <1>4. CASE \E t \in Tabs, k \in Kind : Send(c, t, k)
    <2>1. PICK t \in Tabs, k \in Kind : Send(c, t, k)
      BY <1>4
    <2> DEFINE x == [call[c] EXCEPT !.kind = k, !.tab = t, !.pc = Entry[k], !.access = tab[t].access,
                                    !.token = IF k = "logout" THEN cookie ELSE None]
    <2>2. Entry[k] \in {"auth", "revoke", "check", "password"}
      BY DEF Kind, Entry
    <2>3. x.pc = Entry[k] /\ x.token \in {cookie, None}
      BY <1>0 DEF Call
    <2>4. call' = [call EXCEPT ![c] = x]
      BY <1>0, <2>1 DEF Send, IInv, CallsOK
    <2>5. UNCHANGED <<cookie, mutex, lost, session>> /\ call[c].pc = "idle"
      BY <2>1 DEF Send
    <2> HIDE DEF x
    <2> QED
      BY <2>2, <2>3, <2>4, <2>5, KeptSessions, CookieFrame DEF Refreshing
  <1> QED
    BY <1>1, <1>2, <1>3, <1>4

LEMMA ClientCookie ==
  ASSUME IInv, CookieInv, NEW c \in Calls, Answered(c) \/ GiveUp(c) \/ StartRefresh(c) \/ WakeUp(c)
  PROVE  CookieInv'
  <1> USE DEF At, Choose, server, client
  <1>0. call[c] \in Call
    BY DEF IInv, CallsOK
  <1>1. CASE Answered(c) \/ GiveUp(c)
    BY <1>1, FinishCookie DEF Answered, GiveUp, Fail
  <1>2. CASE StartRefresh(c)
    <2>1. CASE Unlocked(Home(c))
      <3> DEFINE x == [call[c] EXCEPT !.pc = "assert", !.token = cookie]
      <3>1. /\ call' = [call EXCEPT ![c] = x] /\ x.pc = "assert" /\ x.token = cookie /\ x.tab = Home(c)
            /\ Home(c) \in Tabs /\ mutex[Home(c)] = None /\ mutex' = [mutex EXCEPT ![Home(c)] = c]
        BY <1>0, <1>2, <2>1 DEF StartRefresh, Call, IInv, CallsOK, Unlocked, Home
      <3>2. mutex'[x.tab] = c /\ \A d \in Calls \ {c}, t \in Tabs : mutex[t] = d => mutex'[t] = d
        BY <3>1, NamesAssumption DEF IInv, DataOK
      <3> HIDE DEF x
      <3> QED
        BY <1>2, <3>1, <3>2, KeptSessions, CookieFrame DEF StartRefresh
    <2>2. CASE ~Unlocked(Home(c))
      BY <1>2, <2>2, KeptSessions, GotoCookie DEF StartRefresh, Refreshing
    <2> QED
      BY <2>1, <2>2
  <1>3. CASE WakeUp(c)
    <2>1. CASE tab[Home(c)].isLoggedOut
      BY <1>3, <2>1, FinishCookie DEF WakeUp, Fail
    <2>2. CASE ~tab[Home(c)].isLoggedOut
      <3> DEFINE x == [call[c] EXCEPT !.pc = "auth", !.access = tab[Home(c)].access, !.retried = TRUE]
      <3>1. /\ call' = [call EXCEPT ![c] = x] /\ x.pc = "auth" /\ x.token = call[c].token /\ x.tab = call[c].tab
        BY <1>0, <1>3, <2>2 DEF WakeUp, Resend, Call, IInv, CallsOK
      <3> HIDE DEF x
      <3> QED
        BY <1>3, <2>2, <3>1, KeptSessions, GoCookie DEF WakeUp, Refreshing
    <2> QED
      BY <2>1, <2>2
  <1> QED
    BY <1>1, <1>2, <1>3

LEMMA AccountCookie ==
  ASSUME IInv, CookieInv, NEW c \in Calls,
         \/ RevokeSession(c) \/ BlacklistAccessToken(c) \/ UpdatePassword(c) \/ RevokeAfterReset(c)
         \/ MarkInactive(c) \/ (\E w \in Write : Purge(c, w)) \/ Goodbye(c) \/ CheckCredentials(c)
  PROVE  CookieInv'
  <1> USE DEF At, Choose, server, client
  <1>0. call[c] \in Call /\ session \in [Origin -> SessionDoc]
    BY DEF IInv, CallsOK, DataOK
  <1>r. session' = Revoked => Revoking
    BY <1>0 DEF Revoked, Revoking, SessionDoc
  <1>1. CASE RevokeSession(c)
    <2>1. Revoking
      BY <1>0, <1>1 DEF RevokeSession, Revoking, SessionDoc
    <2> QED
      BY <1>1, <2>1, GotoCookie DEF RevokeSession, Refreshing
  <1>2. CASE BlacklistAccessToken(c) \/ UpdatePassword(c) \/ CheckCredentials(c)
    BY <1>2, KeptSessions, GotoCookie DEF BlacklistAccessToken, UpdatePassword, CheckCredentials, Refreshing
  <1>3. CASE RevokeAfterReset(c)
    BY <1>3, <1>r, GotoCookie DEF RevokeAfterReset, Refreshing
  <1>4. CASE MarkInactive(c)
    <2> DEFINE x == [call[c] EXCEPT !.pc = IF active THEN "purge" ELSE "ok",
                                    !.pending = IF active THEN {"sessions", "cache"} ELSE {}]
    <2>1. call' = [call EXCEPT ![c] = x] /\ x.pc \in {"purge", "ok"} /\ x.token = call[c].token /\ x.tab = call[c].tab
      BY <1>0, <1>4 DEF MarkInactive, Call, IInv, CallsOK
    <2> HIDE DEF x
    <2> QED
      BY <1>4, <2>1, KeptSessions, GoCookie DEF MarkInactive, Refreshing
  <1>5. ASSUME NEW w \in Write, Purge(c, w) PROVE CookieInv'
    <2> DEFINE x == [call[c] EXCEPT !.pending = @ \ {w}, !.pc = IF call[c].pending = {w} THEN "bye" ELSE @]
    <2>1. call' = [call EXCEPT ![c] = x] /\ x.pc \in {"purge", "bye"} /\ x.token = call[c].token /\ x.tab = call[c].tab
      BY <1>0, <1>5 DEF Purge, Call, IInv, CallsOK
    <2>2. Revoking
      BY <1>5, <1>r, KeptSessions DEF Purge
    <2> HIDE DEF x
    <2> QED
      BY <1>5, <2>1, <2>2, GoCookie DEF Purge, Refreshing
  <1>6. CASE Goodbye(c)
    BY <1>6, FinishCookie DEF Goodbye
  <1> QED
    BY <1>1, <1>2, <1>3, <1>4, <1>5, <1>6

\* Two refreshes of one tab never overlap.
LEMMA OneRefresher ==
  ASSUME OneTab, IInv, CookieInv, NEW c \in Calls, NEW d \in Calls, call[c].pc \in Refreshing, call[d].pc \in Refreshing
  PROVE  c = d
  <1>1. call[c].tab = call[d].tab
    BY TokenType DEF OneTab
  <1> QED
    BY <1>1 DEF CookieInv

LEMMA RotateCookie ==
  ASSUME OneTab, IInv, CookieInv, NEW c \in Calls, RotateUpdate(c)
  PROVE  CookieInv'
  <1> USE TokenType DEF At, server, client
  <1> DEFINE s == call[c].token.session
  <1>1. call[c] \in Call /\ call[c].pc = "rotate" /\ s \in Origin /\ UNCHANGED <<cookie, mutex, lost>>
    BY DEF RotateUpdate, IInv, CallsOK
  <1>2. /\ call'[c].pc = "granted" /\ call'[c].token = call[c].token /\ call'[c].tab = call[c].tab
        /\ \A d \in Calls \ {c} : call'[d] = call[d] /\ call[d].pc \notin Refreshing
    BY <1>1, OneRefresher DEF RotateUpdate, Goto, IInv, CallsOK, Call, Refreshing
  <1>3. /\ session[s].state # "none" /\ (s \in Calls => call[s].pc = "done")
    BY <1>1 DEF CookieInv, Issued, IInv, CallsOK, Equipped
  <1>4. /\ \A o \in Origin : session'[o].state = session[o].state /\ (o # s => session'[o] = session[o])
        /\ session[s].state # "revoked" => session'[s].hash = c
    BY <1>1, <1>3 DEF RotateUpdate, SessionDoc
  <1> HIDE DEF s
  <1>5. ASSUME NEW k \in RefreshToken \union {None}, Issued(k) PROVE Issued(k)'
    BY <1>1, <1>2, <1>4, <1>5 DEF Issued
  <1>6. Issued(cookie)' /\ \A d \in Calls : Issued(call[d].token)'
    <2>1. ASSUME NEW d \in Calls PROVE Issued(call[d].token)'
      <3>1. PICK k \in RefreshToken \union {None} : Issued(k) /\ call'[d].token = k
        BY <1>2 DEF CookieInv
      <3>2. Issued(k)'
        BY <1>5, <3>1
      <3> QED
        BY <3>1, <3>2 DEF Issued
    <2>2. PICK k \in RefreshToken \union {None} : Issued(k) /\ cookie' = k
      BY <1>1 DEF CookieInv
    <2>3. Issued(k)'
      BY <1>5, <2>2
    <2>4. Issued(cookie)'
      BY <2>2, <2>3 DEF Issued
    <2> QED
      BY <2>1, <2>4
  <1>7. \A d \in Calls : call'[d].pc \in Refreshing => mutex'[call'[d].tab] = d
    BY <1>1, <1>2 DEF CookieInv, Refreshing
  <1>8. ASSUME NEW d \in Calls PROVE (call'[d].pc # "done" => session'[d].hash = d)
                                     /\ (call'[d].pc = "welcome" => session'[d].state # "none")
    <2>1. call'[d].pc # "done" => d # s /\ call[d].pc # "done"
      BY <1>1, <1>2, <1>3
    <2> QED
      BY <1>2, <1>4, <2>1 DEF CookieInv
  <1>9. ASSUME NEW d \in Calls, call'[d].pc = "granted" PROVE Fresh(d)'
    <2>1. d = c
      BY <1>2, <1>9 DEF Refreshing
    <2> QED
      BY <1>1, <1>2, <1>4, <2>1 DEF Fresh, s
  <1>10. CookieIsCurrent'
    <2> SUFFICES ASSUME lost' = 0, cookie' # None
                 PROVE  \/ session'[cookie'.session].state = "revoked"
                        \/ session'[cookie'.session].hash = cookie'.by
                        \/ \E d \in Calls : call'[d].pc = "granted" /\ call'[d].token.session = cookie'.session
      BY DEF CookieIsCurrent
    <2>1. cookie' = cookie /\ cookie.session \in Origin
      BY <1>1
    <2>2. CASE cookie.session = s
      BY <1>2, <2>1, <2>2 DEF s
    <2>3. CASE cookie.session # s
      <3>1. \A d \in Calls : call[d].pc # "granted"
        BY <1>1, <1>2 DEF Refreshing
      <3> QED
        BY <1>1, <1>4, <2>1, <2>3, <3>1 DEF CookieInv, CookieIsCurrent
    <2> QED
      BY <2>2, <2>3
  <1> QED
    BY <1>6, <1>7, <1>8, <1>9, <1>10 DEF CookieInv

\* A call sets the cookie to a token its session has just been given.
LEMMA SetCookie ==
  ASSUME IInv, CookieInv, NEW c \in Calls, NEW x, call' = [call EXCEPT ![c] = x], UNCHANGED session,
         cookie' \in RefreshToken, Issued(cookie)',
         session[cookie'.session].state = "revoked" \/ session[cookie'.session].hash = cookie'.by,
         \A d \in Calls \ {c}, t \in Tabs : mutex[t] = d => mutex'[t] = d,
         x.pc \notin Refreshing \union {"welcome"}, x.token \in {call[c].token, None}, call[c].pc # "done"
  PROVE  CookieInv'
  <1> USE TokenType
  <1>1. call'[c] = x /\ \A d \in Calls \ {c} : call'[d] = call[d]
    OBVIOUS
  <1>2. ASSUME NEW d \in Calls PROVE Issued(call[d].token)'
    <2>1. Issued(call[d].token) /\ (call'[d].token = call[d].token \/ call'[d].token = None)
      BY <1>1 DEF CookieInv
    <2> QED
      BY <1>1, <2>1 DEF Issued
  <1>3. \A d \in Calls : call'[d].pc \in Refreshing => mutex'[call'[d].tab] = d
    BY <1>1 DEF CookieInv
  <1>4. \A d \in Calls : /\ call'[d].pc # "done" => session'[d].hash = d
                         /\ call'[d].pc = "welcome" => session'[d].state # "none"
    BY <1>1 DEF CookieInv
  <1>5. ASSUME NEW d \in Calls, call'[d].pc = "granted" PROVE Fresh(d)'
    <2>1. d # c /\ Fresh(d) /\ call'[d] = call[d]
      BY <1>1, <1>5 DEF CookieInv, Refreshing
    <2> QED
      BY <2>1 DEF Fresh
  <1>6. CookieIsCurrent'
    BY DEF CookieIsCurrent
  <1> QED
    BY <1>2, <1>3, <1>4, <1>5, <1>6 DEF CookieInv

LEMMA AnswerCookie ==
  ASSUME IInv, CookieInv, NEW c \in Calls, RefreshGranted(c) \/ SetCredentials(c)
  PROVE  CookieInv'
  <1> USE TokenType DEF At, server, client
  <1>0. call[c] \in Call /\ mutex \in [Tabs -> Calls \union {None}]
    BY DEF IInv, CallsOK, DataOK
  <1>1. CASE RefreshGranted(c)
    <2> DEFINE x == [call[c] EXCEPT !.pc = "auth", !.access = c, !.retried = TRUE]
               s == call[c].token.session
    <2>1. /\ call' = [call EXCEPT ![c] = x] /\ x.pc = "auth" /\ x.token = call[c].token
          /\ call[c].pc = "granted" /\ call[c].token \in RefreshToken /\ UNCHANGED <<session, mutex, lost>>
          /\ cookie' = [call[c].token EXCEPT !.by = c]
      BY <1>0, <1>1 DEF RefreshGranted, Resend, Call, IInv, CallsOK
    <2>2. cookie' \in RefreshToken /\ cookie'.session = s /\ cookie'.by = c
      BY <2>1 DEF RefreshToken
    <2>3. Issued(call[c].token) /\ Fresh(c) /\ call[c].token # None
      BY <2>1 DEF CookieInv, IInv, CallsOK, Equipped
    <2>4. s \in Calls => call'[s].pc = "done"
      BY <2>1, <2>3 DEF Issued
    <2>5. Issued(cookie)'
      BY <2>1, <2>2, <2>3, <2>4 DEF Issued
    <2> HIDE DEF x
    <2> QED
      BY <2>1, <2>2, <2>3, <2>5, SetCookie DEF Fresh, Refreshing
  <1>2. CASE SetCredentials(c)
    <2> DEFINE x == NoCall("done")
    <2>1. /\ call' = [call EXCEPT ![c] = x] /\ x.pc = "done" /\ x.token = None
          /\ call[c].pc = "welcome" /\ UNCHANGED <<session, lost>>
          /\ cookie' = [session |-> c, by |-> c]
          /\ \A d \in Calls \ {c}, t \in Tabs : mutex[t] = d => mutex'[t] = d
      BY <1>0, <1>2 DEF SetCredentials, Finish, Release, NoCall
    <2>2. cookie' \in RefreshToken /\ cookie'.session = c /\ cookie'.by = c
      BY <2>1 DEF RefreshToken
    <2>3. session[c].state # "none" /\ session[c].hash = c
      BY <2>1 DEF CookieInv
    <2>4. Issued(cookie)'
      BY <2>1, <2>2, <2>3 DEF Issued
    <2> HIDE DEF x
    <2> QED
      BY <2>1, <2>2, <2>3, <2>4, SetCookie DEF Refreshing
  <1> QED
    BY <1>1, <1>2

LEMMA CreateCookie ==
  ASSUME IInv, CookieInv, NEW c \in Calls, CreateSession(c)
  PROVE  CookieInv'
  <1> USE TokenType DEF At, server, client
  <1>1. /\ call[c] \in Call /\ call[c].pc = "create" /\ UNCHANGED <<cookie, mutex, lost>>
        /\ session' = [session EXCEPT ![c].state = "live"]
    BY DEF CreateSession, IInv, CallsOK
  <1>2. /\ call'[c].pc = "welcome" /\ call'[c].token = call[c].token /\ call'[c].tab = call[c].tab
        /\ \A d \in Calls \ {c} : call'[d] = call[d]
    BY <1>1 DEF CreateSession, Goto, IInv, CallsOK, Call
  <1>3. /\ \A o \in Origin : session'[o].hash = session[o].hash /\ (o # c => session'[o].state = session[o].state)
        /\ session'[c].state = "live"
    BY <1>1 DEF SessionDoc
  <1>4. \A k \in RefreshToken : k # None /\ Issued(k) => k.session # c
    BY <1>1 DEF Issued
  <1>5. ASSUME NEW k \in RefreshToken \union {None}, Issued(k) PROVE Issued(k)'
    BY <1>1, <1>2, <1>3, <1>4, <1>5 DEF Issued
  <1>6. Issued(cookie)' /\ \A d \in Calls : Issued(call[d].token)'
    <2>1. ASSUME NEW d \in Calls PROVE Issued(call[d].token)'
      <3>1. PICK k \in RefreshToken \union {None} : Issued(k) /\ call'[d].token = k
        BY <1>2 DEF CookieInv
      <3>2. Issued(k)'
        BY <1>5, <3>1
      <3> QED
        BY <3>1, <3>2 DEF Issued
    <2>2. PICK k \in RefreshToken \union {None} : Issued(k) /\ cookie' = k
      BY <1>1 DEF CookieInv
    <2>3. Issued(k)'
      BY <1>5, <2>2
    <2>4. Issued(cookie)'
      BY <2>2, <2>3 DEF Issued
    <2> QED
      BY <2>1, <2>4
  <1>7. \A d \in Calls : call'[d].pc \in Refreshing => mutex'[call'[d].tab] = d
    BY <1>1, <1>2 DEF CookieInv, Refreshing
  <1>8. \A d \in Calls : /\ call'[d].pc # "done" => session'[d].hash = d
                         /\ call'[d].pc = "welcome" => session'[d].state # "none"
    BY <1>1, <1>2, <1>3 DEF CookieInv
  <1>9. ASSUME NEW d \in Calls, call'[d].pc = "granted" PROVE Fresh(d)'
    <2>1. d # c /\ call'[d] = call[d] /\ call[d].token \in RefreshToken /\ call[d].token # None /\ Issued(call[d].token) /\ Fresh(d)
      BY <1>2, <1>9 DEF CookieInv, IInv, CallsOK, Equipped
    <2>2. call[d].token.session # c
      BY <1>4, <2>1
    <2> QED
      BY <1>3, <2>1, <2>2 DEF Fresh
  <1>10. CookieIsCurrent'
    <2> SUFFICES ASSUME lost' = 0, cookie' # None
                 PROVE  \/ session'[cookie'.session].state = "revoked"
                        \/ session'[cookie'.session].hash = cookie'.by
                        \/ \E d \in Calls : call'[d].pc = "granted" /\ call'[d].token.session = cookie'.session
      BY DEF CookieIsCurrent
    <2>1. cookie' = cookie /\ cookie.session \in Origin /\ cookie.session # c
      BY <1>1, <1>4 DEF CookieInv
    <2>2. \A d \in Calls : call[d].pc = "granted" => call'[d] = call[d]
      BY <1>1, <1>2
    <2> QED
      BY <1>1, <1>3, <2>1, <2>2 DEF CookieInv, CookieIsCurrent
  <1> QED
    BY <1>6, <1>7, <1>8, <1>9, <1>10 DEF CookieInv

LEMMA LoseCookie ==
  ASSUME IInv, CookieInv, NEW c \in Calls, LoseAnswer(c)
  PROVE  CookieInv'
  <1> USE TokenType DEF At, server, client
  <1>1. /\ call[c] \in Call /\ call[c].pc = "granted" /\ UNCHANGED <<cookie, mutex, session>> /\ lost' # 0
    BY DEF LoseAnswer, IInv, CallsOK, DataOK
  <1>2. /\ call'[c].pc = "denied" /\ call'[c].token = call[c].token /\ call'[c].tab = call[c].tab
        /\ \A d \in Calls \ {c} : call'[d] = call[d]
    BY <1>1 DEF LoseAnswer, Goto, IInv, CallsOK, Call
  <1>3. CookieIsCurrent'
    BY <1>1 DEF CookieIsCurrent
  <1>4. ASSUME NEW d \in Calls PROVE /\ Issued(call[d].token)'
                                     /\ call'[d].pc \in Refreshing => mutex'[call'[d].tab] = d
                                     /\ call'[d].pc # "done" => session'[d].hash = d
                                     /\ call'[d].pc = "welcome" => session'[d].state # "none"
                                     /\ call'[d].pc = "granted" => Fresh(d)'
    <2>1. call'[d].token = call[d].token /\ Issued(call[d].token)
      BY <1>2 DEF CookieInv
    <2>2. Issued(call[d].token)'
      BY <1>1, <1>2, <2>1 DEF Issued
    <2> QED
      BY <1>1, <1>2, <2>2 DEF CookieInv, Refreshing, Fresh
  <1>5. Issued(cookie)'
    BY <1>1, <1>2 DEF CookieInv, Issued
  <1> QED
    BY <1>3, <1>4, <1>5 DEF CookieInv

LEMMA RefreshCookie ==
  ASSUME IInv, CookieInv, NEW c \in Calls,
         AssertValidRefreshSession(c) \/ FindSessionUser(c) \/ RotateFind(c) \/ RefreshDenied(c)
  PROVE  CookieInv'
  <1> USE DEF At, Choose, server, client
  <1>1. CASE AssertValidRefreshSession(c)
    <2> DEFINE x == [call[c] EXCEPT !.pc = IF FindActive(call[c].token) THEN "owner" ELSE "denied", !.late = ~active]
    <2>1. /\ call' = [call EXCEPT ![c] = x] /\ x.pc \in {"owner", "denied"} /\ x.token = call[c].token /\ x.tab = call[c].tab
      BY <1>1 DEF AssertValidRefreshSession, IInv, CallsOK, Call
    <2> HIDE DEF x
    <2> QED
      BY <1>1, <2>1, KeptSessions, GoCookie DEF AssertValidRefreshSession, Refreshing
  <1>2. CASE FindSessionUser(c) \/ RotateFind(c)
    BY <1>2, KeptSessions, GotoCookie DEF FindSessionUser, RotateFind, Refreshing
  <1>3. CASE RefreshDenied(c)
    BY <1>3, FinishCookie DEF RefreshDenied, Fail
  <1> QED
    BY <1>1, <1>2, <1>3

LEMMA CookieInductive ==
  ASSUME OneTab, IInv, CookieInv, [Next]_vars
  PROVE  CookieInv'
  <1>1. CASE UNCHANGED vars \/ CacheExpires \/ \E t \in Tabs : TokenExpires(t)
    <2>1. UNCHANGED <<session, cookie, mutex, call, lost>>
      BY <1>1 DEF vars, server, client, CacheExpires, TokenExpires
    <2> QED
      BY <2>1 DEF CookieInv, Issued, Fresh, CookieIsCurrent, At
  <1>2. ASSUME NEW c \in Calls, Step(c) PROVE CookieInv'
    BY <1>2, RequestCookie, ClientCookie, RefreshCookie, RotateCookie, AnswerCookie, AccountCookie, CreateCookie DEF Step
  <1> QED
    BY <1>1, <1>2, RequestCookie, LoseCookie DEF Next

\* In a browser with one tab the cookie is the current token of its session, or its
\* session is revoked, or the answer with the newer token is still to come, or one was
\* lost, however calls, logins, refreshes and revocations interleave.
THEOREM CookieStaysCurrent == ASSUME OneTab PROVE Spec => []CookieIsCurrent
  <1>1. IInv /\ CookieInv /\ [Next]_vars => CookieInv'
    BY CookieInductive
  <1>2. CookieInv => CookieIsCurrent
    BY DEF CookieInv
  <1> QED
    BY <1>1, <1>2, InitInv, Inductive, InitCookie, PTL DEF Spec
==============================================================================
