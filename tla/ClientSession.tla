---------------------------- MODULE ClientSession ----------------------------
(***************************************************************************)
(* The session of a browser: the cookies its tabs share, and in every tab  *)
(* the api-client with its two interceptors, the refresh that is in        *)
(* flight and the keep-alive timer.                                        *)
(*                                                                         *)
(* JavaScript runs one task at a time in a tab, so an action is one task:  *)
(* an event handler up to its await, or what runs when an answer lands,    *)
(* continuations included.  The tabs share only the cookie jar.  An access *)
(* token and the refresh token issued with it are one number, 0 for an     *)
(* absent cookie.  A refresh call is named after what started it: a        *)
(* request, or a tab for that tab's keep-alive timer.                      *)
(*                                                                         *)
(*   token, user, imp   the cookies dmtool_token, dmtool_user (the login   *)
(*                      it describes) and dmtool_impersonation_token       *)
(*   refresh            the HttpOnly cookie refresh_token                  *)
(*   inFlight[t]        refreshInFlight: who started the call t waits for  *)
(*   timer[t]           keepAliveTimer: a timer that has fired still       *)
(*                      counts as set ("spent")                            *)
(*   live               the refresh tokens the API accepts; an access token *)
(*                      may expire, and be refused, at any time            *)
(***************************************************************************)
EXTENDS Naturals, FiniteSets

CONSTANTS Tabs,
          Requests,    \* calls of the pages through apiClient
          Tab,         \* the tab that sends each of them
          Nobody,      \* no call in flight
          MaxTokens,   \* bound on the tokens the API issues
          MaxSupport   \* bound on the support sessions an admin starts

ASSUME SessionAssumption ==
    /\ IsFiniteSet(Tabs) /\ IsFiniteSet(Requests)
    /\ Tabs \cap Requests = {}
    /\ Nobody \notin Tabs \cup Requests
    /\ Tab \in [Requests -> Tabs]
    /\ MaxTokens \in Nat \ {0} /\ MaxSupport \in Nat

VARIABLES
    token, user, imp, refresh,
    live, issued, started,
    loginOf,    \* the login a token descends from
    page, timer, inFlight,
    pc, retried, call,
    rotatedBy,  \* history: the tab that used a refresh token up
    excused,    \* history: refresh tokens revoked, or whose successor was lost
    closed      \* history: the logins the user has signed out of, but for those a
                \* call in flight or the cookie left behind may bring back

jar == <<token, user, imp, refresh>>
api == <<live, issued, started, loginOf>>
tabs == <<page, timer, inFlight>>
reqs == <<pc, retried>>
history == <<rotatedBy, excused, closed>>
vars == <<jar, api, tabs, reqs, call, history>>

Tokens == 1..MaxTokens
Initiators == Requests \cup Tabs
TabOf(i) == IF i \in Tabs THEN i ELSE Tab[i]
RequestsOf(t) == {r \in Requests : Tab[r] = t}

NoCall == [state |-> "none", sent |-> 0, next |-> 0]
Calls == [state : {"none", "pending", "refused", "rotated"}, sent : 0..MaxTokens,
          next : 0..MaxTokens]
Pending(cookie) == [state |-> "pending", sent |-> cookie, next |-> 0]
PCs == {"idle", "sent", "renewing", "over"}

TypeOK ==
    /\ token \in 0..MaxTokens /\ user \in 0..MaxTokens
    /\ imp \in 0..MaxSupport /\ refresh \in 0..MaxTokens
    /\ live \subseteq Tokens
    /\ issued \in 0..MaxTokens /\ started \in 0..MaxSupport
    /\ loginOf \in [Tokens -> 0..MaxTokens]
    /\ page \in [Tabs -> {"app", "login", "leaving"}]
    /\ timer \in [Tabs -> {"off", "armed", "spent"}]
    /\ inFlight \in [Tabs -> Initiators \cup {Nobody}]
    /\ pc \in [Requests -> PCs]
    /\ retried \in [Requests -> BOOLEAN]
    /\ call \in [Initiators -> Calls]
    /\ rotatedBy \in [Tokens -> Tabs \cup {Nobody}]
    /\ excused \subseteq Tokens
    /\ closed \subseteq Tokens

Init ==
    /\ token = 0 /\ user = 0 /\ imp = 0 /\ refresh = 0
    /\ live = {} /\ issued = 0 /\ started = 0
    /\ loginOf = [g \in Tokens |-> 0]
    /\ page = [t \in Tabs |-> "login"]
    /\ timer = [t \in Tabs |-> "off"]
    /\ inFlight = [t \in Tabs |-> Nobody]
    /\ pc = [r \in Requests |-> "idle"]
    /\ retried = [r \in Requests |-> FALSE]
    /\ call = [i \in Initiators |-> NoCall]
    /\ rotatedBy = [g \in Tokens |-> Nobody]
    /\ excused = {} /\ closed = {}

-----------------------------------------------------------------------------
(* The request interceptor, runRefresh and forceLogout.                    *)

\* The interceptor arms the keep-alive timer when none is set.
ArmWhenUnset(t) ==
    timer' = IF timer[t] = "off" /\ token # 0 THEN [timer EXCEPT ![t] = "armed"] ELSE timer

\* A bug: every caller sends a refresh of its own.
RunRefreshAlways(t, i) ==
    /\ inFlight' = [inFlight EXCEPT ![t] = i]
    /\ call' = [call EXCEPT ![i] = Pending(refresh)]

\* One refresh at a time: a second caller waits for the first one's.
RunRefresh(t, i) ==
    IF inFlight[t] = Nobody
    THEN /\ inFlight' = [inFlight EXCEPT ![t] = i]
         /\ call' = [call EXCEPT ![i] = Pending(refresh)]
    ELSE UNCHANGED <<inFlight, call>>

ClearAuth == token' = 0 /\ user' = 0

ClearImpersonation == imp' = 0

\* The access cookies go and the tab is sent to /login, unless it is there.
ForceLogout(t) ==
    /\ ClearAuth /\ ClearImpersonation
    /\ timer' = [timer EXCEPT ![t] = "off"]
    /\ page' = [page EXCEPT ![t] = IF @ = "login" THEN "login" ELSE "leaving"]
    /\ UNCHANGED refresh

Waiting(t) == {r \in RequestsOf(t) : pc[r] = "renewing"}

\* A bug: refreshInFlight keeps the token the call brought.
EndCallKeepsResult(i) ==
    /\ inFlight' = [inFlight EXCEPT ![TabOf(i)] = call[i].next]
    /\ call' = [call EXCEPT ![i] = NoCall]

\* The call of i is over; its tab has no refresh in flight any more.
EndCall(i) ==
    /\ inFlight' = [inFlight EXCEPT ![TabOf(i)] = Nobody]
    /\ call' = [call EXCEPT ![i] = NoCall]

-----------------------------------------------------------------------------
(* The requests of the pages.                                              *)

SendRequest(r) ==
    /\ pc[r] = "idle" /\ page[Tab[r]] = "app"
    /\ pc' = [pc EXCEPT ![r] = "sent"]
    /\ ArmWhenUnset(Tab[r])
    /\ UNCHANGED <<jar, api, page, inFlight, retried, call, history>>

\* The requests in `ended` are over: the interceptors' marks on them go with them.
End(ended) ==
    /\ pc' = [r \in Requests |-> IF r \in ended THEN "over" ELSE pc[r]]
    /\ retried' = [r \in Requests |-> r \notin ended /\ retried[r]]

\* Any answer but a 401, or an error of the network: it goes to the page.
Answered(r) ==
    /\ pc[r] = "sent"
    /\ End({r})
    /\ UNCHANGED <<jar, api, tabs, call, history>>

\* A 401: there is no credential, or it has expired, or its account is suspended.
Refused(r) == pc[r] = "sent"

\* A 401 while a support session is on: drop it, and send the request again as the
\* admin.  The request is not marked as retried.
DropSupport(r) ==
    /\ Refused(r) /\ imp # 0 /\ ~retried[r]
    /\ ClearImpersonation
    /\ ArmWhenUnset(Tab[r])
    /\ UNCHANGED <<token, user, refresh, api, page, inFlight, pc, retried, call, history>>

\* Any other first 401 waits for a refresh.
Renew(r) ==
    /\ Refused(r) /\ imp = 0 /\ ~retried[r]
    /\ retried' = [retried EXCEPT ![r] = TRUE]
    /\ pc' = [pc EXCEPT ![r] = "renewing"]
    /\ RunRefresh(Tab[r], r)
    /\ UNCHANGED <<jar, api, page, timer, history>>

\* A 401 to a request that has been sent again with a new token.
GiveUp(r) ==
    /\ Refused(r) /\ retried[r]
    /\ ForceLogout(Tab[r])
    /\ End({r})
    /\ UNCHANGED <<api, inFlight, call, history>>

-----------------------------------------------------------------------------
(* The refresh.                                                            *)

\* A minute before the access token expires.
KeepAliveFires(t) ==
    /\ timer[t] = "armed"
    /\ timer' = [timer EXCEPT ![t] = "spent"]
    /\ RunRefresh(t, t)
    /\ UNCHANGED <<jar, api, page, reqs, history>>

\* The API rotates: the token it is sent is used up and its successor issued.
APIRotates(i) ==
    /\ call[i].state = "pending" /\ call[i].sent \in live
    /\ issued < MaxTokens
    /\ issued' = issued + 1
    /\ live' = (live \ {call[i].sent}) \cup {issued + 1}
    /\ loginOf' = [loginOf EXCEPT ![issued + 1] = loginOf[call[i].sent]]
    /\ call' = [call EXCEPT ![i].state = "rotated", ![i].next = issued + 1]
    /\ rotatedBy' = [rotatedBy EXCEPT ![call[i].sent] = TabOf(i)]
    /\ UNCHANGED <<jar, started, tabs, reqs, excused, closed>>

APIRefuses(i) ==
    /\ call[i].state = "pending" /\ call[i].sent \notin live
    /\ call' = [call EXCEPT ![i].state = "refused"]
    /\ UNCHANGED <<jar, api, tabs, reqs, history>>

\* A bug: what waited for the call of another is not told that it landed.
RefreshWakesInitiator(i) ==
    LET t == TabOf(i)
        g == call[i].next
    IN  /\ call[i].state = "rotated"
        /\ token' = g /\ refresh' = g
        /\ EndCall(i)
        /\ timer' = [timer EXCEPT ![t] = "armed"]
        /\ pc' = [r \in Requests |-> IF r \in Waiting(t) \cap {i} THEN "sent" ELSE pc[r]]
        /\ UNCHANGED <<user, imp, api, page, retried, history>>

\* A bug: the answer's cookie is not stored.
RefreshKeepsCookie(i) ==
    LET t == TabOf(i)
    IN  /\ call[i].state = "rotated"
        /\ token' = call[i].next
        /\ EndCall(i)
        /\ timer' = [timer EXCEPT ![t] = "armed"]
        /\ pc' = [r \in Requests |-> IF r \in Waiting(t) THEN "sent" ELSE pc[r]]
        /\ UNCHANGED <<refresh, user, imp, api, page, retried, history>>

\* The answer lands: both cookies are set, the timer starts again, and every request
\* that waited is sent once more.
RefreshLands(i) ==
    LET t == TabOf(i)
        g == call[i].next
    IN  /\ call[i].state = "rotated"
        /\ token' = g /\ refresh' = g
        /\ EndCall(i)
        /\ timer' = [timer EXCEPT ![t] = "armed"]
        /\ pc' = [r \in Requests |-> IF r \in Waiting(t) THEN "sent" ELSE pc[r]]
        /\ UNCHANGED <<user, imp, api, page, retried, history>>

\* The refresh is answered 401.  The keep-alive ignores it; a request that waits
\* ends the session.
RefreshRefusedLands(i) ==
    LET t == TabOf(i)
    IN  /\ call[i].state = "refused"
        /\ EndCall(i)
        /\ End(Waiting(t))
        /\ IF Waiting(t) # {} THEN ForceLogout(t)
           ELSE UNCHANGED <<jar, page, timer>>
        /\ UNCHANGED <<api, history>>

\* The refresh token that has no successor in the jar once i's answer is lost.
LostWith(i) == IF call[i].state = "rotated" THEN {call[i].sent} ELSE {}

\* The call fails in the network, before or after the API has seen it.  What waited
\* fails, and the session is kept.
RefreshFails(i) ==
    /\ call[i].state # "none"
    /\ EndCall(i)
    /\ End(Waiting(TabOf(i)))
    /\ excused' = excused \cup LostWith(i)
    /\ UNCHANGED <<jar, api, page, timer, rotatedBy, closed>>

-----------------------------------------------------------------------------
(* Signing in and out.                                                     *)

\* The logins a call in flight may still bring a token of.
OnTheirWay(accepted) ==
    {loginOf[call[i].sent] : i \in {j \in Initiators :
        \/ call[j].state = "rotated"
        \/ call[j].state = "pending" /\ call[j].sent \in accepted}}

\* The answer of /auth/login or /auth/register: the cookies are set, the timer starts
\* and the tab moves on into the dashboard layout.  The form is disabled meanwhile.
SignIn(t) ==
    LET g == issued + 1
    IN  /\ issued < MaxTokens
        /\ issued' = g
        /\ live' = live \cup {g}
        /\ loginOf' = [loginOf EXCEPT ![g] = g]
        /\ token' = g /\ user' = g /\ refresh' = g
        /\ timer' = [timer EXCEPT ![t] = "armed"]
        /\ page' = [page EXCEPT ![t] = "app"]
        /\ UNCHANGED <<imp, started, inFlight, reqs, call, history>>

\* Page "login" stands for /login and for /register, which link to each other.
LoginForm(t) == page[t] = "login"
RegisterForm(t) == page[t] = "login"

handleLogin(t) == LoginForm(t) /\ SignIn(t)
handleRegister(t) == RegisterForm(t) /\ SignIn(t)

\* A bug: the access token is left in the jar.
LogoutKeepsToken == user' = 0 /\ ClearImpersonation /\ UNCHANGED token

\* What the finally block of handleLogout clears.
LogoutClears == ClearAuth /\ ClearImpersonation

\* The API serves the call of a Logout and revokes the refresh token it was sent.  The
\* click has changed nothing; nothing else changes before the call ends, and the answer
\* may be lost, or the tab reloaded, with the token gone.
LogoutRevokes(t) ==
    /\ page[t] # "login" /\ refresh \in live
    /\ live' = live \ {refresh}
    /\ excused' = excused \cup {refresh}
    /\ UNCHANGED <<jar, issued, started, loginOf, tabs, reqs, call,
                   rotatedBy, closed>>

\* The call of a Logout in the topbar ends: the access cookies go either way.  Its answer
\* takes the refresh cookie, whichever that is by now, and the tab moves to /login
\* without a reload; its error is thrown on, past the push.
handleLogout(t) ==
    /\ page[t] # "login"
    /\ LogoutClears
    /\ timer' = [timer EXCEPT ![t] = "off"]
    /\ \/ /\ refresh' = 0
          /\ page' = [page EXCEPT ![t] = IF @ = "app" THEN "login" ELSE @]
       \/ UNCHANGED <<refresh, page>>
    /\ closed' = closed \cup ({loginOf[g] : g \in Tokens \cap {token}}
          \ (OnTheirWay(live) \cup {loginOf[g] : g \in live \cap {refresh'}}))
    /\ UNCHANGED <<api, inFlight, reqs, call, rotatedBy, excused>>

\* A document is loaded into the tab: its JavaScript state is gone, with the answers
\* it was waiting for.
FullLoad(t, dest) ==
    LET gone == {i \in Initiators : TabOf(i) = t}
    IN  /\ page' = [page EXCEPT ![t] = dest]
        /\ timer' = [timer EXCEPT ![t] = "off"]
        /\ inFlight' = [inFlight EXCEPT ![t] = Nobody]
        /\ call' = [i \in Initiators |-> IF i \in gone THEN NoCall ELSE call[i]]
        /\ End({r \in RequestsOf(t) : pc[r] # "idle"})
        /\ excused' = excused \cup UNION {LostWith(i) : i \in gone}
        /\ UNCHANGED <<jar, api, rotatedBy, closed>>

\* The user opens or reloads a page.  The proxy guards the paths under /dashboard and
\* /admin alone: one of those needs a token or a support token in the jar and is sent to
\* /login without.
proxy(t) ==
    /\ page[t] # "leaving"
    /\ \E path \in {"protected", "open", "signIn"} :
          FullLoad(t, IF path = "signIn" \/ (path = "protected" /\ token = 0 /\ imp = 0)
                      THEN "login" ELSE "app")

\* The navigation forceLogout began.
LoginPageLoads(t) == page[t] = "leaving" /\ FullLoad(t, "login")

-----------------------------------------------------------------------------
(* The support session of an admin.                                        *)

\* The answer of /admin/users/:id/impersonate: cookies and event, whatever the jar holds
\* by now and wherever the tab has moved.
SetImpersonation(t) ==
    /\ started < MaxSupport
    /\ started' = started + 1
    /\ imp' = started + 1
    /\ UNCHANGED <<token, user, refresh, live, issued, loginOf, page, timer, inFlight,
                   reqs, call, history>>

\* Stop on the impersonation banner, once its call is over, well or not: whatever
\* support session is on ends.
StopImpersonation(t) ==
    /\ page[t] = "app" /\ imp # 0
    /\ ClearImpersonation
    /\ UNCHANGED <<token, user, refresh, api, tabs, reqs, call, history>>

-----------------------------------------------------------------------------
(* The API by itself.                                                      *)

\* The browser drops the cookie of a support token that has expired.
SupportCookieExpires ==
    /\ imp # 0 /\ imp' = 0
    /\ UNCHANGED <<token, user, refresh, api, tabs, reqs, call, history>>

\* The account is suspended: no token of the login is accepted again.
Suspend(login) ==
    LET its == {g \in Tokens : loginOf[g] = login}
    IN  /\ its \cap live # {}
        /\ live' = live \ its
        /\ excused' = excused \cup (its \cap live)
        /\ UNCHANGED <<jar, issued, started, loginOf, tabs, reqs, call,
                       rotatedBy, closed>>

-----------------------------------------------------------------------------
Settle(r) == Answered(r) \/ DropSupport(r) \/ Renew(r) \/ GiveUp(r)

RefreshEnds(i) == RefreshLands(i) \/ RefreshRefusedLands(i) \/ RefreshFails(i)

RequestNext == \E r \in Requests : SendRequest(r) \/ Settle(r)

RefreshNext == \E i \in Initiators : APIRotates(i) \/ APIRefuses(i) \/ RefreshEnds(i)

TabNext ==
    \E t \in Tabs :
        \/ KeepAliveFires(t)
        \/ handleLogin(t) \/ handleRegister(t)
        \/ LogoutRevokes(t) \/ handleLogout(t) \/ proxy(t) \/ LoginPageLoads(t)
        \/ SetImpersonation(t) \/ StopImpersonation(t)

APINext ==
    \/ \E g \in Tokens : Suspend(g)
    \/ SupportCookieExpires

Next == RequestNext \/ RefreshNext \/ TabNext \/ APINext

AnAnswerLands ==
    \/ \E r \in Requests : Settle(r)
    \/ \E i \in Initiators : RefreshEnds(i)

\* While HTTP calls are open one of them ends, with an answer or in an error; which
\* one is open.  Nothing makes a user act.
Fairness == WF_vars(AnAnswerLands)

Spec == Init /\ [][Next]_vars /\ Fairness

-----------------------------------------------------------------------------
(* A tab has one refresh in flight at most, the one refreshInFlight stands *)
(* for, and whoever waits for a refresh waits for one that is under way:   *)
(* the promise api-client.ts:44 shares among the requests that got a 401.  *)
SingleFlight ==
    \A t \in Tabs :
        /\ \A i \in Initiators :
              TabOf(i) = t /\ call[i] # NoCall => inFlight[t] = i
        /\ inFlight[t] # Nobody => call[inFlight[t]] # NoCall
        /\ Waiting(t) # {} => inFlight[t] # Nobody

\* The calls under way and the requests that wait for one, as SharedCall has them.
Shared == INSTANCE SharedCall WITH
    Callers <- Initiators, Waiters <- Requests, Home <- [i \in Initiators |-> TabOf(i)],
    flying <- {i \in Initiators : call[i] # NoCall},
    waiting <- {r \in Requests : pc[r] = "renewing"}

(* The refresh is one call a tab shares: the interceptor, the timer, the   *)
(* reloads and every way a call ends keep the promise of SharedCall.       *)
SharesOneCall == Shared!Spec

(* A refresh is refused only for a cause outside its tab: the token was    *)
(* revoked, the answer with its successor was lost, or another tab used    *)
(* it.  The tokens rotate, so this is what the single flight is for: the   *)
(* requests of a tab never sign their own user out.                        *)
NoSelfRefusal ==
    \A i \in Initiators :
        call[i].state = "refused" /\ call[i].sent # 0 =>
            \/ call[i].sent \in excused
            \/ /\ rotatedBy[call[i].sent] # Nobody
               /\ rotatedBy[call[i].sent] # TabOf(i)

(* The refresh cookie the browser holds is one the API accepts, or it was  *)
(* revoked, or its successor is on the way to the jar or was lost.         *)
HeldIsGood ==
    refresh # 0 =>
        \/ refresh \in live \cup excused
        \/ \E i \in Initiators : call[i].sent = refresh /\ call[i].state = "rotated"

(* A login the user has signed out of stays out of the jar: its token      *)
(* returns only where a refresh outlived the logout, or the logout call    *)
(* failed and left the refresh cookie with a token the API accepts.  Those *)
(* logins are not in `closed`, which makes this the promise of what is     *)
(* left, whatever lands late.                                              *)
OnlyStraysReturn ==
    token # 0 => loginOf[token] \notin closed

(* Every request of a page ends: answered, failed, or gone with its page.  *)
(* A request is sent once, so this says it of each of them.                *)
EveryRequestSettles ==
    []<>(\A r \in Requests : pc[r] \in {"idle", "over"})
=============================================================================
