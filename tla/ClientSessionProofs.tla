-------------------------- MODULE ClientSessionProofs --------------------------
(***************************************************************************)
(* Theorems about ClientSession, for any set of tabs and requests and any  *)
(* number of tokens.  What a step does to the refresh is of few kinds.     *)
(* Each kind is a definition, a lemma says which steps are of it, and the  *)
(* proofs of the invariants go by the kinds.                               *)
(***************************************************************************)
EXTENDS ClientSession, TLAPS

\* What the assumption on the constants says of TabOf.
LEMMA TabOfType ==
    /\ \A i \in Initiators : TabOf(i) \in Tabs
    /\ \A t \in Tabs : t \in Initiators /\ TabOf(t) = t
    /\ \A r \in Requests : r \in Initiators /\ TabOf(r) = Tab[r] /\ Tab[r] \in Tabs
    /\ Nobody \notin Initiators /\ Nobody \notin Tabs
BY SessionAssumption DEF SessionAssumption, Initiators, TabOf

LEMMA CallTypes ==
    /\ NoCall \in Calls /\ NoCall.state = "none" /\ NoCall.sent = 0 /\ NoCall.next = 0
    /\ \A c \in 0..MaxTokens :
          /\ Pending(c) \in Calls
          /\ Pending(c).state = "pending" /\ Pending(c).sent = c /\ Pending(c).next = 0
    /\ 0 \in 0..MaxTokens /\ 0 \in 0..MaxSupport
BY SessionAssumption DEF SessionAssumption, NoCall, Calls, Pending

\* What the API's answer makes of a call.
LEMMA RotatedCall ==
    ASSUME call \in [Initiators -> Calls], NEW i \in Initiators, NEW g \in 0..MaxTokens,
           call' = [call EXCEPT ![i].state = "rotated", ![i].next = g]
    PROVE  /\ call' \in [Initiators -> Calls]
           /\ \A j \in Initiators : j # i => call'[j] = call[j]
           /\ call'[i] = [state |-> "rotated", sent |-> call[i].sent, next |-> g]
<1>1. /\ call'[i].sent = call[i].sent /\ call'[i].next = g /\ call'[i].state = "rotated"
      /\ \A j \in Initiators : j # i => call'[j] = call[j]
  BY DEF Calls
<1>2. call' \in [Initiators -> Calls]
  BY DEF Calls
<1>3. call'[i] = [state |-> call'[i].state, sent |-> call'[i].sent, next |-> call'[i].next]
  BY <1>2 DEF Calls
<1> QED BY <1>1, <1>2, <1>3

LEMMA RefusedCall ==
    ASSUME call \in [Initiators -> Calls], NEW i \in Initiators,
           call' = [call EXCEPT ![i].state = "refused"]
    PROVE  /\ call' \in [Initiators -> Calls]
           /\ \A j \in Initiators : j # i => call'[j] = call[j]
           /\ call'[i] = [state |-> "refused", sent |-> call[i].sent, next |-> call[i].next]
<1>1. /\ call'[i].sent = call[i].sent /\ call'[i].next = call[i].next /\ call'[i].state = "refused"
      /\ \A j \in Initiators : j # i => call'[j] = call[j]
  BY DEF Calls
<1>2. call' \in [Initiators -> Calls]
  BY DEF Calls
<1>3. call'[i] = [state |-> call'[i].state, sent |-> call'[i].sent, next |-> call'[i].next]
  BY <1>2 DEF Calls
<1> QED BY <1>1, <1>2, <1>3

-----------------------------------------------------------------------------
(* The types, with what they rest on: the shape of a call, absent NoCall   *)
(* and rotated with a token and its successor; and that no token, and no   *)
(* login, is known before it is issued.                                    *)

Shape ==
    \A i \in Initiators :
        /\ call[i].state = "none" => call[i] = NoCall
        /\ call[i].state = "rotated" => call[i].sent \in Tokens /\ call[i].next \in Tokens

Issued ==
    /\ token <= issued /\ refresh <= issued
    /\ \A g \in live : g <= issued
    /\ \A i \in Initiators : call[i].sent <= issued /\ call[i].next <= issued
    /\ \A g \in Tokens : g <= issued => loginOf[g] \in 1..issued
    /\ \A h \in closed : h <= issued

TypeInv == TypeOK /\ Shape /\ Issued

-----------------------------------------------------------------------------
(* The kinds of steps.                                                     *)

\* What the API and the history know of the tokens.
ledger == <<live, issued, loginOf, rotatedBy, excused, closed>>

\* Nothing happens to the refresh; the access cookie stays or goes.
QuietStep ==
    /\ UNCHANGED <<ledger, refresh, inFlight, call>>
    /\ token' \in {0, token}
    /\ \A r \in Requests : pc'[r] = "renewing" <=> pc[r] = "renewing"

\* i needs a refresh: it starts the call of its tab, or joins it.
NeedStep(i) ==
    /\ UNCHANGED <<ledger, token, refresh>>
    /\ RunRefresh(TabOf(i), i)
    /\ \A r \in Requests : pc'[r] = "renewing" <=> pc[r] = "renewing" \/ r = i

\* The API answers i, and the answer is on its way.
AnswerStep(i) ==
    /\ call[i].state = "pending" /\ call'[i].state # "none"
    /\ \A j \in Initiators : j # i => call'[j] = call[j]
    /\ UNCHANGED <<inFlight, pc>>

\* The call of i is over, and whoever waited in its tab goes on.
EndStep(i) ==
    /\ call[i].state # "none"
    /\ EndCall(i)
    /\ \A r \in Requests :
          pc'[r] = "renewing" <=> pc[r] = "renewing" /\ Tab[r] # TabOf(i)

\* A document is loaded: the calls of the tab are gone, and who waited for them.
LoadStep(t) ==
    /\ inFlight' = [inFlight EXCEPT ![t] = Nobody]
    /\ call' = [i \in Initiators |-> IF TabOf(i) = t THEN NoCall ELSE call[i]]
    /\ \A r \in Requests : pc'[r] = "renewing" <=> pc[r] = "renewing" /\ Tab[r] # t

\* The user signs in or out, or the API ends a login: the calls go on.
SignStep == UNCHANGED <<inFlight, call, pc>>

-----------------------------------------------------------------------------
(* Every step keeps the types.                                             *)

LEMMA InitType == Init => TypeInv
BY SessionAssumption, CallTypes
   DEF SessionAssumption, Init, TypeInv, TypeOK, Shape, Issued, PCs, Tokens

\* Starting or joining a call keeps the types of the calls.
LEMMA RunRefreshType ==
    ASSUME TypeInv, NEW i \in Initiators, NEW t \in Tabs, RunRefresh(t, i)
    PROVE  /\ inFlight' \in [Tabs -> Initiators \cup {Nobody}]
           /\ call' \in [Initiators -> Calls]
           /\ Shape'
           /\ \A j \in Initiators : call'[j].sent <= issued /\ call'[j].next <= issued
<1> USE TabOfType, CallTypes, SessionAssumption
    DEF TypeInv, TypeOK, Issued, SessionAssumption
<1>1. CASE inFlight[t] = Nobody
  <2>1. /\ inFlight' = [inFlight EXCEPT ![t] = i]
        /\ call' = [call EXCEPT ![i] = Pending(refresh)]
    BY <1>1 DEF RunRefresh
  <2>2. \A j \in Initiators : call'[j] = IF j = i THEN Pending(refresh) ELSE call[j]
    BY <2>1
  <2>3. Shape'
    BY <2>2 DEF Shape
  <2> QED BY <2>1, <2>2, <2>3
<1>2. CASE inFlight[t] # Nobody
  <2>1. UNCHANGED <<inFlight, call>>
    BY <1>2 DEF RunRefresh
  <2> QED BY <2>1 DEF Shape
<1> QED BY <1>1, <1>2

\* So does the end of a call.
LEMMA EndCallType ==
    ASSUME TypeInv, NEW i \in Initiators, EndCall(i)
    PROVE  /\ inFlight' \in [Tabs -> Initiators \cup {Nobody}]
           /\ call' \in [Initiators -> Calls]
           /\ Shape'
           /\ \A j \in Initiators : call'[j].sent <= issued /\ call'[j].next <= issued
BY TabOfType, CallTypes, SessionAssumption
   DEF SessionAssumption, TypeInv, TypeOK, EndCall, Shape, Issued

LEMMA EndType ==
    ASSUME TypeInv, NEW S, End(S)
    PROVE  pc' \in [Requests -> PCs] /\ retried' \in [Requests -> BOOLEAN]
BY DEF TypeInv, TypeOK, End, PCs

LEMMA ForceLogoutType ==
    ASSUME TypeInv, NEW t \in Tabs, ForceLogout(t)
    PROVE  /\ token' = 0 /\ user' \in 0..MaxTokens /\ imp' \in 0..MaxSupport
           /\ refresh' = refresh
           /\ timer' \in [Tabs -> {"off", "armed", "spent"}]
           /\ page' \in [Tabs -> {"app", "login", "leaving"}]
BY CallTypes DEF TypeInv, TypeOK, ForceLogout, ClearAuth, ClearImpersonation

LEMMA ArmType ==
    ASSUME TypeInv, NEW t \in Tabs, ArmWhenUnset(t)
    PROVE  timer' \in [Tabs -> {"off", "armed", "spent"}]
BY DEF TypeInv, TypeOK, ArmWhenUnset

LEMMA LostType ==
    ASSUME TypeInv, NEW i \in Initiators
    PROVE  LostWith(i) \subseteq Tokens
BY DEF TypeInv, Shape, LostWith

\* A login of an issued token is a token, of those too that are on their way.
LEMMA WayType ==
    ASSUME TypeInv, NEW S \in SUBSET Tokens, S \subseteq live
    PROVE  /\ OnTheirWay(S) \subseteq Tokens
           /\ \A h \in OnTheirWay(S) : h <= issued
<1>1. \A i \in Initiators :
         call[i].state = "rotated" \/ call[i].sent \in S
         => loginOf[call[i].sent] \in 1..issued
  BY DEF TypeInv, TypeOK, Shape, Issued
<1>2. 1..issued \subseteq Tokens
  BY SessionAssumption DEF SessionAssumption, TypeInv, TypeOK, Tokens
<1> QED BY <1>1, <1>2 DEF OnTheirWay

\* A step that issues nothing knows no more tokens than before.
LEMMA IssuedUnchanged ==
    ASSUME TypeInv, UNCHANGED <<issued, loginOf>>, closed' = closed,
           token' \in {0, token}, refresh' \in {0, refresh}, live' \subseteq live,
           \A j \in Initiators : call'[j].sent <= issued /\ call'[j].next <= issued
    PROVE  Issued'
BY SessionAssumption DEF SessionAssumption, TypeInv, TypeOK, Issued

LEMMA RequestType ==
    ASSUME TypeInv, NEW r \in Requests, SendRequest(r) \/ Settle(r)
    PROVE  TypeInv'
<1> USE TabOfType DEF TypeInv
<1>1. CASE SendRequest(r)
  <2>1. timer' \in [Tabs -> {"off", "armed", "spent"}]
    BY <1>1, ArmType DEF SendRequest
  <2>2. Issued'
    BY <1>1, IssuedUnchanged DEF SendRequest, Issued, jar, api, history
  <2> QED BY <1>1, <2>1, <2>2 DEF SendRequest, TypeOK, Shape, PCs, jar, api, history
<1>2. CASE Answered(r)
  <2>1. pc' \in [Requests -> PCs] /\ retried' \in [Requests -> BOOLEAN]
    BY <1>2, EndType DEF Answered
  <2>2. Issued'
    BY <1>2, IssuedUnchanged DEF Answered, Issued, jar, api, history
  <2> QED BY <1>2, <2>1, <2>2 DEF Answered, TypeOK, Shape, jar, api, tabs, history
<1>3. CASE DropSupport(r)
  <2>1. timer' \in [Tabs -> {"off", "armed", "spent"}]
    BY <1>3, ArmType DEF DropSupport
  <2>2. Issued'
    BY <1>3, IssuedUnchanged DEF DropSupport, Issued, api, history
  <2> QED BY <1>3, <2>1, <2>2, CallTypes
          DEF DropSupport, ClearImpersonation, TypeOK, Shape, api, history
<1>4. CASE Renew(r)
  <2>1. /\ inFlight' \in [Tabs -> Initiators \cup {Nobody}]
        /\ call' \in [Initiators -> Calls]
        /\ Shape'
        /\ \A j \in Initiators : call'[j].sent <= issued /\ call'[j].next <= issued
    BY <1>4, RunRefreshType DEF Renew
  <2>2. Issued'
    BY <1>4, <2>1, IssuedUnchanged DEF Renew, jar, api, history
  <2> QED BY <1>4, <2>1, <2>2 DEF Renew, TypeOK, PCs, jar, api, history
<1>5. CASE GiveUp(r)
  <2>1. pc' \in [Requests -> PCs] /\ retried' \in [Requests -> BOOLEAN]
    BY <1>5, EndType DEF GiveUp
  <2>2. /\ token' = 0 /\ user' \in 0..MaxTokens /\ imp' \in 0..MaxSupport
        /\ refresh' = refresh
        /\ timer' \in [Tabs -> {"off", "armed", "spent"}]
        /\ page' \in [Tabs -> {"app", "login", "leaving"}]
    BY <1>5, ForceLogoutType DEF GiveUp
  <2>3. Issued'
    BY <1>5, <2>2, IssuedUnchanged DEF GiveUp, Issued, api, history
  <2> QED BY <1>5, <2>1, <2>2, <2>3, CallTypes DEF GiveUp, TypeOK, Shape, api, history
<1> QED BY <1>1, <1>2, <1>3, <1>4, <1>5 DEF Settle

\* What the API's rotation issues.
LEMMA Rotation ==
    ASSUME TypeInv, NEW i \in Initiators, APIRotates(i)
    PROVE  /\ issued \in Nat /\ issued + 1 \in Tokens /\ issued + 1 \in 0..MaxTokens
           /\ call[i].sent \in Tokens /\ call[i].sent <= issued
           /\ call' \in [Initiators -> Calls]
           /\ \A j \in Initiators : j # i => call'[j] = call[j]
           /\ call'[i] = [state |-> "rotated", sent |-> call[i].sent, next |-> issued + 1]
<1> USE DEF TypeInv
<1>1. issued \in Nat /\ issued < MaxTokens /\ MaxTokens \in Nat
  BY SessionAssumption DEF SessionAssumption, APIRotates, TypeOK
<1>2. issued + 1 \in Tokens /\ issued + 1 \in 0..MaxTokens
  BY <1>1 DEF Tokens
<1>3. call[i].sent \in live
  BY DEF APIRotates
<1>4. call[i].sent \in Tokens
  BY <1>3 DEF TypeOK
<1>5. call[i].sent <= issued
  BY <1>3 DEF Issued
<1>6. /\ call \in [Initiators -> Calls]
      /\ call' = [call EXCEPT ![i].state = "rotated", ![i].next = issued + 1]
  BY DEF APIRotates, TypeOK
<1> QED BY <1>1, <1>2, <1>4, <1>5, <1>6, RotatedCall

LEMMA RefreshType ==
    ASSUME TypeInv, NEW i \in Initiators,
           APIRotates(i) \/ APIRefuses(i) \/ RefreshEnds(i)
    PROVE  TypeInv'
<1> USE TabOfType, CallTypes DEF TypeInv
<1>1. CASE APIRotates(i)
  <2>1. /\ issued + 1 \in Tokens /\ issued + 1 \in 0..MaxTokens
        /\ call[i].sent \in Tokens /\ call[i].sent <= issued
    BY <1>1, Rotation
  <2>2. \A j \in Initiators : call'[j] = IF j = i THEN [state |-> "rotated",
                                  sent |-> call[i].sent, next |-> issued + 1] ELSE call[j]
    BY <1>1, Rotation
  <2>3. call' \in [Initiators -> Calls]
    BY <1>1, Rotation
  <2>4. Shape'
    BY <2>1, <2>2 DEF Shape
  <2>5. rotatedBy' \in [Tokens -> Tabs \cup {Nobody}] /\ live' \subseteq Tokens
        /\ issued' \in 0..MaxTokens
        /\ loginOf' \in [Tokens -> 0..MaxTokens]
    BY <1>1, <2>1 DEF APIRotates, TypeOK
  <2>6. Issued'
    <3> DEFINE g == issued + 1
    <3>1. issued' = g /\ token' = token /\ refresh' = refresh /\ closed' = closed
          /\ live' = (live \ {call[i].sent}) \cup {g}
          /\ issued \in Nat
      BY <1>1 DEF APIRotates, jar, TypeOK
    <3>2. token' <= issued' /\ refresh' <= issued'
          /\ (\A h \in live' : h <= issued') /\ (\A h \in closed' : h <= issued')
      BY <3>1 DEF Issued, TypeOK, Tokens
    <3>3. ASSUME NEW j \in Initiators
          PROVE  call'[j].sent <= issued' /\ call'[j].next <= issued'
      <4>1. call[j].sent \in Nat /\ call[j].next \in Nat
            /\ call[j].sent <= issued /\ call[j].next <= issued
        BY DEF Issued, TypeOK, Calls
      <4>2. CASE j = i
        BY <2>1, <2>2, <3>1, <4>1, <4>2
      <4>3. CASE j # i
        BY <2>2, <3>1, <4>1, <4>3
      <4> QED BY <4>2, <4>3
    <3>4. ASSUME NEW h \in Tokens, h <= issued'
          PROVE  loginOf'[h] \in 1..issued'
      <4>1. loginOf'[h] = IF h = g THEN loginOf[call[i].sent] ELSE loginOf[h]
        BY <1>1, <2>1 DEF APIRotates, TypeOK
      <4>2. h # g => h <= issued
        BY <3>1, <3>4 DEF Tokens
      <4> QED BY <2>1, <3>1, <4>1, <4>2 DEF Issued
    <3> QED BY <3>2, <3>3, <3>4 DEF Issued
  <2> QED BY <1>1, <2>3, <2>4, <2>5, <2>6 DEF APIRotates, TypeOK, jar, tabs, reqs
<1>2. CASE APIRefuses(i)
  <2>1. \A j \in Initiators : call'[j] = IF j = i THEN [state |-> "refused",
                                  sent |-> call[i].sent, next |-> call[i].next] ELSE call[j]
    BY <1>2, RefusedCall DEF APIRefuses, TypeOK
  <2>2. call' \in [Initiators -> Calls]
    BY <1>2, RefusedCall DEF APIRefuses, TypeOK
  <2>3. Issued' /\ Shape'
    BY <1>2, <2>1, IssuedUnchanged DEF APIRefuses, Issued, Shape, jar, api, history
  <2> QED BY <1>2, <2>2, <2>3 DEF APIRefuses, TypeOK, jar, api, tabs, reqs, history
<1>3. ASSUME EndCall(i), UNCHANGED <<api, closed>>, token' \in {0, token}, refresh' = refresh
      PROVE  Issued'
  BY <1>3, EndCallType, IssuedUnchanged DEF api
<1>4. CASE RefreshLands(i)
  <2> DEFINE g == call[i].next
  <2>1. /\ inFlight' \in [Tabs -> Initiators \cup {Nobody}]
        /\ call' \in [Initiators -> Calls]
        /\ Shape'
        /\ \A j \in Initiators : call'[j].sent <= issued /\ call'[j].next <= issued
    BY <1>4, EndCallType DEF RefreshLands
  <2>2. token' = g /\ refresh' = g /\ g \in 0..MaxTokens /\ g <= issued
    BY <1>4 DEF RefreshLands, TypeOK, Calls, Issued
  <2>3. Issued'
    BY <1>4, <2>1, <2>2 DEF RefreshLands, Issued, api, history
  <2>4. pc' \in [Requests -> PCs] /\ timer' \in [Tabs -> {"off", "armed", "spent"}]
    BY <1>4 DEF RefreshLands, TypeOK, PCs
  <2> QED BY <1>4, <2>1, <2>2, <2>3, <2>4 DEF RefreshLands, TypeOK, api, history
<1>5. CASE RefreshRefusedLands(i)
  <2>1. /\ inFlight' \in [Tabs -> Initiators \cup {Nobody}]
        /\ call' \in [Initiators -> Calls]
        /\ Shape'
    BY <1>5, EndCallType DEF RefreshRefusedLands
  <2>2. pc' \in [Requests -> PCs] /\ retried' \in [Requests -> BOOLEAN]
    BY <1>5, EndType DEF RefreshRefusedLands
  <2>3. /\ token' \in {0, token} /\ user' \in 0..MaxTokens /\ imp' \in 0..MaxSupport
        /\ refresh' = refresh
        /\ timer' \in [Tabs -> {"off", "armed", "spent"}]
        /\ page' \in [Tabs -> {"app", "login", "leaving"}]
    BY <1>5, ForceLogoutType DEF RefreshRefusedLands, TypeOK, jar
  <2>4. Issued'
    BY <1>5, <2>3, <1>3 DEF RefreshRefusedLands, history
  <2>5. token' \in 0..MaxTokens /\ refresh' \in 0..MaxTokens
    BY <2>3 DEF TypeOK
  <2> QED BY <1>5, <2>1, <2>2, <2>3, <2>4, <2>5
          DEF RefreshRefusedLands, TypeOK, api, history
<1>6. CASE RefreshFails(i)
  <2>1. /\ inFlight' \in [Tabs -> Initiators \cup {Nobody}]
        /\ call' \in [Initiators -> Calls]
        /\ Shape'
    BY <1>6, EndCallType DEF RefreshFails
  <2>2. pc' \in [Requests -> PCs] /\ retried' \in [Requests -> BOOLEAN]
    BY <1>6, EndType DEF RefreshFails
  <2>3. excused' \subseteq Tokens
    BY <1>6, LostType DEF RefreshFails, TypeOK
  <2>4. Issued'
    BY <1>6, <1>3 DEF RefreshFails, jar
  <2> QED BY <1>6, <2>1, <2>2, <2>3, <2>4 DEF RefreshFails, TypeOK, jar, api
<1> QED BY <1>1, <1>2, <1>4, <1>5, <1>6 DEF RefreshEnds
\* The token of a login is new to all.
LEMMA SignInType ==
    ASSUME TypeInv, NEW t \in Tabs, SignIn(t)
    PROVE  TypeInv'
<1> USE CallTypes DEF TypeInv
<1> DEFINE g == issued + 1
<1>1. /\ issued \in Nat /\ g \in Tokens /\ g \in 0..MaxTokens /\ g \in 1..g
      /\ issued <= g /\ g <= g
  BY SessionAssumption DEF SessionAssumption, SignIn, TypeOK, Tokens
<1>2. /\ issued' = g /\ token' = g /\ user' = g /\ refresh' = g
      /\ live' = live \cup {g} /\ loginOf' = [loginOf EXCEPT ![g] = g]
      /\ UNCHANGED <<call, closed>>
  BY DEF SignIn, history
<1>4. loginOf' \in [Tokens -> 0..MaxTokens] /\ live' \subseteq Tokens
  BY <1>1, <1>2 DEF TypeOK
<1>5. timer' \in [Tabs -> {"off", "armed", "spent"}]
      /\ page' \in [Tabs -> {"app", "login", "leaving"}]
  BY DEF SignIn, TypeOK
<1>6. Issued'
  <2>1. (\A h \in live' : h <= issued') /\ (\A h \in closed' : h <= issued')
    BY <1>1, <1>2 DEF Issued, TypeOK, Tokens
  <2>2. ASSUME NEW j \in Initiators
        PROVE  call'[j].sent <= issued' /\ call'[j].next <= issued'
    <3>1. /\ call[j].sent \in Nat /\ call[j].next \in Nat
          /\ call[j].sent <= issued /\ call[j].next <= issued
      BY DEF Issued, TypeOK, Calls
    <3> QED BY <3>1, <1>1, <1>2
  <2>3. ASSUME NEW h \in Tokens, h <= issued'
        PROVE  loginOf'[h] \in 1..issued'
    <3>1. loginOf'[h] = IF h = g THEN g ELSE loginOf[h]
      BY <1>1, <1>2 DEF TypeOK
    <3>2. h # g => h <= issued
      BY <1>1, <1>2, <2>3 DEF Tokens
    <3>3. CASE h = g
      BY <1>1, <1>2, <3>1, <3>3
    <3>4. CASE h # g
      <4>1. loginOf[h] \in 1..issued
        BY <3>2, <3>4 DEF Issued
      <4> QED BY <1>1, <1>2, <3>1, <3>4, <4>1
    <3> QED BY <3>3, <3>4
  <2> QED BY <1>1, <1>2, <2>1, <2>2, <2>3 DEF Issued
<1> QED BY <1>1, <1>2, <1>4, <1>5, <1>6 DEF SignIn, TypeOK, Shape, reqs, history

LEMMA RevokeType ==
    ASSUME TypeInv, NEW t \in Tabs, LogoutRevokes(t)
    PROVE  TypeInv'
<1> USE DEF TypeInv
<1>1. Issued'
  BY IssuedUnchanged DEF LogoutRevokes, Issued, jar
<1> QED BY <1>1 DEF LogoutRevokes, TypeOK, Shape, jar, tabs, reqs

LEMMA LogoutType ==
    ASSUME TypeInv, NEW t \in Tabs, handleLogout(t)
    PROVE  TypeInv'
<1> USE CallTypes DEF TypeInv
<1>1. /\ token' = 0 /\ user' = 0 /\ imp' = 0
      /\ UNCHANGED <<live, issued, started, loginOf, inFlight, pc, retried, call,
                     rotatedBy, excused>>
  BY DEF handleLogout, LogoutClears, ClearAuth, ClearImpersonation, api, reqs
<1>2. refresh' \in {0, refresh}
  BY DEF handleLogout
<1>3. ASSUME NEW g \in Tokens \cap {token}
      PROVE  loginOf[g] \in Tokens /\ loginOf[g] <= issued
  <2>1. loginOf[g] \in 1..issued /\ issued \in Nat /\ issued <= MaxTokens
    BY <1>3 DEF Issued, TypeOK
  <2> QED BY <2>1, SessionAssumption DEF SessionAssumption, Tokens
<1>4. closed' \subseteq Tokens /\ \A h \in closed' : h <= issued
  BY <1>3 DEF handleLogout, TypeOK, Issued
<1>5. page' \in [Tabs -> {"app", "login", "leaving"}]
      /\ timer' \in [Tabs -> {"off", "armed", "spent"}]
  BY DEF handleLogout, TypeOK
<1>6. refresh' \in 0..MaxTokens
  BY <1>2 DEF TypeOK
<1>7. Issued'
  BY <1>1, <1>2, <1>4, SessionAssumption DEF SessionAssumption, Issued, TypeOK
<1> QED BY <1>1, <1>4, <1>5, <1>6, <1>7 DEF TypeOK, Shape

LEMMA FullLoadType ==
    ASSUME TypeInv, NEW t \in Tabs, NEW dest \in {"app", "login"}, FullLoad(t, dest)
    PROVE  TypeInv'
<1> USE CallTypes DEF TypeInv
<1> DEFINE gone == {i \in Initiators : TabOf(i) = t}
<1>1. \A i \in Initiators : call'[i] = IF TabOf(i) = t THEN NoCall ELSE call[i]
  BY DEF FullLoad
<1>2. call' \in [Initiators -> Calls]
  BY DEF FullLoad, TypeOK
<1>3. Shape'
  BY <1>1 DEF Shape
<1>4. pc' \in [Requests -> PCs] /\ retried' \in [Requests -> BOOLEAN]
  BY EndType DEF FullLoad
<1>5. excused' \subseteq Tokens
  <2>1. \A i \in gone : LostWith(i) \subseteq Tokens
    BY LostType
  <2>2. UNION {LostWith(i) : i \in gone} \subseteq Tokens
    BY <2>1
  <2> QED BY <2>2 DEF FullLoad, TypeOK
<1>6. page' \in [Tabs -> {"app", "login", "leaving"}]
      /\ timer' \in [Tabs -> {"off", "armed", "spent"}]
      /\ inFlight' \in [Tabs -> Initiators \cup {Nobody}]
  BY DEF FullLoad, TypeOK
<1>7. Issued'
  <2>1. \A j \in Initiators : call'[j].sent <= issued /\ call'[j].next <= issued
    BY <1>1, SessionAssumption DEF SessionAssumption, Issued, TypeOK
  <2> QED BY <2>1, IssuedUnchanged DEF FullLoad, jar, api
<1> QED BY <1>2, <1>3, <1>4, <1>5, <1>6, <1>7 DEF FullLoad, TypeOK, jar, api

\* What the user and the timer do in a tab keeps the types.
LEMMA TabType ==
    ASSUME TypeInv, TabNext
    PROVE  TypeInv'
<1> PICK t \in Tabs :
        \/ KeepAliveFires(t)
        \/ handleLogin(t) \/ handleRegister(t)
        \/ LogoutRevokes(t) \/ handleLogout(t) \/ proxy(t) \/ LoginPageLoads(t)
        \/ SetImpersonation(t) \/ StopImpersonation(t)
  BY DEF TabNext
<1>1. CASE KeepAliveFires(t)
  <2>1. /\ inFlight' \in [Tabs -> Initiators \cup {Nobody}]
        /\ call' \in [Initiators -> Calls]
        /\ Shape'
        /\ \A j \in Initiators : call'[j].sent <= issued /\ call'[j].next <= issued
    BY <1>1, TabOfType, RunRefreshType DEF KeepAliveFires
  <2>2. Issued'
    BY <1>1, <2>1, IssuedUnchanged DEF KeepAliveFires, jar, api, history
  <2> QED BY <1>1, <2>1, <2>2 DEF KeepAliveFires, TypeInv, TypeOK, jar, api, reqs, history
<1>2. CASE handleLogin(t) \/ handleRegister(t)
  BY <1>2, SignInType DEF handleLogin, handleRegister
<1>3. CASE LogoutRevokes(t) \/ handleLogout(t)
  BY <1>3, RevokeType, LogoutType
<1>4. CASE proxy(t) \/ LoginPageLoads(t)
  BY <1>4, FullLoadType DEF proxy, LoginPageLoads
<1>5. CASE SetImpersonation(t)
  <2>1. started' \in 0..MaxSupport /\ imp' \in 0..MaxSupport
    BY <1>5, SessionAssumption DEF SessionAssumption, SetImpersonation, TypeInv, TypeOK
  <2> QED BY <1>5, <2>1
          DEF SetImpersonation, TypeInv, TypeOK, Shape, Issued, reqs, history
<1>6. CASE StopImpersonation(t)
  BY <1>6, CallTypes
     DEF StopImpersonation, ClearImpersonation, TypeInv, TypeOK, Shape, Issued,
         api, tabs, reqs, history
<1> QED BY <1>1, <1>2, <1>3, <1>4, <1>5, <1>6

\* What the API and the browser do by themselves keeps the types.
LEMMA APIType ==
    ASSUME TypeInv, APINext
    PROVE  TypeInv'
<1>1. ASSUME NEW login \in Tokens, Suspend(login)
      PROVE  TypeInv'
  <2>1. Issued'
    BY <1>1, IssuedUnchanged DEF Suspend, TypeInv, Issued, jar
  <2> QED BY <1>1, <2>1 DEF Suspend, TypeInv, TypeOK, Shape, jar, tabs, reqs
<1>2. CASE SupportCookieExpires
  BY <1>2, CallTypes
     DEF SupportCookieExpires, TypeInv, TypeOK, Shape, Issued, api, tabs, reqs, history
<1> QED BY <1>1, <1>2 DEF APINext

LEMMA NextType == TypeInv /\ [Next]_vars => TypeInv'
<1>1. CASE UNCHANGED vars
  BY <1>1 DEF vars, jar, api, tabs, reqs, history, TypeInv, TypeOK, Shape, Issued
<1> QED BY <1>1, RequestType, RefreshType, TabType, APIType
        DEF Next, RequestNext, RefreshNext

(* Every reachable state has the declared types; the calls have their      *)
(* shape, and no token or login is known before the API issues it.         *)
THEOREM TypeHolds == Spec => []TypeInv
BY InitType, NextType, PTL DEF Spec

(* The cookies, the tabs, the requests and the calls keep their types: a   *)
(* tab's refreshInFlight is a call or nothing (api-client.ts:44).          *)
THEOREM TypeCorrect == Spec => []TypeOK
<1>1. TypeInv => TypeOK
  BY DEF TypeInv
<1> QED BY <1>1, TypeHolds, PTL
-----------------------------------------------------------------------------
(* Which steps are of which kind.                                          *)

LEMMA QuietRequests ==
    ASSUME NEW r \in Requests, SendRequest(r) \/ Answered(r) \/ DropSupport(r) \/ GiveUp(r),
           TypeInv
    PROVE  QuietStep
<1>1. CASE SendRequest(r)
  BY <1>1 DEF SendRequest, QuietStep, ledger, jar, api, history, TypeInv, TypeOK
<1>2. CASE Answered(r)
  BY <1>2 DEF Answered, End, QuietStep, ledger, jar, api, tabs, history
<1>3. CASE DropSupport(r)
  BY <1>3 DEF DropSupport, QuietStep, ledger, api, history
<1>4. CASE GiveUp(r)
  BY <1>4 DEF GiveUp, Refused, End, ForceLogout, ClearAuth, QuietStep, ledger, api, history
<1> QED BY <1>1, <1>2, <1>3, <1>4

LEMMA QuietOthers ==
    ASSUME \/ \E t \in Tabs : SetImpersonation(t) \/ StopImpersonation(t)
           \/ SupportCookieExpires
           \/ UNCHANGED vars
    PROVE  QuietStep
BY DEF SetImpersonation, StopImpersonation, SupportCookieExpires, QuietStep, ledger,
       vars, jar, api, tabs, reqs, history

LEMMA RenewNeeds ==
    ASSUME TypeInv, NEW r \in Requests, Renew(r)
    PROVE  NeedStep(r)
BY TabOfType DEF Renew, NeedStep, ledger, jar, api, history, TypeInv, TypeOK

LEMMA KeepAliveNeeds ==
    ASSUME NEW t \in Tabs, KeepAliveFires(t)
    PROVE  NeedStep(t)
BY TabOfType, SessionAssumption
   DEF SessionAssumption, KeepAliveFires, NeedStep, ledger, jar, api, reqs, history

LEMMA APIAnswers ==
    ASSUME TypeInv, NEW i \in Initiators, APIRotates(i) \/ APIRefuses(i)
    PROVE  AnswerStep(i)
<1>1. CASE APIRotates(i)
  <2>1. /\ \A j \in Initiators : j # i => call'[j] = call[j]
        /\ call'[i] = [state |-> "rotated", sent |-> call[i].sent, next |-> issued + 1]
    BY <1>1, Rotation
  <2>2. call'[i].state = "rotated"
    BY <2>1
  <2> QED BY <1>1, <2>1, <2>2 DEF APIRotates, AnswerStep, tabs, reqs
<1>2. CASE APIRefuses(i)
  <2>1. /\ \A j \in Initiators : j # i => call'[j] = call[j]
        /\ call'[i].state = "refused"
    BY <1>2, RefusedCall DEF APIRefuses, TypeInv, TypeOK
  <2> QED BY <1>2, <2>1 DEF APIRefuses, AnswerStep, tabs, reqs
<1> QED BY <1>1, <1>2

LEMMA RefreshEndsEnd ==
    ASSUME TypeInv, NEW i \in Initiators, RefreshEnds(i)
    PROVE  EndStep(i)
<1>1. EndCall(i) /\ call[i].state # "none"
  BY DEF RefreshEnds, RefreshLands, RefreshRefusedLands, RefreshFails
<1>2. ASSUME NEW r \in Requests
      PROVE  pc'[r] = "renewing" <=> pc[r] = "renewing" /\ Tab[r] # TabOf(i)
  BY DEF RefreshEnds, RefreshLands, RefreshRefusedLands, RefreshFails, End, Waiting,
         RequestsOf
<1> QED BY <1>1, <1>2 DEF EndStep

LEMMA FullLoadLoads ==
    ASSUME TypeInv, NEW t \in Tabs, NEW dest, FullLoad(t, dest)
    PROVE  LoadStep(t)
BY DEF FullLoad, LoadStep, End, RequestsOf

LEMMA SigningSigns ==
    ASSUME \/ \E t \in Tabs : SignIn(t) \/ LogoutRevokes(t) \/ handleLogout(t)
           \/ \E g \in Tokens : Suspend(g)
    PROVE  SignStep
BY DEF SignIn, LogoutRevokes, handleLogout, Suspend, SignStep, tabs, reqs

\* Every step is of a kind.
LEMMA StepKind ==
    ASSUME TypeInv, [Next]_vars
    PROVE  \/ QuietStep
           \/ SignStep
           \/ \E i \in Initiators : NeedStep(i) \/ AnswerStep(i) \/ EndStep(i)
           \/ \E t \in Tabs : LoadStep(t)
<1>1. CASE UNCHANGED vars \/ APINext
  BY <1>1, QuietOthers, SigningSigns DEF APINext
<1>2. CASE RequestNext
  BY <1>2, QuietRequests, RenewNeeds, TabOfType DEF RequestNext, Settle
<1>3. CASE RefreshNext
  BY <1>3, APIAnswers, RefreshEndsEnd DEF RefreshNext
<1>4. CASE TabNext
  <2>1. PICK t \in Tabs :
          \/ KeepAliveFires(t)
          \/ handleLogin(t) \/ handleRegister(t)
          \/ LogoutRevokes(t) \/ handleLogout(t) \/ proxy(t) \/ LoginPageLoads(t)
          \/ SetImpersonation(t) \/ StopImpersonation(t)
    BY <1>4 DEF TabNext
  <2>2. CASE KeepAliveFires(t)
    BY <2>2, KeepAliveNeeds, TabOfType
  <2>3. CASE handleLogin(t) \/ handleRegister(t) \/ LogoutRevokes(t) \/ handleLogout(t)
    BY <2>3, SigningSigns DEF handleLogin, handleRegister
  <2>4. CASE proxy(t) \/ LoginPageLoads(t)
    BY <2>4, FullLoadLoads DEF proxy, LoginPageLoads
  <2>5. CASE SetImpersonation(t) \/ StopImpersonation(t)
    BY <2>5, QuietOthers
  <2> QED BY <2>1, <2>2, <2>3, <2>4, <2>5
<1> QED BY <1>1, <1>2, <1>3, <1>4 DEF Next

-----------------------------------------------------------------------------
(* The single flight.                                                      *)

\* The call a tab has in flight is its own.
Own == \A t \in Tabs : inFlight[t] # Nobody => TabOf(inFlight[t]) = t

FlightInv == TypeInv /\ SingleFlight /\ Own

LEMMA InitFlight == Init => FlightInv
BY InitType, CallTypes DEF FlightInv, Init, SingleFlight, Own, Waiting, RequestsOf

LEMMA NeedFlight ==
    ASSUME FlightInv, NEW i \in Initiators, NeedStep(i)
    PROVE  SingleFlight' /\ Own'
<1> USE TabOfType, CallTypes DEF FlightInv, TypeInv, TypeOK
<1> DEFINE t == TabOf(i)
<1>1. t \in Tabs /\ RunRefresh(t, i)
  BY DEF NeedStep
<1>2. CASE inFlight[t] = Nobody
  <2>1. /\ inFlight' = [inFlight EXCEPT ![t] = i]
        /\ call' = [call EXCEPT ![i] = Pending(refresh)]
    BY <1>1, <1>2 DEF RunRefresh
  <2>2. /\ \A s \in Tabs : inFlight'[s] = IF s = t THEN i ELSE inFlight[s]
        /\ \A j \in Initiators : j # i => call'[j] = call[j]
        /\ call'[i] # NoCall
    BY <1>1, <2>1
  <2>3. Own'
    BY <2>2 DEF Own
  <2>4. \A r \in Requests : Tab[r] # t /\ pc'[r] = "renewing" => pc[r] = "renewing"
    BY DEF NeedStep
  <2> QED BY <1>1, <1>2, <2>2, <2>3, <2>4 DEF SingleFlight, Waiting, RequestsOf, Own
<1>3. CASE inFlight[t] # Nobody
  <2>1. UNCHANGED <<inFlight, call>>
    BY <1>1, <1>3 DEF RunRefresh
  <2>2. \A r \in Requests : Tab[r] # t /\ pc'[r] = "renewing" => pc[r] = "renewing"
    BY DEF NeedStep
  <2> QED BY <1>1, <1>3, <2>1, <2>2 DEF SingleFlight, Waiting, RequestsOf, Own
<1> QED BY <1>2, <1>3

LEMMA AnswerFlight ==
    ASSUME FlightInv, NEW i \in Initiators, AnswerStep(i)
    PROVE  SingleFlight' /\ Own'
<1>1. \A j \in Initiators : call'[j] # NoCall <=> call[j] # NoCall
  BY CallTypes DEF AnswerStep
<1> QED BY <1>1 DEF FlightInv, AnswerStep, SingleFlight, Own, Waiting, TypeInv, TypeOK

LEMMA EndFlight ==
    ASSUME FlightInv, NEW i \in Initiators, EndStep(i)
    PROVE  SingleFlight' /\ Own'
<1> USE TabOfType, CallTypes DEF FlightInv, TypeInv, TypeOK
<1> DEFINE t == TabOf(i)
<1>1. t \in Tabs /\ inFlight[t] = i
  BY DEF EndStep, SingleFlight
<1>2. /\ \A s \in Tabs : inFlight'[s] = IF s = t THEN Nobody ELSE inFlight[s]
      /\ \A j \in Initiators : call'[j] = IF j = i THEN NoCall ELSE call[j]
  BY <1>1 DEF EndStep, EndCall
<1>3. \A r \in Requests : pc'[r] = "renewing" => pc[r] = "renewing" /\ Tab[r] # t
  BY DEF EndStep
<1> QED BY <1>1, <1>2, <1>3 DEF SingleFlight, Waiting, RequestsOf, Own

LEMMA LoadFlight ==
    ASSUME FlightInv, NEW t \in Tabs, LoadStep(t)
    PROVE  SingleFlight' /\ Own'
<1> USE TabOfType, CallTypes DEF FlightInv, TypeInv, TypeOK
<1>2. /\ \A s \in Tabs : inFlight'[s] = IF s = t THEN Nobody ELSE inFlight[s]
      /\ \A j \in Initiators : call'[j] = IF TabOf(j) = t THEN NoCall ELSE call[j]
  BY DEF LoadStep
<1>3. \A r \in Requests : pc'[r] = "renewing" => pc[r] = "renewing" /\ Tab[r] # t
  BY DEF LoadStep
<1> QED BY <1>2, <1>3 DEF SingleFlight, Waiting, RequestsOf, Own

LEMMA NextFlight == FlightInv /\ [Next]_vars => FlightInv'
<1> SUFFICES ASSUME FlightInv, [Next]_vars
             PROVE  SingleFlight' /\ Own'
  BY NextType DEF FlightInv
<1>1. CASE QuietStep
  BY <1>1 DEF QuietStep, FlightInv, SingleFlight, Own, Waiting, RequestsOf
<1>2. CASE SignStep
  BY <1>2 DEF SignStep, FlightInv, SingleFlight, Own, Waiting
<1> QED BY <1>1, <1>2, StepKind, NeedFlight, AnswerFlight, EndFlight, LoadFlight
        DEF FlightInv

(* Beside the types: the single flight, and that it is the tab's own.      *)
THEOREM FlightHolds == Spec => []FlightInv
BY InitFlight, NextFlight, PTL DEF Spec

(* runRefresh (api-client.ts:44) has one call of a tab in flight at most,  *)
(* and whoever waits for a refresh waits for one that is under way.        *)
THEOREM SingleFlightHolds == Spec => []SingleFlight
<1>1. FlightInv => SingleFlight
  BY DEF FlightInv
<1> QED BY <1>1, FlightHolds, PTL
-----------------------------------------------------------------------------
(* The refinement of SharedCall.                                           *)

Flying == {i \in Initiators : call[i] # NoCall}
Renewing == {r \in Requests : pc[r] = "renewing"}

LEMMA InitShares == Init => Shared!Init
BY CallTypes DEF Init, Shared!Init

\* Who needs a refresh starts the call of its tab or joins it.
LEMMA NeedShares ==
    ASSUME FlightInv, NEW i \in Initiators, NeedStep(i)
    PROVE  [Shared!Next]_(Shared!callVars)
<1> USE TabOfType, CallTypes DEF FlightInv, TypeInv, TypeOK
<1> DEFINE t == TabOf(i)
<1>1. t \in Tabs /\ RunRefresh(t, i)
  BY DEF NeedStep
<1>2. Renewing' = Renewing \cup ({i} \cap Requests)
  BY DEF NeedStep, Renewing
<1>3. CASE inFlight[t] = Nobody
  <2>1. call' = [call EXCEPT ![i] = Pending(refresh)]
    BY <1>1, <1>3 DEF RunRefresh
  <2>2. Flying' = Flying \cup {i}
    BY <2>1 DEF Flying
  <2>3. \A j \in Flying : TabOf(j) # t
    BY <1>1, <1>3 DEF Flying, SingleFlight
  <2>4. Shared!Start(i)
    BY <1>2, <2>2, <2>3 DEF Shared!Start, Flying, Renewing
  <2> QED BY <2>4 DEF Shared!Next
<1>4. CASE inFlight[t] # Nobody
  <2>1. Flying' = Flying
    BY <1>1, <1>4 DEF RunRefresh, Flying
  <2>2. CASE i \in Requests
    <3>1. inFlight[t] \in Flying /\ TabOf(inFlight[t]) = TabOf(i)
      BY <1>1, <1>4 DEF Flying, SingleFlight, Own
    <3>2. Shared!Join(i)
      BY <1>2, <2>1, <2>2, <3>1 DEF Shared!Join, Flying, Renewing
    <3> QED BY <2>2, <3>2 DEF Shared!Next
  <2>3. CASE i \notin Requests
    BY <1>2, <2>1, <2>3 DEF Shared!callVars, Flying, Renewing
  <2> QED BY <2>2, <2>3
<1> QED BY <1>3, <1>4

\* The call ends, and with it the waiting in its tab.
LEMMA EndShares ==
    ASSUME FlightInv, NEW i \in Initiators, EndStep(i)
    PROVE  Shared!Finish(i)
<1> USE TabOfType, CallTypes DEF FlightInv, TypeInv, TypeOK
<1>1. i \in Flying
  BY DEF EndStep, Flying
<1>2. Flying' = Flying \ {i}
  BY DEF EndStep, EndCall, Flying
<1>3. Renewing' = Renewing \ {r \in Requests : TabOf(r) = TabOf(i)}
  BY DEF EndStep, Renewing
<1> QED BY <1>1, <1>2, <1>3 DEF Shared!Finish, Shared!OfTab, Flying, Renewing

\* So it does when its document goes.
LEMMA LoadShares ==
    ASSUME FlightInv, NEW t \in Tabs, LoadStep(t)
    PROVE  [Shared!Next]_(Shared!callVars)
<1> USE TabOfType, CallTypes DEF FlightInv, TypeInv, TypeOK
<1>1. Flying' = {i \in Flying : TabOf(i) # t}
  BY DEF LoadStep, Flying
<1>2. Renewing' = {r \in Renewing : TabOf(r) # t}
  BY DEF LoadStep, Renewing
<1>3. CASE inFlight[t] = Nobody
  <2>1. \A i \in Flying : TabOf(i) # t
    BY <1>3 DEF Flying, SingleFlight
  <2>2. \A r \in Renewing : TabOf(r) # t
    BY <1>3 DEF Renewing, SingleFlight, Waiting, RequestsOf
  <2> QED BY <1>1, <1>2, <2>1, <2>2 DEF Shared!callVars, Flying, Renewing
<1>4. CASE inFlight[t] # Nobody
  <2> PICK i \in Initiators : i = inFlight[t]
    BY <1>4
  <2>1. i \in Flying /\ TabOf(i) = t
    BY <1>4 DEF Flying, SingleFlight, Own
  <2>2. \A j \in Flying : TabOf(j) = t => j = i
    BY DEF Flying, SingleFlight
  <2>3. Flying' = Flying \ {i}
    BY <1>1, <2>1, <2>2
  <2>4. Renewing' = Renewing \ {r \in Requests : TabOf(r) = TabOf(i)}
    BY <1>2, <2>1 DEF Renewing
  <2>5. Shared!Finish(i)
    BY <2>1, <2>3, <2>4 DEF Shared!Finish, Shared!OfTab, Flying, Renewing
  <2> QED BY <2>5 DEF Shared!Next
<1> QED BY <1>3, <1>4

LEMMA StepShares ==
    ASSUME FlightInv, [Next]_vars
    PROVE  [Shared!Next]_(Shared!callVars)
<1>1. CASE QuietStep \/ SignStep
  BY <1>1 DEF QuietStep, SignStep, Shared!callVars
<1>2. ASSUME NEW i \in Initiators, AnswerStep(i)
      PROVE  UNCHANGED Shared!callVars
  <2>1. \A j \in Initiators : call'[j] # NoCall <=> call[j] # NoCall
    BY <1>2, CallTypes DEF AnswerStep
  <2> QED BY <1>2, <2>1 DEF AnswerStep, Shared!callVars
<1>3. ASSUME NEW i \in Initiators, EndStep(i)
      PROVE  Shared!Next
  BY <1>3, EndShares DEF Shared!Next
<1> QED BY <1>1, <1>2, <1>3, StepKind, NeedShares, LoadShares DEF FlightInv

(* The refresh of the api-client implements SharedCall: a request that got *)
(* a 401, and the timer, start the call of their tab or join it, and its   *)
(* end, or the end of its document, ends the waiting of the tab.           *)
THEOREM SharesOneCallHolds == Spec => SharesOneCall
BY InitShares, StepShares, FlightHolds, PTL DEF Spec, SharesOneCall, Shared!Spec
-----------------------------------------------------------------------------
(* The tokens.                                                             *)

\* A refresh token that was used up is not accepted again.
UsedUp ==
    \A g \in Tokens : rotatedBy[g] # Nobody => g \notin live /\ g <= issued

\* The successor on its way is known to nobody else, and good.
OnTheWay ==
    \A i \in Initiators : call[i].state = "rotated" =>
        /\ rotatedBy[call[i].sent] = TabOf(i)
        /\ call[i].next \in live \cup excused
        /\ call[i].next # refresh
        /\ \A j \in Initiators :
              /\ call[j].sent # call[i].next
              /\ j # i /\ call[j].state = "rotated" => call[j].next # call[i].next

\* What is sent is good, or another tab has used it meanwhile.
Asked ==
    \A i \in Initiators : call[i].state = "pending" /\ call[i].sent # 0 =>
        \/ call[i].sent \in live \cup excused
        \/ rotatedBy[call[i].sent] # Nobody /\ rotatedBy[call[i].sent] # TabOf(i)

TokenInv == UsedUp /\ OnTheWay /\ HeldIsGood /\ Asked /\ NoSelfRefusal

LEMMA InitTokens == Init => TokenInv
BY CallTypes DEF Init, TokenInv, UsedUp, OnTheWay, HeldIsGood, Asked, NoSelfRefusal

LEMMA QuietTokens ==
    ASSUME TokenInv, QuietStep
    PROVE  TokenInv'
BY DEF QuietStep, ledger, TokenInv, UsedUp, OnTheWay, HeldIsGood, Asked, NoSelfRefusal

\* What a new call sends is the cookie, which is good unless another tab's call used it:
\* the tab itself has none in flight.
LEMMA NeedTokens ==
    ASSUME FlightInv, TokenInv, NEW i \in Initiators, NeedStep(i)
    PROVE  TokenInv'
<1> USE TabOfType, CallTypes DEF FlightInv, TypeInv, TypeOK
<1> DEFINE t == TabOf(i)
<1>1. /\ t \in Tabs /\ RunRefresh(t, i)
      /\ UNCHANGED <<live, issued, rotatedBy, excused, refresh>>
  BY DEF NeedStep, ledger
<1>2. CASE inFlight[t] = Nobody
  <2>1. call' = [call EXCEPT ![i] = Pending(refresh)]
    BY <1>1, <1>2 DEF RunRefresh
  <2>2. /\ \A j \in Initiators : j # i => call'[j] = call[j]
        /\ call'[i].state = "pending" /\ call'[i].sent = refresh
    BY <2>1
  <2>3. \A j \in Initiators : TabOf(j) = t => call[j].state # "rotated"
    BY <1>1, <1>2 DEF SingleFlight
  <2>4. UsedUp'
    BY <1>1 DEF TokenInv, UsedUp
  <2>5. OnTheWay'
    BY <1>1, <2>2 DEF TokenInv, OnTheWay
  <2>6. HeldIsGood'
    BY <1>1, <2>2, <2>3 DEF TokenInv, HeldIsGood
  <2>7. ASSUME refresh # 0
        PROVE  \/ refresh \in live \cup excused
               \/ rotatedBy[refresh] # Nobody /\ rotatedBy[refresh] # t
    <3>1. CASE refresh \in live \cup excused
      BY <3>1
    <3>2. CASE refresh \notin live \cup excused
      <4>1. PICK j \in Initiators : call[j].sent = refresh /\ call[j].state = "rotated"
        BY <2>7, <3>2 DEF TokenInv, HeldIsGood
      <4>2. rotatedBy[refresh] = TabOf(j) /\ TabOf(j) # t
        BY <4>1, <2>3 DEF TokenInv, OnTheWay
      <4> QED BY <4>2
    <3> QED BY <3>1, <3>2
  <2>8. Asked'
    BY <1>1, <2>2, <2>7 DEF TokenInv, Asked
  <2>9. NoSelfRefusal'
    BY <1>1, <2>2 DEF TokenInv, NoSelfRefusal
  <2> QED BY <2>4, <2>5, <2>6, <2>8, <2>9 DEF TokenInv
<1>3. CASE inFlight[t] # Nobody
  <2>1. UNCHANGED call
    BY <1>1, <1>3 DEF RunRefresh
  <2> QED BY <1>1, <2>1
          DEF TokenInv, UsedUp, OnTheWay, HeldIsGood, Asked, NoSelfRefusal
<1> QED BY <1>2, <1>3

\* The rotation uses up what was sent, and its successor is new.
LEMMA RotatesTokens ==
    ASSUME FlightInv, TokenInv, NEW i \in Initiators, APIRotates(i)
    PROVE  TokenInv'
<1> USE TabOfType DEF FlightInv, TypeInv
<1> DEFINE g == issued + 1
           s == call[i].sent
<1>1. /\ issued \in Nat /\ g \in Tokens /\ s \in Tokens /\ s <= issued /\ s # g
      /\ \A j \in Initiators : j # i => call'[j] = call[j]
      /\ call'[i] = [state |-> "rotated", sent |-> s, next |-> g]
  BY Rotation
<1>2. /\ s \in live /\ live' = (live \ {s}) \cup {g}
      /\ issued' = g /\ UNCHANGED <<excused, refresh>>
      /\ call[i].state = "pending"
  BY DEF APIRotates, jar
<1>3. \A h \in Tokens : rotatedBy'[h] = IF h = s THEN TabOf(i) ELSE rotatedBy[h]
  BY DEF APIRotates, TypeOK
<1>4. /\ refresh \in Nat /\ refresh <= issued /\ refresh # g
      /\ \A j \in Initiators : /\ call[j].sent \in Nat /\ call[j].sent # g
                               /\ call[j].next \in Nat /\ call[j].next # g
  <2>1. refresh \in Nat /\ refresh <= issued
    BY DEF TypeOK, Issued
  <2>2. \A j \in Initiators : /\ call[j].sent \in Nat /\ call[j].sent <= issued
                              /\ call[j].next \in Nat /\ call[j].next <= issued
    BY DEF TypeOK, Calls, Issued
  <2> QED BY <1>1, <2>1, <2>2
<1>5. /\ call'[i].state = "rotated" /\ call'[i].sent = s /\ call'[i].next = g
  BY <1>1
<1>6. rotatedBy[s] = Nobody /\ rotatedBy[g] = Nobody /\ g \notin live
  <2>1. ~ (g <= issued)
    BY <1>1
  <2> QED BY <1>1, <1>2, <2>1 DEF TokenInv, UsedUp, Issued
<1> HIDE DEF g, s
<1>7. UsedUp'
  <2> SUFFICES ASSUME NEW h \in Tokens, rotatedBy'[h] # Nobody
               PROVE  h \notin live' /\ h <= issued'
    BY DEF UsedUp
  <2>1. CASE h = s
    BY <2>1, <1>1, <1>2 DEF g, Tokens
  <2>2. CASE h # s
    <3>1. rotatedBy[h] # Nobody /\ h \notin live /\ h <= issued /\ h # g
      BY <2>2, <1>3, <1>6 DEF TokenInv, UsedUp
    <3> QED BY <3>1, <1>1, <1>2 DEF g, Tokens
  <2> QED BY <2>1, <2>2
<1>8. OnTheWay'
  <2> SUFFICES ASSUME NEW k \in Initiators, call'[k].state = "rotated"
               PROVE  /\ rotatedBy'[call'[k].sent] = TabOf(k)
                      /\ call'[k].next \in live' \cup excused'
                      /\ call'[k].next # refresh'
                      /\ \A j \in Initiators :
                            /\ call'[j].sent # call'[k].next
                            /\ j # k /\ call'[j].state = "rotated"
                                  => call'[j].next # call'[k].next
    BY DEF OnTheWay
  <2>1. CASE k = i
    <3>1. \A j \in Initiators : /\ call'[j].sent # g
                                /\ j # i => call'[j].next # g
      BY <1>1, <1>4, <1>5
    <3> QED BY <2>1, <3>1, <1>1, <1>2, <1>3, <1>4, <1>5
  <2>2. CASE k # i
    <3>1. call'[k] = call[k] /\ call[k].sent \in Tokens /\ call[k].sent # s
      <4>1. call'[k] = call[k] /\ call[k].state = "rotated"
        BY <2>2, <1>1
      <4>2. call[k].sent \in Tokens
        BY <4>1 DEF Shape
      <4>3. rotatedBy[call[k].sent] = TabOf(k) /\ TabOf(k) # Nobody
        BY <4>1 DEF TokenInv, OnTheWay
      <4> QED BY <4>1, <4>2, <4>3, <1>6
    <3>2. /\ rotatedBy[call[k].sent] = TabOf(k)
          /\ call[k].next \in live \cup excused
          /\ call[k].next # refresh
          /\ \A j \in Initiators :
                /\ call[j].sent # call[k].next
                /\ j # k /\ call[j].state = "rotated" => call[j].next # call[k].next
      BY <3>1 DEF TokenInv, OnTheWay
    <3>3. call[k].next # s /\ call[k].next # g
      BY <3>2, <1>4 DEF s
    <3>4. \A j \in Initiators : call'[j].sent = call[j].sent
      BY <1>1, <1>5 DEF s
    <3>5. \A j \in Initiators : j # k /\ call'[j].state = "rotated"
                                  => call'[j].next # call[k].next
      BY <3>2, <3>3, <1>1, <1>5
    <3> QED BY <3>1, <3>2, <3>3, <3>4, <3>5, <1>2, <1>3
  <2> QED BY <2>1, <2>2
<1>9. HeldIsGood'
  <2> SUFFICES ASSUME refresh # 0
               PROVE  \/ refresh \in live' \cup excused'
                      \/ \E j \in Initiators : call'[j].sent = refresh
                                              /\ call'[j].state = "rotated"
    BY <1>2 DEF HeldIsGood
  <2>1. CASE refresh = s
    BY <2>1, <1>5
  <2>2. CASE refresh # s /\ refresh \in live \cup excused
    BY <2>2, <1>2
  <2>3. CASE refresh \notin live \cup excused
    <3>1. PICK j \in Initiators : call[j].sent = refresh /\ call[j].state = "rotated"
      BY <2>3 DEF TokenInv, HeldIsGood
    <3> QED BY <3>1, <1>1, <1>2
  <2> QED BY <2>1, <2>2, <2>3
<1>10. ASSUME NEW k \in Initiators, call'[k].state # "rotated", call'[k].sent # 0
       PROVE  /\ call'[k] = call[k] /\ call[k].sent \in Tokens
              /\ \/ rotatedBy'[call[k].sent] = rotatedBy[call[k].sent]
                    /\ (call[k].sent \in live => call[k].sent \in live')
                 \/ rotatedBy'[call[k].sent] # Nobody /\ rotatedBy'[call[k].sent] # TabOf(k)
  <2>1. k # i /\ call'[k] = call[k]
    BY <1>10, <1>1, <1>5
  <2>2. call[k].sent \in Tokens
    BY <2>1, <1>10, SessionAssumption DEF SessionAssumption, TypeOK, Calls, Tokens
  <2>3. CASE call[k].sent = s
    <3>1. call[k] # NoCall /\ call[i] # NoCall
      BY <1>2, <1>10, <2>1, CallTypes
    <3>2. TabOf(i) # TabOf(k)
      BY <3>1, <2>1 DEF SingleFlight
    <3> QED BY <2>1, <2>2, <2>3, <3>2, <1>1, <1>3
  <2>4. CASE call[k].sent # s
    BY <2>1, <2>2, <2>4, <1>2, <1>3
  <2> QED BY <2>1, <2>2, <2>3, <2>4
<1>11. Asked'
  BY <1>10, <1>2 DEF TokenInv, Asked
<1>12. NoSelfRefusal'
  BY <1>10, <1>2 DEF TokenInv, NoSelfRefusal
<1> QED BY <1>7, <1>8, <1>9, <1>11, <1>12 DEF TokenInv

LEMMA RefusesTokens ==
    ASSUME FlightInv, TokenInv, NEW i \in Initiators, APIRefuses(i)
    PROVE  TokenInv'
<1>1. /\ \A j \in Initiators : j # i => call'[j] = call[j]
      /\ call'[i] = [state |-> "refused", sent |-> call[i].sent, next |-> call[i].next]
  BY RefusedCall DEF FlightInv, TypeInv, TypeOK, APIRefuses
<1>2. /\ call'[i].state = "refused" /\ call'[i].sent = call[i].sent
  BY <1>1
<1>3. /\ UNCHANGED <<live, issued, rotatedBy, excused, refresh>>
      /\ call[i].state = "pending" /\ call[i].sent \notin live
  BY DEF APIRefuses, jar, api, history
<1>4. UsedUp' /\ OnTheWay' /\ HeldIsGood' /\ Asked'
  BY <1>1, <1>2, <1>3 DEF TokenInv, UsedUp, OnTheWay, HeldIsGood, Asked
<1>5. NoSelfRefusal'
  BY <1>1, <1>2, <1>3 DEF TokenInv, NoSelfRefusal, Asked
<1> QED BY <1>4, <1>5 DEF TokenInv
\* The successor moves from the call to the jar.
LEMMA LandsTokens ==
    ASSUME FlightInv, TokenInv, NEW i \in Initiators, RefreshLands(i)
    PROVE  TokenInv'
<1> USE CallTypes
<1>1. /\ call[i].state = "rotated"
      /\ \A j \in Initiators : call'[j] = IF j = i THEN NoCall ELSE call[j]
      /\ refresh' = call[i].next /\ UNCHANGED <<live, issued, rotatedBy, excused>>
  BY DEF RefreshLands, EndCall, api, history, FlightInv, TypeInv, TypeOK
<1>2. /\ call[i].next \in Tokens /\ call[i].next # 0
      /\ call[i].next \in live \cup excused
      /\ \A j \in Initiators :
            /\ call[j].sent # call[i].next
            /\ j # i /\ call[j].state = "rotated" => call[j].next # call[i].next
  BY <1>1 DEF FlightInv, TypeInv, Shape, TokenInv, OnTheWay, Tokens
<1>3. UsedUp' /\ Asked' /\ NoSelfRefusal'
  BY <1>1 DEF TokenInv, UsedUp, Asked, NoSelfRefusal
<1>4. HeldIsGood'
  BY <1>1, <1>2 DEF HeldIsGood
<1>5. OnTheWay'
  <2> SUFFICES ASSUME NEW k \in Initiators, call'[k].state = "rotated"
               PROVE  /\ rotatedBy'[call'[k].sent] = TabOf(k)
                      /\ call'[k].next \in live' \cup excused'
                      /\ call'[k].next # refresh'
                      /\ \A j \in Initiators :
                            /\ call'[j].sent # call'[k].next
                            /\ j # k /\ call'[j].state = "rotated"
                                  => call'[j].next # call'[k].next
    BY DEF OnTheWay
  <2>1. k # i /\ call'[k] = call[k] /\ call[k].state = "rotated"
    BY <1>1
  <2>2. /\ rotatedBy[call[k].sent] = TabOf(k)
        /\ call[k].next \in live \cup excused
        /\ call[k].next # call[i].next
        /\ \A j \in Initiators :
              /\ call[j].sent # call[k].next
              /\ j # k /\ call[j].state = "rotated" => call[j].next # call[k].next
    BY <1>1, <1>2, <2>1 DEF TokenInv, OnTheWay
  <2>3. call[k].next # 0
    BY <2>1 DEF FlightInv, TypeInv, Shape, Tokens
  <2> QED BY <1>1, <2>1, <2>2, <2>3
<1> QED BY <1>3, <1>4, <1>5 DEF TokenInv

\* The calls of D are gone, and the answers that were on their way with them.
GoneStep(D) ==
    /\ \A j \in Initiators : call'[j] = IF j \in D THEN NoCall ELSE call[j]
    /\ excused' = excused \cup UNION {LostWith(j) : j \in D}
    /\ UNCHANGED <<refresh, live, issued, loginOf, rotatedBy, closed>>
    /\ token' \in {0, token}

LEMMA RefusedOrFailedGone ==
    ASSUME TypeInv, NEW i \in Initiators, RefreshRefusedLands(i) \/ RefreshFails(i)
    PROVE  GoneStep({i})
<1>1. \A j \in Initiators : call'[j] = IF j \in {i} THEN NoCall ELSE call[j]
  BY DEF RefreshRefusedLands, RefreshFails, EndCall, TypeInv, TypeOK
<1>2. CASE RefreshRefusedLands(i)
  <2>1. LostWith(i) = {}
    BY <1>2 DEF RefreshRefusedLands, LostWith
  <2>2. refresh' = refresh /\ token' \in {0, token}
    BY <1>2 DEF RefreshRefusedLands, ForceLogout, ClearAuth, jar
  <2> QED BY <1>1, <1>2, <2>1, <2>2 DEF RefreshRefusedLands, GoneStep, api, history
<1>3. CASE RefreshFails(i)
  BY <1>1, <1>3 DEF RefreshFails, GoneStep, jar, api
<1> QED BY <1>2, <1>3

LEMMA LoadGone ==
    ASSUME NEW t \in Tabs, NEW dest, FullLoad(t, dest)
    PROVE  GoneStep({i \in Initiators : TabOf(i) = t})
BY DEF FullLoad, GoneStep, jar, api

LEMMA GoneTokens ==
    ASSUME FlightInv, TokenInv, NEW D \in SUBSET Initiators, GoneStep(D)
    PROVE  TokenInv'
<1> USE CallTypes
<1>1. /\ \A j \in Initiators : call'[j] = IF j \in D THEN NoCall ELSE call[j]
      /\ excused \subseteq excused'
      /\ \A j \in D : call[j].state = "rotated" => call[j].sent \in excused'
      /\ UNCHANGED <<refresh, live, issued, rotatedBy>>
  BY DEF GoneStep, LostWith
<1>2. UsedUp' /\ Asked' /\ NoSelfRefusal'
  BY <1>1 DEF TokenInv, UsedUp, Asked, NoSelfRefusal
<1>3. HeldIsGood'
  BY <1>1 DEF TokenInv, HeldIsGood
<1>4. OnTheWay'
  <2> SUFFICES ASSUME NEW k \in Initiators, call'[k].state = "rotated"
               PROVE  /\ rotatedBy'[call'[k].sent] = TabOf(k)
                      /\ call'[k].next \in live' \cup excused'
                      /\ call'[k].next # refresh'
                      /\ \A j \in Initiators :
                            /\ call'[j].sent # call'[k].next
                            /\ j # k /\ call'[j].state = "rotated"
                                  => call'[j].next # call'[k].next
    BY DEF OnTheWay
  <2>1. call'[k] = call[k] /\ call[k].state = "rotated" /\ call[k].next # 0
    BY <1>1 DEF FlightInv, TypeInv, Shape, Tokens
  <2> QED BY <1>1, <2>1 DEF TokenInv, OnTheWay
<1> QED BY <1>2, <1>3, <1>4 DEF TokenInv

LEMMA SignInTokens ==
    ASSUME FlightInv, TokenInv, NEW t \in Tabs, SignIn(t)
    PROVE  TokenInv'
<1> DEFINE g == issued + 1
<1>1. /\ issued \in Nat /\ g \in Nat /\ ~ (g <= issued) /\ issued <= g
      /\ \A h \in Tokens : h \in Nat
  BY DEF FlightInv, TypeInv, TypeOK, Tokens
<1>2. /\ live' = live \cup {g} /\ refresh' = g /\ issued' = g
      /\ UNCHANGED <<call, rotatedBy, excused>>
  BY DEF SignIn, history
<1>3. \A j \in Initiators : call[j].next # g
  BY <1>1 DEF FlightInv, TypeInv, Issued
<1> HIDE DEF g
<1>4. UsedUp'
  BY <1>1, <1>2 DEF TokenInv, UsedUp
<1>5. OnTheWay'
  BY <1>2, <1>3 DEF TokenInv, OnTheWay
<1>6. HeldIsGood' /\ Asked' /\ NoSelfRefusal'
  BY <1>2 DEF TokenInv, HeldIsGood, Asked, NoSelfRefusal
<1> QED BY <1>4, <1>5, <1>6 DEF TokenInv

LEMMA RevokeTokens ==
    ASSUME FlightInv, TokenInv, NEW t \in Tabs, LogoutRevokes(t)
    PROVE  TokenInv'
<1>1. /\ live' \subseteq live /\ excused \subseteq excused'
      /\ UNCHANGED <<call, issued, rotatedBy, refresh>>
  BY DEF LogoutRevokes, jar
<1>2. \A h \in live \cup excused : h \in live' \cup excused'
  BY DEF LogoutRevokes
<1>3. UsedUp' /\ OnTheWay' /\ HeldIsGood'
  BY <1>1, <1>2 DEF TokenInv, UsedUp, OnTheWay, HeldIsGood
<1>4. Asked' /\ NoSelfRefusal'
  BY <1>1, <1>2 DEF TokenInv, Asked, NoSelfRefusal
<1> QED BY <1>3, <1>4 DEF TokenInv

LEMMA LogoutTokens ==
    ASSUME FlightInv, TokenInv, NEW t \in Tabs, handleLogout(t)
    PROVE  TokenInv'
<1>1. UNCHANGED <<call, issued, live, rotatedBy, excused>> /\ refresh' \in {0, refresh}
  BY DEF handleLogout, api
<1>2. \A i \in Initiators : call[i].state = "rotated" => call[i].next # 0
  BY DEF FlightInv, TypeInv, Shape, Tokens
<1>3. OnTheWay'
  BY <1>1, <1>2 DEF TokenInv, OnTheWay
<1> QED BY <1>1, <1>3 DEF TokenInv, UsedUp, HeldIsGood, Asked, NoSelfRefusal

LEMMA SuspendTokens ==
    ASSUME FlightInv, TokenInv, NEW login \in Tokens, Suspend(login)
    PROVE  TokenInv'
<1>1. /\ live' \subseteq live /\ excused \subseteq excused'
      /\ UNCHANGED <<call, issued, rotatedBy, refresh>>
  BY DEF Suspend, jar
<1>2. \A h \in live \cup excused : h \in live' \cup excused'
  BY DEF Suspend, FlightInv, TypeInv, TypeOK
<1>3. UsedUp' /\ OnTheWay' /\ HeldIsGood'
  BY <1>1, <1>2 DEF TokenInv, UsedUp, OnTheWay, HeldIsGood
<1>4. Asked' /\ NoSelfRefusal'
  BY <1>1, <1>2 DEF TokenInv, Asked, NoSelfRefusal
<1> QED BY <1>3, <1>4 DEF TokenInv

\* The steps, by what they do to the tokens.
LEMMA TokenStep ==
    ASSUME TypeInv, [Next]_vars
    PROVE  \/ QuietStep
           \/ \E i \in Initiators :
                 NeedStep(i) \/ APIRotates(i) \/ APIRefuses(i) \/ RefreshLands(i)
           \/ \E D \in SUBSET Initiators : GoneStep(D)
           \/ \E t \in Tabs : SignIn(t) \/ LogoutRevokes(t) \/ handleLogout(t)
           \/ \E g \in Tokens : Suspend(g)
<1>1. CASE UNCHANGED vars \/ APINext
  BY <1>1, QuietOthers DEF APINext
<1>2. CASE RequestNext
  BY <1>2, QuietRequests, RenewNeeds, TabOfType DEF RequestNext, Settle
<1>3. CASE RefreshNext
  BY <1>3, RefusedOrFailedGone DEF RefreshNext, RefreshEnds
<1>4. CASE TabNext
  <2>1. PICK t \in Tabs :
          \/ KeepAliveFires(t)
          \/ handleLogin(t) \/ handleRegister(t)
          \/ LogoutRevokes(t) \/ handleLogout(t) \/ proxy(t) \/ LoginPageLoads(t)
          \/ SetImpersonation(t) \/ StopImpersonation(t)
    BY <1>4 DEF TabNext
  <2>2. CASE KeepAliveFires(t)
    BY <2>2, KeepAliveNeeds, TabOfType
  <2>3. CASE handleLogin(t) \/ handleRegister(t) \/ LogoutRevokes(t) \/ handleLogout(t)
    BY <2>3 DEF handleLogin, handleRegister
  <2>4. CASE proxy(t) \/ LoginPageLoads(t)
    <3>1. GoneStep({i \in Initiators : TabOf(i) = t})
      BY <2>4, LoadGone DEF proxy, LoginPageLoads
    <3> QED BY <3>1
  <2>5. CASE SetImpersonation(t) \/ StopImpersonation(t)
    BY <2>5, QuietOthers
  <2> QED BY <2>1, <2>2, <2>3, <2>4, <2>5
<1> QED BY <1>1, <1>2, <1>3, <1>4 DEF Next

LEMMA NextTokens == FlightInv /\ TokenInv /\ [Next]_vars => TokenInv'
<1> SUFFICES ASSUME FlightInv, TokenInv, [Next]_vars
             PROVE  TokenInv'
  OBVIOUS
<1>1. TypeInv
  BY DEF FlightInv
<1> QED BY <1>1, TokenStep, QuietTokens, NeedTokens, RotatesTokens, RefusesTokens,
           LandsTokens, GoneTokens, SignInTokens, RevokeTokens, LogoutTokens,
           SuspendTokens

(* What the calls, the jar and the API know of the tokens fits together.   *)
THEOREM TokensHold == Spec => []TokenInv
BY InitTokens, NextTokens, FlightHolds, PTL DEF Spec

(* For any number of tabs, requests and tokens: the refresh of a tab is    *)
(* refused only for a revocation, a lost answer, or another tab's refresh. *)
THEOREM NoSelfRefusalHolds == Spec => []NoSelfRefusal
<1>1. TokenInv => NoSelfRefusal
  BY DEF TokenInv
<1> QED BY <1>1, TokensHold, PTL

(* The refresh cookie of the browser is accepted, or revoked, or replaced  *)
(* by a token that is on its way or lost.                                  *)
THEOREM HeldIsGoodHolds == Spec => []HeldIsGood
<1>1. TokenInv => HeldIsGood
  BY DEF TokenInv
<1> QED BY <1>1, TokensHold, PTL
-----------------------------------------------------------------------------
(* The logins a token can come back from.                                  *)

\* The tokens that may be in the jar: of no login that is closed.
Returnable == {g \in Tokens : loginOf[g] \notin closed}

\* A successor is of the login of the token it replaces.
SameLogin ==
    \A i \in Initiators :
        call[i].state = "rotated" => loginOf[call[i].next] = loginOf[call[i].sent]

\* Whatever may still reach the jar, by a call or by the refresh cookie.
WaysBack ==
    /\ \A i \in Initiators :
          \/ call[i].state = "rotated"
          \/ call[i].state = "pending" /\ call[i].sent \in live
          => call[i].sent \in Returnable
    /\ refresh \in live => refresh \in Returnable

LoginInv == SameLogin /\ WaysBack /\ OnlyStraysReturn

LEMMA InitLogins == Init => LoginInv
BY CallTypes DEF Init, LoginInv, SameLogin, WaysBack, OnlyStraysReturn

LEMMA QuietLogins ==
    ASSUME LoginInv, QuietStep
    PROVE  LoginInv'
BY DEF QuietStep, ledger, LoginInv, SameLogin, WaysBack, OnlyStraysReturn, Returnable

LEMMA NeedLogins ==
    ASSUME FlightInv, LoginInv, NEW i \in Initiators, NeedStep(i)
    PROVE  LoginInv'
<1> USE TabOfType, CallTypes DEF FlightInv, TypeInv, TypeOK
<1> DEFINE t == TabOf(i)
<1>1. /\ t \in Tabs /\ RunRefresh(t, i)
      /\ UNCHANGED <<live, loginOf, closed, refresh, token>>
  BY DEF NeedStep, ledger
<1>2. \A j \in Initiators :
         \/ call'[j] = call[j]
         \/ call'[j].state = "pending" /\ call'[j].sent = refresh
  BY <1>1 DEF RunRefresh
<1>3. SameLogin' /\ OnlyStraysReturn'
  BY <1>1, <1>2 DEF LoginInv, SameLogin, OnlyStraysReturn
<1>4. WaysBack'
  BY <1>1, <1>2 DEF LoginInv, WaysBack, Returnable
<1> QED BY <1>3, <1>4 DEF LoginInv

\* The successor is of the login of the token it replaces.
LEMMA RotatesLogins ==
    ASSUME FlightInv, LoginInv, NEW i \in Initiators, APIRotates(i)
    PROVE  LoginInv'
<1> USE DEF FlightInv, TypeInv
<1> DEFINE g == issued + 1
           s == call[i].sent
<1>1. /\ issued \in Nat /\ ~ (g <= issued) /\ g \in Tokens /\ s \in Tokens /\ s # g
      /\ \A j \in Initiators : j # i => call'[j] = call[j]
      /\ call'[i] = [state |-> "rotated", sent |-> s, next |-> g]
  BY Rotation
<1>2. /\ s \in live /\ live' = (live \ {s}) \cup {g} /\ call[i].state = "pending"
      /\ UNCHANGED <<token, refresh, closed>>
  BY DEF APIRotates, jar
<1>3. \A h \in Tokens : loginOf'[h] = IF h = g THEN loginOf[s] ELSE loginOf[h]
  BY DEF APIRotates, TypeOK
<1>4. /\ token # g /\ refresh # g
      /\ \A j \in Initiators : call[j].sent # g /\ call[j].next # g
  BY <1>1 DEF Issued
<1>5. call'[i].state = "rotated" /\ call'[i].sent = s /\ call'[i].next = g
  BY <1>1
<1>6. live \subseteq Tokens /\ token \in {0} \cup Tokens
  BY SessionAssumption DEF SessionAssumption, TypeOK, Tokens
<1> HIDE DEF g, s
<1>7. SameLogin'
  BY <1>1, <1>3, <1>4, <1>5 DEF LoginInv, SameLogin, Shape
<1>8. WaysBack'
  <2>1. ASSUME NEW j \in Initiators,
               \/ call'[j].state = "rotated"
               \/ call'[j].state = "pending" /\ call'[j].sent \in live'
        PROVE  call'[j].sent \in Returnable'
    <3>1. CASE j = i
      BY <3>1, <1>1, <1>2, <1>3, <1>5 DEF LoginInv, WaysBack, Returnable, s
    <3>2. CASE j # i
      <4>1. call'[j] = call[j] /\ call[j].sent # g
        BY <3>2, <1>1, <1>4
      <4>2. call[j].sent \in Tokens
        BY <4>1, <2>1, <1>2, <1>6 DEF Shape
      <4>3. call[j].sent \in Returnable
        BY <4>1, <2>1, <1>2 DEF LoginInv, WaysBack
      <4> QED BY <4>1, <4>2, <4>3, <1>2, <1>3 DEF Returnable
    <3> QED BY <3>1, <3>2
  <2>2. refresh' \in live' => refresh' \in Returnable'
    BY <1>2, <1>3, <1>4, <1>6 DEF LoginInv, WaysBack, Returnable
  <2> QED BY <2>1, <2>2 DEF WaysBack
<1>9. OnlyStraysReturn'
  BY <1>2, <1>3, <1>4, <1>6 DEF LoginInv, OnlyStraysReturn
<1> QED BY <1>7, <1>8, <1>9 DEF LoginInv

LEMMA RefusesLogins ==
    ASSUME FlightInv, LoginInv, NEW i \in Initiators, APIRefuses(i)
    PROVE  LoginInv'
<1>1. /\ \A j \in Initiators : j # i => call'[j] = call[j]
      /\ call'[i] = [state |-> "refused", sent |-> call[i].sent, next |-> call[i].next]
  BY RefusedCall DEF FlightInv, TypeInv, TypeOK, APIRefuses
<1>2. call'[i].state = "refused"
  BY <1>1
<1>3. UNCHANGED <<live, loginOf, closed, refresh, token>>
  BY DEF APIRefuses, jar, api, history
<1> QED BY <1>1, <1>2, <1>3
        DEF LoginInv, SameLogin, WaysBack, OnlyStraysReturn, Returnable

LEMMA LandsLogins ==
    ASSUME FlightInv, LoginInv, NEW i \in Initiators, RefreshLands(i)
    PROVE  LoginInv'
<1> USE CallTypes
<1>1. /\ call[i].state = "rotated"
      /\ \A j \in Initiators : call'[j] = IF j = i THEN NoCall ELSE call[j]
      /\ token' = call[i].next /\ refresh' = call[i].next
      /\ UNCHANGED <<live, loginOf, closed>>
  BY DEF RefreshLands, EndCall, api, history, FlightInv, TypeInv, TypeOK
<1>2. call[i].next \in Returnable
  BY <1>1 DEF FlightInv, TypeInv, Shape, LoginInv, SameLogin, WaysBack, Returnable
<1>3. \A j \in Initiators : call'[j] = call[j] \/ call'[j].state = "none"
  BY <1>1
<1>4. SameLogin' /\ OnlyStraysReturn'
  BY <1>1, <1>2, <1>3 DEF LoginInv, SameLogin, OnlyStraysReturn, Returnable
<1>5. Returnable' = Returnable
  BY <1>1 DEF Returnable
<1>6. WaysBack'
  BY <1>1, <1>2, <1>3, <1>5 DEF LoginInv, WaysBack
<1> QED BY <1>4, <1>6 DEF LoginInv

LEMMA GoneLogins ==
    ASSUME LoginInv, NEW D \in SUBSET Initiators, GoneStep(D)
    PROVE  LoginInv'
<1>1. /\ \A j \in Initiators : call'[j] = call[j] \/ call'[j].state = "none"
      /\ UNCHANGED <<live, loginOf, closed, refresh>>
      /\ token' \in {0, token}
  BY CallTypes DEF GoneStep
<1> QED BY <1>1 DEF LoginInv, SameLogin, WaysBack, OnlyStraysReturn, Returnable

LEMMA SignInLogins ==
    ASSUME FlightInv, LoginInv, NEW t \in Tabs, SignIn(t)
    PROVE  LoginInv'
<1> USE DEF FlightInv, TypeInv
<1> DEFINE g == issued + 1
<1>1. issued \in Nat /\ ~ (g <= issued) /\ g \in Tokens
  BY SessionAssumption DEF SessionAssumption, SignIn, TypeOK, Tokens
<1>2. /\ live' = live \cup {g} /\ token' = g /\ refresh' = g
      /\ loginOf' = [loginOf EXCEPT ![g] = g]
      /\ UNCHANGED <<call, closed>>
  BY DEF SignIn, history
<1>3. \A j \in Initiators : call[j].sent # g /\ call[j].next # g
  BY <1>1 DEF Issued
<1>4. g \notin closed
  BY <1>1 DEF Issued
<1> HIDE DEF g
<1>5. \A h \in Tokens : loginOf'[h] = IF h = g THEN g ELSE loginOf[h]
  BY <1>2 DEF TypeOK
<1>6. live \subseteq Tokens
  BY DEF TypeOK
<1>7. SameLogin'
  BY <1>2, <1>3, <1>5 DEF LoginInv, SameLogin, Shape
<1>8. g \in Returnable'
  BY <1>1, <1>2, <1>4, <1>5 DEF Returnable
<1>9. WaysBack'
  <2>1. ASSUME NEW j \in Initiators,
               \/ call'[j].state = "rotated"
               \/ call'[j].state = "pending" /\ call'[j].sent \in live'
        PROVE  call'[j].sent \in Returnable'
    <3>1. call'[j] = call[j] /\ call[j].sent # g
      BY <1>2, <1>3
    <3>2. call[j].sent \in Tokens
      BY <3>1, <2>1, <1>2, <1>6 DEF Shape
    <3>3. call[j].sent \in Returnable
      BY <3>1, <2>1, <1>2 DEF LoginInv, WaysBack
    <3> QED BY <3>1, <3>2, <3>3, <1>2, <1>5 DEF Returnable
  <2> QED BY <2>1, <1>2, <1>8 DEF WaysBack
<1>10. OnlyStraysReturn'
  BY <1>2, <1>8 DEF OnlyStraysReturn, Returnable
<1> QED BY <1>7, <1>9, <1>10 DEF LoginInv

LEMMA RevokeLogins ==
    ASSUME LoginInv, NEW t \in Tabs, LogoutRevokes(t)
    PROVE  LoginInv'
<1>1. /\ live' \subseteq live
      /\ UNCHANGED <<call, loginOf, closed, token, refresh>>
  BY DEF LogoutRevokes, jar
<1> QED BY <1>1 DEF LoginInv, SameLogin, WaysBack, OnlyStraysReturn, Returnable

\* The logout closes the login it ends, unless there is a way back to it.
LEMMA LogoutLogins ==
    ASSUME FlightInv, LoginInv, NEW t \in Tabs, handleLogout(t)
    PROVE  LoginInv'
<1> USE DEF FlightInv, TypeInv
<1>1. token' = 0 /\ refresh' \in {0, refresh} /\ UNCHANGED <<call, live, loginOf>>
  BY DEF handleLogout, LogoutClears, ClearAuth, api
<1>2. \A h \in closed' : \/ h \in closed
                         \/ /\ h \notin OnTheirWay(live)
                            /\ h \notin {loginOf[g] : g \in live \cap {refresh'}}
  BY DEF handleLogout
<1>3. SameLogin' /\ OnlyStraysReturn'
  BY <1>1 DEF LoginInv, SameLogin, OnlyStraysReturn
<1>4. ASSUME NEW i \in Initiators,
             \/ call[i].state = "rotated"
             \/ call[i].state = "pending" /\ call[i].sent \in live
      PROVE  call[i].sent \in Returnable'
  <2>1. call[i].sent \in Tokens /\ loginOf[call[i].sent] \notin closed
    BY <1>4 DEF LoginInv, WaysBack, Returnable
  <2>2. loginOf[call[i].sent] \in OnTheirWay(live)
    BY <1>4 DEF OnTheirWay
  <2> QED BY <1>1, <1>2, <2>1, <2>2 DEF Returnable
<1>5. refresh' \in live' => refresh' \in Returnable'
  <2> SUFFICES ASSUME refresh' \in live
               PROVE  refresh' \in Returnable'
    BY <1>1
  <2>1. refresh' \in Tokens /\ refresh' = refresh
    BY <1>1 DEF TypeOK, Tokens
  <2>2. loginOf[refresh'] \notin closed
    BY <2>1 DEF LoginInv, WaysBack, Returnable
  <2>3. loginOf[refresh'] \in {loginOf[g] : g \in live \cap {refresh'}}
    OBVIOUS
  <2> QED BY <1>1, <1>2, <2>1, <2>2, <2>3 DEF Returnable
<1>6. WaysBack'
  BY <1>1, <1>4, <1>5 DEF WaysBack
<1> QED BY <1>3, <1>6 DEF LoginInv

LEMMA SuspendLogins ==
    ASSUME LoginInv, NEW login \in Tokens, Suspend(login)
    PROVE  LoginInv'
<1>1. /\ live' \subseteq live
      /\ UNCHANGED <<call, loginOf, closed, token, refresh>>
  BY DEF Suspend, jar
<1> QED BY <1>1 DEF LoginInv, SameLogin, WaysBack, OnlyStraysReturn, Returnable

LEMMA NextLogins == FlightInv /\ LoginInv /\ [Next]_vars => LoginInv'
<1> SUFFICES ASSUME FlightInv, LoginInv, [Next]_vars
             PROVE  LoginInv'
  OBVIOUS
<1>1. TypeInv
  BY DEF FlightInv
<1> QED BY <1>1, TokenStep, QuietLogins, NeedLogins, RotatesLogins, RefusesLogins,
           LandsLogins, GoneLogins, SignInLogins, RevokeLogins, LogoutLogins,
           SuspendLogins

(* After handleLogout no token of that login is in the jar again, unless a *)
(* refresh outlived the logout or its call left a good refresh cookie.     *)
THEOREM OnlyStraysReturnHolds == Spec => []OnlyStraysReturn
<1>1. LoginInv => OnlyStraysReturn
  BY DEF LoginInv
<1> QED BY <1>1, InitLogins, NextLogins, FlightHolds, PTL DEF Spec
=============================================================================
