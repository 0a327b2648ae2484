---------------------------- MODULE AccountsProofs ----------------------------
(***************************************************************************)
(* Theorems of Accounts, for every set of accounts, roles and requests.    *)
(***************************************************************************)
EXTENDS Accounts, TLAPS, FiniteSetTheorems

\* What a request at a statement holds.
LEMMA Shape ==
    ASSUME TypeOK, NEW r \in Requests
    PROVE  /\ req[r].pc = "issue" =>
                 /\ req[r].user \in Users /\ req[r].session \in Requests
           /\ req[r].pc \in TokenPCs =>
                 /\ req[r] = [pc |-> req[r].pc, token |-> req[r].token]
                 /\ req[r].token \in Requests /\ token[req[r].token] \in TokenRow
           /\ req[r].pc \in FindingPCs => req[r].user \in Users
           /\ req[r].pc \in HoldingPCs =>
                 /\ req[r] = [pc |-> req[r].pc, user |-> req[r].user, row |-> req[r].row]
                 /\ req[r].user \in Users /\ req[r].row \in UserRow
<1> USE DEF RequestState, TokenPCs, RefreshingPCs, FindingPCs, HoldingPCs
<1>1. req[r] \in RequestState /\ (req[r].pc \in TokenPCs => token[req[r].token] # NoToken)
    BY DEF TypeOK
<1>2. CASE req[r].pc = "issue"
    BY <1>1, <1>2
<1>3. CASE req[r].pc \in TokenPCs
  <2>1. req[r] \in [pc : TokenPCs, token : Requests]
      BY <1>1, <1>3
  <2>2. token[req[r].token] \in TokenRow \cup {NoToken}
      BY <2>1 DEF TypeOK
  <2> QED
      BY <1>1, <1>3, <2>1, <2>2
<1>4. CASE req[r].pc \in FindingPCs
    BY <1>1, <1>4
<1>5. CASE req[r].pc \in HoldingPCs
  <2>1. req[r] \in [pc : HoldingPCs, user : Users, row : UserRow]
      BY <1>1, <1>5
  <2> QED
      BY <1>5, <2>1
<1> QED
    BY <1>2, <1>3, <1>4, <1>5

LEMMA GoesTo ==
    ASSUME TypeOK, NEW r \in Requests, NEW state \in RequestState, Goes(r, state)
    PROVE  /\ req' \in [Requests -> RequestState]
           /\ req'[r] = state
           /\ \A q \in Requests : q # r => req'[q] = req[q]
    BY DEF Goes, TypeOK

\* GoTo is Goes with the fields that r already has.
LEMMA GoToIsGoes ==
    ASSUME TypeOK, NEW r \in Requests, NEW pc, GoTo(r, pc)
    PROVE  /\ req[r].pc \in TokenPCs => Goes(r, [pc |-> pc, token |-> req[r].token])
           /\ req[r].pc \in HoldingPCs =>
                 Goes(r, [pc |-> pc, user |-> req[r].user, row |-> req[r].row])
<1>1. req[r].pc \in TokenPCs => req[r] = [pc |-> req[r].pc, token |-> req[r].token]
    BY Shape
<1>2. req[r].pc \in HoldingPCs =>
         req[r] = [pc |-> req[r].pc, user |-> req[r].user, row |-> req[r].row]
    BY Shape
<1>3. req' = [req EXCEPT ![r] = [req[r] EXCEPT !.pc = pc]]
    BY DEF GoTo, TypeOK
<1>4. ASSUME req[r].pc \in TokenPCs
      PROVE  [req[r] EXCEPT !.pc = pc] = [pc |-> pc, token |-> req[r].token]
    BY <1>1, <1>4
<1>5. ASSUME req[r].pc \in HoldingPCs
      PROVE  [req[r] EXCEPT !.pc = pc] = [pc |-> pc, user |-> req[r].user, row |-> req[r].row]
    BY <1>2, <1>5
<1> QED
    BY <1>3, <1>4, <1>5 DEF Goes

-----------------------------------------------------------------------------
(* What each step does, once and for all: the proofs below go by these     *)
(* lemmas and not by the actions.                                          *)

\* r goes to a state whose statement is one of pcs, and every other request stays.
StepTo(r, pcs) ==
    /\ req' \in [Requests -> RequestState]
    /\ req'[r].pc \in pcs
    /\ \A q \in Requests : q # r => req'[q] = req[q]

\* token[t] is a row, now in the given state, and every other token stays.
Marks(t, state) ==
    /\ t \in Requests
    /\ token[t] \in TokenRow
    /\ token' \in [Requests -> TokenRow \cup {NoToken}]
    /\ token'[t] \in TokenRow
    /\ token'[t].state = state
    /\ token'[t].user = token[t].user
    /\ token'[t].session = token[t].session
    /\ \A q \in Requests : q # t => token'[q] = token[q]

LEMMA StateMarks ==
    ASSUME TypeOK, NEW t \in Requests, NEW state \in {"valid", "expired", "deleted"},
           token[t] # NoToken, token' = [token EXCEPT ![t].state = state]
    PROVE  Marks(t, state)
<1>1. token[t] \in TokenRow
    BY DEF TypeOK
<1>2. /\ token' = [token EXCEPT ![t] = [token[t] EXCEPT !.state = state]]
      /\ token \in [Requests -> TokenRow \cup {NoToken}]
    BY DEF TypeOK
<1>3. [token[t] EXCEPT !.state = state]
         = [state |-> state, user |-> token[t].user, session |-> token[t].session]
    BY <1>1 DEF TokenRow
<1>4. [state |-> state, user |-> token[t].user, session |-> token[t].session] \in TokenRow
    BY <1>1 DEF TokenRow
<1>5. token'[t] = [state |-> state, user |-> token[t].user, session |-> token[t].session]
    BY <1>2, <1>3
<1> QED
    BY <1>1, <1>2, <1>3, <1>4, <1>5 DEF Marks

\* A request that ends, whatever it was doing.
LEMMA FinishStep ==
    ASSUME TypeOK, NEW r \in Requests, Finish(r)
    PROVE  StepTo(r, {"done"})
<1>1. [pc |-> "done"] \in RequestState
    BY DEF RequestState
<1> QED
    BY <1>1, GoesTo DEF Finish, StepTo

LEMMA IssueStep ==
    ASSUME TypeOK, NEW r \in Requests, NEW u \in Users, NEW session \in Requests,
           GoIssue(r, u, session)
    PROVE  StepTo(r, {"issue"}) /\ req'[r].user = u /\ req'[r].session = session
<1>1. [pc |-> "issue", user |-> u, session |-> session] \in RequestState
    BY DEF RequestState
<1> QED
    BY <1>1, GoesTo DEF GoIssue, StepTo

LEMMA TokenStep ==
    ASSUME TypeOK, NEW r \in Requests, NEW pc \in TokenPCs, NEW t \in Requests,
           Goes(r, [pc |-> pc, token |-> t])
    PROVE  StepTo(r, {pc}) /\ req'[r].token = t
<1>1. [pc |-> pc, token |-> t] \in RequestState
    BY DEF RequestState
<1> QED
    BY <1>1, GoesTo DEF StepTo

LEMMA FindingStep ==
    ASSUME TypeOK, NEW r \in Requests, NEW pc \in FindingPCs, NEW u \in Users,
           Goes(r, [pc |-> pc, user |-> u])
    PROVE  StepTo(r, {pc})
<1>1. [pc |-> pc, user |-> u] \in RequestState
    BY DEF RequestState
<1> QED
    BY <1>1, GoesTo DEF StepTo

LEMMA HoldingStep ==
    ASSUME TypeOK, NEW r \in Requests, NEW pc \in HoldingPCs, NEW u \in Users,
           NEW row \in UserRow, Holds(r, pc, u, row)
    PROVE  StepTo(r, {pc}) /\ req'[r].user = u /\ req'[r].row = row
<1>1. [pc |-> pc, user |-> u, row |-> row] \in RequestState
    BY DEF RequestState
<1> QED
    BY <1>1, GoesTo DEF StepTo, Holds

LEMMA LoginStep ==
    ASSUME TypeOK, NEW r \in Requests, Login(r)
    PROVE  /\ req[r].pc = "waiting"
           /\ StepTo(r, {"issue"}) /\ req'[r].session = r
           /\ req'[r].user \in Users /\ ~user[req'[r].user].disabled
           /\ UNCHANGED <<user, token, forked, overtaken, stale>>
    BY IssueStep DEF Login

LEMMA issueTokensStep ==
    ASSUME TypeOK, NEW r \in Requests, issueTokens(r)
    PROVE  /\ req[r].pc = "issue" /\ StepTo(r, {"done"})
           /\ req[r].user \in Users /\ req[r].session \in Requests
           /\ token' \in [Requests -> TokenRow \cup {NoToken}]
           /\ token'[r] \in TokenRow
           /\ token'[r].state = "valid"
           /\ token'[r].user = req[r].user /\ token'[r].session = req[r].session
           /\ \A q \in Requests : q # r => token'[q] = token[q]
           /\ UNCHANGED <<user, forked, overtaken, stale>>
<1>1. req[r].pc = "issue" /\ req[r].user \in Users /\ req[r].session \in Requests
    BY Shape DEF issueTokens
<1>2. [state |-> "valid", user |-> req[r].user, session |-> req[r].session] \in TokenRow
    BY <1>1 DEF TokenRow
<1>3. token \in [Requests -> TokenRow \cup {NoToken}]
    BY DEF TypeOK
<1>4. token' = [token EXCEPT ![r] =
                   [state |-> "valid", user |-> req[r].user, session |-> req[r].session]]
    BY DEF issueTokens
<1> QED
    BY <1>1, <1>2, <1>3, <1>4, FinishStep DEF issueTokens

LEMMA FindByRawTokenStep ==
    ASSUME TypeOK, NEW r \in Requests, FindByRawToken(r)
    PROVE  /\ req[r].pc = "waiting" /\ StepTo(r, {"refresh.user", "revoke"})
           /\ req'[r].token \in Requests
           /\ token[req'[r].token] \in TokenRow /\ token[req'[r].token].state = "valid"
           /\ UNCHANGED <<user, token, forked, overtaken, stale>>
<1>1. PICK t \in Requests, pc \in {"refresh.user", "revoke"} :
         token[t].state = "valid" /\ Goes(r, [pc |-> pc, token |-> t])
    BY DEF FindByRawToken
<1>2. StepTo(r, {pc}) /\ req'[r].token = t
    BY <1>1, TokenStep DEF TokenPCs, RefreshingPCs
<1>3. token[t] \in TokenRow
    BY <1>1 DEF TypeOK, NoToken
<1> QED
    BY <1>1, <1>2, <1>3 DEF FindByRawToken, StepTo

LEMMA RefreshFindUserStep ==
    ASSUME TypeOK, NEW r \in Requests, RefreshFindUser(r)
    PROVE  /\ req[r].pc = "refresh.user" /\ StepTo(r, {"revoke", "refresh.rotate"})
           /\ req[r].token \in Requests /\ token[req[r].token] \in TokenRow
           /\ req'[r].token = req[r].token
           /\ req'[r].pc = "refresh.rotate" => ~user[token[req[r].token].user].disabled
           /\ UNCHANGED <<user, token, forked, overtaken, stale>>
<1>1. PICK pc \in {"revoke", "refresh.rotate"} :
         /\ GoTo(r, pc)
         /\ pc = "refresh.rotate" => ~user[token[req[r].token].user].disabled
    BY DEF RefreshFindUser
<1>2. req[r].pc \in TokenPCs /\ req[r].pc = "refresh.user"
    BY DEF RefreshFindUser, TokenPCs, RefreshingPCs
<1>3. req[r].token \in Requests /\ token[req[r].token] \in TokenRow
    BY <1>2, Shape
<1>4. Goes(r, [pc |-> pc, token |-> req[r].token])
    BY <1>1, <1>2, GoToIsGoes
<1>5. StepTo(r, {pc}) /\ req'[r].token = req[r].token
    BY <1>3, <1>4, TokenStep DEF TokenPCs, RefreshingPCs
<1> QED
    BY <1>1, <1>2, <1>3, <1>5 DEF RefreshFindUser, StepTo

LEMMA RefreshRotateStep ==
    ASSUME TypeOK, NEW r \in Requests, RefreshRotate(r)
    PROVE  /\ req[r].pc = "refresh.rotate" /\ Marks(req[r].token, "deleted")
           /\ StepTo(r, {"issue"})
           /\ req'[r].user = token[req[r].token].user
           /\ req'[r].session = token[req[r].token].session
           /\ forked' = IF token[req[r].token].state = "deleted"
                        THEN forked \cup {token[req[r].token].session} ELSE forked
           /\ UNCHANGED <<user, overtaken, stale>>
<1>1. req[r].pc = "refresh.rotate" /\ req[r].token \in Requests
      /\ token[req[r].token] \in TokenRow
    BY Shape DEF RefreshRotate, TokenPCs, RefreshingPCs
<1>2. token[req[r].token] # NoToken
    BY <1>1 DEF TokenRow, NoToken
<1>3. token' = [token EXCEPT ![req[r].token].state = "deleted"]
    BY DEF RefreshRotate, Delete
<1>4. Marks(req[r].token, "deleted")
    BY <1>1, <1>2, <1>3, StateMarks
<1>5. token[req[r].token].user \in Users /\ token[req[r].token].session \in Requests
    BY <1>1 DEF TokenRow
<1> QED
    BY <1>1, <1>4, <1>5, IssueStep DEF RefreshRotate

LEMMA RevokeStep ==
    ASSUME TypeOK, NEW r \in Requests, Revoke(r)
    PROVE  /\ req[r].pc = "revoke" /\ Marks(req[r].token, "deleted")
           /\ StepTo(r, {"done"})
           /\ UNCHANGED <<user, forked, overtaken, stale>>
<1>1. req[r].pc = "revoke" /\ req[r].token \in Requests
      /\ token[req[r].token] \in TokenRow
    BY Shape DEF Revoke, TokenPCs, RefreshingPCs
<1>2. token[req[r].token] # NoToken
    BY <1>1 DEF TokenRow, NoToken
<1>3. token' = [token EXCEPT ![req[r].token].state = "deleted"]
    BY DEF Revoke, Delete
<1>4. Marks(req[r].token, "deleted")
    BY <1>1, <1>2, <1>3, StateMarks
<1> QED
    BY <1>1, <1>4, FinishStep DEF Revoke

LEMMA ExpireStep ==
    ASSUME TypeOK, NEW t \in Requests, Expire(t)
    PROVE  /\ token[t].state = "valid" /\ Marks(t, "expired")
           /\ UNCHANGED <<user, req, forked, overtaken, stale>>
<1>1. token[t] # NoToken
    BY DEF Expire, NoToken
<1>2. token' = [token EXCEPT ![t].state = "expired"]
    BY DEF Expire
<1>3. Marks(t, "expired")
    BY <1>1, <1>2, StateMarks
<1> QED
    BY <1>3 DEF Expire
LEMMA UserRequestStep ==
    ASSUME TypeOK, NEW r \in Requests, UserRequest(r)
    PROVE  /\ req[r].pc = "waiting" /\ StepTo(r, FindingPCs)
           /\ UNCHANGED <<user, token, forked, overtaken, stale>>
<1>1. PICK u \in Users, pc \in FindingPCs : Goes(r, [pc |-> pc, user |-> u])
    BY DEF UserRequest, FindingPCs
<1>2. StepTo(r, {pc})
    BY <1>1, FindingStep
<1> QED
    BY <1>2 DEF StepTo, UserRequest

\* The requests that read a row: they end, or hold it with their change made.  Only
\* a request to lift a suspension holds one that lifts it, and a demotion is counted.
Finds(r) == UpdateMeFind(r) \/ UpdateUserFind(r) \/ SuspendFind(r) \/ UnsuspendFind(r)

LEMMA FindsStep ==
    ASSUME TypeOK, NEW r \in Requests, Finds(r)
    PROVE  /\ req[r].pc \in FindingPCs /\ req[r].user \in Users
           /\ StepTo(r, HoldingPCs \cup {"done"})
           /\ req'[r].pc \in HoldingPCs =>
                 /\ req'[r].user = req[r].user
                 /\ req'[r].row \in UserRow
                 /\ user[req[r].user].disabled /\ ~UnsuspendFind(r) => req'[r].row.disabled
                 /\ req'[r].pc = "save" /\ user[req[r].user].role = "admin"
                       => req'[r].row.role = "admin"
           /\ UNCHANGED <<user, token, forked, overtaken, stale>>
<1> DEFINE u == req[r].user
<1>1. req[r].pc \in FindingPCs
    BY DEF Finds, UpdateMeFind, UpdateUserFind, SuspendFind, UnsuspendFind, FindingPCs
<1>2. u \in Users /\ user[u] \in UserRow
    BY <1>1, Shape DEF TypeOK
<1>3. UNCHANGED <<user, token, forked, overtaken, stale>>
    BY DEF Finds, UpdateMeFind, UpdateUserFind, SuspendFind, UnsuspendFind
<1> HIDE DEF u
<1>4. CASE UpdateMeFind(r)
  <2>1. Holds(r, "save", u, user[u])
      BY <1>4 DEF UpdateMeFind, u
  <2>2. StepTo(r, {"save"}) /\ req'[r].user = u /\ req'[r].row = user[u]
      BY <2>1, <1>2, HoldingStep DEF HoldingPCs
  <2> QED
      BY <1>1, <1>2, <1>3, <2>2 DEF StepTo, HoldingPCs, u
<1>5. CASE UpdateUserFind(r)
  <2>1. CASE Holds(r, "save", u, user[u])
    <3>1. StepTo(r, {"save"}) /\ req'[r].user = u /\ req'[r].row = user[u]
        BY <2>1, <1>2, HoldingStep DEF HoldingPCs
    <3> QED
        BY <1>1, <1>2, <1>3, <3>1 DEF StepTo, HoldingPCs, u
  <2>2. ASSUME NEW role \in Roles \ {user[u].role},
               Holds(r, IF user[u].role = "admin" THEN "updateUser.count" ELSE "save",
                     u, [user[u] EXCEPT !.role = role])
        PROVE  /\ StepTo(r, HoldingPCs) /\ req'[r].user = u
               /\ req'[r].row = [user[u] EXCEPT !.role = role]
               /\ req'[r].pc = "save" => user[u].role # "admin"
    <3>1. [user[u] EXCEPT !.role = role] \in UserRow
        BY <1>2 DEF UserRow
    <3>2. PICK pc \in HoldingPCs :
             /\ pc = "save" => user[u].role # "admin"
             /\ Holds(r, pc, u, [user[u] EXCEPT !.role = role])
        BY <2>2 DEF HoldingPCs
    <3>3. /\ StepTo(r, {pc}) /\ req'[r].user = u
          /\ req'[r].row = [user[u] EXCEPT !.role = role]
        BY <1>2, <3>1, <3>2, HoldingStep
    <3> QED
        BY <3>2, <3>3 DEF StepTo
  <2>3. ASSUME NEW role \in Roles \ {user[u].role}
        PROVE  /\ [user[u] EXCEPT !.role = role] \in UserRow
               /\ [user[u] EXCEPT !.role = role].disabled = user[u].disabled
      BY <1>2 DEF UserRow
  <2>4. \/ Holds(r, "save", u, user[u])
        \/ \E role \in Roles \ {user[u].role} :
              Holds(r, IF user[u].role = "admin" THEN "updateUser.count" ELSE "save",
                    u, [user[u] EXCEPT !.role = role])
      BY <1>5 DEF UpdateUserFind, u
  <2> QED
      BY <1>1, <1>2, <1>3, <2>1, <2>2, <2>3, <2>4 DEF StepTo, u
<1>6. CASE SuspendFind(r)
  <2>1. CASE Finish(r)
      BY <1>1, <1>2, <1>3, <2>1, FinishStep DEF StepTo, HoldingPCs, u
  <2>2. CASE Holds(r, "save", u, [user[u] EXCEPT !.disabled = TRUE])
            /\ user[u].role # "admin"
    <3>1. /\ [user[u] EXCEPT !.disabled = TRUE] \in UserRow
          /\ [user[u] EXCEPT !.disabled = TRUE].disabled
        BY <1>2 DEF UserRow
    <3>2. /\ StepTo(r, {"save"}) /\ req'[r].user = u
          /\ req'[r].row = [user[u] EXCEPT !.disabled = TRUE]
        BY <1>2, <2>2, <3>1, HoldingStep DEF HoldingPCs
    <3> QED
        BY <1>1, <1>2, <1>3, <2>2, <3>1, <3>2 DEF StepTo, HoldingPCs, u
  <2> QED
      BY <1>6, <2>1, <2>2 DEF SuspendFind, u
<1>7. CASE UnsuspendFind(r)
  <2>1. CASE Finish(r)
      BY <1>1, <1>2, <1>3, <2>1, FinishStep DEF StepTo, HoldingPCs, u
  <2>2. CASE Holds(r, "save", u, [user[u] EXCEPT !.disabled = FALSE])
    <3>1. /\ [user[u] EXCEPT !.disabled = FALSE] \in UserRow
          /\ [user[u] EXCEPT !.disabled = FALSE].role = user[u].role
        BY <1>2 DEF UserRow
    <3>2. /\ StepTo(r, {"save"}) /\ req'[r].user = u
          /\ req'[r].row = [user[u] EXCEPT !.disabled = FALSE]
        BY <1>2, <2>2, <3>1, HoldingStep DEF HoldingPCs
    <3> QED
        BY <1>1, <1>2, <1>3, <1>7, <2>2, <3>1, <3>2 DEF StepTo, HoldingPCs, u
  <2> QED
      BY <1>7, <2>1, <2>2 DEF UnsuspendFind, u
<1> QED
    BY <1>4, <1>5, <1>6, <1>7 DEF Finds

LEMMA UpdateUserCountStep ==
    ASSUME TypeOK, NEW r \in Requests, UpdateUserCount(r)
    PROVE  /\ req[r].pc = "updateUser.count" /\ StepTo(r, {"save", "done"})
           /\ req'[r].pc = "save" =>
                 /\ req'[r].user = req[r].user /\ req'[r].row = req[r].row
                 /\ ~(Cardinality(Admins) <= 1)
           /\ UNCHANGED <<user, token, forked, overtaken, stale>>
<1>1. req[r].pc \in HoldingPCs
    BY DEF UpdateUserCount, HoldingPCs
<1>2. req[r].user \in Users /\ req[r].row \in UserRow
    BY <1>1, Shape
<1>3. CASE GoTo(r, "save") /\ ~(Cardinality(Admins) <= 1)
  <2>1. Holds(r, "save", req[r].user, req[r].row)
      BY <1>1, <1>3, GoToIsGoes DEF Holds
  <2>2. StepTo(r, {"save"}) /\ req'[r].user = req[r].user /\ req'[r].row = req[r].row
      BY <1>2, <2>1, HoldingStep DEF HoldingPCs
  <2> QED
      BY <1>3, <2>2 DEF StepTo, UpdateUserCount
<1>4. CASE Finish(r)
    BY <1>4, FinishStep DEF StepTo, UpdateUserCount
<1> QED
    BY <1>3, <1>4 DEF UpdateUserCount

LEMMA SaveStep ==
    ASSUME TypeOK, NEW r \in Requests, Save(r)
    PROVE  /\ req[r].pc = "save" /\ StepTo(r, {"done"})
           /\ req[r].user \in Users /\ req[r].row \in UserRow
           /\ user' \in [Users -> UserRow]
           /\ user'[req[r].user] = req[r].row
           /\ \A v \in Users : v # req[r].user => user'[v] = user[v]
           /\ overtaken' = IF user[req[r].user].role # req[r].row.role
                           THEN overtaken \cup (Holders \ {r}) ELSE overtaken
           /\ stale' = (stale \/ r \in overtaken)
           /\ UNCHANGED <<token, forked>>
<1>1. req[r].user \in Users /\ req[r].row \in UserRow
    BY Shape DEF Save, HoldingPCs
<1>2. /\ user \in [Users -> UserRow]
      /\ user' = [user EXCEPT ![req[r].user] = req[r].row]
    BY DEF Save, TypeOK
<1>3. StepTo(r, {"done"})
    BY FinishStep DEF Save
<1> QED
    BY <1>1, <1>2, <1>3 DEF Save

\* A request that fails or stops either ends, or is a refresh that goes on with the
\* token it used still in the table.
LEMMA FailureStep ==
    ASSUME TypeOK, NEW r \in Requests, StatementFails(r) \/ ServerStops(r)
    PROVE  /\ req[r].pc # "waiting"
           /\ UNCHANGED <<user, token, overtaken, stale>>
           /\ \/ StepTo(r, {"done"}) /\ UNCHANGED forked
              \/ /\ req[r].pc = "refresh.rotate"
                 /\ req[r].token \in Requests /\ token[req[r].token] \in TokenRow
                 /\ StepTo(r, {"issue"})
                 /\ req'[r].user = token[req[r].token].user
                 /\ req'[r].session = token[req[r].token].session
                 /\ forked' = forked \cup {token[req[r].token].session}
<1>1. CASE Finish(r) /\ UNCHANGED forked
    BY <1>1, FinishStep DEF StatementFails, ServerStops
<1>2. CASE StatementFails(r) /\ req[r].pc = "refresh.rotate"
  <2>1. req[r].token \in Requests /\ token[req[r].token] \in TokenRow
      BY <1>2, Shape DEF TokenPCs, RefreshingPCs
  <2>2. token[req[r].token].user \in Users /\ token[req[r].token].session \in Requests
      BY <2>1 DEF TokenRow
  <2> QED
      BY <1>2, <2>1, <2>2, IssueStep DEF StatementFails
<1> QED
    BY <1>1, <1>2 DEF StatementFails, ServerStops
-----------------------------------------------------------------------------
(* Type correctness.                                                       *)

\* Every step is one of these.
StepOf(r) ==
    \/ Login(r) \/ issueTokens(r) \/ FindByRawToken(r)
    \/ RefreshFindUser(r) \/ RefreshRotate(r) \/ Revoke(r) \/ Expire(r)
    \/ UserRequest(r) \/ Finds(r) \/ UpdateUserCount(r) \/ Save(r)
    \/ StatementFails(r) \/ ServerStops(r)

LEMMA Steps == Next => \E r \in Requests : StepOf(r)
    BY DEF Next, Session, Administration, Finds, StepOf

\* The part of TypeOK that relates the requests to the table of tokens.
HeldTokensExist == \A r \in Requests : req[r].pc \in TokenPCs => token[req[r].token] # NoToken

\* A row of the table is not the absence of one.
LEMMA RowIsThere == \A row \in TokenRow : row # NoToken
    BY DEF TokenRow, NoToken

\* A token that is marked keeps its account and its session.
LEMMA MarksKeep ==
    ASSUME NEW t, NEW state, Marks(t, state), NEW q \in Requests
    PROVE  /\ token'[q] = NoToken <=> token[q] = NoToken
           /\ token'[q].user = token[q].user
           /\ token'[q].session = token[q].session
           /\ q # t => token'[q] = token[q]
    BY RowIsThere DEF Marks

LEMMA TypeInit == Init => TypeOK
<1> SUFFICES ASSUME Init PROVE TypeOK
    OBVIOUS
<1>1. [pc |-> "waiting"] \in RequestState
    BY DEF RequestState
<1>2. user \in [Users -> UserRow]
    BY DEF Init, UserRow
<1>3. \A r \in Requests : req[r].pc \notin TokenPCs
    BY DEF Init, TokenPCs, RefreshingPCs
<1> QED
    BY <1>1, <1>2, <1>3 DEF Init, TypeOK

LEMMA TypeStep == TypeOK /\ [Next]_vars => TypeOK'
<1> USE DEF StepOf
<1> SUFFICES ASSUME TypeOK, [Next]_vars PROVE TypeOK'
    OBVIOUS
<1>1. CASE UNCHANGED vars
    BY <1>1 DEF vars, TypeOK
<1>2. CASE Next
  <2>1. PICK r \in Requests : StepOf(r)
      BY <1>2, Steps
  <2>2. /\ user \in [Users -> UserRow] /\ token \in [Requests -> TokenRow \cup {NoToken}]
        /\ req \in [Requests -> RequestState] /\ HeldTokensExist
        /\ forked \in SUBSET Requests /\ overtaken \in SUBSET Requests /\ stale \in BOOLEAN
        /\ \A q \in Requests : req[q].pc \in TokenPCs => req[q].token \in Requests
      BY Shape DEF TypeOK, HeldTokensExist
  <2>3. SUFFICES /\ user' \in [Users -> UserRow]
                 /\ token' \in [Requests -> TokenRow \cup {NoToken}]
                 /\ req' \in [Requests -> RequestState] /\ HeldTokensExist'
                 /\ forked' \in SUBSET Requests /\ overtaken' \in SUBSET Requests
                 /\ stale' \in BOOLEAN
      BY DEF TypeOK, HeldTokensExist
  <2>4. CASE Login(r)
      BY <2>2, <2>4, LoginStep DEF StepTo, HeldTokensExist, TokenPCs, RefreshingPCs
  <2>5. CASE issueTokens(r)
      BY <2>2, <2>5, issueTokensStep, RowIsThere
      DEF StepTo, HeldTokensExist, TokenPCs, RefreshingPCs
  <2>6. CASE FindByRawToken(r)
      BY <2>2, <2>6, FindByRawTokenStep, RowIsThere DEF StepTo, HeldTokensExist
  <2>7. CASE RefreshFindUser(r)
      BY <2>2, <2>7, RefreshFindUserStep, RowIsThere DEF StepTo, HeldTokensExist
  <2>8. CASE RefreshRotate(r)
    <3>1. Marks(req[r].token, "deleted") /\ StepTo(r, {"issue"})
        BY <2>8, RefreshRotateStep
    <3>2. token[req[r].token].session \in Requests
        BY <3>1 DEF Marks, TokenRow
    <3>3. forked' \in SUBSET Requests
        BY <2>2, <2>8, <3>2, RefreshRotateStep
    <3>4. HeldTokensExist'
        BY <2>2, <3>1, MarksKeep DEF StepTo, HeldTokensExist, TokenPCs, RefreshingPCs
    <3>5. token' \in [Requests -> TokenRow \cup {NoToken}]
        BY <3>1 DEF Marks
    <3> QED
        BY <2>2, <2>8, <3>1, <3>3, <3>4, <3>5, RefreshRotateStep DEF StepTo
  <2>9. CASE Revoke(r)
    <3>1. Marks(req[r].token, "deleted") /\ StepTo(r, {"done"})
        BY <2>9, RevokeStep
    <3>2. HeldTokensExist'
        BY <2>2, <3>1, MarksKeep DEF StepTo, HeldTokensExist, TokenPCs, RefreshingPCs
    <3>3. token' \in [Requests -> TokenRow \cup {NoToken}]
        BY <3>1 DEF Marks
    <3> QED
        BY <2>2, <2>9, <3>1, <3>2, <3>3, RevokeStep DEF StepTo
  <2>10. CASE Expire(r)
    <3>1. Marks(r, "expired") /\ UNCHANGED req
        BY <2>10, ExpireStep
    <3>2. HeldTokensExist'
        BY <2>2, <3>1, MarksKeep DEF HeldTokensExist
    <3>3. token' \in [Requests -> TokenRow \cup {NoToken}]
        BY <3>1 DEF Marks
    <3> QED
        BY <2>2, <2>10, <3>2, <3>3, ExpireStep
  <2>11. CASE UserRequest(r)
      BY <2>2, <2>11, UserRequestStep
      DEF StepTo, HeldTokensExist, TokenPCs, RefreshingPCs, FindingPCs
  <2>12. CASE Finds(r)
      BY <2>2, <2>12, FindsStep
      DEF StepTo, HeldTokensExist, TokenPCs, RefreshingPCs, HoldingPCs
  <2>13. CASE UpdateUserCount(r)
      BY <2>2, <2>13, UpdateUserCountStep
      DEF StepTo, HeldTokensExist, TokenPCs, RefreshingPCs
  <2>14. CASE Save(r)
      BY <2>2, <2>14, SaveStep
      DEF StepTo, HeldTokensExist, TokenPCs, RefreshingPCs, Holders
  <2>15. CASE StatementFails(r) \/ ServerStops(r)
    <3>1. forked' \in SUBSET Requests
        BY <2>2, <2>15, FailureStep DEF TokenRow
    <3> QED
        BY <2>2, <2>15, <3>1, FailureStep
        DEF StepTo, HeldTokensExist, TokenPCs, RefreshingPCs
  <2> QED
      BY <2>1, <2>4, <2>5, <2>6, <2>7, <2>8, <2>9, <2>10, <2>11, <2>12, <2>13, <2>14, <2>15
<1> QED
    BY <1>1, <1>2

\* Every reachable state has the shape that TypeOK gives it: among others, a refresh
\* or a logout under way holds a token that was issued.
THEOREM TypeCorrect == Spec => []TypeOK
    BY TypeInit, TypeStep, PTL DEF Spec

-----------------------------------------------------------------------------
(* Sessions.                                                               *)

\* The shape of a session: a token was issued by a request that is over, and so was
\* the first token of its session; a request issues the first token of its own
\* session, or a further one.
Chained ==
    /\ \A t \in Requests : token[t] # NoToken =>
          req[t].pc = "done" /\ token[token[t].session] # NoToken
    /\ \A r \in Requests : req[r].pc = "issue" =>
          req[r].session = r \/ token[req[r].session] # NoToken

LEMMA ChainedInit == Init => Chained
    BY DEF Init, Chained

LEMMA ChainedStep == TypeOK /\ Chained /\ [Next]_vars => Chained'
<1> USE DEF StepOf
<1> SUFFICES ASSUME TypeOK, Chained, [Next]_vars PROVE Chained'
    OBVIOUS
<1>1. CASE UNCHANGED vars
    BY <1>1 DEF vars, Chained
<1>2. CASE Next
  <2>1. PICK r \in Requests : StepOf(r)
      BY <1>2, Steps
  <2>2. token \in [Requests -> TokenRow \cup {NoToken}]
      BY DEF TypeOK
  <2>3. \A q \in Requests :
           /\ token[q] # NoToken => token[q].session \in Requests
           /\ req[q].pc = "issue" => req[q].session \in Requests
      BY <2>2, Shape DEF TokenRow
  <2>4. CASE Login(r)
      BY <2>4, LoginStep DEF StepTo, Chained
  <2>5. CASE issueTokens(r)
      BY <2>3, <2>5, issueTokensStep, RowIsThere DEF StepTo, Chained
  <2>6. CASE FindByRawToken(r)
      BY <2>6, FindByRawTokenStep DEF StepTo, Chained
  <2>7. CASE RefreshFindUser(r)
      BY <2>7, RefreshFindUserStep DEF StepTo, Chained
  <2>8. CASE RefreshRotate(r)
    <3>1. Marks(req[r].token, "deleted") /\ StepTo(r, {"issue"})
          /\ req[r].pc = "refresh.rotate" /\ req[r].token \in Requests
          /\ token[req[r].token] # NoToken
          /\ req'[r].session = token[req[r].token].session
        BY <2>8, RefreshRotateStep, RowIsThere DEF Marks
    <3>2. token[r] = NoToken
        BY <3>1 DEF Chained
    <3> QED
        BY <2>3, <3>1, <3>2, MarksKeep DEF StepTo, Chained
  <2>9. CASE Revoke(r)
    <3>1. Marks(req[r].token, "deleted") /\ StepTo(r, {"done"})
        BY <2>9, RevokeStep
    <3> QED
        BY <2>3, <3>1, MarksKeep DEF StepTo, Chained
  <2>10. CASE Expire(r)
    <3>1. Marks(r, "expired") /\ UNCHANGED req
        BY <2>10, ExpireStep
    <3> QED
        BY <2>3, <3>1, MarksKeep DEF Chained
  <2>11. CASE UserRequest(r)
      BY <2>11, UserRequestStep DEF StepTo, Chained, FindingPCs
  <2>12. CASE Finds(r)
      BY <2>12, FindsStep DEF StepTo, Chained, FindingPCs, HoldingPCs
  <2>13. CASE UpdateUserCount(r)
      BY <2>13, UpdateUserCountStep DEF StepTo, Chained
  <2>14. CASE Save(r)
      BY <2>14, SaveStep DEF StepTo, Chained
  <2>15. CASE StatementFails(r) \/ ServerStops(r)
      BY <2>3, <2>15, FailureStep, RowIsThere DEF StepTo, Chained
  <2> QED
      BY <2>1, <2>4, <2>5, <2>6, <2>7, <2>8, <2>9, <2>10, <2>11, <2>12, <2>13, <2>14, <2>15
<1> QED
    BY <1>1, <1>2

\* Only a login and a refresh add to the tokens of a session.
LEMMA TipsStep ==
    ASSUME TypeOK, Chained, NEW session \in Requests, NEW r \in Requests, StepOf(r),
           ~(Login(r) /\ session = r),
           ~(req[r].pc = "refresh.rotate" /\ token[req[r].token].session = session)
    PROVE  Tips(session)' \subseteq Tips(session)
<1> USE DEF StepOf
<1>1. CASE Login(r)
    BY <1>1, LoginStep DEF StepTo, Tips
<1>2. CASE issueTokens(r)
    BY <1>2, issueTokensStep DEF StepTo, Tips
<1>3. CASE FindByRawToken(r)
    BY <1>3, FindByRawTokenStep DEF StepTo, Tips
<1>4. CASE RefreshFindUser(r)
    BY <1>4, RefreshFindUserStep DEF StepTo, Tips
<1>5. CASE RefreshRotate(r)
  <2>1. Marks(req[r].token, "deleted") /\ StepTo(r, {"issue"})
        /\ req'[r].session # session
      BY <1>5, RefreshRotateStep
  <2>2. token'[req[r].token].state = "deleted"
      BY <2>1 DEF Marks
  <2> QED
      BY <1>5, <2>1, <2>2, MarksKeep DEF StepTo, Tips
<1>6. CASE Revoke(r)
  <2>1. Marks(req[r].token, "deleted") /\ StepTo(r, {"done"})
      BY <1>6, RevokeStep
  <2>2. token'[req[r].token].state = "deleted"
      BY <2>1 DEF Marks
  <2> QED
      BY <2>1, <2>2, MarksKeep DEF StepTo, Tips
<1>7. CASE Expire(r)
  <2>1. Marks(r, "expired") /\ UNCHANGED req /\ token[r].state = "valid"
      BY <1>7, ExpireStep
  <2> QED
      BY <2>1, MarksKeep DEF Tips
<1>8. CASE UserRequest(r)
    BY <1>8, UserRequestStep DEF StepTo, Tips, FindingPCs
<1>9. CASE Finds(r)
    BY <1>9, FindsStep DEF StepTo, Tips, HoldingPCs
<1>10. CASE UpdateUserCount(r)
    BY <1>10, UpdateUserCountStep DEF StepTo, Tips
<1>11. CASE Save(r)
    BY <1>11, SaveStep DEF StepTo, Tips
<1>12. CASE StatementFails(r) \/ ServerStops(r)
    BY <1>12, FailureStep DEF StepTo, Tips
<1> QED
    BY <1>1, <1>2, <1>3, <1>4, <1>5, <1>6, <1>7, <1>8, <1>9, <1>10, <1>11, <1>12

\* A request that has not begun has no session.
LEMMA NoTipsYet ==
    ASSUME TypeOK, Chained, NEW r \in Requests, req[r].pc = "waiting"
    PROVE  Tips(r) = {}
<1>1. token[r] = NoToken
    BY DEF Chained
<1>2. \A t \in Requests : token[t] # NoToken => token[t].session # r
    BY <1>1 DEF Chained
<1>3. \A t \in Requests : req[t].pc = "issue" => req[t].session # r
    BY <1>1 DEF Chained
<1>4. \A t \in Requests : token[t].state \in {"valid", "expired"} => token[t] # NoToken
    BY DEF NoToken
<1> QED
    BY <1>2, <1>3, <1>4 DEF Tips

LEMMA OneTokenInit == Init => OneTokenPerSession
    BY DEF Init, OneTokenPerSession, Tips, NoToken

LEMMA OneTokenStep ==
    TypeOK /\ Chained /\ OneTokenPerSession /\ [Next]_vars => OneTokenPerSession'
<1> USE DEF StepOf
<1> SUFFICES ASSUME TypeOK, Chained, OneTokenPerSession, [Next]_vars,
                    NEW session \in Requests \ forked',
                    NEW s \in Tips(session)', NEW t \in Tips(session)'
             PROVE  s = t
    BY DEF OneTokenPerSession
<1>1. CASE UNCHANGED vars
    BY <1>1 DEF vars, OneTokenPerSession, Tips
<1>2. CASE Next
  <2>1. PICK r \in Requests : StepOf(r)
      BY <1>2, Steps
  <2>2. CASE Login(r) /\ session = r
    <3>1. Tips(session) = {}
        BY <2>2, LoginStep, NoTipsYet
    <3>2. Tips(session)' \subseteq Tips(session) \cup {r}
        BY <2>2, LoginStep DEF StepTo, Tips
    <3> QED
        BY <3>1, <3>2
  <2>3. CASE req[r].pc = "refresh.rotate" /\ token[req[r].token].session = session
             /\ RefreshRotate(r)
    <3> DEFINE used == req[r].token
    <3>1. /\ Marks(used, "deleted") /\ StepTo(r, {"issue"})
          /\ forked' = IF token[used].state = "deleted"
                       THEN forked \cup {token[used].session} ELSE forked
        BY <2>3, RefreshRotateStep
    <3>2. token[used] \in TokenRow /\ used \in Requests /\ token'[used].state = "deleted"
        BY <3>1 DEF Marks
    <3>3. session \notin forked /\ token[used].state # "deleted"
        BY <2>3, <3>1
    <3>4. used \in Tips(session)
        BY <2>3, <3>2, <3>3 DEF Tips, TokenRow
    <3>5. Tips(session) \subseteq {used}
        BY <3>3, <3>4 DEF OneTokenPerSession
    <3>6. req[used].pc = "done"
        BY <3>2, RowIsThere DEF Chained
    <3>7. used # r
        BY <2>3, <3>6
    <3>8. req'[used].pc = "done"
        BY <3>1, <3>2, <3>6, <3>7 DEF StepTo
    <3> HIDE DEF used
    <3>9. used \notin Tips(session)'
        BY <3>2, <3>8 DEF Tips
    <3>10. Tips(session)' \subseteq Tips(session) \cup {used, r}
        BY <3>1, MarksKeep DEF StepTo, Tips
    <3> QED
        BY <3>5, <3>9, <3>10
  <2>4. CASE req[r].pc = "refresh.rotate" /\ token[req[r].token].session = session
             /\ ~RefreshRotate(r)
    <3>1. forked \subseteq forked' /\ Tips(session)' \subseteq Tips(session)
      <4>1. CASE StatementFails(r) \/ ServerStops(r)
        <5>1. StepTo(r, {"done"}) /\ UNCHANGED <<token, forked>>
            BY <2>4, <4>1, FailureStep
        <5> QED
            BY <5>1 DEF StepTo, Tips
      <4>2. CASE Expire(r)
        <5>1. Marks(r, "expired") /\ UNCHANGED <<req, forked>> /\ token[r].state = "valid"
            BY <4>2, ExpireStep
        <5> QED
            BY <5>1, MarksKeep DEF Tips
      <4> QED
          BY <2>1, <2>4, <4>1, <4>2, LoginStep, issueTokensStep, FindByRawTokenStep,
             RefreshFindUserStep, RevokeStep, UserRequestStep, FindsStep,
             UpdateUserCountStep, SaveStep
          DEF FindingPCs
    <3> QED
        BY <3>1 DEF OneTokenPerSession
  <2>5. CASE ~(Login(r) /\ session = r)
             /\ ~(req[r].pc = "refresh.rotate" /\ token[req[r].token].session = session)
    <3>1. Tips(session)' \subseteq Tips(session)
        BY <2>1, <2>5, TipsStep
    <3>2. forked \subseteq forked'
        BY <2>1, LoginStep, issueTokensStep, FindByRawTokenStep, RefreshFindUserStep,
           RefreshRotateStep, RevokeStep, ExpireStep, UserRequestStep, FindsStep,
           UpdateUserCountStep, SaveStep, FailureStep
    <3> QED
        BY <3>1, <3>2 DEF OneTokenPerSession
  <2> QED
      BY <2>2, <2>3, <2>4, <2>5
<1> QED
    BY <1>1, <1>2

\* The sessions as the inductive invariant of the three theorems.
SessionsInv == TypeOK /\ Chained /\ OneTokenPerSession

LEMMA SessionsInvariant == Spec => []SessionsInv
<1>1. Init => SessionsInv
    BY TypeInit, ChainedInit, OneTokenInit DEF SessionsInv
<1>2. SessionsInv /\ [Next]_vars => SessionsInv'
    BY TypeStep, ChainedStep, OneTokenStep DEF SessionsInv
<1> QED
    BY <1>1, <1>2, PTL DEF Spec

\* A refresh token is good for one refresh: for every number of overlapping
\* logins, refreshes and logouts, and wherever they fail, a session that no refresh
\* forked has one token at a time.
THEOREM OneTokenPerSessionHolds == Spec => []OneTokenPerSession
    BY SessionsInvariant, PTL DEF SessionsInv

\* A token keeps its account and its session.
LEMMA TokensKeep ==
    ASSUME TypeOK, Chained, NEW r \in Requests, StepOf(r),
           NEW t \in Requests, token[t] # NoToken
    PROVE  /\ token'[t] # NoToken
           /\ token'[t].user = token[t].user
           /\ token'[t].session = token[t].session
<1> USE DEF StepOf
<1>1. CASE issueTokens(r)
    BY <1>1, issueTokensStep DEF Chained
<1>2. CASE RefreshRotate(r) \/ Revoke(r)
    BY <1>2, RefreshRotateStep, RevokeStep, MarksKeep
<1>3. CASE Expire(r)
    BY <1>3, ExpireStep, MarksKeep
<1> QED
    BY <1>1, <1>2, <1>3, LoginStep, FindByRawTokenStep, RefreshFindUserStep,
       UserRequestStep, FindsStep, UpdateUserCountStep, SaveStep, FailureStep

\* A refresh begins with a token that is in the table.
LEMMA RefreshingStep ==
    ASSUME TypeOK, Chained, NEW r \in Requests, StepOf(r),
           NEW session \in Requests, Tips(session) = {}
    PROVE  Refreshing(session)' \subseteq Refreshing(session)
<1> USE DEF StepOf, TokenPCs, RefreshingPCs
<1> SUFFICES ASSUME NEW q \in Requests, req'[q].pc \in RefreshingPCs,
                    token'[req'[q].token].session = session
             PROVE  q \in Refreshing(session)
    BY DEF Refreshing
<1>1. CASE q # r \/ UNCHANGED req
  <2>1. req'[q] = req[q]
      BY <1>1, LoginStep, issueTokensStep, FindByRawTokenStep, RefreshFindUserStep,
         RefreshRotateStep, RevokeStep, ExpireStep, UserRequestStep, FindsStep,
         UpdateUserCountStep, SaveStep, FailureStep
      DEF StepTo
  <2>2. req[q].token \in Requests /\ token[req[q].token] # NoToken
      BY <2>1, Shape, RowIsThere
  <2> QED
      BY <2>1, <2>2, TokensKeep DEF Refreshing
<1>2. CASE q = r /\ FindByRawToken(r)
    BY <1>2, FindByRawTokenStep DEF Tips
<1>3. CASE q = r /\ RefreshFindUser(r)
    BY <1>3, RefreshFindUserStep DEF Refreshing
<1>4. CASE q = r /\ ~FindByRawToken(r) /\ ~RefreshFindUser(r)
    BY <1>1, <1>4, LoginStep, issueTokensStep, RefreshRotateStep, RevokeStep, ExpireStep,
       UserRequestStep, FindsStep, UpdateUserCountStep, SaveStep, FailureStep
    DEF StepTo, FindingPCs, HoldingPCs
<1> QED
    BY <1>1, <1>2, <1>3, <1>4

\* A logout that overlaps no refresh of its session ends it, and an ended session is
\* never taken up again, whatever else overlaps and fails.
THEOREM LogoutIsFinalHolds == Spec => LogoutIsFinal
<1>1. SessionsInv /\ [Next]_vars =>
         [\A session \in Requests :
             /\ Ended(session) => Ended(session)'
             /\ \A r \in Requests :
                   /\ Revoke(r) /\ token[req[r].token].session = session
                   /\ token[req[r].token].state # "deleted"
                   /\ Refreshing(session) = {} /\ session \notin forked
                   => Ended(session)']_vars
  <2> SUFFICES ASSUME SessionsInv, Next, NEW session \in Requests
               PROVE  /\ Ended(session) => Ended(session)'
                      /\ \A r \in Requests :
                            /\ Revoke(r) /\ token[req[r].token].session = session
                            /\ token[req[r].token].state # "deleted"
                            /\ Refreshing(session) = {} /\ session \notin forked
                            => Ended(session)'
      OBVIOUS
  <2> USE DEF SessionsInv
  <2>1. ASSUME Ended(session) PROVE Ended(session)'
    <3>1. PICK r \in Requests : StepOf(r)
        BY Steps
    <3>2. token[session] # NoToken /\ Tips(session) = {} /\ Refreshing(session) = {}
        BY <2>1 DEF Ended
    <3>3. ~(Login(r) /\ session = r)
        BY <3>2, LoginStep DEF Chained
    <3>4. ~(req[r].pc = "refresh.rotate" /\ token[req[r].token].session = session)
        BY <3>2 DEF Refreshing, RefreshingPCs
    <3>5. Tips(session)' \subseteq Tips(session)
        BY <3>1, <3>3, <3>4, TipsStep
    <3>6. Refreshing(session)' \subseteq Refreshing(session)
        BY <3>1, <3>2, RefreshingStep
    <3>7. token'[session] # NoToken
        BY <3>1, <3>2, TokensKeep
    <3> QED
        BY <3>2, <3>5, <3>6, <3>7 DEF Ended
  <2>2. ASSUME NEW r \in Requests,
               Revoke(r), token[req[r].token].session = session,
               token[req[r].token].state # "deleted",
               Refreshing(session) = {}, session \notin forked
        PROVE  Ended(session)'
    <3> DEFINE used == req[r].token
    <3>1. /\ Marks(used, "deleted") /\ StepTo(r, {"done"})
        BY <2>2, RevokeStep
    <3>2. token[used] \in TokenRow /\ used \in Requests /\ token'[used].state = "deleted"
        BY <3>1 DEF Marks
    <3>3. used \in Tips(session)
        BY <2>2, <3>2 DEF Tips, TokenRow
    <3>4. Tips(session) \subseteq {used}
        BY <2>2, <3>3 DEF OneTokenPerSession
    <3>5. req[used].pc = "done" /\ token[session] # NoToken
        BY <2>2, <3>2, RowIsThere DEF Chained
    <3>6. req'[used].pc = "done"
        BY <3>1, <3>2, <3>5 DEF StepTo
    <3>7. used \notin Tips(session)'
        BY <3>2, <3>6 DEF Tips
    <3>8. Tips(session)' \subseteq Tips(session) \cup {used}
        BY <3>1, MarksKeep DEF StepTo, Tips
    <3>9. Refreshing(session)' \subseteq Refreshing(session)
      <4> SUFFICES ASSUME NEW q \in Requests, req'[q].pc \in RefreshingPCs,
                          token'[req'[q].token].session = session
                   PROVE  q \in Refreshing(session)
          BY DEF Refreshing
      <4>1. q # r /\ req'[q] = req[q]
          BY <3>1 DEF StepTo, RefreshingPCs
      <4>2. req[q].token \in Requests
          BY <4>1, Shape DEF TokenPCs
      <4> QED
          BY <3>1, <4>1, <4>2, MarksKeep DEF Refreshing
    <3>10. token'[session] # NoToken
        BY <3>1, <3>5, MarksKeep
    <3> QED
        BY <2>2, <3>4, <3>7, <3>8, <3>9, <3>10 DEF Ended
  <2> QED
      BY <2>1, <2>2
<1> QED
    BY <1>1, SessionsInvariant, PTL DEF Spec, LogoutIsFinal

-----------------------------------------------------------------------------
(* Suspensions.                                                            *)

\* Nobody gains a token of an account but by a statement past the check of
\* disabled_at.
LEMMA ValidTokensStep ==
    ASSUME TypeOK, NEW r \in Requests, StepOf(r),
           NEW u \in Users, Barred(u)
    PROVE  ValidTokens(u)' \subseteq ValidTokens(u)
<1> USE DEF StepOf
<1>1. CASE issueTokens(r)
    BY <1>1, issueTokensStep DEF Barred, ValidTokens
<1>2. CASE RefreshRotate(r) \/ Revoke(r)
  <2>1. Marks(req[r].token, "deleted")
      BY <1>2, RefreshRotateStep, RevokeStep
  <2>2. token'[req[r].token].state = "deleted"
      BY <2>1 DEF Marks
  <2> QED
      BY <2>1, <2>2, MarksKeep DEF ValidTokens
<1>3. CASE Expire(r)
  <2>1. Marks(r, "expired") /\ token'[r].state = "expired"
      BY <1>3, ExpireStep DEF Marks
  <2> QED
      BY <2>1, MarksKeep DEF ValidTokens
<1>4. CASE UNCHANGED token
    BY <1>4 DEF ValidTokens
<1> QED
    BY <1>1, <1>2, <1>3, <1>4, LoginStep, FindByRawTokenStep, RefreshFindUserStep,
       UserRequestStep, FindsStep, UpdateUserCountStep, SaveStep, FailureStep

\* q may yet issue u a token, or save a row of u that is not suspended.
Serves(q, u) ==
    \/ req[q].pc = "issue" /\ req[q].user = u
    \/ req[q].pc = "refresh.rotate" /\ token[req[q].token].user = u
    \/ req[q].pc \in HoldingPCs /\ req[q].user = u /\ ~req[q].row.disabled

\* A request that does not move serves nobody new.
LEMMA ServesStays ==
    ASSUME TypeOK, Chained, NEW r \in Requests, StepOf(r),
           NEW u \in Users, NEW q \in Requests, req'[q] = req[q], ~Serves(q, u)
    PROVE  ~Serves(q, u)'
<1> USE DEF StepOf
<1>1. CASE req[q].pc = "refresh.rotate"
  <2>1. req[q].token \in Requests /\ token[req[q].token] # NoToken
      BY <1>1, Shape, RowIsThere DEF TokenPCs, RefreshingPCs
  <2> QED
      BY <1>1, <2>1, TokensKeep DEF Serves, HoldingPCs
<1>2. CASE req[q].pc # "refresh.rotate"
    BY <1>2 DEF Serves
<1> QED
    BY <1>1, <1>2

\* An account stays barred unless a request to lift its suspension reads it.
LEMMA BarredStep ==
    ASSUME TypeOK, Chained, NEW r \in Requests, StepOf(r),
           NEW u \in Users, Barred(u),
           ~(req[r].pc = "unsuspend.find" /\ req[r].user = u /\ UnsuspendFind(r))
    PROVE  Barred(u)'
<1> USE DEF StepOf, HoldingPCs
<1>1. user[u].disabled /\ \A q \in Requests : ~Serves(q, u)
    BY DEF Barred, Serves
<1>2. user'[u].disabled
  <2>1. CASE Save(r)
      BY <1>1, <2>1, SaveStep DEF Serves
  <2> QED
      BY <1>1, <2>1, LoginStep, issueTokensStep, FindByRawTokenStep, RefreshFindUserStep,
         RefreshRotateStep, RevokeStep, ExpireStep, UserRequestStep, FindsStep,
         UpdateUserCountStep, FailureStep
<1>3. ~Serves(r, u)'
  <2>1. CASE Login(r)
      BY <1>1, <2>1, LoginStep DEF StepTo, Serves
  <2>2. CASE RefreshFindUser(r)
      BY <1>1, <2>2, RefreshFindUserStep DEF StepTo, Serves
  <2>3. CASE RefreshRotate(r)
      BY <1>1, <2>3, RefreshRotateStep DEF StepTo, Serves
  <2>4. CASE Finds(r)
    <3>1. UnsuspendFind(r) => req[r].pc = "unsuspend.find"
        BY DEF UnsuspendFind
    <3> QED
        BY <1>1, <2>4, <3>1, FindsStep DEF StepTo, Serves
  <2>5. CASE UpdateUserCount(r)
      BY <1>1, <2>5, UpdateUserCountStep DEF StepTo, Serves
  <2>6. CASE StatementFails(r) \/ ServerStops(r)
      BY <1>1, <2>6, FailureStep DEF StepTo, Serves
  <2>7. CASE Expire(r)
      BY <1>1, <2>7, ExpireStep, ServesStays
  <2>8. CASE issueTokens(r) \/ FindByRawToken(r) \/ Revoke(r) \/ UserRequest(r) \/ Save(r)
      BY <2>8, issueTokensStep, FindByRawTokenStep, RevokeStep, UserRequestStep, SaveStep
      DEF StepTo, Serves, FindingPCs
  <2> QED
      BY <2>1, <2>2, <2>3, <2>4, <2>5, <2>6, <2>7, <2>8
<1>4. ASSUME NEW q \in Requests, q # r PROVE ~Serves(q, u)'
  <2>1. req'[q] = req[q]
      BY <1>4, LoginStep, issueTokensStep, FindByRawTokenStep, RefreshFindUserStep,
         RefreshRotateStep, RevokeStep, ExpireStep, UserRequestStep, FindsStep,
         UpdateUserCountStep, SaveStep, FailureStep
      DEF StepTo
  <2> QED
      BY <1>1, <1>4, <2>1, ServesStays
<1>5. \A q \in Requests : ~Serves(q, u)'
    BY <1>3, <1>4
<1> QED
    BY <1>2, <1>5 DEF Barred, Serves

\* A suspended account gets no refresh token and stays suspended until staff lift
\* the suspension, once nothing that overlapped the suspension is in flight.
THEOREM SuspensionLastsHolds == Spec => SuspensionLasts
<1>1. SessionsInv /\ [Next]_vars =>
         [\A u \in Users : Barred(u) =>
             /\ ValidTokens(u)' \subseteq ValidTokens(u)
             /\ Barred(u)' \/ \E r \in Requests : req[r].pc = "unsuspend.find"
                                                  /\ req[r].user = u /\ UnsuspendFind(r)]_vars
  <2> SUFFICES ASSUME SessionsInv, Next, NEW u \in Users, Barred(u)
               PROVE  /\ ValidTokens(u)' \subseteq ValidTokens(u)
                      /\ Barred(u)' \/ \E r \in Requests :
                            req[r].pc = "unsuspend.find" /\ req[r].user = u /\ UnsuspendFind(r)
      OBVIOUS
  <2> USE DEF SessionsInv
  <2>1. PICK r \in Requests : StepOf(r)
      BY Steps
  <2>2. ValidTokens(u)' \subseteq ValidTokens(u)
      BY <2>1, ValidTokensStep
  <2>3. CASE req[r].pc = "unsuspend.find" /\ req[r].user = u /\ UnsuspendFind(r)
      BY <2>2, <2>3
  <2>4. CASE ~(req[r].pc = "unsuspend.find" /\ req[r].user = u /\ UnsuspendFind(r))
    <3>1. Barred(u)'
        BY <2>1, <2>4, BarredStep
    <3> QED
        BY <2>2, <3>1
  <2> QED
      BY <2>3, <2>4
<1> QED
    BY <1>1, SessionsInvariant, PTL DEF Spec, SuspensionLasts

-----------------------------------------------------------------------------
(* Super Admins.                                                           *)

IsAdmin(u) == user[u].role = "admin"

\* Which requests would demote a Super Admin with the row they are about to save.
Demotes(r) ==
    req[r].pc = "save" /\ IsAdmin(req[r].user) /\ req[r].row.role # "admin"

\* The strengthening of AdminLeft: a request that would demote a Super Admin, and
\* that no change of a role has overtaken, leaves another one.
AdminInv ==
    ~stale => /\ Admins # {}
              /\ \A r \in Requests \ overtaken : Demotes(r) =>
                    \E v \in Users : v # req[r].user /\ IsAdmin(v)

LEMMA MoreThanOne ==
    ASSUME ~(Cardinality(Admins) <= 1), NEW u
    PROVE  \E v \in Users : v # u /\ IsAdmin(v)
<1> SUFFICES ASSUME Admins \in SUBSET {u} PROVE FALSE
    BY DEF Admins, IsAdmin
<1>1. IsFiniteSet({u}) /\ Cardinality({u}) = 1
    BY FS_Singleton
<1> QED
    BY <1>1, FS_Subset

LEMMA AdminInit == Init => AdminInv
    BY DEF Init, AdminInv, Demotes

LEMMA AdminStep == TypeOK /\ AdminInv /\ [Next]_vars => AdminInv'
<1> USE DEF StepOf
<1> SUFFICES ASSUME TypeOK, AdminInv, [Next]_vars, ~stale' PROVE AdminInv'
    BY DEF AdminInv
<1>1. CASE UNCHANGED vars
    BY <1>1 DEF vars, AdminInv, Demotes, IsAdmin, Admins
<1>2. CASE Next
  <2>1. PICK r \in Requests : StepOf(r)
      BY <1>2, Steps
  <2>2. CASE Save(r)
    <3> DEFINE u == req[r].user
    <3>1. /\ ~stale /\ r \notin overtaken
          /\ StepTo(r, {"done"}) /\ u \in Users
          /\ user'[u] = req[r].row
          /\ \A v \in Users : v # u => user'[v] = user[v]
          /\ overtaken' = IF user[u].role # req[r].row.role
                          THEN overtaken \cup (Holders \ {r}) ELSE overtaken
        BY <2>2, SaveStep
    <3> HIDE DEF u
    <3>2. req[r].pc = "save" /\ u = req[r].user
        BY <2>2 DEF Save, u
    <3>3. /\ Admins # {}
          /\ \A q \in Requests \ overtaken : Demotes(q) =>
                \E v \in Users : v # req[q].user /\ IsAdmin(v)
        BY <3>1 DEF AdminInv
    <3>4. Admins' # {}
      <4>1. CASE req[r].row.role = "admin"
          BY <3>1, <4>1 DEF Admins
      <4>2. CASE req[r].row.role # "admin"
        <5>1. PICK v \in Users : v # u /\ IsAdmin(v)
            BY <3>1, <3>2, <3>3, <4>2 DEF Demotes, Admins, IsAdmin
        <5> QED
            BY <3>1, <5>1 DEF Admins, IsAdmin
      <4> QED
          BY <4>1, <4>2
    <3>5. ASSUME NEW q \in Requests \ overtaken', Demotes(q)'
          PROVE  \E v \in Users : v # req'[q].user /\ IsAdmin(v)'
      <4>1. q # r /\ req'[q] = req[q] /\ req[q].pc = "save"
          BY <3>1, <3>5 DEF StepTo, Demotes
      <4>2. q \in Holders
          BY <4>1 DEF Holders, HoldingPCs
      <4>3. user[u].role = req[r].row.role /\ q \notin overtaken
          BY <3>1, <3>5, <4>1, <4>2
      <4>4. \A v \in Users : IsAdmin(v)' <=> IsAdmin(v)
          BY <3>1, <4>3 DEF IsAdmin
      <4>5. req[q].user \in Users
          BY <4>2, Shape DEF Holders
      <4>6. Demotes(q)
          BY <3>5, <4>1, <4>4, <4>5 DEF Demotes, IsAdmin
      <4> QED
          BY <3>3, <4>1, <4>3, <4>4, <4>6
    <3> QED
        BY <3>4, <3>5 DEF AdminInv
  <2>3. CASE ~Save(r)
    <3>1. UNCHANGED <<user, overtaken, stale>>
        BY <2>1, <2>3, LoginStep, issueTokensStep, FindByRawTokenStep, RefreshFindUserStep,
           RefreshRotateStep, RevokeStep, ExpireStep, UserRequestStep, FindsStep,
           UpdateUserCountStep, FailureStep
    <3>2. /\ Admins' # {} /\ ~stale
          /\ \A q \in Requests \ overtaken : Demotes(q) =>
                \E v \in Users : v # req[q].user /\ IsAdmin(v)
        BY <3>1 DEF AdminInv, Admins
    <3>3. ASSUME NEW q \in Requests \ overtaken', Demotes(q)'
          PROVE  \E v \in Users : v # req'[q].user /\ IsAdmin(v)'
      <4>1. CASE req'[q] = req[q]
        <5>1. Demotes(q)
            BY <3>1, <3>3, <4>1 DEF Demotes, IsAdmin
        <5> QED
            BY <3>1, <3>2, <4>1, <5>1 DEF IsAdmin
      <4>2. CASE UpdateUserCount(r) /\ q = r
        <5>1. ~(Cardinality(Admins) <= 1)
            BY <3>3, <4>2, UpdateUserCountStep DEF StepTo, Demotes
        <5> QED
            BY <3>1, <5>1, MoreThanOne DEF IsAdmin
      <4>3. CASE Finds(r) /\ q = r
        <5>1. req'[q].pc = "save"
            BY <3>3 DEF Demotes
        <5> QED
            BY <3>1, <3>3, <4>3, <5>1, FindsStep DEF Demotes, IsAdmin, HoldingPCs
      <4>4. CASE req'[q] # req[q] /\ ~(Finds(r) /\ q = r) /\ ~(UpdateUserCount(r) /\ q = r)
        <5>1. req'[q].pc # "save"
            BY <2>1, <2>3, <4>4, LoginStep, issueTokensStep, FindByRawTokenStep,
               RefreshFindUserStep, RefreshRotateStep, RevokeStep, ExpireStep,
               UserRequestStep, FindsStep, UpdateUserCountStep, FailureStep
            DEF StepTo, FindingPCs
        <5> QED
            BY <3>3, <5>1 DEF Demotes
      <4> QED
          BY <4>1, <4>2, <4>3, <4>4
    <3> QED
        BY <3>1, <3>2, <3>3 DEF AdminInv
  <2> QED
      BY <2>2, <2>3
<1> QED
    BY <1>1, <1>2

\* The count of Super Admins that a demotion makes is enough, however requests
\* overlap, as long as none saves a row that it read before a role changed.
THEOREM AdminLeftHolds == Spec => []AdminLeft
<1>1. Init => TypeOK /\ AdminInv
    BY TypeInit, AdminInit
<1>2. TypeOK /\ AdminInv /\ [Next]_vars => (TypeOK /\ AdminInv)'
    BY TypeStep, AdminStep
<1>3. AdminInv => AdminLeft
    BY DEF AdminInv, AdminLeft
<1> QED
    BY <1>1, <1>2, <1>3, PTL DEF Spec
=============================================================================
