------------------------------ MODULE Accounts ------------------------------
(***************************************************************************)
(* Staff administration and sessions: who is a Super Admin, who is         *)
(* suspended, and which refresh tokens are good.                           *)
(*                                                                         *)
(* The users row of an account is read by the middleware and the session   *)
(* handlers and written whole (db.Save) by UpdateMe, UpdateUser,           *)
(* SuspendUser and UnsuspendUser.  A refresh token is deleted by the       *)
(* refresh that uses it, which then issues another: a session is a chain   *)
(* of tokens that begins with a login.  As in Billing an action is one     *)
(* statement with the code up to the next.  A request that is refused      *)
(* without a write is left out.                                            *)
(*                                                                         *)
(*   user[u]    the users row of u                                         *)
(*   token[r]   the refresh_tokens row that request r has inserted         *)
(*   req[r]     the statement r sends next, and the locals it needs        *)
(***************************************************************************)
EXTENDS Naturals, FiniteSets

CONSTANTS Users,        \* accounts: customers and staff
          StaffRoles,   \* the custom roles of the roles table
          Requests,     \* HTTP requests; each one arrives at most once
          DbMayFail     \* may a statement fail, or the server stop?

Roles == {"owner", "admin"} \cup StaffRoles

ASSUME AccountAssumption ==
    /\ IsFiniteSet(Users)
    /\ StaffRoles \cap {"owner", "admin"} = {}
    /\ DbMayFail \in BOOLEAN

VARIABLES
    user,
    token,
    req,
    forked,     \* history: sessions a refresh left with a second token
    overtaken,  \* history: requests that hold a row from before a role changed
    stale       \* history: has an overtaken request saved its row?

vars == <<user, token, req, forked, overtaken, stale>>

UserRow == [role : Roles, disabled : BOOLEAN]

\* session is the login that the chain of the token began with.
TokenRow == [state : {"valid", "expired", "deleted"}, user : Users, session : Requests]
NoToken == [state |-> "none"]

FindingPCs == {"updateMe.find", "updateUser.find", "suspend.find", "unsuspend.find"}
HoldingPCs == {"updateUser.count", "save"}
RefreshingPCs == {"refresh.user", "refresh.rotate"}
TokenPCs == RefreshingPCs \cup {"revoke"}

RequestState ==
    [pc : {"waiting", "done"}]
        \cup [pc : {"issue"}, user : Users, session : Requests]
        \cup [pc : TokenPCs, token : Requests]
        \cup [pc : FindingPCs, user : Users]
        \cup [pc : HoldingPCs, user : Users, row : UserRow]

TypeOK ==
    /\ user \in [Users -> UserRow]
    /\ token \in [Requests -> TokenRow \cup {NoToken}]
    /\ req \in [Requests -> RequestState]
    /\ \A r \in Requests : req[r].pc \in TokenPCs => token[req[r].token] # NoToken
    /\ forked \in SUBSET Requests
    /\ overtaken \in SUBSET Requests
    /\ stale \in BOOLEAN

Admins == {u \in Users : user[u].role = "admin"}

\* The hard gate at start-up asks for a Super Admin.
Init ==
    /\ user \in [Users -> [role : Roles, disabled : {FALSE}]]
    /\ Admins # {}
    /\ token = [r \in Requests |-> NoToken]
    /\ req = [r \in Requests |-> [pc |-> "waiting"]]
    /\ forked = {}
    /\ overtaken = {}
    /\ stale = FALSE

-----------------------------------------------------------------------------
Goes(r, state) == req' = [req EXCEPT ![r] = state]

GoTo(r, pc) == req' = [req EXCEPT ![r].pc = pc]

Finish(r) == Goes(r, [pc |-> "done"])

GoIssue(r, u, session) == Goes(r, [pc |-> "issue", user |-> u, session |-> session])

\* DELETE of the row by its id.
Delete(t) == token' = [token EXCEPT ![t].state = "deleted"]

-----------------------------------------------------------------------------
(* Sessions.                                                               *)

\* A bug: disabled_at is not looked at.
LoginUnchecked(r) ==
    /\ req[r].pc = "waiting"
    /\ \E u \in Users : GoIssue(r, u, r)
    /\ UNCHANGED <<user, token, forked, overtaken, stale>>

\* POST /api/auth/login with the right password; the tokens of a registration are
\* issued in the same way.
Login(r) ==
    /\ req[r].pc = "waiting"
    /\ \E u \in Users : ~user[u].disabled /\ GoIssue(r, u, r)
    /\ UNCHANGED <<user, token, forked, overtaken, stale>>

issueTokens(r) ==
    /\ req[r].pc = "issue"
    /\ token' = [token EXCEPT ![r] =
                    [state |-> "valid", user |-> req[r].user, session |-> req[r].session]]
    /\ Finish(r)
    /\ UNCHANGED <<user, forked, overtaken, stale>>

\* A bug: the error of the query is dropped, and no row is taken for one.
FindTokenUnchecked(r) ==
    /\ req[r].pc = "waiting"
    /\ \E t \in Requests, pc \in {"refresh.user", "revoke"} : Goes(r, [pc |-> pc, token |-> t])
    /\ UNCHANGED <<user, token, forked, overtaken, stale>>

\* POST /api/auth/refresh and POST /api/auth/logout, with any token handed out.
FindByRawToken(r) ==
    /\ req[r].pc = "waiting"
    /\ \E t \in Requests, pc \in {"refresh.user", "revoke"} :
          token[t].state = "valid" /\ Goes(r, [pc |-> pc, token |-> t])
    /\ UNCHANGED <<user, token, forked, overtaken, stale>>

RefreshFindUser(r) ==
    /\ req[r].pc = "refresh.user"
    /\ GoTo(r, IF user[token[req[r].token].user].disabled THEN "revoke" ELSE "refresh.rotate")
    /\ UNCHANGED <<user, token, forked, overtaken, stale>>

\* A bug: the token a refresh used stays in the table.
RefreshKeepsToken(r) ==
    LET t == token[req[r].token]
    IN  /\ req[r].pc = "refresh.rotate"
        /\ GoIssue(r, t.user, t.session)
        /\ UNCHANGED <<user, token, forked, overtaken, stale>>

\* Whether the DELETE hit a row is not looked at.
RefreshRotate(r) ==
    LET t == token[req[r].token]
    IN  /\ req[r].pc = "refresh.rotate"
        /\ Delete(req[r].token)
        /\ forked' = IF t.state = "deleted" THEN forked \cup {t.session} ELSE forked
        /\ GoIssue(r, t.user, t.session)
        /\ UNCHANGED <<user, overtaken, stale>>

\* A bug: a logout clears the cookie and leaves the row.
RevokeNothing(r) ==
    /\ req[r].pc = "revoke"
    /\ Finish(r)
    /\ UNCHANGED <<user, token, forked, overtaken, stale>>

\* A logout, or a refresh of a suspended account.
Revoke(r) ==
    /\ req[r].pc = "revoke"
    /\ Delete(req[r].token)
    /\ Finish(r)
    /\ UNCHANGED <<user, forked, overtaken, stale>>

\* expires_at has passed.
Expire(t) ==
    /\ token[t].state = "valid"
    /\ token' = [token EXCEPT ![t].state = "expired"]
    /\ UNCHANGED <<user, req, forked, overtaken, stale>>

-----------------------------------------------------------------------------
(* The users row.                                                          *)

\* What RejectDisabled, and then the permission guard, ask of the sender.
Active(u) == ~user[u].disabled
Staff(u) == Active(u) /\ user[u].role # "owner"

UserRequest(r) ==
    /\ req[r].pc = "waiting"
    /\ \E u \in Users :
          \/ Active(u) /\ Goes(r, [pc |-> "updateMe.find", user |-> u])
          \/ /\ \E actor \in Users : Staff(actor)
             /\ \E pc \in FindingPCs \ {"updateMe.find"} : Goes(r, [pc |-> pc, user |-> u])
    /\ UNCHANGED <<user, token, forked, overtaken, stale>>

Holds(r, pc, u, row) == Goes(r, [pc |-> pc, user |-> u, row |-> row])

\* PATCH /api/auth/me writes none of these columns but the values it read.
UpdateMeFind(r) ==
    /\ req[r].pc = "updateMe.find"
    /\ Holds(r, "save", req[r].user, user[req[r].user])
    /\ UNCHANGED <<user, token, forked, overtaken, stale>>

\* PATCH /api/admin/users/:id changes the name or the e-mail, or the role.
UpdateUserFind(r) ==
    LET u == req[r].user
    IN  /\ req[r].pc = "updateUser.find"
        /\ \/ Holds(r, "save", u, user[u])
           \/ \E role \in Roles \ {user[u].role} :
                 Holds(r, IF user[u].role = "admin" THEN "updateUser.count" ELSE "save",
                       u, [user[u] EXCEPT !.role = role])
        /\ UNCHANGED <<user, token, forked, overtaken, stale>>

\* A bug: the Super Admins are not counted.
UpdateUserUncounted(r) ==
    /\ req[r].pc = "updateUser.count"
    /\ GoTo(r, "save")
    /\ UNCHANGED <<user, token, forked, overtaken, stale>>

\* "Cannot demote the last Super Admin"
UpdateUserCount(r) ==
    /\ req[r].pc = "updateUser.count"
    /\ IF Cardinality(Admins) <= 1 THEN Finish(r) ELSE GoTo(r, "save")
    /\ UNCHANGED <<user, token, forked, overtaken, stale>>

\* POST /api/admin/users/:id/suspend, of an account that is no Super Admin
SuspendFind(r) ==
    LET u == req[r].user
    IN  /\ req[r].pc = "suspend.find"
        /\ IF user[u].role = "admin" \/ user[u].disabled
           THEN Finish(r)
           ELSE Holds(r, "save", u, [user[u] EXCEPT !.disabled = TRUE])
        /\ UNCHANGED <<user, token, forked, overtaken, stale>>

\* POST /api/admin/users/:id/unsuspend
UnsuspendFind(r) ==
    LET u == req[r].user
    IN  /\ req[r].pc = "unsuspend.find"
        /\ IF user[u].disabled
           THEN Holds(r, "save", u, [user[u] EXCEPT !.disabled = FALSE])
           ELSE Finish(r)
        /\ UNCHANGED <<user, token, forked, overtaken, stale>>

\* The requests that hold a row.
Holders == {r \in Requests : req[r].pc \in HoldingPCs}

Save(r) ==
    LET u == req[r].user
    IN  /\ req[r].pc = "save"
        /\ user' = [user EXCEPT ![u] = req[r].row]
        /\ overtaken' = IF user[u].role # req[r].row.role
                        THEN overtaken \cup (Holders \ {r}) ELSE overtaken
        /\ stale' = (stale \/ r \in overtaken)
        /\ Finish(r)
        /\ UNCHANGED <<token, forked>>

-----------------------------------------------------------------------------
\* The statement r is about to send fails.  Refresh drops the error of its DELETE
\* and issues a token beside the one it used; every other error ends r.
StatementFails(r) ==
    /\ DbMayFail
    /\ req[r].pc \notin {"waiting", "done"}
    /\ IF req[r].pc = "refresh.rotate"
       THEN LET t == token[req[r].token]
            IN  GoIssue(r, t.user, t.session) /\ forked' = forked \cup {t.session}
       ELSE Finish(r) /\ UNCHANGED forked
    /\ UNCHANGED <<user, token, overtaken, stale>>

\* The server stops: r is never heard of again.
ServerStops(r) ==
    /\ DbMayFail
    /\ req[r].pc \notin {"waiting", "done"}
    /\ Finish(r)
    /\ UNCHANGED <<user, token, forked, overtaken, stale>>

Session(r) ==
    \/ Login(r) \/ issueTokens(r) \/ FindByRawToken(r)
    \/ RefreshFindUser(r) \/ RefreshRotate(r) \/ Revoke(r)

Administration(r) ==
    \/ UserRequest(r) \/ UpdateMeFind(r) \/ UpdateUserFind(r) \/ UpdateUserCount(r)
    \/ SuspendFind(r) \/ UnsuspendFind(r) \/ Save(r)

Next ==
    \E r \in Requests :
        \/ Session(r) \/ Administration(r)
        \/ StatementFails(r) \/ ServerStops(r)
        \/ Expire(r)

Spec == Init /\ [][Next]_vars

-----------------------------------------------------------------------------
(***************************************************************************)
(* Properties                                                              *)
(***************************************************************************)
ValidTokens(u) == {t \in Requests : token[t].state = "valid" /\ token[t].user = u}

\* u is suspended, and nobody in flight has seen it otherwise: no request is past
\* the check of disabled_at, and none holds a row of u that is not disabled.
Barred(u) ==
    /\ user[u].disabled
    /\ \A r \in Requests :
          /\ req[r].pc = "issue" => req[r].user # u
          /\ req[r].pc = "refresh.rotate" => token[req[r].token].user # u
          /\ req[r].pc \in HoldingPCs /\ req[r].user = u => req[r].row.disabled

\* A suspension lasts, and hands out no refresh token, from when the requests that
\* overlapped it are over until staff lift it.
SuspensionLasts ==
    [][\A u \in Users : Barred(u) =>
          /\ ValidTokens(u)' \subseteq ValidTokens(u)
          /\ Barred(u)' \/ \E r \in Requests : req[r].pc = "unsuspend.find" /\ req[r].user = u
                                               /\ UnsuspendFind(r)]_vars

\* The tokens of a session that are in the table, or that a request is about to
\* insert.
Tips(session) ==
    {t \in Requests :
        \/ token[t].state \in {"valid", "expired"} /\ token[t].session = session
        \/ req[t].pc = "issue" /\ req[t].session = session}

\* A refresh token is good for one refresh: a session has one at a time, unless a
\* refresh could not delete the token it used or found it already gone.
OneTokenPerSession ==
    \A session \in Requests \ forked : \A s, t \in Tips(session) : s = t

Refreshing(session) ==
    {r \in Requests : req[r].pc \in RefreshingPCs /\ token[req[r].token].session = session}

Ended(session) ==
    token[session] # NoToken /\ Tips(session) = {} /\ Refreshing(session) = {}

\* A logout ends the session for good, unless a refresh of it is under way or has
\* forked it.
LogoutIsFinal ==
    [][\A session \in Requests :
          /\ Ended(session) => Ended(session)'
          /\ \A r \in Requests :
                /\ Revoke(r) /\ token[req[r].token].session = session
                /\ token[req[r].token].state # "deleted"
                /\ Refreshing(session) = {} /\ session \notin forked
                => Ended(session)']_vars

\* There is a Super Admin, as long as no request saves a row that it read before
\* the role of some account changed.
AdminLeft == ~stale => Admins # {}

-----------------------------------------------------------------------------
(* What the repository says of this code, and the code does not keep.      *)

\* "Last Super Admin cannot be demoted."
LastAdminStays == Admins # {}
=============================================================================
