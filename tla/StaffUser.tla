------------------------------- MODULE StaffUser -------------------------------
(***************************************************************************)
(* The staff's page of one user: the profile, which is edited as a whole   *)
(* form, and the actions on the account.  Other members of staff act on    *)
(* the same account, and while the staff member impersonates someone every *)
(* call of the page goes out as that user.                                 *)
(*                                                                         *)
(*   account    the user the API holds                                     *)
(*   user       the copy the page holds, or NoUser                         *)
(*   editing    the form, or NoForm                                        *)
(*   sent       the form as the save under way sent it                    *)
(*   doing, at  the handler under way, and whether it waits for its call   *)
(*              or for the refresh that follows, which the API then has    *)
(*              answered; "load" is the effect that loads the page         *)
(*   reply      the user the API has answered with, or NoUser              *)
(*                                                                         *)
(* The histories tell whether the name or the role may have changed behind *)
(* a copy: someone else wrote it, or a save whose answer was lost, or the  *)
(* refresh after a save failed.                                            *)
(***************************************************************************)
EXTENDS FiniteSets

CONSTANTS Names,      \* values of the name, and of the e-mail address with it
          Roles,      \* the roles there are, "admin" and "owner" among them
          StaffRoles  \* those with access to the console

VARIABLES
    account, user, reply, editing, sent, doing, at, busy, userLoading, tab, impersonating,
    userStale,  \* history: that is so since the API read the page's copy
    replyStale, \* history: since it read the reply
    formStale,  \* history: since it read the copy the form was filled with
    touched     \* history: the fields of the form the user changed

copy == <<user, userStale>>
answer == <<reply, replyStale>>
editor == <<editing, sent, formStale, touched>>
userVars == <<account, copy, answer, editor, doing, at, busy, userLoading, tab, impersonating>>

Account == [name : Names, role : Roles, disabled : BOOLEAN]
EditForm == [name : Names, role : Roles]
NoUser == [name |-> "nobody"]
NoForm == [name |-> "none"]
Handlers == {"edit", "reset", "impersonate", "suspend", "unsuspend"}

UserTypeOK ==
    /\ account \in Account
    /\ user \in Account \cup {NoUser} /\ reply \in Account \cup {NoUser}
    /\ editing \in EditForm \cup {NoForm} /\ sent \in EditForm \cup {NoForm}
    /\ doing \in Handlers \cup {"load", "none"}
    /\ at \in {"idle", "called", "refreshing", "answered"}
    /\ busy \in BOOLEAN /\ userLoading \in BOOLEAN /\ impersonating \in BOOLEAN
    /\ tab \in {"profile", "activity", "subscription"}
    /\ userStale \in BOOLEAN /\ replyStale \in BOOLEAN /\ formStale \in BOOLEAN
    /\ touched \subseteq {"name", "role"}

UserInit ==
    /\ account \in Account
    /\ user = NoUser /\ userStale = FALSE /\ reply = NoUser /\ replyStale = FALSE
    /\ editing = NoForm /\ sent = NoForm /\ formStale = FALSE /\ touched = {}
    /\ doing = "load" /\ at = "refreshing"
    /\ busy = FALSE /\ userLoading = TRUE
    /\ tab = "profile" /\ impersonating = FALSE

-----------------------------------------------------------------------------
\* The page, instead of the spinner.
Visible == ~userLoading /\ user # NoUser

\* The buttons of the header and of the profile tab.
Offered(h) ==
    /\ Visible /\ ~busy
    /\ CASE h = "unsuspend" -> user.disabled
         [] h = "suspend" -> ~user.disabled /\ user.role # "admin"
         [] h = "edit" -> tab = "profile" /\ editing # NoForm
         [] OTHER -> tab = "profile"

setActiveTab(t) ==
    /\ Visible /\ tab # t /\ tab' = t
    /\ UNCHANGED <<account, copy, answer, editor, doing, at, busy, userLoading, impersonating>>

\* Edit profile: the form is filled with the page's copy.
handleEdit ==
    /\ Visible /\ ~busy /\ tab = "profile" /\ editing = NoForm
    /\ editing' = [name |-> user.name, role |-> user.role]
    /\ formStale' = userStale /\ touched' = {}
    /\ UNCHANGED <<account, copy, answer, sent, doing, at, busy, userLoading, tab,
                   impersonating>>

cancelEdit ==
    /\ Visible /\ ~busy /\ tab = "profile" /\ editing # NoForm
    /\ editing' = NoForm /\ formStale' = FALSE /\ touched' = {}
    /\ UNCHANGED <<account, copy, answer, sent, doing, at, busy, userLoading, tab,
                   impersonating>>

\* The fields of the form, which stay enabled while it is saved.
setEditing(field, v) ==
    /\ Visible /\ tab = "profile" /\ editing # NoForm
    /\ editing[field] # v
    /\ editing' = [editing EXCEPT ![field] = v]
    /\ touched' = touched \cup {field}
    /\ UNCHANGED <<account, copy, answer, sent, formStale, doing, at, busy, userLoading, tab,
                   impersonating>>

-----------------------------------------------------------------------------
(* The handlers: call, refresh, done.                                      *)

\* saveEdit, handleResetPassword, handleImpersonate, handleSuspend or handleUnsuspend is
\* confirmed and sends its call.
Call(h) ==
    /\ Offered(h)
    /\ doing' = h /\ at' = "called" /\ busy' = TRUE
    /\ sent' = IF h = "edit" THEN editing ELSE NoForm
    /\ UNCHANGED <<account, copy, answer, editing, formStale, touched, userLoading, tab,
                   impersonating>>

\* The API answers those with access to the console.
Admitted == impersonating => account.role \in StaffRoles

\* What the API does, once it takes the call.
SaveEdit ==
    /\ doing = "edit"
    /\ account' = [account EXCEPT !.name = sent.name, !.role = sent.role]

SuspendUser ==
    /\ doing = "suspend" /\ account.role # "admin" /\ ~account.disabled
    /\ account' = [account EXCEPT !.disabled = TRUE]

UnsuspendUser ==
    /\ doing = "unsuspend" /\ account.disabled
    /\ account' = [account EXCEPT !.disabled = FALSE]

Taken ==
    /\ Admitted
    /\ \/ SaveEdit \/ SuspendUser \/ UnsuspendUser
       \/ doing \in {"reset", "impersonate"} /\ UNCHANGED account

\* The call succeeds: the form closes, a support token is stored, and the page is read again.
CallSucceeds ==
    /\ at = "called" /\ Taken
    /\ at' = "refreshing" /\ userLoading' = TRUE
    /\ IF doing = "edit" THEN editing' = NoForm /\ formStale' = FALSE /\ touched' = {}
       ELSE UNCHANGED <<editing, formStale, touched>>
    /\ impersonating' = (impersonating \/ doing = "impersonate")
    /\ sent' = NoForm
    /\ UNCHANGED <<copy, answer, doing, busy, tab>>

\* What the form sends is no longer what the API holds.
Rewritten == account'.name # account.name \/ account'.role # account.role

Behind ==
    /\ userStale' = (userStale \/ Rewritten)
    /\ replyStale' = (replyStale \/ (at = "answered" /\ Rewritten))
    /\ formStale' = (formStale \/ (editing # NoForm /\ Rewritten))

\* The call fails, before or after the API took it.  The form stays as it is.
CallFails ==
    /\ at = "called" /\ (Taken \/ UNCHANGED account)
    /\ doing' = "none" /\ at' = "idle" /\ busy' = FALSE /\ sent' = NoForm
    /\ Behind
    /\ UNCHANGED <<user, reply, editing, touched, userLoading, tab, impersonating>>

\* The API answers the refresh.
GetUser ==
    /\ at = "refreshing" /\ Admitted
    /\ at' = "answered" /\ reply' = account /\ replyStale' = FALSE
    /\ UNCHANGED <<account, copy, editor, doing, busy, userLoading, tab, impersonating>>

\* A bug: a refresh that fails leaves the spinner.
RefreshFailsLoading ==
    /\ at \in {"refreshing", "answered"}
    /\ doing' = "none" /\ at' = "idle" /\ busy' = FALSE
    /\ userStale' = (userStale \/ doing = "edit")
    /\ reply' = NoUser /\ replyStale' = FALSE
    /\ UNCHANGED <<account, user, editor, userLoading, tab, impersonating>>

\* refresh ends, and the handler with it.
RefreshLands ==
    /\ at = "answered"
    /\ user' = reply /\ userStale' = replyStale
    /\ reply' = NoUser /\ replyStale' = FALSE
    /\ doing' = "none" /\ at' = "idle" /\ busy' = FALSE /\ userLoading' = FALSE
    /\ UNCHANGED <<account, editor, tab, impersonating>>

\* Without a copy the page goes on saying that it loads the user.
RefreshFails ==
    /\ at \in {"refreshing", "answered"}
    /\ doing' = "none" /\ at' = "idle" /\ busy' = FALSE /\ userLoading' = FALSE
    /\ userStale' = (userStale \/ doing = "edit")
    /\ reply' = NoUser /\ replyStale' = FALSE
    /\ UNCHANGED <<account, user, editor, tab, impersonating>>

\* Someone else changes the account.
OtherActs(a) ==
    /\ a # account /\ account' = a
    /\ Behind
    /\ UNCHANGED <<user, reply, editing, sent, touched, doing, at, busy, userLoading, tab,
                   impersonating>>

\* The support session is stopped or expires.
SupportEnds ==
    /\ impersonating /\ impersonating' = FALSE
    /\ UNCHANGED <<account, copy, answer, editor, doing, at, busy, userLoading, tab>>

UserNext ==
    \/ \E t \in {"profile", "activity", "subscription"} : setActiveTab(t)
    \/ handleEdit \/ cancelEdit
    \/ \E v \in Names : setEditing("name", v)
    \/ \E v \in Roles : setEditing("role", v)
    \/ \E h \in Handlers : Call(h)
    \/ CallSucceeds \/ CallFails \/ GetUser \/ RefreshLands \/ RefreshFails
    \/ \E a \in Account : OtherActs(a)
    \/ SupportEnds

-----------------------------------------------------------------------------
(* A save writes the whole form, yet changes nothing of the account but    *)
(* what the user changed in the form: no role that someone was given or    *)
(* lost comes back, unless it changed after the API read the copy the form *)
(* was filled with.  The page's own saves need no such excuse: the form is *)
(* filled from a copy that was read after the last of them that was        *)
(* answered, if that could be read.                                        *)
NothingUndone ==
    at = "called" /\ doing = "edit" /\ ~formStale =>
        \A f \in {"name", "role"} : sent[f] # account[f] => f \in touched

(* "Loading user" covers the page while the user is being read, and for    *)
(* good once the first read has failed; a button is disabled while its     *)
(* call or the refresh after it is under way.                              *)
UserSpinnerHasCause ==
    /\ ~Visible => at \in {"refreshing", "answered"} \/ (user = NoUser /\ at = "idle")
    /\ busy <=> at # "idle" /\ doing # "load"
=============================================================================
