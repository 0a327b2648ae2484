----------------------------- MODULE StaffConsole -----------------------------
(***************************************************************************)
(* The staff's pages behind the guard of their layout.  The guard asks who *)
(* the user is, and shows the page when the answer is that they are staff, *)
(* or when there is no answer; the page begins only then.  A behaviour is  *)
(* one visit of one page, and the variables of the others are away.        *)
(***************************************************************************)
EXTENDS Integers, FiniteSets, Sequences

CONSTANTS
    None,
    Users, Named, Narrowed, OnPlan, Size, MaxAsked,                \* of the lists
    Names, Roles, StaffRoles,                                      \* of a user's page
    Rows, System, Codes, Forms, EmptyForm, BadForms, MaxOpened, MaxBegun,  \* of plans and roles
    MaxEdition, MaxReads                                           \* of a project's page

VARIABLES
    route,  \* the page that is open
    guard,  \* state of AdminGuard; "login" once it redirects there
    staff,  \* the user is staff
    list, existing, search, dropdown, plan, pageNo, rows, total, listing, ask, asked, shownAsk,
    hasty, moved,
    account, user, reply, editing, sent, doing, at, busy, userLoading, tab, impersonating,
    userStale, replyStale, formStale, touched,
    sheet, held, table, tableLoading, runs, modal, opened, saves, deleting, tableSound,
    modalSound, edited,
    edition, overview, seo, latest, history, traffic, opening, activeTab, read, reads, visit

ListVars ==
    <<list, existing, search, dropdown, plan, pageNo, rows, total, listing, ask, asked, shownAsk,
      hasty, moved>>
UserVars ==
    <<account, user, reply, editing, sent, doing, at, busy, userLoading, tab, impersonating,
      userStale, replyStale, formStale, touched>>
EditorVars ==
    <<sheet, held, table, tableLoading, runs, modal, opened, saves, deleting, tableSound,
      modalSound, edited>>
ProjectVars ==
    <<edition, overview, seo, latest, history, traffic, opening, activeTab, read, reads, visit>>
pageVars == <<ListVars, UserVars, EditorVars, ProjectVars>>
vars == <<route, guard, staff, pageVars>>

List == INSTANCE StaffList
User == INSTANCE StaffUser
Editor == INSTANCE StaffEditor
Project == INSTANCE StaffProject

ASSUME ConsoleAssumption == List!ListAssumption /\ Editor!EditorAssumption /\ Project!DetailAssumption

-----------------------------------------------------------------------------
\* A page that is not open has no state.
Away(v) == v = "away"

NoList ==
    /\ Away(list) /\ Away(existing) /\ Away(search) /\ Away(dropdown) /\ Away(plan)
    /\ Away(pageNo)
    /\ Away(rows) /\ Away(total) /\ Away(listing) /\ Away(ask) /\ Away(asked) /\ Away(shownAsk)
    /\ Away(hasty) /\ Away(moved)
NoUser ==
    /\ Away(account) /\ Away(user) /\ Away(reply) /\ Away(editing) /\ Away(sent) /\ Away(doing)
    /\ Away(at) /\ Away(busy) /\ Away(userLoading) /\ Away(tab) /\ Away(impersonating)
    /\ Away(userStale) /\ Away(replyStale) /\ Away(formStale) /\ Away(touched)
NoEditor ==
    /\ Away(sheet) /\ Away(held) /\ Away(table) /\ Away(tableLoading) /\ Away(runs)
    /\ Away(modal) /\ Away(opened) /\ Away(saves) /\ Away(deleting) /\ Away(tableSound)
    /\ Away(modalSound) /\ Away(edited)
NoProject ==
    /\ Away(edition) /\ Away(overview) /\ Away(seo) /\ Away(latest) /\ Away(history)
    /\ Away(traffic) /\ Away(opening) /\ Away(activeTab) /\ Away(read) /\ Away(reads)
    /\ Away(visit)

Init ==
    /\ guard = "loading" /\ staff \in BOOLEAN
    /\ \/ route = "list" /\ List!ListInit /\ NoUser /\ NoEditor /\ NoProject
       \/ route = "user" /\ User!UserInit /\ NoList /\ NoEditor /\ NoProject
       \/ route = "editor" /\ Editor!EditorInit /\ NoList /\ NoUser /\ NoProject
       \/ route = "project" /\ Project!DetailInit /\ NoList /\ NoUser /\ NoEditor

-----------------------------------------------------------------------------
\* The guard's request ends, and the layout renders the page, nothing, or another page.
GuardAnswers ==
    /\ guard = "loading"
    /\ \/ staff /\ guard' = "ok"
       \/ ~staff /\ guard' = "denied"
       \/ guard' \in {"login", "ok"}   \* a refused token, and any other failure
    /\ UNCHANGED <<route, staff, pageVars>>

\* The page runs.  A user who is no staff gets to see it when the guard's request failed; every
\* call of it is refused then, its spinners end, and it shows nothing: that is left out.
Rendered == guard = "ok" /\ staff

ListStep ==
    /\ route = "list" /\ Rendered /\ List!ListNext
    /\ UNCHANGED <<route, guard, staff, UserVars, EditorVars, ProjectVars>>
UserStep ==
    /\ route = "user" /\ Rendered /\ User!UserNext
    /\ UNCHANGED <<route, guard, staff, ListVars, EditorVars, ProjectVars>>
EditorStep ==
    /\ route = "editor" /\ Rendered /\ Editor!EditorNext
    /\ UNCHANGED <<route, guard, staff, ListVars, UserVars, ProjectVars>>
ProjectStep ==
    /\ route = "project" /\ Rendered /\ Project!DetailNext
    /\ UNCHANGED <<route, guard, staff, ListVars, UserVars, EditorVars>>

Next == GuardAnswers \/ ListStep \/ UserStep \/ EditorStep \/ ProjectStep

Spec == Init /\ [][Next]_vars

-----------------------------------------------------------------------------
TypeOK ==
    /\ guard \in {"loading", "ok", "denied", "login"} /\ staff \in BOOLEAN
    /\ route = "list" => List!ListTypeOK
    /\ route = "user" => User!UserTypeOK
    /\ route = "editor" => Editor!EditorTypeOK
    /\ route = "project" => Project!DetailTypeOK

(* A spinner or a disabled button has a call under way behind it, but for  *)
(* the two pages that never show what they could not read: those of a user *)
(* and of a project say for good that they load it when that read failed.  *)
SpinnersHaveCause ==
    /\ route = "list" => List!ListSpinnerHasCause
    /\ route = "user" => User!UserSpinnerHasCause
    /\ route = "editor" => Editor!EditorSpinnerHasCause
    /\ route = "project" => Project!DetailSpinnerHasCause

(* A save of a user, a plan or a role sends the whole form, yet it undoes  *)
(* nothing that was written before the API read what the form was filled   *)
(* from, nor, while refreshes do not overlap, what the page itself saved.  *)
NothingUndone ==
    /\ route = "user" => User!NothingUndone
    /\ route = "editor" => Editor!EditorKeepsRows

(* The rows that are shown answer the filters and the page that are shown, *)
(* once the newest answer is the one shown.                                *)
ListAnswersFilters == route = "list" => List!ListAnswersFilters

(* The tabs of a project show data no older than the visit of the tab, and *)
(* the Social tab the figures and the history of one answer.               *)
TabsAreFresh == route = "project" => Project!TabIsFresh /\ Project!SocialIsOneAnswer
=============================================================================
