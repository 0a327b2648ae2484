------------------------------ MODULE ProjectPages ------------------------------
(***************************************************************************)
(* The list of projects and the settings of one.  The list deletes and     *)
(* reads itself again without waiting; several deletions may be under way. *)
(* The settings hold a copy of the project and a form, which is saved as a *)
(* whole; deleting there leads back to the list.  Other tabs and the       *)
(* syncer write the same projects.                                         *)
(*                                                                         *)
(*   held       the projects of the API: a form each, or Gone              *)
(*   screen     "list", "settings", or "left"                              *)
(*   cards, listing   projects and loading of the list                     *)
(*   fetch[k]   a fetchProjects under way: of the opening of the list, or  *)
(*              of the deletion of k; its answer, once the API has given it *)
(*   deleting   the deletions under way                                    *)
(*   asked, project, formData, opening, saving, saved                      *)
(*              the query, and the state of the settings                   *)
(***************************************************************************)
EXTENDS Integers, FiniteSets

CONSTANTS Ids,      \* ids of projects, in the API's order
          Values,   \* what a part of the form may be
          EmptyField, \* an empty field
          None,
          MaxOpened \* bound on the pages opened after the first

ListAssumption ==
    /\ Ids \subseteq Nat /\ IsFiniteSet(Ids) /\ None \notin Ids
    /\ EmptyField \in Values /\ MaxOpened \in Nat

VARIABLES
    held, screen, cards, listing, fetch, deleting,
    asked, project, formData, opening, saving, saved, sent, opened,
    uneven,   \* history: fetches overlapped or failed, or a project went elsewhere
    stale,    \* history: the project changed since its copy was read
    touched,  \* history: the parts of the form the user changed
    replaced  \* history: the project asked for was not listed when the form was filled

listVars == <<cards, listing, fetch, deleting, uneven>>
settingsVars == <<asked, project, formData, opening, saving, saved, sent, stale, touched,
                  replaced>>
projectVars == <<held, screen, listVars, settingsVars, opened>>

\* The parts of the form: the fields whose names are the API's, and the Facebook page, which
\* is read under a name the API does not use.
Parts == {"fields", "facebook"}
Form == [Parts -> Values]
Gone == [gone |-> TRUE]
NoForm == [empty |-> TRUE]
Keys == Ids \cup {None}
Idle == [at |-> "idle", ids |-> {}]

ProjectTypeOK ==
    /\ held \in [Ids -> Form \cup {Gone}]
    /\ screen \in {"list", "settings", "left"}
    /\ cards \subseteq Ids /\ listing \in BOOLEAN /\ deleting \subseteq Ids
    /\ fetch \in [Keys -> [at : {"idle", "sent", "answered"}, ids : SUBSET Ids]]
    /\ {asked, project} \subseteq Keys /\ formData \in Form \cup {NoForm}
    /\ {opening, saving, saved, uneven, stale, replaced} \subseteq BOOLEAN
    /\ sent \in Form \cup {NoForm} /\ touched \subseteq Parts
    /\ opened \in 0 .. MaxOpened

Existing == {p \in Ids : held[p] # Gone}

ClosedSettings ==
    /\ asked' = None /\ project' = None /\ formData' = NoForm /\ opening' = FALSE
    /\ saving' = FALSE /\ saved' = FALSE /\ sent' = NoForm
    /\ stale' = FALSE /\ touched' = {} /\ replaced' = FALSE

ProjectInit ==
    /\ held \in [Ids -> Form \cup {Gone}]
    /\ screen = "list" /\ cards = {} /\ listing = TRUE /\ deleting = {} /\ uneven = FALSE
    /\ fetch = [k \in Keys |-> IF k = None THEN [Idle EXCEPT !.at = "sent"] ELSE Idle]
    /\ asked = None /\ project = None /\ formData = NoForm /\ opening = FALSE
    /\ saving = FALSE /\ saved = FALSE /\ sent = NoForm
    /\ stale = FALSE /\ touched = {} /\ replaced = FALSE
    /\ opened = 0

-----------------------------------------------------------------------------
(* The list.                                                               *)

Fetching == {k \in Keys : fetch[k].at # "idle"}

fetchProjects(k) ==
    /\ fetch' = [fetch EXCEPT ![k] = [Idle EXCEPT !.at = "sent"]]
    /\ listing' = TRUE

\* The API lists the projects.
ListProjects(k) ==
    /\ fetch[k].at = "sent"
    /\ fetch' = [fetch EXCEPT ![k] = [at |-> "answered", ids |-> Existing]]
    /\ UNCHANGED <<held, screen, cards, listing, deleting, uneven, settingsVars, opened>>

ListLands(k) ==
    /\ fetch[k].at = "answered"
    /\ cards' = fetch[k].ids
    /\ fetch' = [fetch EXCEPT ![k] = Idle] /\ listing' = FALSE
    /\ UNCHANGED <<held, screen, deleting, uneven, settingsVars, opened>>

\* The call fails: the list is empty, and "No projects yet" is said.
ListFails(k) ==
    /\ fetch[k].at # "idle"
    /\ cards' = {}
    /\ fetch' = [fetch EXCEPT ![k] = Idle] /\ listing' = FALSE
    /\ uneven' = TRUE
    /\ UNCHANGED <<held, screen, deleting, settingsVars, opened>>

\* Delete Project, confirmed.
handleDelete(p) ==
    /\ screen = "list" /\ ~listing /\ p \in cards \ deleting
    /\ deleting' = deleting \cup {p}
    /\ UNCHANGED <<held, screen, cards, listing, fetch, uneven, settingsVars, opened>>

\* A bug: the list is not read again.
DeleteLandsQuietly(p) ==
    /\ p \in deleting /\ held[p] # Gone
    /\ held' = [held EXCEPT ![p] = Gone]
    /\ deleting' = deleting \ {p}
    /\ stale' = (stale \/ project = p)
    /\ UNCHANGED <<screen, cards, listing, fetch, uneven, asked, project, formData, opening,
                   saving, saved, sent, touched, replaced, opened>>

\* The project is gone: the list, if it is still open, is read again.
DeleteLands(p) ==
    /\ p \in deleting /\ held[p] # Gone
    /\ held' = [held EXCEPT ![p] = Gone]
    /\ deleting' = deleting \ {p}
    /\ stale' = (stale \/ project = p)
    /\ IF screen = "list" THEN fetchProjects(p) /\ uneven' = (uneven \/ Fetching # {})
       ELSE UNCHANGED <<listing, fetch, uneven>>
    /\ UNCHANGED <<screen, cards, asked, project, formData, opening, saving, saved, sent,
                   touched, replaced, opened>>

\* The call fails, before or after the API took it: an alert says so.
DeleteFails(p) ==
    /\ p \in deleting
    /\ deleting' = deleting \ {p}
    /\ held' \in {held, [held EXCEPT ![p] = Gone]}
    /\ uneven' = (uneven \/ held' # held)
    /\ stale' = (stale \/ (project = p /\ held' # held))
    /\ UNCHANGED <<screen, cards, listing, fetch, asked, project, formData, opening, saving,
                   saved, sent, touched, replaced, opened>>

\* A click on a card stores the project and goes to the dashboard.
OpenCard(p) ==
    /\ screen = "list" /\ ~listing /\ p \in cards
    /\ screen' = "left"
    /\ cards' = {} /\ fetch' = [k \in Keys |-> Idle]
    /\ UNCHANGED <<held, listing, deleting, uneven, settingsVars, opened>>

\* Settings or Edit Details of a card.
OpenSettings(p) ==
    /\ screen = "list" /\ ~listing /\ p \in cards /\ opened < MaxOpened
    /\ opened' = opened + 1
    /\ screen' = "settings" /\ asked' = p /\ opening' = TRUE
    /\ cards' = {} /\ fetch' = [k \in Keys |-> Idle]
    /\ UNCHANGED <<held, listing, deleting, uneven, project, formData, saving, saved, sent, stale,
                   touched, replaced>>

-----------------------------------------------------------------------------
(* The settings.                                                           *)

\* The project of the query, or the last of the list, or none.  The API answers with a
\* facebook_handle; the page reads, and sends, an fb_handle.
loadProject ==
    /\ opening /\ opening' = FALSE
    /\ project' = IF asked \in Existing THEN asked
                  ELSE IF Existing = {} THEN None
                  ELSE CHOOSE p \in Existing : \A q \in Existing : q <= p
    /\ formData' = IF project' = None THEN NoForm
                 ELSE [held[project'] EXCEPT !["facebook"] = EmptyField]
    /\ stale' = FALSE /\ replaced' = (project' # asked)
    /\ UNCHANGED <<held, screen, listVars, asked, saving, saved, sent, touched, opened>>

\* The list cannot be read: "No Project Selected".
LoadFails ==
    /\ opening /\ opening' = FALSE
    /\ UNCHANGED <<held, screen, listVars, asked, project, formData, saving, saved, sent, stale,
                   touched, replaced, opened>>

\* The fields of the general and the social tab, enabled while they are saved.
setFormData(part, v) ==
    /\ screen = "settings" /\ ~opening /\ project # None
    /\ formData[part] # v
    /\ formData' = [formData EXCEPT ![part] = v]
    /\ touched' = touched \cup {part}
    /\ UNCHANGED <<held, screen, listVars, asked, project, opening, saving, saved, sent, stale,
                   replaced, opened>>

\* A bug: the form is filled again with defaults for what the user left alone.
SaveOfDefaults ==
    /\ screen = "settings" /\ ~opening /\ project # None /\ ~saving
    /\ saving' = TRUE /\ saved' = FALSE
    /\ sent' = [p \in Parts |-> IF p \in touched THEN formData[p] ELSE CHOOSE v \in Values : TRUE]
    /\ UNCHANGED <<held, screen, listVars, asked, project, formData, opening, stale, touched,
                   replaced, opened>>

\* Save Changes or Save Social Profiles: both send the whole form.
handleSave ==
    /\ screen = "settings" /\ ~opening /\ project # None /\ ~saving
    /\ saving' = TRUE /\ saved' = FALSE
    /\ sent' = formData
    /\ UNCHANGED <<held, screen, listVars, asked, project, formData, opening, stale, touched,
                   replaced, opened>>

\* The API has written the form, and the copy takes over what was sent.
SaveLands ==
    /\ saving /\ held[project] # Gone
    /\ held' = [held EXCEPT ![project] = sent]
    /\ saving' = FALSE /\ saved' = TRUE /\ sent' = NoForm
    /\ touched' = {p \in Parts : formData[p] # sent[p]}
    /\ stale' = FALSE
    /\ UNCHANGED <<screen, listVars, asked, project, formData, opening, replaced, opened>>

\* The save fails, before or after the API wrote it.
SaveFails ==
    /\ saving
    /\ saving' = FALSE /\ sent' = NoForm
    /\ held' \in {held} \cup (IF held[project] = Gone THEN {}
                              ELSE {[held EXCEPT ![project] = sent]})
    /\ stale' = (stale \/ held' # held)
    /\ UNCHANGED <<screen, listVars, asked, project, formData, opening, saved, touched, replaced,
                   opened>>

\* Three seconds after a save the button says Save again.
SavedFades ==
    /\ saved /\ saved' = FALSE
    /\ UNCHANGED <<held, screen, listVars, asked, project, formData, opening, saving, sent, stale,
                   touched, replaced, opened>>

\* Delete Project, confirmed, a save under way or not: back to the list.  An error leaves
\* the page as it is; if the API took the call first, that is OtherWrites.
DeleteHere ==
    /\ screen = "settings" /\ ~opening /\ project # None
    /\ held[project] # Gone
    /\ held' = [held EXCEPT ![project] = Gone]
    /\ screen' = "list" /\ listing' = TRUE /\ cards' = {}
    /\ fetch' = [k \in Keys |-> IF k = None THEN [Idle EXCEPT !.at = "sent"] ELSE Idle]
    /\ uneven' = FALSE
    /\ ClosedSettings
    /\ UNCHANGED <<deleting, opened>>

\* Someone else writes or deletes a project.
OtherWrites(p, f) ==
    /\ held[p] \notin {Gone, f} /\ held' = [held EXCEPT ![p] = f]
    /\ stale' = (stale \/ project = p)
    /\ uneven' = (uneven \/ f = Gone)
    /\ UNCHANGED <<screen, cards, listing, fetch, deleting, asked, project, formData, opening,
                   saving, saved, sent, touched, replaced, opened>>

ProjectNext ==
    \/ \E k \in Keys : ListProjects(k) \/ ListLands(k) \/ ListFails(k)
    \/ \E p \in Ids : \/ handleDelete(p) \/ DeleteLands(p) \/ DeleteFails(p)
                      \/ OpenCard(p) \/ OpenSettings(p)
                      \/ \E f \in Form \cup {Gone} : OtherWrites(p, f)
    \/ loadProject \/ LoadFails
    \/ \E part \in Parts : \E v \in Values : setFormData(part, v)
    \/ handleSave \/ SaveLands \/ SaveFails \/ SavedFades \/ DeleteHere

-----------------------------------------------------------------------------
(* A list at rest shows the projects there are, unless fetches overlapped  *)
(* or failed, or a project went elsewhere.                                 *)
ListIsCurrent ==
    screen = "list" /\ Fetching = {} /\ ~uneven => cards = Existing

(* A save of the settings writes the project they were opened for, unless  *)
(* that one was not listed any more; and what it changes of it is what the *)
(* user changed, and the Facebook page, which it empties when the user     *)
(* does not enter it anew.  A write of someone else after the form was     *)
(* filled is undone, and outside the statement.                            *)
SettingsUndoNothing ==
    saving =>
        /\ ~replaced => project = asked
        /\ ~stale /\ held[project] # Gone =>
              \A part \in Parts : sent[part] # held[project][part] =>
                  part \in touched \/ (part = "facebook" /\ sent[part] = EmptyField)

(* The spinners have a call under way.                                     *)
ProjectSpinnerHasCause ==
    /\ screen = "list" /\ listing => Fetching # {}
    /\ saving <=> sent # NoForm
=============================================================================
