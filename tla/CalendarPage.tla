----------------------------- MODULE CalendarPage -----------------------------
(***************************************************************************)
(* The content calendar in the browser: the page polls the posts of the    *)
(* selected project, lets the user select another, compose posts in a      *)
(* dialog, edit, delete and retry them.  An action is one task of the      *)
(* page's event loop.                                                      *)
(*                                                                         *)
(*   server    the tasks of the API, with what module Publisher does to    *)
(*             them in the meantime                                        *)
(*   project, shown   the state `project` and `posts` of the component     *)
(*   saved     localStorage dmtool_active_project_id, which other tabs of  *)
(*             the browser share                                           *)
(*   load[l]   a run of fetchData that has not ended, named for its cause; *)
(*             "projects" and "calendar" are its two awaits                *)
(*   save      the locals of saveScheduledContent: the closure of the      *)
(*             render it was clicked in, and the rows that are left, each  *)
(*             at its place in the dialog                                  *)
(*   dueTimer  the project a pending setTimeout will load                  *)
(*                                                                         *)
(* What the user composes for one post (type, file, caption) is a content; *)
(* each is composed once.  A due date is a tick of the clock.  The call of *)
(* an edit, a delete or a retry and its answer are one step.               *)
(***************************************************************************)
EXTENDS Naturals, FiniteSets, Sequences

CONSTANTS Projects,     \* the projects of the account
          LastListed,   \* the last of them in the API's order
          Posts,        \* the ids the API will hand out
          Initial,      \* the posts there may be when the page opens
          Contents,     \* what the user may compose
          PlatformOf,   \* getProjectPlatform of each project
          PhotoStories, \* the contents that are a story with a photo
          Fileless,     \* the contents without a file
          None,
          LastDate,     \* bound on the clock and on due dates
          MaxDrafts,    \* bound on the rows of the dialog
          MaxBegun,     \* bound on the selections, dialogs, deletes and retries
          MaxLoads,     \* bound on the loads under way when another begins
          MaxTimed      \* the same, when a timer begins it

CalendarAssumption ==
    /\ None \notin Projects \cup Posts \cup Contents
    /\ PlatformOf \in [Projects -> {"instagram", "facebook", "other"}]
    /\ PhotoStories \subseteq Contents /\ Fileless \subseteq Contents
    /\ LastListed \in Projects
    /\ Initial \subseteq Posts
    /\ LastDate \in Nat \ {0} /\ MaxDrafts \in Nat \ {0} /\ MaxLoads \in Nat
    /\ MaxBegun \in Nat /\ MaxTimed \in Nat

VARIABLES
    server, now,
    project, saved, shown, loading, load, dueTimer,
    selectedDate, editing, drafts, saving, save,
    begun,      \* what the user has begun so far
    chosen,     \* history: the last project the user selected on this page
    disturbed,  \* history: two loads overlapped, one failed, a timer loaded a
                \* project that is not shown any more, or another tab selected one
    unsettled,  \* history: since a load last began alone, one has begun or failed,
                \* or another tab has selected
    strayed,    \* history: since a selection last began alone, it has failed, loads
                \* overlapped, a timer left the project, or another tab selected
    cut         \* history: a save sent some rows and was cut short

source == <<server, now>>
view == <<project, saved, shown, loading, load, dueTimer>>
dialog == <<selectedDate, editing, drafts, saving, save>>
doubts == <<disturbed, unsettled, strayed>>
history == <<chosen, doubts, cut>>

Causes == {"poll", "select", "due", "save", "act"}
Dates == 1 .. LastDate
Platforms == {"instagram", "facebook", "other"}
Statuses == {"scheduled", "published", "failed"}

Post == [home : Projects, platform : Platforms, content : Contents, status : Statuses,
         due : Dates]
NoPost == [status |-> "absent"]
Deleted == [status |-> "deleted"]

ScheduledDraft == [content : Contents \cup {None}, platform : Platforms]

NoLoad == [at |-> "idle", target |-> None, of |-> None]
Loads == [at : {"idle", "projects", "calendar"}, target : Projects \cup {None},
          of : Projects \cup {None}]

NoSave == [todo |-> <<>>, project |-> None, editing |-> None, date |-> 1]

TypeOK ==
    /\ server \in [Posts -> Post \cup {NoPost, Deleted}]
    /\ now \in Dates
    /\ project \in Projects \cup {None} /\ saved \in Projects \cup {None}
    /\ shown \in [Posts -> Post \cup {NoPost}]
    /\ loading \in BOOLEAN /\ saving \in BOOLEAN
    /\ load \in [Causes -> Loads]
    /\ dueTimer \in Projects \cup {None}
    /\ selectedDate \in Dates \cup {0} /\ editing \in Posts \cup {None}
    /\ Len(drafts) \in 1 .. MaxDrafts
    /\ \A i \in DOMAIN drafts : drafts[i] \in ScheduledDraft
    /\ save.project \in Projects \cup {None} /\ save.editing \in Posts \cup {None}
    /\ save.date \in Dates /\ DOMAIN save.todo \subseteq 1 .. MaxDrafts
    /\ \A i \in DOMAIN save.todo : save.todo[i] \in Contents
    /\ begun \in 0 .. MaxBegun
    /\ chosen \in Projects \cup {None}
    /\ {disturbed, unsettled, strayed} \subseteq BOOLEAN /\ cut \in BOOLEAN

-----------------------------------------------------------------------------
(* Loading: fetchData.                                                     *)

getProjectPlatform(p) == IF p = None THEN "instagram" ELSE PlatformOf[p]

Blank(platform) == [content |-> None, platform |-> platform]

Open == selectedDate # 0

\* The user begins something.
Begin == begun < MaxBegun /\ begun' = begun + 1

InFlight == {l \in Causes : load[l].at # "idle"}

\* A load that meets another, or that is of another project and no selection.
Astray(l, target) == InFlight # {} \/ (l # "select" /\ target \notin {None, project})

\* fetchData(target), up to its first await.
FetchData(l, target) ==
    /\ load[l].at = "idle" /\ Cardinality(InFlight) <= MaxLoads
    /\ load' = [load EXCEPT ![l] = [at |-> "projects", target |-> target, of |-> None]]
    /\ disturbed' = (disturbed \/ Astray(l, target))
    /\ unsettled' = (InFlight # {})
    /\ strayed' = (Astray(l, target) \/ (strayed /\ l # "select"))

\* The target, else the project stored, else the last of the list.
Select(target) ==
    IF target # None THEN target ELSE IF saved # None THEN saved ELSE LastListed

\* A bug: the selection is not stored.
ProjectsUnstored(l) ==
    /\ load[l].at = "projects"
    /\ LET p == Select(load[l].target)
       IN  /\ project' = p
           /\ load' = [load EXCEPT ![l].at = "calendar", ![l].of = p]
           /\ chosen' = IF chosen = None THEN p ELSE chosen
    /\ UNCHANGED <<begun, source, saved, shown, loading, dueTimer, dialog, doubts, cut>>

\* The projects arrive: one is selected and stored, and its posts are asked for.
ProjectsLand(l) ==
    /\ load[l].at = "projects"
    /\ LET p == Select(load[l].target)
       IN  /\ project' = p /\ saved' = p
           /\ load' = [load EXCEPT ![l].at = "calendar", ![l].of = p]
           /\ chosen' = IF chosen = None THEN p ELSE chosen
    /\ UNCHANGED <<begun, source, shown, loading, dueTimer, dialog, doubts, cut>>

\* The posts of p as the API lists them.
Listed(p) ==
    [t \in Posts |-> IF server[t] \notin {NoPost, Deleted} /\ server[t].home = p
                     THEN server[t] ELSE NoPost]

\* What awaits a load goes on when it has ended, well or not.
LoadEnds(l) ==
    /\ load' = [load EXCEPT ![l] = NoLoad]
    /\ loading' = FALSE
    /\ saving' = (saving /\ l # "save")

\* The posts arrive, and are shown whatever is selected by then.
CalendarLands(l) ==
    /\ load[l].at = "calendar"
    /\ shown' = Listed(load[l].of)
    /\ LoadEnds(l)
    /\ UNCHANGED <<begun, source, project, saved, dueTimer, selectedDate, editing, drafts, save,
                   history>>

\* Either call fails: the error is logged.
LoadFails(l) ==
    /\ load[l].at # "idle"
    /\ LoadEnds(l)
    /\ disturbed' = TRUE /\ unsettled' = TRUE /\ strayed' = (strayed \/ l = "select")
    /\ UNCHANGED <<begun, source, project, saved, shown, dueTimer, selectedDate, editing, drafts,
                   save, chosen, cut>>

\* A post made for its project's platform.
Proper(p) ==
    /\ p.platform = PlatformOf[p.home]
    /\ p.platform = "facebook" => p.content \notin PhotoStories

Init ==
    /\ server \in [Posts -> {NoPost} \cup {p \in Post : Proper(p) /\ p.status # "published"}]
    /\ \A t \in Posts : server[t] # NoPost =>
            /\ t \in Initial
            /\ \A u \in Posts \ {t} :
                  server[u] # NoPost => server[u].content # server[t].content
    /\ now = 1
    /\ project = None /\ saved = None
    /\ shown = [t \in Posts |-> NoPost]
    /\ loading = TRUE
    /\ load = [l \in Causes |-> IF l = "poll" THEN [NoLoad EXCEPT !.at = "projects"]
                                ELSE NoLoad]
    /\ dueTimer = None
    /\ selectedDate = 0 /\ editing = None /\ drafts = <<Blank("instagram")>>
    /\ saving = FALSE /\ save = NoSave
    /\ begun = 0 /\ chosen = None /\ cut = FALSE
    /\ disturbed = FALSE /\ unsettled = FALSE /\ strayed = FALSE

\* Every 15 seconds.
Poll ==
    /\ FetchData("poll", None) /\ Cardinality(InFlight) <= MaxTimed
    /\ UNCHANGED <<begun, source, project, saved, shown, loading, dueTimer, dialog, chosen, cut>>

\* The select of projects, which the spinner and the dialog hide.
SelectProject(p) ==
    /\ Begin /\ ~loading /\ ~Open /\ project \notin {None, p}
    /\ loading' = TRUE
    /\ FetchData("select", p)
    /\ chosen' = p
    /\ UNCHANGED <<source, project, saved, shown, dueTimer, dialog, cut>>

\* A post that is shown comes due while the list of the day is open: its project is
\* loaded 2.5 seconds later.
DueTimerFires ==
    /\ dueTimer # None
    /\ dueTimer' = None
    /\ FetchData("due", dueTimer) /\ Cardinality(InFlight) <= MaxTimed
    /\ UNCHANGED <<begun, source, project, saved, shown, loading, dialog, chosen, cut>>

\* Another tab of the browser stores its selection.
OtherTabSelects(p) ==
    /\ Begin /\ saved' = p /\ saved # p
    /\ disturbed' = TRUE /\ unsettled' = TRUE /\ strayed' = TRUE
    /\ UNCHANGED <<source, project, shown, loading, load, dueTimer, dialog, chosen, cut>>

-----------------------------------------------------------------------------
(* The dialog.                                                             *)

\* A day that is not past has a plus, on the grid and among the quick actions.
Schedulable(date) == ~loading /\ ~Open /\ date >= now

\* The buttons of a post in the list of its day.
Buttons(t) ==
    IF loading \/ Open \/ shown[t] = NoPost THEN {}
    ELSE {"delete"} \cup (IF shown[t].status # "published" THEN {"edit"} ELSE {})
                    \cup (IF shown[t].status = "failed" THEN {"retry"} ELSE {})

\* The controls of a row of the dialog.  Its type, file, time, caption and tags are one content.
RowControls ==
    IF loading \/ ~Open THEN {}
    ELSE {"content"} \cup (IF Len(drafts) > 1 THEN {"remove"} ELSE {})

\* New Post, or the plus; the row is blank.
openScheduler(date) ==
    /\ Begin /\ Schedulable(date)
    /\ selectedDate' = date
    /\ drafts' = <<Blank(getProjectPlatform(project))>>
    /\ editing' = None
    /\ UNCHANGED <<source, view, saving, save, history>>

openEditTask(t) ==
    /\ Begin /\ "edit" \in Buttons(t)
    /\ editing' = t
    /\ selectedDate' = shown[t].due
    /\ drafts' = <<[content |-> shown[t].content, platform |-> getProjectPlatform(project)]>>
    /\ UNCHANGED <<source, view, saving, save, history>>

\* Close, Cancel, or a click beside the dialog.  Its rows are not read again: whatever
\* opens it writes them.
CloseDialog ==
    /\ ~loading /\ Open
    /\ selectedDate' = 0 /\ editing' = None
    /\ drafts' = <<Blank("instagram")>>
    /\ UNCHANGED <<source, view, saving, save, begun, history>>

InUse == {drafts[i].content : i \in DOMAIN drafts}
         \cup {server[t].content : t \in {u \in Posts : server[u] \notin {NoPost, Deleted}}}
         \cup {shown[t].content : t \in {u \in Posts : shown[u] # NoPost}}
         \cup {save.todo[i] : i \in DOMAIN save.todo}

\* updateDraft and handleFileChange: the user composes something else in a row.
updateDraft(i, c) ==
    /\ "content" \in RowControls
    /\ c \notin InUse /\ (drafts[i].content = None \/ editing # None)
    /\ drafts' = [drafts EXCEPT ![i].content = c]
    /\ UNCHANGED <<begun, source, view, selectedDate, editing, saving, save, history>>

addDraftRow ==
    /\ ~loading /\ Open /\ Len(drafts) < MaxDrafts
    /\ drafts' = Append(drafts, Blank(getProjectPlatform(project)))
    /\ UNCHANGED <<begun, source, view, selectedDate, editing, saving, save, history>>

\* A bug: the last row can be removed too.
removeAnyRow(i) ==
    /\ ~loading /\ Open
    /\ drafts' = SubSeq(drafts, 1, i - 1) \o SubSeq(drafts, i + 1, Len(drafts))
    /\ UNCHANGED <<begun, source, view, selectedDate, editing, saving, save, history>>

removeDraftRow(i) ==
    /\ "remove" \in RowControls
    /\ drafts' = SubSeq(drafts, 1, i - 1) \o SubSeq(drafts, i + 1, Len(drafts))
    /\ UNCHANGED <<begun, source, view, selectedDate, editing, saving, save, history>>

-----------------------------------------------------------------------------
(* Saving.                                                                 *)

ValidDrafts == {i \in DOMAIN drafts : drafts[i].content # None}

\* A bug: photo stories are not looked for.
AnythingSendable ==
    /\ ValidDrafts # {}
    /\ \A i \in ValidDrafts : editing # None \/ drafts[i].content \notin Fileless

\* The checks before the first call: a row is filled in, has a file unless a post is
\* edited, and is no photo story for the platform the row was opened with.
Sendable ==
    /\ ValidDrafts # {}
    /\ \A i \in ValidDrafts :
          /\ editing # None \/ drafts[i].content \notin Fileless
          /\ drafts[i].platform = "facebook" => drafts[i].content \notin PhotoStories

\* Schedule Content.  The first row is sent, unless its date has passed.
saveScheduledContent ==
    /\ ~loading /\ Open /\ ~saving /\ project # None
    /\ Sendable
    /\ selectedDate > now
    /\ saving' = TRUE
    /\ save' = [todo |-> [i \in ValidDrafts |-> drafts[i].content],
                project |-> project, editing |-> editing, date |-> selectedDate]
    /\ UNCHANGED <<begun, source, view, selectedDate, editing, drafts, history>>

\* The row that is sent, and those after it.
Sending == CHOOSE i \in DOMAIN save.todo : \A j \in DOMAIN save.todo : i <= j
Waiting == DOMAIN save.todo \ {Sending}

\* The post a row makes: the platform is the project's, not the row's.
Sent(c) == [home |-> save.project, platform |-> getProjectPlatform(save.project),
            content |-> c, status |-> "scheduled", due |-> save.date]

\* The API takes the row: a new post, or the columns of the one edited, whose project
\* stays.
RowTaken ==
    LET c == save.todo[Sending]
    IN  \/ /\ save.editing = None
           /\ \E t \in Posts : /\ server[t] = NoPost
                               /\ server' = [server EXCEPT ![t] = Sent(c)]
        \/ /\ save.editing # None
           /\ server[save.editing] # Deleted
           /\ server' = [server EXCEPT ![save.editing] =
                            [Sent(c) EXCEPT !.home = server[save.editing].home]]

\* A bug: the dialog stays open after a save.
SaveLeavesOpen == UNCHANGED <<selectedDate, editing, drafts>>

\* All rows are saved: the dialog closes, whatever it holds by then.
SaveCloses ==
    /\ selectedDate' = 0 /\ editing' = None
    /\ drafts' = <<Blank("instagram")>>

\* A row is saved.  The next is sent, unless its date has passed; after the last the
\* posts are loaded again before `saving` ends.
RowSaved ==
    /\ DOMAIN save.todo # {}
    /\ RowTaken
    /\ \/ /\ Waiting # {} /\ save.date > now
          /\ save' = [save EXCEPT !.todo = [i \in Waiting |-> save.todo[i]]]
          /\ UNCHANGED <<load, selectedDate, editing, drafts, saving, doubts, cut>>
       \/ /\ Waiting # {} /\ save.date <= now
          /\ save' = NoSave /\ saving' = FALSE /\ cut' = TRUE
          /\ UNCHANGED <<load, selectedDate, editing, drafts, doubts>>
       \/ /\ Waiting = {}
          /\ save' = NoSave
          /\ SaveCloses
          /\ FetchData("save", None)
          /\ UNCHANGED <<saving, cut>>
    /\ UNCHANGED <<begun, now, project, saved, shown, loading, dueTimer, chosen>>

\* A bug: `saving` is not reset when a call fails.
RowFailsSaving ==
    /\ DOMAIN save.todo # {}
    /\ RowTaken \/ UNCHANGED server
    /\ save' = NoSave
    /\ cut' = TRUE
    /\ UNCHANGED <<begun, now, view, selectedDate, editing, drafts, saving, chosen, doubts>>

\* The call of a row fails, before or after the API took it: the dialog stays.
RowFails ==
    /\ DOMAIN save.todo # {}
    /\ RowTaken \/ UNCHANGED server
    /\ save' = NoSave /\ saving' = FALSE
    /\ cut' = TRUE
    /\ UNCHANGED <<begun, now, view, selectedDate, editing, drafts, chosen, doubts>>

\* Delete, confirmed: the post is gone and the page loads again, or the call fails.
deleteTask(t) ==
    /\ Begin /\ "delete" \in Buttons(t)
    /\ server' = [server EXCEPT ![t] = Deleted]
    /\ FetchData("act", None)
    /\ UNCHANGED <<now, project, saved, shown, loading, dueTimer, dialog, chosen, cut>>

\* Retry: the post is due again two minutes from now, with the columns it is shown with.
retryTask(t) ==
    /\ Begin /\ "retry" \in Buttons(t)
    /\ server[t] # Deleted /\ now < LastDate
    /\ server' = [server EXCEPT ![t].status = "scheduled", ![t].due = now + 1,
                     ![t].platform = shown[t].platform, ![t].content = shown[t].content]
    /\ FetchData("act", None)
    /\ UNCHANGED <<now, project, saved, shown, loading, dueTimer, dialog, chosen, cut>>

-----------------------------------------------------------------------------
(* The clock and the publisher.                                            *)

\* A post of the page that comes due starts the timer, if the list of a day is open.
Tick ==
    /\ now < LastDate
    /\ now' = now + 1
    /\ \/ /\ \E t \in Posts : shown[t].status \in {"scheduled", "failed"} /\ shown[t].due = now + 1
          /\ dueTimer = None
          /\ dueTimer' = project
       \/ UNCHANGED dueTimer
    /\ UNCHANGED <<begun, server, project, saved, shown, loading, load, dialog, history>>

\* The CalendarPublisher comes by.
Publish(t) ==
    /\ server[t].status = "scheduled" /\ server[t].due <= now
    /\ \E s \in {"published", "failed"} : server' = [server EXCEPT ![t].status = s]
    /\ UNCHANGED <<begun, now, view, dialog, history>>

-----------------------------------------------------------------------------
LoadAnswers(l) == ProjectsLand(l) \/ CalendarLands(l) \/ LoadFails(l)

SaveAnswers == RowSaved \/ RowFails

LoadNext ==
    \/ \E l \in Causes : LoadAnswers(l)
    \/ Poll \/ DueTimerFires
    \/ \E p \in Projects : SelectProject(p) \/ OtherTabSelects(p)

DialogNext ==
    \/ \E date \in Dates : openScheduler(date)
    \/ \E t \in Posts : openEditTask(t)
    \/ CloseDialog \/ addDraftRow
    \/ \E i \in DOMAIN drafts : removeDraftRow(i) \/ \E c \in Contents : updateDraft(i, c)
    \/ saveScheduledContent

Next ==
    \/ LoadNext \/ DialogNext \/ SaveAnswers
    \/ \E t \in Posts : deleteTask(t) \/ retryTask(t) \/ Publish(t)
    \/ Tick

-----------------------------------------------------------------------------
(* A page at rest shows the posts of the project it names, the one that is *)
(* stored, unless loads overlapped or failed, or another tab selected      *)
(* one, since a load last began alone; and that project is the one the     *)
(* user selected last, unless the selection failed or overlapped a load, a *)
(* timer of another project fired, or another tab selected since.          *)
QuietPageIsConsistent ==
    InFlight = {} =>
        /\ ~unsettled =>
              /\ project = saved
              /\ \A t \in Posts : shown[t] = NoPost \/ shown[t].home = project
        /\ ~strayed => project = chosen

(* Nothing the user composed once is posted twice, except after a save     *)
(* that was cut short by an error or a date that passed: its rows stay in  *)
(* the dialog, the ones that were sent among them.                         *)
PostedOnce ==
    \A t, u \in Posts :
        /\ t # u /\ ~cut
        /\ server[t] \notin {NoPost, Deleted} /\ server[u] \notin {NoPost, Deleted}
        => server[t].content # server[u].content

(* No photo story is on Facebook, and every post is on its own project's   *)
(* platform, unless the project of the page changed under an open dialog:  *)
(* the check reads the row, the call reads the project.                    *)
PlatformIsProjects ==
    ~disturbed =>
        \A t \in Posts : server[t] \notin {NoPost, Deleted} => Proper(server[t])

(* The spinner and the disabled Saving button never stay for nothing: a     *)
(* call is under way whose end, well or not, takes them away.              *)
SpinnerHasCause ==
    /\ loading => InFlight # {}
    /\ saving => DOMAIN save.todo # {} \/ load["save"].at # "idle"
=============================================================================
