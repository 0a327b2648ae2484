------------------------------ MODULE ActionCenter ------------------------------
(***************************************************************************)
(* The action center: the tasks of a project.  A click toggles a task on   *)
(* the page at once and on the API later, and an error puts back the tasks *)
(* as they were before the click, all of them.  Calls are not waited for:  *)
(* more clicks, new tasks and another project may come in between.         *)
(*                                                                         *)
(*   api        the tasks of the API                                       *)
(*   project, tasks, newTitle   project, tasks and newTaskTitle of the     *)
(*              component; a title is a number, 0 is none                  *)
(*   load       fetchData: its await, its target, whose tasks it asks for, *)
(*              and what the API answered                                  *)
(*   toggles[c] a toggle under way: its task, `prev`, the project then,    *)
(*              and how the API found the task, once it has                *)
(*   creates[c] a creation under way                                       *)
(***************************************************************************)
EXTENDS Integers, FiniteSets

CONSTANTS Projects,  \* ids of projects, in the API's order
          TaskIds,   \* the ids the API hands out
          None,
          MaxCalls,  \* bound on the toggles under way, and on the creations
          MaxTyped,  \* bound on the titles typed
          MaxClicks  \* bound on the toggles and selections

TaskAssumption ==
    /\ Projects \subseteq Nat /\ IsFiniteSet(Projects) /\ Projects # {}
    /\ None \notin Projects /\ None \notin TaskIds
    /\ {MaxCalls, MaxTyped, MaxClicks} \subseteq Nat

VARIABLES
    api, project, tasks, newTitle, typed, busy, creating, load, toggles, creates, clicks,
    muddled,  \* history: since the tasks were fetched last, with nothing else under way, an
              \* answer came for what was not on the page any more or was lost, a fetch
              \* failed, or two toggles of one task both found it before either was stored
    twice     \* history: a title was sent again while it was, or may have been, taken

callVars == <<toggles, creates>>
taskPageVars == <<project, tasks, newTitle, busy, creating>>
actionVars == <<api, taskPageVars, typed, load, callVars, clicks, muddled, twice>>

Calls == 1 .. MaxCalls
Task == [home : Projects, done : BOOLEAN, title : -MaxTyped .. MaxTyped]
NoTask == [home |-> None]
Card == {"done", "pending", "absent"}
NoTasks == [t \in TaskIds |-> "absent"]
NoLoad == [at |-> "idle", target |-> None, of |-> None, answer |-> NoTasks]
NoToggle == [id |-> None, prev |-> NoTasks, of |-> None, found |-> None]
NoCreate == [title |-> 0, of |-> None]

Load == [at : {"idle", "projects", "tasks", "answered"}, target : Projects \cup {None},
         of : Projects \cup {None}, answer : [TaskIds -> Card]]
Toggle == [id : TaskIds \cup {None}, prev : [TaskIds -> Card], of : Projects \cup {None},
           found : {"done", "pending", None}]

ActionTypeOK ==
    /\ api \in [TaskIds -> Task \cup {NoTask}]
    /\ project \in Projects \cup {None} /\ tasks \in [TaskIds -> Card]
    /\ typed \in 0 .. MaxTyped /\ newTitle \in 0 .. typed
    /\ {busy, creating, muddled, twice} \subseteq BOOLEAN
    /\ load \in Load /\ toggles \in [Calls -> Toggle]
    /\ creates \in [Calls -> [title : 0 .. MaxTyped, of : Projects \cup {None}]]
    /\ clicks \in 0 .. MaxClicks

\* The titles of the tasks there are at first are no title that is typed.
ActionInit ==
    /\ api \in [TaskIds -> {NoTask} \cup {t \in Task : t.title < 0}]
    /\ \A t, u \in TaskIds : t # u /\ api[t] # NoTask /\ api[u] # NoTask => api[t].title # api[u].title
    /\ project = None /\ tasks = NoTasks
    /\ newTitle = 0 /\ typed = 0 /\ busy = TRUE /\ creating = FALSE
    /\ load = [NoLoad EXCEPT !.at = "projects"]
    /\ toggles = [c \in Calls |-> NoToggle] /\ creates = [c \in Calls |-> NoCreate]
    /\ clicks = 0 /\ muddled = FALSE /\ twice = FALSE

Toggling == {c \in Calls : toggles[c] # NoToggle}
Creating == {c \in Calls : creates[c] # NoCreate}

CardOf(t) == IF t.done THEN "done" ELSE "pending"
Listed(p) == [t \in TaskIds |-> IF api[t].home = p THEN CardOf(api[t]) ELSE "absent"]

-----------------------------------------------------------------------------
(* fetchData.                                                              *)

\* The target, or the last project.
TaskProjectsLand ==
    /\ load.at = "projects"
    /\ project' = IF load.target # None THEN load.target
                  ELSE CHOOSE p \in Projects : \A q \in Projects : q <= p
    /\ load' = [load EXCEPT !.at = "tasks", !.of = project']
    /\ UNCHANGED <<api, tasks, newTitle, busy, creating, typed, callVars, clicks, muddled, twice>>

\* The API reads the tasks of the project.
GetTasks ==
    /\ load.at = "tasks"
    /\ load' = [load EXCEPT !.at = "answered", !.answer = Listed(load.of)]
    /\ UNCHANGED <<api, taskPageVars, typed, callVars, clicks, muddled, twice>>

\* The tasks and the insights arrive.
TasksLand ==
    /\ load.at = "answered"
    /\ tasks' = load.answer
    /\ load' = NoLoad /\ busy' = FALSE
    /\ muddled' = (Toggling \cup Creating # {} \/ load.answer # Listed(load.of))
    /\ UNCHANGED <<api, project, newTitle, creating, typed, callVars, clicks, twice>>

\* An error is logged; the tasks stay, under the project selected by then.
TasksFail ==
    /\ load.at # "idle"
    /\ load' = NoLoad /\ busy' = FALSE /\ muddled' = TRUE
    /\ UNCHANGED <<api, project, tasks, newTitle, creating, typed, callVars, clicks, twice>>

Click == clicks < MaxClicks /\ clicks' = clicks + 1

\* Another project in the header's menu.
selectProject(p) ==
    /\ ~busy /\ Click /\ project # p /\ project # None
    /\ busy' = TRUE
    /\ load' = [NoLoad EXCEPT !.at = "projects", !.target = p]
    /\ UNCHANGED <<api, project, tasks, newTitle, creating, typed, callVars, muddled, twice>>

-----------------------------------------------------------------------------
(* What the page shows of the tasks.                                       *)

Filters == {"all", "pending", "done", "high"}

\* Every task may be of high priority; one made here is of medium until it is read again.
filteredTasks(filter) ==
    {t \in TaskIds : /\ tasks[t] # "absent"
                     /\ filter \in {"pending", "done"} => tasks[t] = filter}

\* "Completed", of how many.
Progress ==
    [done |-> Cardinality(filteredTasks("done")), of |-> Cardinality(filteredTasks("all"))]

-----------------------------------------------------------------------------
(* Toggling.                                                               *)

Flip(card) == IF card = "done" THEN "pending" ELSE "done"

handleToggleTask(c, t) ==
    /\ ~busy /\ Click /\ toggles[c] = NoToggle
    /\ \E filter \in Filters : t \in filteredTasks(filter)
    /\ toggles' = [toggles EXCEPT ![c] = [id |-> t, prev |-> tasks, of |-> project,
                                          found |-> None]]
    /\ tasks' = [tasks EXCEPT ![t] = Flip(@)]
    /\ UNCHANGED <<api, project, newTitle, busy, creating, typed, load, creates, muddled, twice>>

\* ToggleTask of the API finds the task, in the project it is asked of, and then stores it
\* flipped: of two at once one may be lost.
ToggleFinds(c) ==
    /\ c \in Toggling /\ toggles[c].found = None
    /\ api[toggles[c].id].home = toggles[c].of
    /\ toggles' = [toggles EXCEPT ![c].found = CardOf(api[toggles[c].id])]
    /\ UNCHANGED <<api, taskPageVars, typed, load, creates, clicks, muddled, twice>>

ToggleTask(c) ==
    /\ toggles[c].found # None
    /\ api' = [api EXCEPT ![toggles[c].id].done = (Flip(toggles[c].found) = "done")]

ToggleLands(c) ==
    /\ c \in Toggling /\ ToggleTask(c)
    /\ toggles' = [toggles EXCEPT ![c] = NoToggle]
    /\ muddled' = (muddled \/ CardOf(api[toggles[c].id]) # toggles[c].found)
    /\ UNCHANGED <<taskPageVars, typed, load, creates, clicks, twice>>

\* A bug: an error leaves the task as the click made it.
ToggleFailsUnreverted(c) ==
    /\ c \in Toggling
    /\ toggles' = [toggles EXCEPT ![c] = NoToggle]
    /\ UNCHANGED <<api, taskPageVars, typed, load, creates, clicks, muddled, twice>>

\* An error, before or after the API flipped the task: the tasks of `prev` are back.
ToggleFails(c) ==
    LET call == toggles[c]
    IN  /\ c \in Toggling
        /\ ToggleTask(c) \/ UNCHANGED api
        /\ toggles' = [toggles EXCEPT ![c] = NoToggle]
        /\ tasks' = call.prev
        /\ muddled' = \/ muddled \/ api' # api \/ load.at # "idle" \/ call.of # project
                      \/ tasks # [call.prev EXCEPT ![call.id] = Flip(@)]
        /\ UNCHANGED <<project, newTitle, busy, creating, typed, load, creates, clicks, twice>>

-----------------------------------------------------------------------------
(* New tasks.                                                              *)

setNewTaskTitle ==
    /\ ~busy /\ typed < MaxTyped
    /\ typed' = typed + 1 /\ newTitle' = typed + 1
    /\ UNCHANGED <<api, project, tasks, busy, creating, load, callVars, clicks, muddled, twice>>

\* Enter in the input, which a creation under way does not stop as it stops the button.
handleCreateTask(c) ==
    /\ ~busy /\ newTitle # 0 /\ project # None /\ creates[c] = NoCreate
    /\ creating' = TRUE
    /\ creates' = [creates EXCEPT ![c] = [title |-> newTitle, of |-> project]]
    /\ twice' = (twice \/ \E d \in Creating : creates[d].title = newTitle)
    /\ UNCHANGED <<api, project, tasks, newTitle, busy, typed, load, toggles, clicks, muddled>>

CreateTask(t, call) ==
    /\ api[t] = NoTask
    /\ api' = [api EXCEPT ![t] = [home |-> call.of, done |-> FALSE, title |-> call.title]]

CreateEnds(c) ==
    /\ creates' = [creates EXCEPT ![c] = NoCreate]
    /\ creating' = FALSE

\* A bug: the title stays in the input.
CreateLandsTitled(c, t) ==
    /\ c \in Creating /\ CreateTask(t, creates[c])
    /\ tasks' = [tasks EXCEPT ![t] = "pending"]
    /\ CreateEnds(c)
    /\ UNCHANGED <<project, newTitle, busy, typed, load, toggles, clicks, muddled, twice>>

\* The task is appended to whatever is shown, and the input is emptied, whatever it holds.
CreateLands(c, t) ==
    /\ c \in Creating /\ CreateTask(t, creates[c])
    /\ tasks' = [tasks EXCEPT ![t] = "pending"]
    /\ newTitle' = 0
    /\ CreateEnds(c)
    /\ muddled' = (muddled \/ load.at # "idle" \/ creates[c].of # project)
    /\ UNCHANGED <<project, busy, typed, load, toggles, clicks, twice>>

\* The call fails, before or after the API made the task; the title stays.
CreateFails(c) ==
    /\ c \in Creating
    /\ \/ UNCHANGED <<api, twice, muddled>>
       \/ (\E t \in TaskIds : CreateTask(t, creates[c])) /\ twice' = TRUE /\ muddled' = TRUE
    /\ CreateEnds(c)
    /\ UNCHANGED <<project, tasks, newTitle, busy, typed, load, toggles, clicks>>

ActionNext ==
    \/ TaskProjectsLand \/ GetTasks \/ TasksLand \/ TasksFail
    \/ \E p \in Projects : selectProject(p)
    \/ setNewTaskTitle
    \/ \E c \in Calls : \/ ToggleFinds(c) \/ ToggleLands(c) \/ ToggleFails(c)
                        \/ handleCreateTask(c) \/ CreateFails(c)
                        \/ \E t \in TaskIds : handleToggleTask(c, t) \/ CreateLands(c, t)

-----------------------------------------------------------------------------
(* A page at rest shows the tasks of its project as the API has them,      *)
(* however many clicks were made and toggles refused; unless, since it     *)
(* last fetched them alone, an error took back more than its own click or  *)
(* a toggle the API had stored, two toggles of one task crossed in the     *)
(* API, or an answer came to another project.                              *)
TasksAreCurrent ==
    load.at = "idle" /\ Toggling \cup Creating = {} /\ ~muddled =>
        /\ tasks = Listed(project)
        /\ Progress.done = Cardinality({t \in TaskIds : api[t].home = project /\ api[t].done})

(* A title that was typed once makes one task, unless Enter was pressed    *)
(* again before the answer, or the answer was lost.                        *)
OneTaskPerTitle ==
    ~twice => \A t, u \in TaskIds :
        t # u /\ api[t] # NoTask /\ api[u] # NoTask => api[t].title # api[u].title

(* The spinner and the disabled button have a call under way.              *)
ActionSpinnerHasCause ==
    /\ busy => load.at # "idle"
    /\ creating => Creating # {}
=============================================================================
