------------------------------ MODULE Publisher ------------------------------
(***************************************************************************)
(* The content calendar: tasks with a due date, the requests that edit     *)
(* them, and the CalendarPublisher, one goroutine that looks every minute  *)
(* for tasks that are due, posts each of them to its platform and saves    *)
(* what came of it.  Requests and worker load a row, work for a while and  *)
(* save every column of what they loaded; an action is one statement or    *)
(* one remote call with the code up to the next.                           *)
(*                                                                         *)
(*   task[t]  the row of t                                                 *)
(*   live     the projects FindAll returns                                 *)
(*   worker   the locals of runCalendarPublisher: the projects and the     *)
(*            tasks it loaded, and the outcome it is about to save         *)
(*   now      time.Now(); a due date is a tick of it, and 0 is NULL        *)
(*                                                                         *)
(* A create waits when Tasks has no id left.  A request that finds no row  *)
(* writes nothing and is left out.                                         *)
(***************************************************************************)
EXTENDS Naturals

CONSTANTS Tasks,        \* the ids the tasks table will hand out
          Projects,
          ProjectOf,    \* the project each task will belong to
          Requests,     \* HTTP requests; each one arrives at most once
          LastDate,     \* bound on the clock and on due dates
          MaxFailures   \* bound on the failures of the worker and its server

ASSUME PublisherAssumption ==
    /\ ProjectOf \in [Tasks -> Projects]
    /\ LastDate \in Nat
    /\ MaxFailures \in Nat

VARIABLES
    task,
    live,
    req,
    worker,
    now,
    failures,   \* failed steps of the worker and stops of the server so far
    posts,      \* history: the times t has been posted
    saved       \* history: the times a request has saved t as scheduled

vars == <<task, live, req, worker, now, failures, posts, saved>>

DueDates == 0 .. LastDate
Platforms == {"instagram, facebook or linkedin", "other"}
Statuses == {"scheduled", "published", "failed"}

TaskRow == [due : DueDates, completed : BOOLEAN, status : Statuses, platform : Platforms]
NoRow == {[status |-> "absent"], [status |-> "deleted"]}

\* A row as a process holds it.
Copies == [task : Tasks, row : TaskRow]
NoCopy == [task |-> "none"]

SavingPCs == {"save", "reschedule.save"}

TypeOK ==
    /\ task \in [Tasks -> TaskRow \cup NoRow]
    /\ live \in SUBSET Projects
    /\ req \in [Requests -> [pc : {"waiting", "done"} \cup SavingPCs,
                             copy : Copies \cup {NoCopy}]]
    /\ worker \in [pc : {"idle", "tasks", "posting", "saving"}, projects : SUBSET Projects,
                   listed : SUBSET Copies, copy : Copies \cup {NoCopy}]
    /\ now \in DueDates
    /\ failures \in 0 .. MaxFailures
    /\ posts \in [Tasks -> Nat]
    /\ saved \in [Tasks -> Nat]

Idle(pc) == [pc |-> pc, copy |-> NoCopy]

WorkerIdle == [pc |-> "idle", projects |-> {}, listed |-> {}, copy |-> NoCopy]

Init ==
    /\ task = [t \in Tasks |-> [status |-> "absent"]]
    /\ live = Projects
    /\ req = [r \in Requests |-> Idle("waiting")]
    /\ worker = WorkerIdle
    /\ now = 0
    /\ failures = 0
    /\ posts = [t \in Tasks |-> 0]
    /\ saved = [t \in Tasks |-> 0]

-----------------------------------------------------------------------------
\* db.Save: UPDATE ... WHERE id = t, and an INSERT when there is no such row: a
\* deleted task is back.
Save(copy) == task' = [task EXCEPT ![copy.task] = copy.row]

CountSaved(copy) ==
    saved' = IF copy.row.status = "scheduled"
             THEN [saved EXCEPT ![copy.task] = @ + 1] ELSE saved

\* A bug: the error of FindByID is dropped, and a deleted task is taken for a row.
RowsUnchecked == {t \in Tasks : task[t].status # "absent"}

Rows == {t \in Tasks : task[t] \notin NoRow}

Finish(r) == req' = [req EXCEPT ![r] = Idle("done")]

\* POST /api/system/calendar/event, and POST /api/dashboard/tasks with the
\* default platform: publish_status defaults to scheduled, with or without a date.
CreateCalendarEvent(r) ==
    /\ req[r].pc = "waiting"
    /\ \E t \in Tasks, due \in DueDates, platform \in Platforms :
          LET row == [due |-> due, completed |-> FALSE, status |-> "scheduled",
                      platform |-> platform]
          IN  /\ task[t].status = "absent"
              /\ Save([task |-> t, row |-> row])
              /\ CountSaved([task |-> t, row |-> row])
    /\ Finish(r)
    /\ UNCHANGED <<live, worker, now, failures, posts>>

Load(r, pc, t, row) == req' = [req EXCEPT ![r] = [pc |-> pc, copy |-> [task |-> t, row |-> row]]]

\* PATCH /api/system/calendar/event/:id loads the row, and then reads the form
\* with its uploads into it.  A due date in the form schedules the task again;
\* completed stays as it was.
UpdateCalendarEvent(r) ==
    /\ req[r].pc = "waiting"
    /\ \E t \in Rows, platform \in Platforms :
          LET edited == [task[t] EXCEPT !.platform = platform]
          IN  \/ Load(r, "save", t, edited)
              \/ \E due \in DueDates \ {0} :
                    Load(r, "reschedule.save", t,
                         [edited EXCEPT !.due = due, !.status = "scheduled"])
    /\ UNCHANGED <<task, live, worker, now, failures, posts, saved>>

\* PATCH /api/tasks/:id/toggle and /api/system/automations/:id/toggle
ToggleTask(r) ==
    /\ req[r].pc = "waiting"
    /\ \E t \in Rows : Load(r, "save", t, [task[t] EXCEPT !.completed = ~@])
    /\ UNCHANGED <<task, live, worker, now, failures, posts, saved>>

Update(r) ==
    /\ req[r].pc \in SavingPCs
    /\ Save(req[r].copy)
    /\ CountSaved(req[r].copy)
    /\ Finish(r)
    /\ UNCHANGED <<live, worker, now, failures, posts>>

UpdateFails(r) ==
    /\ req[r].pc \in SavingPCs
    /\ Finish(r)
    /\ UNCHANGED <<task, live, worker, now, failures, posts, saved>>

\* DELETE /api/system/calendar/event/:id: the row goes, whoever holds a copy.
DeleteCalendarEvent(r) ==
    /\ req[r].pc = "waiting"
    /\ \E t \in Rows : task' = [task EXCEPT ![t] = [status |-> "deleted"]]
    /\ Finish(r)
    /\ UNCHANGED <<live, worker, now, failures, posts, saved>>

-----------------------------------------------------------------------------
(* The CalendarPublisher.                                                  *)

\* Every minute: which projects are there?
FindProjects ==
    /\ worker.pc = "idle"
    /\ worker' = [worker EXCEPT !.pc = "tasks", !.projects = live]
    /\ UNCHANGED <<task, live, req, now, failures, posts, saved>>

\* A bug: publish_status is not looked at, so a failed task is posted again.
DueAnyStatus(row) ==
    /\ row.status # "published" /\ ~row.completed
    /\ row.due # 0 /\ row.due <= now

Due(row) ==
    /\ row.status = "scheduled" /\ ~row.completed
    /\ row.due # 0 /\ row.due <= now

FindDueScheduledTasks ==
    /\ worker.pc = "tasks"
    /\ worker' = [worker EXCEPT !.pc = "posting",
                     !.listed = {[task |-> t, row |-> task[t]] : t \in {u \in Rows : Due(task[u])}}]
    /\ UNCHANGED <<task, live, req, now, failures, posts, saved>>

\* The next task of the run: ORDER BY due_date.
NextListed(copy) ==
    /\ worker.pc = "posting"
    /\ \A other \in worker.listed : copy.row.due <= other.row.due

Publishable(copy) ==
    /\ ProjectOf[copy.task] \in worker.projects
    /\ copy.row.platform # "other"

\* A bug: a task that cannot be posted ends the run, and heads the list of the next.
SkipRun(copy) ==
    /\ NextListed(copy)
    /\ ~Publishable(copy)
    /\ worker' = WorkerIdle
    /\ UNCHANGED <<task, live, req, now, failures, posts, saved>>

SkipTask(copy) ==
    /\ NextListed(copy)
    /\ ~Publishable(copy)
    /\ worker' = [worker EXCEPT !.listed = @ \ {copy}]
    /\ UNCHANGED <<task, live, req, now, failures, posts, saved>>

GoSave(copy, row) ==
    worker' = [worker EXCEPT !.pc = "saving", !.listed = @ \ {copy},
                             !.copy = [task |-> copy.task, row |-> row]]

Posted(copy) == posts' = [posts EXCEPT ![copy.task] = @ + 1]

\* A bug: the outcome of a post is not put into the row.
PublishForgets(copy) ==
    /\ NextListed(copy)
    /\ Publishable(copy)
    /\ Posted(copy)
    /\ GoSave(copy, [copy.row EXCEPT !.completed = FALSE])
    /\ UNCHANGED <<task, live, req, now, failures, saved>>

PublishContent(copy) ==
    /\ NextListed(copy)
    /\ Publishable(copy)
    /\ Posted(copy)
    /\ GoSave(copy, [copy.row EXCEPT !.completed = TRUE, !.status = "published"])
    /\ UNCHANGED <<task, live, req, now, failures, saved>>

\* A token, a handle or an upload is missing, or the platform answers with an
\* error or in time with nothing: the post may be out all the same.
PublishFails(copy) ==
    /\ NextListed(copy)
    /\ Publishable(copy)
    /\ Posted(copy) \/ UNCHANGED posts
    /\ GoSave(copy, [copy.row EXCEPT !.status = "failed"])
    /\ UNCHANGED <<task, live, req, now, failures, saved>>

WorkerMovesOn == worker' = [worker EXCEPT !.pc = "posting", !.copy = NoCopy]

UpdateTask ==
    /\ worker.pc = "saving"
    /\ Save(worker.copy)
    /\ WorkerMovesOn
    /\ UNCHANGED <<live, req, now, failures, posts, saved>>

RunEnds ==
    /\ worker.pc = "posting" /\ worker.listed = {}
    /\ worker' = WorkerIdle
    /\ UNCHANGED <<task, live, req, now, failures, posts, saved>>

runCalendarPublisher ==
    \/ FindProjects \/ FindDueScheduledTasks
    \/ \E copy \in worker.listed : SkipTask(copy) \/ PublishContent(copy) \/ PublishFails(copy)
    \/ UpdateTask \/ RunEnds

Failure == failures < MaxFailures /\ failures' = failures + 1

\* A query fails and the run is over, or a Save fails and is only logged.
WorkerFails ==
    /\ Failure
    /\ \/ worker.pc \in {"idle", "tasks"} /\ worker' = WorkerIdle
       \/ worker.pc = "saving" /\ WorkerMovesOn
    /\ UNCHANGED <<task, live, req, now, posts, saved>>

\* The server stops and is started again.
ServerRestarts ==
    /\ Failure
    /\ worker' = WorkerIdle
    /\ req' = [r \in Requests |-> IF req[r].pc \in SavingPCs THEN Idle("done") ELSE req[r]]
    /\ UNCHANGED <<task, live, now, posts, saved>>

-----------------------------------------------------------------------------
Tick ==
    /\ now < LastDate
    /\ now' = now + 1
    /\ UNCHANGED <<task, live, req, worker, failures, posts, saved>>

\* Its owner deletes a project, or a stale Save brings one back (module Projects).
ProjectChanges ==
    /\ \E p \in Projects : live' = (IF p \in live THEN live \ {p} ELSE live \cup {p})
    /\ UNCHANGED <<task, req, worker, now, failures, posts, saved>>

Request(r) ==
    \/ CreateCalendarEvent(r) \/ UpdateCalendarEvent(r) \/ ToggleTask(r)
    \/ Update(r) \/ UpdateFails(r) \/ DeleteCalendarEvent(r)

Next ==
    \/ \E r \in Requests : Request(r)
    \/ runCalendarPublisher
    \/ WorkerFails
    \/ ServerRestarts
    \/ Tick
    \/ ProjectChanges

Spec == Init /\ [][Next]_vars

\* The ticker of the worker never stops, and its remote calls have timeouts or, for
\* the download of a Facebook video story, are assumed to return.
FairSpec == Spec /\ WF_vars(runCalendarPublisher)

-----------------------------------------------------------------------------
(***************************************************************************)
(* Properties                                                              *)
(***************************************************************************)
\* A task is posted at most once for every time a request saved it as scheduled,
\* and once more for every failure: the post and the Save that records it are two
\* steps, and a stale Save makes a published task scheduled again.
PostsBound == \A t \in Tasks : posts[t] <= saved[t] + failures

\* Neither the row of t nor any copy of it that a process holds is scheduled.
PutAway(t) ==
    /\ task[t].status \notin {"absent", "scheduled"}
    /\ \A copy \in worker.listed : copy.task # t
    /\ \A r \in Requests :
          req[r].pc \in SavingPCs /\ req[r].copy.task = t
            => req[r].copy.row.status # "scheduled"

\* A task that has been published, failed or deleted is left alone: from when no
\* process holds it as scheduled, it is not posted before a request redates it.
PutAwayStays ==
    [][\A t \in Tasks : PutAway(t) =>
          /\ posts'[t] = posts[t]
          /\ \/ PutAway(t)'
             \/ \E r \in Requests :
                   /\ req[r].pc = "waiting" /\ req'[r].pc = "reschedule.save"
                   /\ req'[r].copy.task = t]_vars

\* What the worker should post: due, of a live project, for a platform it knows.
Waiting(t) ==
    /\ t \in Rows /\ Due(task[t])
    /\ task[t].platform # "other"
    /\ ProjectOf[t] \in live

\* No task waits forever, whatever requests, failures and restarts come between.
WaitingIsHandled == \A t \in Tasks : Waiting(t) ~> ~Waiting(t)
=============================================================================
