--------------------------- MODULE PublisherProofs ---------------------------
(***************************************************************************)
(* Theorems of Publisher, for every number of tasks, requests, dates and   *)
(* failures.                                                               *)
(***************************************************************************)
EXTENDS Publisher, TLAPS

\* What a Save and its count leave behind is well typed.
LEMMA SaveType ==
    ASSUME TypeOK, NEW copy \in Copies, Save(copy)
    PROVE  task' \in [Tasks -> TaskRow \cup NoRow]
<1>1. copy.task \in Tasks /\ copy.row \in TaskRow
    BY DEF Copies
<1> QED
    BY <1>1 DEF TypeOK, Save

LEMMA CountSavedType ==
    ASSUME TypeOK, NEW copy \in Copies, CountSaved(copy)
    PROVE  saved' \in [Tasks -> Nat]
    BY DEF TypeOK, CountSaved, Copies

\* A row a query finds is a row of the table.
LEMMA RowsType ==
    ASSUME TypeOK, NEW t \in Rows
    PROVE  t \in Tasks /\ task[t] \in TaskRow
    BY DEF TypeOK, Rows

\* The table of requests after one of them ends or loads a row.
LEMMA ReqType ==
    ASSUME TypeOK, NEW r \in Requests,
           NEW pc \in {"waiting", "done"} \cup SavingPCs, NEW copy \in Copies \cup {NoCopy},
           req' = [req EXCEPT ![r] = [pc |-> pc, copy |-> copy]]
    PROVE  req' \in [Requests -> [pc : {"waiting", "done"} \cup SavingPCs,
                                  copy : Copies \cup {NoCopy}]]
    BY DEF TypeOK

LEMMA FinishType ==
    ASSUME TypeOK, NEW r \in Requests, Finish(r)
    PROVE  req' \in [Requests -> [pc : {"waiting", "done"} \cup SavingPCs,
                                  copy : Copies \cup {NoCopy}]]
    BY ReqType DEF Finish, Idle

\* A request that is about to save holds a row.
Loaded == \A r \in Requests : req[r].pc \in SavingPCs => req[r].copy \in Copies

\* What the worker holds: each task it has listed once and scheduled, and the
\* outcome it is about to save, of a task it has taken off the list.
WorkerInv ==
    /\ \A c \in worker.listed : c.row.status = "scheduled"
    /\ \A c, d \in worker.listed : c.task = d.task => c = d
    /\ worker.pc \in {"idle", "tasks"} => worker.listed = {}
    /\ worker.pc = "saving" =>
          /\ worker.copy \in Copies
          /\ worker.copy.row.status # "scheduled"
          /\ \A c \in worker.listed : c.task # worker.copy.task

LEMMA InitTypes == Init => TypeOK /\ Loaded /\ WorkerInv
    BY PublisherAssumption
    DEF Init, TypeOK, Loaded, WorkerInv, Idle, WorkerIdle, DueDates, NoRow, SavingPCs

-----------------------------------------------------------------------------
LEMMA RequestTypes ==
    ASSUME TypeOK, Loaded, NEW r \in Requests, Request(r)
    PROVE  TypeOK' /\ Loaded'
<1>1. CASE CreateCalendarEvent(r)
  <2>1. PICK t \in Tasks, due \in DueDates, platform \in Platforms :
           LET row == [due |-> due, completed |-> FALSE, status |-> "scheduled",
                       platform |-> platform]
           IN  Save([task |-> t, row |-> row]) /\ CountSaved([task |-> t, row |-> row])
      BY <1>1 DEF CreateCalendarEvent
  <2> DEFINE new == [task |-> t, row |-> [due |-> due, completed |-> FALSE,
                                          status |-> "scheduled", platform |-> platform]]
  <2>2. new \in Copies
      BY DEF Copies, TaskRow, Statuses
  <2>3. Save(new) /\ CountSaved(new)
      BY <2>1
  <2> HIDE DEF new
  <2>4. task' \in [Tasks -> TaskRow \cup NoRow] /\ saved' \in [Tasks -> Nat]
      BY <2>2, <2>3, SaveType, CountSavedType
  <2> QED
      BY <1>1, <2>4, FinishType DEF CreateCalendarEvent, TypeOK, Loaded, Finish, Idle, SavingPCs
<1>2. CASE UpdateCalendarEvent(r)
  <2>1. PICK t \in Rows, platform \in Platforms :
           LET edited == [task[t] EXCEPT !.platform = platform]
           IN  \/ Load(r, "save", t, edited)
               \/ \E due \in DueDates \ {0} :
                     Load(r, "reschedule.save", t,
                          [edited EXCEPT !.due = due, !.status = "scheduled"])
      BY <1>2 DEF UpdateCalendarEvent
  <2>2. t \in Tasks /\ task[t] \in TaskRow
      BY RowsType
  <2>3. PICK pc \in SavingPCs, row \in TaskRow : Load(r, pc, t, row)
    <3>1. [task[t] EXCEPT !.platform = platform] \in TaskRow
        BY <2>2 DEF TaskRow
    <3>2. \A due \in DueDates :
             [[task[t] EXCEPT !.platform = platform] EXCEPT !.due = due, !.status = "scheduled"]
                \in TaskRow
        BY <3>1 DEF TaskRow, Statuses
    <3> QED
        BY <2>1, <3>1, <3>2 DEF SavingPCs
  <2>4. [task |-> t, row |-> row] \in Copies
      BY <2>2, <2>3 DEF Copies
  <2>5. req' = [req EXCEPT ![r] = [pc |-> pc, copy |-> [task |-> t, row |-> row]]]
      BY <2>3 DEF Load
  <2>6. req' \in [Requests -> [pc : {"waiting", "done"} \cup SavingPCs, copy : Copies \cup {NoCopy}]]
      BY <2>3, <2>4, <2>5, ReqType
  <2>7. Loaded'
      BY <2>4, <2>5 DEF Loaded, TypeOK
  <2> QED
      BY <1>2, <2>6, <2>7 DEF UpdateCalendarEvent, TypeOK
<1>3. CASE ToggleTask(r)
  <2>1. PICK t \in Rows : Load(r, "save", t, [task[t] EXCEPT !.completed = ~@])
      BY <1>3 DEF ToggleTask
  <2> DEFINE row == [task[t] EXCEPT !.completed = ~@]
  <2>2. t \in Tasks /\ task[t] \in TaskRow
      BY RowsType
  <2>3. row \in TaskRow
    <3>1. row = [task[t] EXCEPT !.completed = ~task[t].completed]
        BY <2>2 DEF TaskRow
    <3>2. (~task[t].completed) \in BOOLEAN
        OBVIOUS
    <3> QED
        BY <2>2, <3>1, <3>2 DEF TaskRow
  <2>4. [task |-> t, row |-> row] \in Copies
      BY <2>2, <2>3 DEF Copies
  <2>5. req' = [req EXCEPT ![r] = [pc |-> "save", copy |-> [task |-> t, row |-> row]]]
      BY <2>1 DEF Load
  <2> HIDE DEF row
  <2>6. req' \in [Requests -> [pc : {"waiting", "done"} \cup SavingPCs, copy : Copies \cup {NoCopy}]]
      BY <2>4, <2>5, ReqType DEF SavingPCs
  <2>7. Loaded'
      BY <2>4, <2>5 DEF Loaded, TypeOK
  <2> QED
      BY <1>3, <2>6, <2>7 DEF ToggleTask, TypeOK
<1>4. CASE Update(r)
  <2>1. req[r].copy \in Copies
      BY <1>4 DEF Update, Loaded
  <2>2. task' \in [Tasks -> TaskRow \cup NoRow] /\ saved' \in [Tasks -> Nat]
      BY <1>4, <2>1, SaveType, CountSavedType DEF Update
  <2> QED
      BY <1>4, <2>2, FinishType DEF Update, TypeOK, Loaded, Finish, Idle, SavingPCs
<1>5. CASE UpdateFails(r)
    BY <1>5, FinishType DEF UpdateFails, TypeOK, Loaded, Finish, Idle, SavingPCs
<1>6. CASE DeleteCalendarEvent(r)
  <2>1. task' \in [Tasks -> TaskRow \cup NoRow]
      BY <1>6 DEF DeleteCalendarEvent, TypeOK, NoRow
  <2> QED
      BY <1>6, <2>1, FinishType DEF DeleteCalendarEvent, TypeOK, Loaded, Finish, Idle, SavingPCs
<1> QED
    BY <1>1, <1>2, <1>3, <1>4, <1>5, <1>6 DEF Request

LEMMA RequestKeepsWorker ==
    ASSUME NEW r \in Requests, Request(r)
    PROVE  UNCHANGED <<worker, live, now, failures, posts>>
    BY DEF Request, CreateCalendarEvent, UpdateCalendarEvent, ToggleTask, Update, UpdateFails,
           DeleteCalendarEvent

\* The worker keeps what it holds in order; of the rest it writes only the task
\* whose outcome it saves.
LEMMA WorkerTypes ==
    ASSUME TypeOK, Loaded, WorkerInv, runCalendarPublisher
    PROVE  TypeOK' /\ Loaded' /\ WorkerInv'
<1>1. CASE FindProjects
    BY <1>1 DEF FindProjects, TypeOK, Loaded, WorkerInv
<1>2. CASE FindDueScheduledTasks
  <2> DEFINE due == {t \in Rows : Due(task[t])}
             listed == {[task |-> t, row |-> task[t]] : t \in due}
  <2>1. \A t \in due : t \in Tasks /\ task[t] \in TaskRow /\ task[t].status = "scheduled"
      BY RowsType DEF Due
  <2>2. listed \in SUBSET Copies
      BY <2>1 DEF Copies
  <2>3. /\ \A c \in listed : c.row.status = "scheduled"
        /\ \A c, d \in listed : c.task = d.task => c = d
      BY <2>1
  <2>4. worker' = [worker EXCEPT !.pc = "posting", !.listed = listed]
      BY <1>2 DEF FindDueScheduledTasks
  <2> HIDE DEF listed, due
  <2> QED
      BY <1>2, <2>2, <2>3, <2>4 DEF FindDueScheduledTasks, TypeOK, Loaded, WorkerInv
<1>3. ASSUME NEW copy \in worker.listed, SkipTask(copy)
      PROVE  TypeOK' /\ Loaded' /\ WorkerInv'
    BY <1>3 DEF SkipTask, NextListed, TypeOK, Loaded, WorkerInv
<1>4. ASSUME NEW copy \in worker.listed, NextListed(copy), NEW row \in TaskRow,
             row.status # "scheduled", GoSave(copy, row)
      PROVE  /\ worker' \in [pc : {"idle", "tasks", "posting", "saving"}, projects : SUBSET Projects,
                              listed : SUBSET Copies, copy : Copies \cup {NoCopy}]
             /\ WorkerInv'
  <2>1. copy \in Copies
      BY DEF TypeOK
  <2>2. [task |-> copy.task, row |-> row] \in Copies
      BY <1>4, <2>1 DEF Copies
  <2> QED
      BY <1>4, <2>1, <2>2 DEF GoSave, NextListed, TypeOK, WorkerInv
<1>5. ASSUME NEW copy \in worker.listed, Posted(copy) \/ UNCHANGED posts
      PROVE  posts' \in [Tasks -> Nat]
    BY <1>5 DEF Posted, TypeOK, Copies
<1>6. ASSUME NEW copy \in worker.listed
      PROVE  /\ [copy.row EXCEPT !.completed = TRUE, !.status = "published"] \in TaskRow
             /\ [copy.row EXCEPT !.status = "failed"] \in TaskRow
             /\ [copy.row EXCEPT !.completed = TRUE, !.status = "published"].status = "published"
             /\ [copy.row EXCEPT !.status = "failed"].status = "failed"
    BY DEF TypeOK, Copies, TaskRow, Statuses
<1>7. ASSUME NEW copy \in worker.listed, PublishContent(copy)
      PROVE  TypeOK' /\ Loaded' /\ WorkerInv'
    BY <1>4, <1>5, <1>6, <1>7 DEF PublishContent, TypeOK, Loaded
<1>8. ASSUME NEW copy \in worker.listed, PublishFails(copy)
      PROVE  TypeOK' /\ Loaded' /\ WorkerInv'
    BY <1>4, <1>5, <1>6, <1>8 DEF PublishFails, TypeOK, Loaded
<1>9. CASE UpdateTask
  <2>1. task' \in [Tasks -> TaskRow \cup NoRow]
      BY <1>9, SaveType DEF UpdateTask, WorkerInv
  <2> QED
      BY <1>9, <2>1 DEF UpdateTask, WorkerMovesOn, TypeOK, Loaded, WorkerInv
<1>10. CASE RunEnds
    BY <1>10 DEF RunEnds, WorkerIdle, TypeOK, Loaded, WorkerInv
<1> QED
    BY <1>1, <1>2, <1>3, <1>7, <1>8, <1>9, <1>10 DEF runCalendarPublisher

LEMMA EnvironmentTypes ==
    ASSUME TypeOK, Loaded, WorkerInv, WorkerFails \/ ServerRestarts \/ Tick \/ ProjectChanges
    PROVE  TypeOK' /\ Loaded' /\ WorkerInv'
<1>1. ASSUME Failure
      PROVE  failures' \in 0 .. MaxFailures
    BY <1>1, PublisherAssumption DEF Failure, TypeOK
<1>2. CASE WorkerFails
  <2>1. worker' = WorkerIdle \/ worker' = [worker EXCEPT !.pc = "posting", !.copy = NoCopy]
      BY <1>2 DEF WorkerFails, WorkerMovesOn
  <2>2. /\ worker' \in [pc : {"idle", "tasks", "posting", "saving"}, projects : SUBSET Projects,
                        listed : SUBSET Copies, copy : Copies \cup {NoCopy}]
        /\ worker'.pc \in {"idle", "tasks"} => worker'.listed = {}
        /\ worker'.pc # "saving"
        /\ worker'.listed \subseteq worker.listed
    <3>1. CASE worker' = WorkerIdle
        BY <3>1 DEF WorkerIdle
    <3>2. CASE worker' = [worker EXCEPT !.pc = "posting", !.copy = NoCopy]
        BY <3>2 DEF TypeOK
    <3> QED
        BY <2>1, <3>1, <3>2
  <2>3. WorkerInv'
      BY <2>2 DEF WorkerInv
  <2>4. failures' \in 0 .. MaxFailures /\ UNCHANGED <<task, live, req, now, posts, saved>>
      BY <1>1, <1>2 DEF WorkerFails
  <2> QED
      BY <2>2, <2>3, <2>4 DEF TypeOK, Loaded
<1>3. CASE ServerRestarts
  <2>1. /\ req' \in [Requests -> [pc : {"waiting", "done"} \cup SavingPCs,
                                  copy : Copies \cup {NoCopy}]]
        /\ \A r \in Requests : req'[r].pc \notin SavingPCs
      BY <1>3 DEF ServerRestarts, Idle, TypeOK, SavingPCs
  <2> QED
      BY <1>1, <1>3, <2>1 DEF ServerRestarts, WorkerIdle, TypeOK, Loaded, WorkerInv
<1>4. CASE Tick
    BY <1>4, PublisherAssumption DEF Tick, TypeOK, DueDates, Loaded, WorkerInv
<1>5. CASE ProjectChanges
    BY <1>5 DEF ProjectChanges, TypeOK, Loaded, WorkerInv
<1> QED
    BY <1>2, <1>3, <1>4, <1>5

LEMMA NextTypes ==
    ASSUME TypeOK, Loaded, WorkerInv, [Next]_vars
    PROVE  TypeOK' /\ Loaded' /\ WorkerInv'
<1>1. ASSUME NEW r \in Requests, Request(r)
      PROVE  TypeOK' /\ Loaded' /\ WorkerInv'
    BY <1>1, RequestTypes, RequestKeepsWorker DEF WorkerInv
<1>2. CASE UNCHANGED vars
    BY <1>2 DEF vars, TypeOK, Loaded, WorkerInv
<1> QED
    BY <1>1, <1>2, WorkerTypes, EnvironmentTypes DEF Next

\* Every reachable state is well typed.
THEOREM TypeCorrect == Spec => []TypeOK
<1>1. Spec => [](TypeOK /\ Loaded /\ WorkerInv)
    BY InitTypes, NextTypes, PTL DEF Spec
<1> QED
    BY <1>1, PTL

-----------------------------------------------------------------------------
(***************************************************************************)
(* A task is posted no more often than requests scheduled it and the       *)
(* worker failed.  The bound is not inductive: what is left of it has to   *)
(* cover the post that is still to come, of a row that is scheduled or of  *)
(* a copy on the worker's list, never of both.                             *)
(***************************************************************************)
Listed(t) == \E c \in worker.listed : c.task = t
BeingSaved(t) == worker.pc = "saving" /\ worker.copy.task = t
Open(t) == Listed(t) \/ (task[t].status = "scheduled" /\ ~BeingSaved(t))
ToCome(t) == IF Open(t) THEN 1 ELSE 0

Ledger == \A t \in Tasks : posts[t] + ToCome(t) <= saved[t] + failures

\* The three ways in which a step keeps the ledger of a task: it opens no post, it
\* is paid for, or it is the post.
LEMMA LedgerKept ==
    ASSUME TypeOK, TypeOK', NEW t \in Tasks, posts[t] + ToCome(t) <= saved[t] + failures,
           \/ Open(t)' => Open(t)
           \/ saved'[t] + failures' > saved[t] + failures,
           \/ posts'[t] = posts[t]
           \/ posts'[t] = posts[t] + 1 /\ Open(t) /\ ~Open(t)',
           saved'[t] >= saved[t], failures' >= failures
    PROVE  posts'[t] + ToCome(t)' <= saved'[t] + failures'
<1>1. /\ posts[t] \in Nat /\ posts'[t] \in Nat /\ saved[t] \in Nat /\ saved'[t] \in Nat
      /\ failures \in Nat /\ failures' \in Nat
    BY PublisherAssumption DEF TypeOK
<1>2. ToCome(t) = (IF Open(t) THEN 1 ELSE 0) /\ ToCome(t)' = (IF Open(t)' THEN 1 ELSE 0)
    BY DEF ToCome
<1> HIDE DEF ToCome
<1>3. CASE Open(t) /\ Open(t)'
    BY <1>1, <1>2, <1>3
<1>4. CASE Open(t) /\ ~Open(t)'
    BY <1>1, <1>2, <1>4
<1>5. CASE ~Open(t) /\ Open(t)'
    BY <1>1, <1>2, <1>5
<1>6. CASE ~Open(t) /\ ~Open(t)'
    BY <1>1, <1>2, <1>6
<1> QED
    BY <1>3, <1>4, <1>5, <1>6

\* A request that saves a row as scheduled pays for the post it opens.
LEMMA SavePays ==
    ASSUME TypeOK, NEW copy \in Copies, Save(copy), CountSaved(copy),
           UNCHANGED worker, NEW t \in Tasks
    PROVE  /\ saved'[t] >= saved[t]
           /\ (Open(t)' => Open(t)) \/ saved'[t] > saved[t]
<1>1. copy.task \in Tasks /\ copy.row \in TaskRow /\ saved[t] \in Nat
    BY DEF Copies, TypeOK
<1>2. saved'[t] >= saved[t]
    BY <1>1 DEF CountSaved, TypeOK
<1>3. Listed(t)' = Listed(t) /\ BeingSaved(t)' = BeingSaved(t)
    BY DEF Listed, BeingSaved
<1>4. CASE copy.task # t
  <2>1. task'[t] = task[t]
      BY <1>1, <1>4 DEF Save, TypeOK
  <2> QED
      BY <1>2, <1>3, <2>1 DEF Open
<1>5. CASE copy.task = t /\ copy.row.status = "scheduled"
  <2>1. saved'[t] = saved[t] + 1
      BY <1>5 DEF CountSaved, TypeOK
  <2> QED
      BY <1>1, <2>1
<1>6. CASE copy.task = t /\ copy.row.status # "scheduled"
  <2>1. task'[t] = copy.row
      BY <1>6 DEF Save, TypeOK
  <2> QED
      BY <1>2, <1>3, <1>6, <2>1 DEF Open
<1> QED
    BY <1>4, <1>5, <1>6

LEMMA RequestLedger ==
    ASSUME TypeOK, TypeOK', Loaded, Ledger, NEW r \in Requests, Request(r)
    PROVE  Ledger'
<1>1. UNCHANGED <<worker, failures, posts>>
    BY RequestKeepsWorker
<1>2. SUFFICES ASSUME NEW t \in Tasks
               PROVE  /\ saved'[t] >= saved[t]
                      /\ (Open(t)' => Open(t)) \/ saved'[t] > saved[t]
  <2>1. failures \in Nat /\ \A t \in Tasks : saved[t] \in Nat /\ saved'[t] \in Nat
      BY PublisherAssumption DEF TypeOK
  <2> QED
      BY <1>1, <1>2, <2>1, LedgerKept DEF Ledger
<1>3. saved[t] \in Nat /\ Listed(t)' = Listed(t) /\ BeingSaved(t)' = BeingSaved(t)
    BY <1>1 DEF TypeOK, Listed, BeingSaved
<1>4. CASE CreateCalendarEvent(r)
  <2>1. PICK new \in Copies : Save(new) /\ CountSaved(new)
      BY <1>4 DEF CreateCalendarEvent, Copies, TaskRow, Statuses
  <2> QED
      BY <1>1, <2>1, SavePays
<1>5. CASE Update(r)
    BY <1>1, <1>5, SavePays DEF Update, Loaded
<1>6. CASE UpdateCalendarEvent(r) \/ ToggleTask(r) \/ UpdateFails(r)
  <2>1. UNCHANGED <<task, saved>>
      BY <1>6 DEF UpdateCalendarEvent, ToggleTask, UpdateFails
  <2> QED
      BY <1>3, <2>1 DEF Open
<1>7. CASE DeleteCalendarEvent(r)
  <2>1. PICK d \in Rows : task' = [task EXCEPT ![d] = [status |-> "deleted"]]
      BY <1>7 DEF DeleteCalendarEvent
  <2>2. task'[t].status = "scheduled" => task[t].status = "scheduled"
      BY <2>1 DEF TypeOK, Rows
  <2>3. UNCHANGED saved
      BY <1>7 DEF DeleteCalendarEvent
  <2> QED
      BY <1>3, <2>2, <2>3 DEF Open
<1> QED
    BY <1>4, <1>5, <1>6, <1>7 DEF Request

\* A listed copy that is taken off the list: its task is listed no more, any other
\* task is as before.
LEMMA TakenOff ==
    ASSUME WorkerInv, NEW copy \in worker.listed, NEW t,
           worker'.listed = worker.listed \ {copy}
    PROVE  Listed(t)' <=> (Listed(t) /\ t # copy.task)
    BY DEF Listed, WorkerInv

\* The post of a run: it was to come, and while its outcome is being saved none is.
LEMMA PostLedger ==
    ASSUME TypeOK, TypeOK', WorkerInv, Ledger, NEW copy \in worker.listed, NEW row,
           NextListed(copy), Posted(copy) \/ UNCHANGED posts, GoSave(copy, row),
           UNCHANGED <<task, failures, saved>>
    PROVE  Ledger'
<1>1. SUFFICES ASSUME NEW t \in Tasks
               PROVE  /\ Open(t)' => Open(t)
                      /\ \/ posts'[t] = posts[t]
                         \/ posts'[t] = posts[t] + 1 /\ Open(t) /\ ~Open(t)'
  <2>1. failures \in Nat /\ \A t \in Tasks : saved[t] \in Nat /\ saved'[t] = saved[t]
      BY PublisherAssumption DEF TypeOK
  <2> QED
      BY <1>1, <2>1, LedgerKept DEF Ledger
<1>2. /\ worker'.pc = "saving" /\ worker'.listed = worker.listed \ {copy}
      /\ worker'.copy.task = copy.task /\ worker.pc = "posting"
    BY DEF GoSave, NextListed, TypeOK
<1>3. Listed(t)' <=> (Listed(t) /\ t # copy.task)
    BY <1>2, TakenOff
<1>4. CASE t = copy.task
  <2>1. Open(t) /\ ~Open(t)'
      BY <1>2, <1>3, <1>4 DEF Open, Listed, BeingSaved
  <2>2. posts'[t] = posts[t] \/ posts'[t] = posts[t] + 1
      BY <1>4 DEF Posted, TypeOK
  <2> QED
      BY <2>1, <2>2
<1>5. CASE t # copy.task
  <2>1. Open(t)' => Open(t)
      BY <1>2, <1>3, <1>5 DEF Open, BeingSaved
  <2>2. posts'[t] = posts[t]
      BY <1>5 DEF Posted, TypeOK
  <2> QED
      BY <2>1, <2>2
<1> QED
    BY <1>4, <1>5

\* The other steps post nothing: what is open after them was, or they are paid for.
LEMMA QuietLedger ==
    ASSUME TypeOK, TypeOK', Ledger, UNCHANGED <<posts, saved>>,
           \/ failures' = failures /\ \A t \in Tasks : Open(t)' => Open(t)
           \/ failures' = failures + 1
    PROVE  Ledger'
<1>1. failures \in Nat /\ \A t \in Tasks : saved[t] \in Nat /\ saved'[t] = saved[t]
    BY PublisherAssumption DEF TypeOK
<1>2. SUFFICES ASSUME NEW t \in Tasks
               PROVE  posts'[t] + ToCome(t)' <= saved'[t] + failures'
    BY DEF Ledger
<1>3. posts[t] + ToCome(t) <= saved[t] + failures
    BY DEF Ledger
<1>4. \/ failures' = failures /\ (Open(t)' => Open(t))
      \/ failures' = failures + 1
    OBVIOUS
<1> QED
    BY <1>1, <1>3, <1>4, LedgerKept

LEMMA WorkerLedger ==
    ASSUME TypeOK, TypeOK', WorkerInv, Ledger, runCalendarPublisher
    PROVE  Ledger'
<1>1. CASE FindProjects
  <2>1. \A t : Open(t)' => Open(t)
      BY <1>1 DEF FindProjects, TypeOK, Open, Listed, BeingSaved
  <2> QED
      BY <1>1, <2>1, QuietLedger DEF FindProjects
<1>2. CASE FindDueScheduledTasks
  <2>1. worker'.pc = "posting" /\ UNCHANGED task
      BY <1>2 DEF FindDueScheduledTasks, TypeOK
  <2>2. \A c \in worker'.listed : task[c.task].status = "scheduled"
    <3>1. worker'.listed = {[task |-> t, row |-> task[t]] : t \in {u \in Rows : Due(task[u])}}
        BY <1>2 DEF FindDueScheduledTasks, TypeOK
    <3> QED
        BY <3>1 DEF Due
  <2>3. \A t : Open(t)' => Open(t)
      BY <1>2, <2>1, <2>2 DEF FindDueScheduledTasks, Open, Listed, BeingSaved
  <2> QED
      BY <1>2, <2>3, QuietLedger DEF FindDueScheduledTasks
<1>3. ASSUME NEW copy \in worker.listed, SkipTask(copy)
      PROVE  Ledger'
  <2>1. \A t : Open(t)' => Open(t)
      BY <1>3 DEF SkipTask, NextListed, TypeOK, Open, Listed, BeingSaved
  <2> QED
      BY <1>3, <2>1, QuietLedger DEF SkipTask
<1>4. ASSUME NEW copy \in worker.listed, PublishContent(copy) \/ PublishFails(copy)
      PROVE  Ledger'
    BY <1>4, PostLedger DEF PublishContent, PublishFails
<1>5. CASE UpdateTask
  <2>1. /\ worker'.pc = "posting" /\ worker'.listed = worker.listed
        /\ worker.pc = "saving" /\ worker.copy \in Copies
        /\ worker.copy.row.status # "scheduled"
      BY <1>5 DEF UpdateTask, WorkerMovesOn, TypeOK, WorkerInv
  <2>2. ASSUME NEW t \in Tasks, Open(t)'
        PROVE  Open(t)
    <3>1. CASE t = worker.copy.task
      <4>1. task'[t] = worker.copy.row
          BY <1>5, <3>1 DEF UpdateTask, Save, TypeOK
      <4> QED
          BY <2>1, <2>2, <4>1 DEF Open, Listed
    <3>2. CASE t # worker.copy.task
      <4>1. task'[t] = task[t]
          BY <1>5, <3>2 DEF UpdateTask, Save, TypeOK
      <4> QED
          BY <2>1, <2>2, <3>2, <4>1 DEF Open, Listed, BeingSaved
    <3> QED
        BY <3>1, <3>2
  <2> QED
      BY <1>5, <2>2, QuietLedger DEF UpdateTask
<1>6. CASE RunEnds
  <2>1. \A t : Open(t)' => Open(t)
      BY <1>6 DEF RunEnds, WorkerIdle, TypeOK, Open, Listed, BeingSaved
  <2> QED
      BY <1>6, <2>1, QuietLedger DEF RunEnds
<1> QED
    BY <1>1, <1>2, <1>3, <1>4, <1>5, <1>6 DEF runCalendarPublisher

LEMMA NextLedger ==
    ASSUME TypeOK, TypeOK', Loaded, WorkerInv, Ledger, [Next]_vars
    PROVE  Ledger'
<1>1. CASE WorkerFails \/ ServerRestarts
    BY <1>1, QuietLedger DEF WorkerFails, ServerRestarts, Failure
<1>2. CASE Tick \/ ProjectChanges \/ UNCHANGED vars
  <2>1. UNCHANGED <<task, worker, failures, posts, saved>>
      BY <1>2 DEF Tick, ProjectChanges, vars
  <2>2. \A t : Open(t)' => Open(t)
      BY <2>1 DEF Open, Listed, BeingSaved
  <2> QED
      BY <2>1, <2>2, QuietLedger
<1> QED
    BY <1>1, <1>2, RequestLedger, WorkerLedger DEF Next

LEMMA InitLedger == Init => Ledger
<1>1. SUFFICES ASSUME Init, NEW t \in Tasks
               PROVE  posts[t] + ToCome(t) <= saved[t] + failures
    BY DEF Ledger
<1>2. ~Listed(t) /\ task[t].status = "absent"
    BY <1>1 DEF Init, Listed, WorkerIdle
<1>3. ToCome(t) = 0
    BY <1>2 DEF ToCome, Open
<1> HIDE DEF ToCome
<1> QED
    BY <1>1, <1>3 DEF Init

\* No task is posted more often than requests have saved it as scheduled and the
\* worker has failed, however many tasks, requests, failures and dates there are.
THEOREM PostsBoundHolds == Spec => []PostsBound
<1>1. Spec => [](TypeOK /\ Loaded /\ WorkerInv /\ Ledger)
    BY InitTypes, InitLedger, NextTypes, NextLedger, PTL DEF Spec
<1>2. TypeOK /\ Ledger => PostsBound
  <2>1. SUFFICES ASSUME TypeOK, Ledger, NEW t \in Tasks
                 PROVE  posts[t] <= saved[t] + failures
      BY DEF PostsBound
  <2>2. posts[t] \in Nat /\ saved[t] \in Nat /\ failures \in Nat
      BY <2>1, PublisherAssumption DEF TypeOK
  <2>3. posts[t] + ToCome(t) <= saved[t] + failures
      BY <2>1 DEF Ledger
  <2>4. ToCome(t) \in {0, 1}
      BY DEF ToCome
  <2> HIDE DEF ToCome
  <2> QED
      BY <2>2, <2>3, <2>4
<1> QED
    BY <1>1, <1>2, PTL

-----------------------------------------------------------------------------
(* What is published, failed or deleted, and held by nobody as scheduled.  *)

LEMMA RequestPutAway ==
    ASSUME TypeOK, Loaded, WorkerInv, NEW t \in Tasks, PutAway(t), NEW r \in Requests, Request(r)
    PROVE  \/ PutAway(t)'
           \/ /\ req[r].pc = "waiting" /\ req'[r].pc = "reschedule.save"
              /\ req'[r].copy.task = t
<1>1. \A c \in worker'.listed : c.task # t
    BY RequestKeepsWorker DEF PutAway
<1> DEFINE Harmless(table) ==
              \A q \in Requests : table[q].pc \in SavingPCs /\ table[q].copy.task = t
                                   => table[q].copy.row.status # "scheduled"
<1>2. Harmless(req)
    BY DEF PutAway
<1>3. ASSUME Finish(r)
      PROVE  Harmless(req')
    BY <1>2, <1>3 DEF Finish, Idle, SavingPCs, TypeOK
<1>4. CASE CreateCalendarEvent(r)
  <2>1. PICK u \in Tasks : task[u].status = "absent" /\ \E row : Save([task |-> u, row |-> row])
      BY <1>4 DEF CreateCalendarEvent
  <2>2. task'[t] = task[t]
      BY <2>1 DEF Save, TypeOK, PutAway
  <2> QED
      BY <1>1, <1>3, <1>4, <2>2 DEF CreateCalendarEvent, PutAway
<1>5. CASE UpdateCalendarEvent(r)
  <2>1. UNCHANGED task
      BY <1>5 DEF UpdateCalendarEvent
  <2>2. PICK u \in Rows, platform \in Platforms :
           \/ Load(r, "save", u, [task[u] EXCEPT !.platform = platform])
           \/ \E row : Load(r, "reschedule.save", u, row)
      BY <1>5 DEF UpdateCalendarEvent
  <2>3. CASE u = t /\ \E row : Load(r, "reschedule.save", u, row)
    <3>1. PICK row : Load(r, "reschedule.save", t, row)
        BY <2>3
    <3>2. req'[r] = [pc |-> "reschedule.save", copy |-> [task |-> t, row |-> row]]
        BY <3>1 DEF Load, TypeOK
    <3>3. req[r].pc = "waiting"
        BY <1>5 DEF UpdateCalendarEvent
    <3>4. req'[r].pc = "reschedule.save" /\ req'[r].copy.task = t
        BY <3>2
    <3> QED
        BY <3>3, <3>4
  <2>4. CASE u # t
    <3>1. Harmless(req')
        BY <1>2, <2>2, <2>4 DEF Load, TypeOK
    <3> QED
        BY <1>1, <2>1, <3>1 DEF PutAway
  <2>5. CASE u = t /\ Load(r, "save", u, [task[u] EXCEPT !.platform = platform])
    <3>1. [task[t] EXCEPT !.platform = platform].status = task[t].status
        BY <2>5, RowsType DEF TaskRow
    <3>2. Harmless(req')
        BY <1>2, <2>5, <3>1 DEF Load, TypeOK, PutAway
    <3> QED
        BY <1>1, <2>1, <3>2 DEF PutAway
  <2> QED
      BY <2>2, <2>3, <2>4, <2>5
<1>6. CASE ToggleTask(r)
  <2>1. PICK u \in Rows : Load(r, "save", u, [task[u] EXCEPT !.completed = ~@])
      BY <1>6 DEF ToggleTask
  <2>2. [task[u] EXCEPT !.completed = ~@].status = task[u].status
      BY RowsType DEF TaskRow
  <2>3. Harmless(req')
      BY <1>2, <2>1, <2>2 DEF Load, TypeOK, PutAway
  <2> QED
      BY <1>1, <1>6, <2>3 DEF ToggleTask, PutAway
<1>7. CASE Update(r)
  <2>1. req[r].copy \in Copies /\ Save(req[r].copy)
      BY <1>7 DEF Update, Loaded
  <2>2. task'[t].status \notin {"absent", "scheduled"}
    <3>1. CASE req[r].copy.task = t
      <4>1. task'[t] = req[r].copy.row /\ req[r].copy.row \in TaskRow
          BY <2>1, <3>1 DEF Save, TypeOK, Copies
      <4> QED
          BY <1>2, <1>7, <3>1, <4>1 DEF Update, TaskRow, Statuses
    <3>2. CASE req[r].copy.task # t
        BY <2>1, <3>2 DEF Save, TypeOK, PutAway
    <3> QED
        BY <3>1, <3>2
  <2> QED
      BY <1>1, <1>3, <1>7, <2>2 DEF Update, PutAway
<1>8. CASE UpdateFails(r)
    BY <1>1, <1>3, <1>8 DEF UpdateFails, PutAway
<1>9. CASE DeleteCalendarEvent(r)
  <2>1. task'[t].status \notin {"absent", "scheduled"}
      BY <1>9 DEF DeleteCalendarEvent, TypeOK, PutAway
  <2> QED
      BY <1>1, <1>3, <1>9, <2>1 DEF DeleteCalendarEvent, PutAway
<1> QED
    BY <1>4, <1>5, <1>6, <1>7, <1>8, <1>9 DEF Request

LEMMA WorkerPutAway ==
    ASSUME TypeOK, WorkerInv, NEW t \in Tasks, PutAway(t), runCalendarPublisher
    PROVE  PutAway(t)' /\ posts'[t] = posts[t]
<1>1. UNCHANGED req
    BY DEF runCalendarPublisher, FindProjects, FindDueScheduledTasks, SkipTask, PublishContent,
           PublishFails, UpdateTask, RunEnds
<1>2. SUFFICES /\ task'[t].status \notin {"absent", "scheduled"}
               /\ \A c \in worker'.listed : c.task # t
               /\ posts'[t] = posts[t]
    BY <1>1 DEF PutAway
<1>3. CASE FindProjects
    BY <1>3 DEF FindProjects, TypeOK, PutAway
<1>4. CASE FindDueScheduledTasks
  <2>1. worker'.listed = {[task |-> u, row |-> task[u]] : u \in {v \in Rows : Due(task[v])}}
      BY <1>4 DEF FindDueScheduledTasks, TypeOK
  <2>2. \A c \in worker'.listed : task[c.task].status = "scheduled"
      BY <2>1 DEF Due
  <2> QED
      BY <1>4, <2>2 DEF FindDueScheduledTasks, PutAway
<1>5. ASSUME NEW copy \in worker.listed, SkipTask(copy) \/ PublishContent(copy) \/ PublishFails(copy)
      PROVE  /\ UNCHANGED task
             /\ \A c \in worker'.listed : c.task # t
             /\ posts'[t] = posts[t]
    BY <1>5 DEF SkipTask, PublishContent, PublishFails, GoSave, Posted, TypeOK, Copies, PutAway
<1>6. CASE UpdateTask
  <2>1. /\ worker'.listed = worker.listed /\ posts' = posts
        /\ worker.copy \in Copies /\ worker.copy.row.status # "scheduled" /\ Save(worker.copy)
      BY <1>6 DEF UpdateTask, WorkerMovesOn, TypeOK, WorkerInv
  <2>2. task'[t] = task[t] \/ task'[t] = worker.copy.row
      BY <2>1 DEF Save, TypeOK
  <2>3. worker.copy.row.status \notin {"absent", "scheduled"}
      BY <2>1 DEF Copies, TaskRow, Statuses
  <2> QED
      BY <2>1, <2>2, <2>3 DEF PutAway
<1>7. CASE RunEnds
    BY <1>7 DEF RunEnds, WorkerIdle, PutAway
<1> QED
    BY <1>3, <1>4, <1>5, <1>6, <1>7 DEF runCalendarPublisher, PutAway

LEMMA EnvironmentPutAway ==
    ASSUME TypeOK, WorkerInv, NEW t \in Tasks, PutAway(t),
           WorkerFails \/ ServerRestarts \/ Tick \/ ProjectChanges \/ UNCHANGED vars
    PROVE  PutAway(t)' /\ posts'[t] = posts[t]
<1>1. CASE WorkerFails
  <2>1. worker'.listed \subseteq worker.listed
    <3>1. worker' = WorkerIdle \/ worker' = [worker EXCEPT !.pc = "posting", !.copy = NoCopy]
        BY <1>1 DEF WorkerFails, WorkerMovesOn
    <3>2. CASE worker' = WorkerIdle
        BY <3>2 DEF WorkerIdle
    <3>3. CASE worker' = [worker EXCEPT !.pc = "posting", !.copy = NoCopy]
        BY <3>3 DEF TypeOK
    <3> QED
        BY <3>1, <3>2, <3>3
  <2> QED
      BY <1>1, <2>1 DEF WorkerFails, PutAway
<1>2. CASE ServerRestarts
  <2>1. \A r \in Requests : req'[r].pc \notin SavingPCs
      BY <1>2 DEF ServerRestarts, Idle, SavingPCs
  <2> QED
      BY <1>2, <2>1 DEF ServerRestarts, WorkerIdle, PutAway
<1>3. CASE Tick \/ ProjectChanges \/ UNCHANGED vars
    BY <1>3 DEF Tick, ProjectChanges, vars, PutAway
<1> QED
    BY <1>1, <1>2, <1>3

\* A published, failed or deleted task that no process holds as scheduled is not
\* posted before a request gives it a new date.
THEOREM PutAwayStaysHolds == Spec => PutAwayStays
<1>1. Spec => [](TypeOK /\ Loaded /\ WorkerInv)
    BY InitTypes, NextTypes, PTL DEF Spec
<1> DEFINE Stays ==
              \A t \in Tasks : PutAway(t) =>
                 /\ posts'[t] = posts[t]
                 /\ \/ PutAway(t)'
                    \/ \E r \in Requests :
                          /\ req[r].pc = "waiting" /\ req'[r].pc = "reschedule.save"
                          /\ req'[r].copy.task = t
<1>2. TypeOK /\ Loaded /\ WorkerInv /\ [Next]_vars => Stays
  <2>1. SUFFICES ASSUME TypeOK, Loaded, WorkerInv, [Next]_vars, NEW t \in Tasks, PutAway(t)
                 PROVE  /\ posts'[t] = posts[t]
                        /\ \/ PutAway(t)'
                           \/ \E r \in Requests :
                                 /\ req[r].pc = "waiting" /\ req'[r].pc = "reschedule.save"
                                 /\ req'[r].copy.task = t
      OBVIOUS
  <2>2. CASE \E r \in Requests : Request(r)
      BY <2>1, <2>2, RequestPutAway, RequestKeepsWorker
  <2>3. CASE runCalendarPublisher
      BY <2>1, <2>3, WorkerPutAway
  <2>4. CASE WorkerFails \/ ServerRestarts \/ Tick \/ ProjectChanges \/ UNCHANGED vars
      BY <2>1, <2>4, EnvironmentPutAway
  <2> QED
      BY <2>1, <2>2, <2>3, <2>4 DEF Next
<1>3. TypeOK /\ Loaded /\ WorkerInv /\ [Next]_vars => [Stays]_vars
    BY <1>2
<1>4. Spec => [][Stays]_vars
    BY <1>1, <1>3, PTL DEF Spec
<1> QED
    BY <1>4 DEF PutAwayStays
=============================================================================
