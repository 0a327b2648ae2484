------------------------------ MODULE Projects ------------------------------
(***************************************************************************)
(* Projects, the SEO site quota, crawls and the issues they find.          *)
(*                                                                         *)
(* Three kinds of code write a project row: the requests of its owner, the *)
(* crawl goroutine that a Create leaves behind, and the HealthScorer.  All *)
(* of them read the row, work for a while and then write every column of   *)
(* what they read (db.Save).  As in Billing an action is one statement     *)
(* with the code up to the next; the goroutine of a Create is the          *)
(* continuation of its request.  A request that finds no such project or   *)
(* issue writes nothing and is left out.  A create waits when Projects has *)
(* no id left: the ids are a bound of the model.                           *)
(*                                                                         *)
(*   project[p]  the row of p; edit names the request whose values its     *)
(*               user-entered columns hold                                 *)
(*   open[p]     the crawls whose findings are open issues of p            *)
(*   scorer      the rows a run of the HealthScorer has listed and not     *)
(*               reached yet                                               *)
(***************************************************************************)
EXTENDS Entitlements, FiniteSets

CONSTANTS Projects,     \* the ids the projects table will hand out
          Owner,        \* the account that will create each of them
          Requests,     \* HTTP requests; each one arrives at most once
          Sender,       \* the account each request is sent for
          MaxInFlight,  \* bound on the requests and goroutines of an account
          DbMayFail     \* may a statement fail, or the server stop?

ASSUME ProjectAssumption ==
    /\ IsFiniteSet(Projects) /\ IsFiniteSet(Requests)
    /\ \E top \in Plans : \A p \in Plans : MaxSites[p] <= MaxSites[top]
    /\ Owner \in [Projects -> Users]
    /\ Sender \in [Requests -> Users]
    /\ MaxInFlight \in Nat \ {0}
    /\ DbMayFail \in BOOLEAN

VARIABLES
    project,
    open,
    mode,       \* users.dashboard_mode
    req,
    scorer,
    offBooks    \* history: accounts given an SEO project that nobody counted

vars == <<project, open, mode, req, scorer, offBooks>>

Modes == {"search", "social", "combined"}

CountedPCs == {"create.plan", "update.plan"}
LetThroughPCs == {"create.insert", "update.find"}
GatedPCs == CountedPCs \cup LetThroughPCs
HoldingPCs == {"onboard.mode", "update.save", "crawl.delete", "crawl.insert", "crawl.save"}
PCs == {"waiting", "done"} \cup GatedPCs \cup HoldingPCs

\* The columns of a project row that its owner enters, as a process holds them.
Copies == [project : Projects, goal : Goals, edit : Requests]
NoCopy == [project |-> "none"]

ProjectRow ==
    [state : {"live", "deleted"}, goal : Goals, edit : Requests] \cup {[state |-> "absent"]}

\* The locals of a request: its goal, the count the gate read, the row it holds;
\* each back at its first value when the handler reads it no more.
RequestState == [pc : PCs, goal : Goals, count : Nat, copy : Copies \cup {NoCopy}]

TypeOK ==
    /\ project \in [Projects -> ProjectRow]
    /\ open \in [Projects -> SUBSET Requests]
    /\ mode \in [Users -> Modes]
    /\ req \in [Requests -> RequestState]
    /\ scorer \in SUBSET Copies
    /\ offBooks \in SUBSET Users

InFlight(u) ==
    {r \in Requests : Sender[r] = u /\ req[r].pc \notin {"waiting", "done"}}

Idle(pc) == [pc |-> pc, goal |-> "social", count |-> 0, copy |-> NoCopy]

Holding(pc, copy) == [pc |-> pc, goal |-> "social", count |-> 0, copy |-> copy]

Init ==
    /\ project = [p \in Projects |-> [state |-> "absent"]]
    /\ open = [p \in Projects |-> {}]
    /\ mode = [u \in Users |-> "combined"]
    /\ req = [r \in Requests |-> Idle("waiting")]
    /\ scorer = {}
    /\ offBooks = {}

-----------------------------------------------------------------------------
Arrives(r) ==
    /\ req[r].pc = "waiting"
    /\ Cardinality(InFlight(Sender[r])) < MaxInFlight

GoTo(r, pc) == req' = [req EXCEPT ![r].pc = pc]

Finish(r) == req' = [req EXCEPT ![r] = Idle("done")]

\* A bug: soft-deleted rows are found too.
FindUnscoped(u) == {p \in Projects : Owner[p] = u /\ project[p].state # "absent"}

\* The projects a query finds: GORM leaves soft-deleted rows out.
FindAllByUser(u) == {p \in Projects : Owner[p] = u /\ project[p].state = "live"}

FindAll == {p \in Projects : project[p].state = "live"}

LiveSEO(u) == {p \in FindAllByUser(u) : project[p].goal \in SEOGoals}

CopyOf(p) == [project |-> p, goal |-> project[p].goal, edit |-> project[p].edit]

\* db.Save: UPDATE ... WHERE id = p AND deleted_at IS NULL, and when that hits no
\* row an INSERT ... ON CONFLICT DO UPDATE of every column, deleted_at = NULL with
\* them.  Either way the row ends live, with the columns the process held.
Save(copy) ==
    project' = [project EXCEPT ![copy.project] =
                    [state |-> "live", goal |-> copy.goal, edit |-> copy.edit]]

-----------------------------------------------------------------------------
(* The quota gate: count the SEO projects, then look the plan up.          *)

\* What the gate takes for the count.  An error of the query is dropped, and the
\* count is then zero.
CountSEOByUser(u) ==
    {Cardinality(LiveSEO(u))} \cup (IF DbMayFail THEN {0} ELSE {})

\* A bug: the projects are not counted.
GateUncounted(r, goal, pc) ==
    /\ req' = [req EXCEPT ![r].pc = pc, ![r].goal = goal]
    /\ UNCHANGED offBooks

GateCount(r, goal, pc) ==
    \E n \in CountSEOByUser(Sender[r]) :
        /\ req' = [req EXCEPT ![r].pc = pc, ![r].goal = goal, ![r].count = n]
        /\ offBooks' = IF goal \in SEOGoals /\ n # Cardinality(LiveSEO(Sender[r]))
                       THEN offBooks \cup {Sender[r]} ELSE offBooks

\* The subscription is resolved, to any plan: the billing requests of the account
\* run beside this one.  A request over the limit of the plan gets a 403.
GatePlan(r, pc) ==
    \E plan \in Plans :
        IF CanCreateSEOProject(req[r].goal, req[r].count, plan)
        THEN req' = [req EXCEPT ![r].pc = pc, ![r].count = 0]
        ELSE Finish(r)

-----------------------------------------------------------------------------
\* POST /api/projects and POST /api/onboard
CreateCount(r) ==
    /\ Arrives(r)
    /\ \E goal \in Goals : GateCount(r, goal, "create.plan")
    /\ UNCHANGED <<project, open, mode, scorer>>

CreatePlan(r) ==
    /\ req[r].pc = "create.plan"
    /\ GatePlan(r, "create.insert")
    /\ UNCHANGED <<project, open, mode, scorer, offBooks>>

\* A Create is answered here and goes on as autoSyncNewProject; an Onboard first
\* sets the dashboard mode.
CreateInsert(r) ==
    /\ req[r].pc = "create.insert"
    /\ \E p \in Projects, pc \in {"onboard.mode", "crawl.delete"} :
          LET row == [project |-> p, goal |-> req[r].goal, edit |-> r]
          IN  /\ Owner[p] = Sender[r] /\ project[p].state = "absent"
              /\ Save(row)
              /\ req' = [req EXCEPT ![r] = Holding(pc, row)]
    /\ UNCHANGED <<open, mode, scorer, offBooks>>

\* A bug: the goal is stored as it is.
ModeIsGoal(goal) == goal

dashboardModeFromGoal(goal) ==
    CASE goal = "seo" -> "search"
      [] goal = "social" -> "social"
      [] OTHER -> "combined"

OnboardMode(r) ==
    /\ req[r].pc = "onboard.mode"
    /\ mode' = [mode EXCEPT ![Sender[r]] = dashboardModeFromGoal(req[r].copy.goal)]
    /\ GoTo(r, "crawl.delete")
    /\ UNCHANGED <<project, open, scorer, offBooks>>

-----------------------------------------------------------------------------
\* PATCH /api/projects/:id, which ProjectGuard lets in for a live project only
UpdateCount(r) ==
    /\ Arrives(r)
    /\ FindAllByUser(Sender[r]) # {}
    /\ \E goal \in Goals : GateCount(r, goal, "update.plan")
    /\ UNCHANGED <<project, open, mode, scorer>>

UpdatePlan(r) ==
    /\ req[r].pc = "update.plan"
    /\ GatePlan(r, "update.find")
    /\ UNCHANGED <<project, open, mode, scorer, offBooks>>

\* The row is loaded and its user-entered columns overwritten; an id of no live
\* project of the account is a 404.
UpdateFind(r) ==
    /\ req[r].pc = "update.find"
    /\ \/ \E p \in FindAllByUser(Sender[r]) :
             req' = [req EXCEPT ![r] =
                        Holding("update.save", [project |-> p, goal |-> req[r].goal, edit |-> r])]
       \/ Finish(r)
    /\ UNCHANGED <<project, open, mode, scorer, offBooks>>

UpdateSave(r) ==
    /\ req[r].pc = "update.save"
    /\ Save(req[r].copy)
    /\ Finish(r)
    /\ UNCHANGED <<open, mode, scorer, offBooks>>

\* DELETE /api/projects/:id
Delete(r) ==
    /\ Arrives(r)
    /\ \E p \in FindAllByUser(Sender[r]) :
          project' = [project EXCEPT ![p].state = "deleted"]
    /\ Finish(r)
    /\ UNCHANGED <<open, mode, scorer, offBooks>>

-----------------------------------------------------------------------------
(* A crawl: SyncProject, AuditRun, and autoSyncNewProject after a Create.  *)

\* POST /api/projects/:id/sync and POST /api/seo/audit/run load the row.
CrawlFind(r) ==
    /\ Arrives(r)
    /\ \E p \in FindAllByUser(Sender[r]) :
          req' = [req EXCEPT ![r] = Holding("crawl.delete", CopyOf(p))]
    /\ UNCHANGED <<project, open, mode, scorer, offBooks>>

\* The project has no URL, or the site cannot be crawled.
CrawlFails(r) ==
    /\ req[r].pc = "crawl.delete"
    /\ Finish(r)
    /\ UNCHANGED <<project, open, mode, scorer, offBooks>>

\* A bug: the issues of earlier crawls are left open.
CrawlKeepsIssues(r) ==
    /\ req[r].pc = "crawl.delete"
    /\ GoTo(r, "crawl.insert")
    /\ UNCHANGED <<project, open, mode, scorer, offBooks>>

\* ReplaceOpenIssues, a statement each: the open issues go, the findings come.
CrawlDeleteIssues(r) ==
    /\ req[r].pc = "crawl.delete"
    /\ open' = [open EXCEPT ![req[r].copy.project] = {}]
    /\ GoTo(r, "crawl.insert")
    /\ UNCHANGED <<project, mode, scorer, offBooks>>

CrawlInsertIssues(r) ==
    /\ req[r].pc = "crawl.insert"
    /\ \E findings \in SUBSET {r} :
          open' = [open EXCEPT ![req[r].copy.project] = @ \cup findings]
    /\ GoTo(r, "crawl.save")
    /\ UNCHANGED <<project, mode, scorer, offBooks>>

\* The score is written with the row that was loaded before the crawl.
CrawlSave(r) ==
    /\ req[r].pc = "crawl.save"
    /\ Save(req[r].copy)
    /\ Finish(r)
    /\ UNCHANGED <<open, mode, scorer, offBooks>>

\* PUT /api/seo/issues/:id resolves the last open issue that crawl q found.
ResolveIssue(r) ==
    /\ Arrives(r)
    /\ \E p \in Projects : \E q \in open[p] : open' = [open EXCEPT ![p] = @ \ {q}]
    /\ Finish(r)
    /\ UNCHANGED <<project, mode, scorer, offBooks>>

-----------------------------------------------------------------------------
(* HealthScorer, at startup and every 24 hours.                            *)

ScorerList ==
    /\ scorer = {}
    /\ scorer' = {CopyOf(p) : p \in FindAll}
    /\ UNCHANGED <<project, open, mode, req, offBooks>>

\* A bug: p := &projects[i] is one variable for all iterations, so the columns of
\* one project are saved under the id of another.
ScorerSaveAliased(copy) ==
    /\ \E p \in Projects :
          /\ project[p].state = "live"
          /\ Save([copy EXCEPT !.project = p])
    /\ scorer' = scorer \ {copy}
    /\ UNCHANGED <<open, mode, req, offBooks>>

ScorerSave(copy) ==
    LET p == copy.project
    IN  /\ Save(copy)
        /\ scorer' = scorer \ {copy}
        /\ offBooks' = IF copy.goal \in SEOGoals /\ p \notin LiveSEO(Owner[p])
                       THEN offBooks \cup {Owner[p]} ELSE offBooks
        /\ UNCHANGED <<open, mode, req>>

\* No URL, a failed crawl, a failed update, or the server stops.
ScorerSkip(copy) ==
    /\ scorer' = scorer \ {copy}
    /\ UNCHANGED <<project, open, mode, req, offBooks>>

HealthScorer ==
    \/ ScorerList
    \/ \E copy \in scorer : ScorerSave(copy) \/ ScorerSkip(copy)

-----------------------------------------------------------------------------
\* The statement r is about to send fails.  The handlers drop the errors of the
\* dashboard mode and of ReplaceOpenIssues and go on; every other error ends r.
StatementFails(r) ==
    /\ DbMayFail
    /\ req[r].pc \notin {"waiting", "done"}
    /\ CASE req[r].pc = "onboard.mode" -> GoTo(r, "crawl.delete")
         [] req[r].pc \in {"crawl.delete", "crawl.insert"} -> GoTo(r, "crawl.save")
         [] OTHER -> Finish(r)
    /\ UNCHANGED <<project, open, mode, scorer, offBooks>>

\* The server stops: r is never heard of again.
ServerStops(r) ==
    /\ DbMayFail
    /\ req[r].pc \notin {"waiting", "done"}
    /\ Finish(r)
    /\ UNCHANGED <<project, open, mode, scorer, offBooks>>

Create(r) == CreateCount(r) \/ CreatePlan(r) \/ CreateInsert(r) \/ OnboardMode(r)

Update(r) == UpdateCount(r) \/ UpdatePlan(r) \/ UpdateFind(r) \/ UpdateSave(r)

Crawl(r) ==
    \/ CrawlFind(r) \/ CrawlFails(r) \/ CrawlDeleteIssues(r) \/ CrawlInsertIssues(r)
    \/ CrawlSave(r)

Next ==
    \/ \E r \in Requests :
          \/ Create(r) \/ Update(r) \/ Delete(r) \/ Crawl(r) \/ ResolveIssue(r)
          \/ StatementFails(r) \/ ServerStops(r)
    \/ HealthScorer

Spec == Init /\ [][Next]_vars

-----------------------------------------------------------------------------
(***************************************************************************)
(* Properties                                                              *)
(***************************************************************************)
\* The requests that hold a project row and may still save it.
Holders == {r \in Requests : req[r].pc \in HoldingPCs}

\* The largest limit any plan grants.
LargestLimit ==
    MaxSites[CHOOSE top \in Plans : \A p \in Plans : MaxSites[p] <= MaxSites[top]]

\* The projects of u that take an SEO site, or will when a held row is saved.
Slots(u) ==
    LiveSEO(u) \cup {req[r].copy.project : r \in {h \in Holders : /\ Sender[h] = u
                                                                 /\ req[h].copy.goal \in SEOGoals}}

\* The requests of u that have been let through, or have read a count that may let
\* them through, and hold no row yet.
Gated(u) ==
    {r \in InFlight(u) :
        /\ req[r].goal \in SEOGoals
        /\ \/ req[r].pc \in LetThroughPCs
           \/ req[r].pc \in CountedPCs /\ req[r].count < LargestLimit}

\* The check of the quota and the write it allows are not one step, and a deleted
\* project comes back when a crawl saves it.  Even so the quota is overrun by no
\* more than the requests and goroutines the account had in flight beside the one
\* that was let through, unless the count failed or the HealthScorer brought an
\* SEO project back.
QuotaBound ==
    \A u \in Users \ offBooks :
        Cardinality(Slots(u)) + Cardinality(Gated(u)) <= LargestLimit - 1 + MaxInFlight

\* A project shows the findings of at most as many crawls as overlapped.
IssuesBound ==
    \A p \in Projects :
        LET inserting == {r \in Requests : req[r].pc = "crawl.insert" /\ req[r].copy.project = p}
        IN  Cardinality(open[p]) + Cardinality(inserting) <= MaxInFlight

HeldByNobody(p) ==
    /\ \A r \in Holders : req[r].copy.project # p
    /\ \A copy \in scorer : copy.project # p

\* A deleted project comes back only through a row loaded before the delete: once
\* nobody holds one, it is gone for good.
DeletedStaysDeleted ==
    [][\A p \in Projects :
          project[p].state = "deleted" /\ HeldByNobody(p)
            => (project[p].state = "deleted" /\ HeldByNobody(p))']_vars

\* Every row of p that a crawl or the HealthScorer holds has p's current columns.
EditSettled(p) ==
    /\ \A r \in Holders : req[r].copy.project = p /\ req[r].pc # "update.save"
                            => req[r].copy.edit = project[p].edit
    /\ \A copy \in scorer : copy.project = p => copy.edit = project[p].edit

\* An owner's edit is lost only to a row loaded before it: when nobody holds an
\* older row, nothing but another edit changes the user-entered columns.
EditKept ==
    [][\A p \in Projects :
          /\ project[p].state # "absent" /\ EditSettled(p)
          /\ \A r \in Requests : UpdateSave(r) => req[r].copy.project # p
          => project'[p].edit = project[p].edit /\ EditSettled(p)']_vars

-----------------------------------------------------------------------------
(* What the repository says of this code, and the code does not keep.      *)

\* "Delete soft-deletes a project": a project its owner deleted stays deleted.
DeleteIsFinal ==
    [][\A p \in Projects :
          project[p].state = "deleted" => project'[p].state = "deleted"]_vars
=============================================================================
