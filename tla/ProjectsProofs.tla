--------------------------- MODULE ProjectsProofs ---------------------------
(***************************************************************************)
(* What Projects guarantees for every set of accounts, projects, requests  *)
(* and plans, and every bound on the requests in flight.                   *)
(***************************************************************************)
EXTENDS Projects, TLAPS, FiniteSetTheorems

\* Type correctness, and what ties the row a request holds to the request: it has
\* one exactly while it is crawling, editing or setting the dashboard mode.
HeldRows ==
    /\ \A r \in Requests : req[r].pc \in HoldingPCs =>
          /\ req[r].copy \in Copies
          /\ Owner[req[r].copy.project] = Sender[r]
          /\ project[req[r].copy.project].state # "absent"
    /\ \A copy \in scorer : project[copy.project].state # "absent"

LEMMA CopyType ==
    ASSUME TypeOK, NEW p \in Projects, project[p].state # "absent"
    PROVE  /\ CopyOf(p) \in Copies
           /\ project[p] \in [state : {"live", "deleted"}, goal : Goals, edit : Requests]
  BY DEF TypeOK, CopyOf, Copies, ProjectRow

LEMMA SaveType ==
    ASSUME TypeOK, NEW copy \in Copies, Save(copy)
    PROVE  /\ project' \in [Projects -> ProjectRow]
           /\ project'[copy.project].state = "live"
           /\ project'[copy.project].goal = copy.goal
           /\ project'[copy.project].edit = copy.edit
           /\ \A p \in Projects : p # copy.project => project'[p] = project[p]
           /\ \A p \in Projects : project[p].state # "absent" => project'[p].state # "absent"
  BY DEF TypeOK, Save, Copies, ProjectRow

LEMMA IdleType == \A pc \in PCs : Idle(pc) \in RequestState
  BY DEF Idle, RequestState, Goals

LEMMA HoldingType ==
    \A pc \in PCs, copy \in Copies : Holding(pc, copy) \in RequestState
  BY DEF Holding, RequestState, Goals

LEMMA TypeInit == Init => TypeOK /\ HeldRows
  BY ProjectAssumption, IdleType
  DEF Init, TypeOK, HeldRows, ProjectRow, PCs, HoldingPCs, Modes, Idle

\* What an action does to the state of requests: only r's changes.
LEMMA RequestStep ==
    ASSUME TypeOK, HeldRows, NEW r \in Requests,
           \/ Create(r) \/ Update(r) \/ Delete(r) \/ Crawl(r) \/ ResolveIssue(r)
           \/ StatementFails(r) \/ ServerStops(r)
    PROVE  /\ req' \in [Requests -> RequestState]
           /\ \A q \in Requests \ {r} : req'[q] = req[q]
  <1> USE DEF TypeOK
  <1>g. ASSUME NEW pc \in PCs, GoTo(r, pc)
        PROVE  /\ req' \in [Requests -> RequestState]
               /\ \A q \in Requests \ {r} : req'[q] = req[q]
    BY <1>g DEF GoTo, RequestState
  <1>f. ASSUME Finish(r)
        PROVE  /\ req' \in [Requests -> RequestState]
               /\ \A q \in Requests \ {r} : req'[q] = req[q]
    BY <1>f, IdleType DEF Finish, PCs
  <1>h. ASSUME NEW pc \in PCs, NEW copy \in Copies,
               req' = [req EXCEPT ![r] = Holding(pc, copy)]
        PROVE  /\ req' \in [Requests -> RequestState]
               /\ \A q \in Requests \ {r} : req'[q] = req[q]
    BY <1>h, HoldingType
  <1>c. ASSUME NEW goal \in Goals, NEW pc \in PCs, GateCount(r, goal, pc)
        PROVE  /\ req' \in [Requests -> RequestState]
               /\ \A q \in Requests \ {r} : req'[q] = req[q]
    <2>1. LiveSEO(Sender[r]) \in SUBSET Projects
      BY DEF LiveSEO, FindAllByUser
    <2>2. CountSEOByUser(Sender[r]) \subseteq Nat
      BY <2>1, ProjectAssumption, FS_Subset, FS_CardinalityType DEF CountSEOByUser
    <2>3. PICK n \in Nat :
            req' = [req EXCEPT ![r].pc = pc, ![r].goal = goal, ![r].count = n]
      BY <1>c, <2>2 DEF GateCount
    <2>4. QED BY <2>3 DEF RequestState
  <1>p. ASSUME NEW pc \in PCs, GatePlan(r, pc)
        PROVE  /\ req' \in [Requests -> RequestState]
               /\ \A q \in Requests \ {r} : req'[q] = req[q]
    <2>1. req' = [req EXCEPT ![r].pc = pc, ![r].count = 0] \/ Finish(r)
      BY <1>p DEF GatePlan
    <2>2. CASE Finish(r)
      BY <2>2, <1>f
    <2>3. CASE req' = [req EXCEPT ![r].pc = pc, ![r].count = 0]
      BY <2>3 DEF RequestState
    <2>4. QED BY <2>1, <2>2, <2>3
  <1>0. /\ "create.plan" \in PCs /\ "create.insert" \in PCs /\ "update.plan" \in PCs
        /\ "update.find" \in PCs /\ "onboard.mode" \in PCs /\ "update.save" \in PCs
        /\ "crawl.delete" \in PCs /\ "crawl.insert" \in PCs /\ "crawl.save" \in PCs
    BY DEF PCs, GatedPCs, CountedPCs, LetThroughPCs, HoldingPCs
  <1>1. CASE CreateCount(r)
    BY <1>1, <1>0, <1>c DEF CreateCount
  <1>2. CASE CreatePlan(r)
    BY <1>2, <1>0, <1>p DEF CreatePlan
  <1>3. CASE CreateInsert(r)
    <2>1. PICK p \in Projects, pc \in {"onboard.mode", "crawl.delete"} :
            req' = [req EXCEPT ![r] = Holding(pc, [project |-> p, goal |-> req[r].goal, edit |-> r])]
      BY <1>3 DEF CreateInsert
    <2>2. [project |-> p, goal |-> req[r].goal, edit |-> r] \in Copies
      BY DEF Copies, RequestState
    <2>3. QED BY <1>0, <1>h, <2>1, <2>2
  <1>4. CASE OnboardMode(r)
    BY <1>4, <1>0, <1>g DEF OnboardMode
  <1>5. CASE UpdateCount(r)
    BY <1>5, <1>0, <1>c DEF UpdateCount
  <1>6. CASE UpdatePlan(r)
    BY <1>6, <1>0, <1>p DEF UpdatePlan
  <1>7. CASE UpdateFind(r)
    <2>1. CASE Finish(r)
      BY <2>1, <1>f
    <2>2. CASE ~ Finish(r)
      <3>1. PICK p \in FindAllByUser(Sender[r]) :
              req' = [req EXCEPT ![r] =
                Holding("update.save", [project |-> p, goal |-> req[r].goal, edit |-> r])]
        BY <1>7, <2>2 DEF UpdateFind
      <3>2. [project |-> p, goal |-> req[r].goal, edit |-> r] \in Copies
        BY DEF Copies, RequestState, FindAllByUser
      <3>3. QED BY <1>0, <1>h, <3>1, <3>2
    <2>3. QED BY <2>1, <2>2
  <1>8. CASE UpdateSave(r) \/ Delete(r) \/ ResolveIssue(r) \/ CrawlFails(r) \/ CrawlSave(r)
             \/ ServerStops(r)
    BY <1>8, <1>f DEF UpdateSave, Delete, ResolveIssue, CrawlFails, CrawlSave, ServerStops
  <1>9. CASE CrawlFind(r)
    <2>1. PICK p \in FindAllByUser(Sender[r]) :
            req' = [req EXCEPT ![r] = Holding("crawl.delete", CopyOf(p))]
      BY <1>9 DEF CrawlFind
    <2>2. CopyOf(p) \in Copies
      BY CopyType DEF FindAllByUser
    <2>3. QED BY <1>0, <1>h, <2>1, <2>2
  <1>10. CASE CrawlDeleteIssues(r) \/ CrawlInsertIssues(r)
    BY <1>10, <1>0, <1>g DEF CrawlDeleteIssues, CrawlInsertIssues
  <1>11. CASE StatementFails(r)
    <2>1. Finish(r) \/ GoTo(r, "crawl.delete") \/ GoTo(r, "crawl.save")
      BY <1>11 DEF StatementFails
    <2>2. QED BY <2>1, <1>0, <1>f, <1>g
  <1>12. QED
    BY <1>1, <1>2, <1>3, <1>4, <1>5, <1>6, <1>7, <1>8, <1>9, <1>10, <1>11
    DEF Create, Update, Crawl

\* The tables keep their types, and no step takes a row away.
TablesKept ==
    /\ project' \in [Projects -> ProjectRow]
    /\ open' \in [Projects -> SUBSET Requests]
    /\ mode' \in [Users -> Modes]
    /\ scorer' \in SUBSET Copies
    /\ offBooks' \in SUBSET Users
    /\ \A p \in Projects : project[p].state # "absent" => project'[p].state # "absent"

LEMMA TableStep == ASSUME TypeOK, HeldRows, Next PROVE TablesKept
  <1> USE DEF TypeOK, TablesKept
  <1>1. ASSUME NEW r \in Requests, Create(r) PROVE TablesKept
    <2>1. CASE CreateCount(r)
      BY <2>1, ProjectAssumption DEF CreateCount, GateCount
    <2>2. CASE CreatePlan(r)
      BY <2>2 DEF CreatePlan
    <2>3. CASE CreateInsert(r)
      <3>1. PICK p \in Projects :
              Save([project |-> p, goal |-> req[r].goal, edit |-> r])
        BY <2>3 DEF CreateInsert
      <3>2. [project |-> p, goal |-> req[r].goal, edit |-> r] \in Copies
        BY DEF Copies, RequestState
      <3>3. QED BY <2>3, <3>1, <3>2, SaveType DEF CreateInsert
    <2>4. CASE OnboardMode(r)
      BY <2>4 DEF OnboardMode, dashboardModeFromGoal, Modes
    <2>5. QED BY <1>1, <2>1, <2>2, <2>3, <2>4 DEF Create
  <1>2. ASSUME NEW r \in Requests, Update(r) PROVE TablesKept
    <2>1. CASE UpdateCount(r)
      BY <2>1, ProjectAssumption DEF UpdateCount, GateCount
    <2>2. CASE UpdatePlan(r) \/ UpdateFind(r)
      BY <2>2 DEF UpdatePlan, UpdateFind
    <2>3. CASE UpdateSave(r)
      <3>1. req[r].copy \in Copies
        BY <2>3 DEF UpdateSave, HeldRows, HoldingPCs
      <3>2. QED BY <2>3, <3>1, SaveType DEF UpdateSave
    <2>4. QED BY <1>2, <2>1, <2>2, <2>3 DEF Update
  <1>3. ASSUME NEW r \in Requests, Delete(r) PROVE TablesKept
    <2>1. PICK p \in FindAllByUser(Sender[r]) :
            project' = [project EXCEPT ![p].state = "deleted"]
      BY <1>3 DEF Delete
    <2>2. p \in Projects /\ project[p] \in [state : {"live", "deleted"}, goal : Goals, edit : Requests]
      BY CopyType DEF FindAllByUser
    <2>3. QED BY <1>3, <2>1, <2>2 DEF Delete, ProjectRow
  <1>4. ASSUME NEW r \in Requests, Crawl(r) PROVE TablesKept
    <2>1. CASE CrawlFind(r) \/ CrawlFails(r)
      BY <2>1 DEF CrawlFind, CrawlFails
    <2>2. CASE CrawlDeleteIssues(r)
      BY <2>2 DEF CrawlDeleteIssues
    <2>3. CASE CrawlInsertIssues(r)
      BY <2>3 DEF CrawlInsertIssues
    <2>4. CASE CrawlSave(r)
      <3>1. req[r].copy \in Copies
        BY <2>4 DEF CrawlSave, HeldRows, HoldingPCs
      <3>2. QED BY <2>4, <3>1, SaveType DEF CrawlSave
    <2>5. QED BY <1>4, <2>1, <2>2, <2>3, <2>4 DEF Crawl
  <1>5. ASSUME NEW r \in Requests, ResolveIssue(r) PROVE TablesKept
    BY <1>5 DEF ResolveIssue
  <1>6. ASSUME NEW r \in Requests, StatementFails(r) \/ ServerStops(r) PROVE TablesKept
    BY <1>6 DEF StatementFails, ServerStops
  <1>7. ASSUME HealthScorer PROVE TablesKept
    <2>1. CASE ScorerList
      <3>1. \A p \in FindAll : CopyOf(p) \in Copies
        BY CopyType DEF FindAll
      <3>2. QED BY <2>1, <3>1 DEF ScorerList
    <2>2. ASSUME NEW copy \in scorer, ScorerSave(copy) PROVE TablesKept
      <3>1. copy \in Copies /\ Owner[copy.project] \in Users
        BY ProjectAssumption DEF Copies
      <3>2. QED BY <2>2, <3>1, SaveType DEF ScorerSave
    <2>3. ASSUME NEW copy \in scorer, ScorerSkip(copy) PROVE TablesKept
      BY <2>3 DEF ScorerSkip
    <2>4. QED BY <1>7, <2>1, <2>2, <2>3 DEF HealthScorer
  <1>8. QED BY <1>1, <1>2, <1>3, <1>4, <1>5, <1>6, <1>7 DEF Next

LEMMA TypeStep == TypeOK /\ HeldRows /\ [Next]_vars => TypeOK'
  <1> SUFFICES ASSUME TypeOK, HeldRows, [Next]_vars PROVE TypeOK'
    OBVIOUS
  <1>1. CASE Next
    <2>1. req' \in [Requests -> RequestState]
      <3>1. CASE HealthScorer
        BY <3>1 DEF HealthScorer, ScorerList, ScorerSave, ScorerSkip, TypeOK
      <3>2. CASE ~ HealthScorer
        BY <1>1, <3>2, RequestStep DEF Next
      <3>3. QED BY <3>1, <3>2
    <2>2. QED BY <1>1, <2>1, TableStep DEF TypeOK, TablesKept
  <1>2. CASE UNCHANGED vars
    BY <1>2 DEF vars, TypeOK
  <1>3. QED BY <1>1, <1>2

HeldBy(r) ==
    req[r].pc \in HoldingPCs =>
        /\ req[r].copy \in Copies
        /\ Owner[req[r].copy.project] = Sender[r]
        /\ project[req[r].copy.project].state # "absent"

\* A request gets a row it may hold, and keeps the one it has until it is done.
LEMMA HeldByStep ==
    ASSUME TypeOK, HeldRows, NEW r \in Requests, TablesKept,
           \/ Create(r) \/ Update(r) \/ Delete(r) \/ Crawl(r) \/ ResolveIssue(r)
           \/ StatementFails(r) \/ ServerStops(r)
    PROVE  HeldBy(r)'
  <1>f. ASSUME Finish(r) PROVE HeldBy(r)'
    BY <1>f DEF Finish, Idle, HeldBy, HoldingPCs, TypeOK
  <1>k. ASSUME NEW pc, GoTo(r, pc), req[r].pc \in HoldingPCs PROVE HeldBy(r)'
    <2>1. req'[r].copy = req[r].copy
      BY <1>k DEF GoTo, TypeOK, RequestState
    <2>2. req[r].copy \in Copies /\ req[r].copy.project \in Projects
      BY <1>k DEF HeldRows, Copies
    <2>3. QED BY <1>k, <2>1, <2>2 DEF HeldBy, HeldRows, TablesKept
  <1>h. ASSUME NEW pc, NEW copy \in Copies, req'[r] = Holding(pc, copy),
               Owner[copy.project] = Sender[r], project'[copy.project].state # "absent"
        PROVE  HeldBy(r)'
    BY <1>h DEF HeldBy, Holding
  <1>n. ASSUME req'[r].pc \notin HoldingPCs PROVE HeldBy(r)'
    BY <1>n DEF HeldBy
  <1>1. CASE CreateCount(r) \/ UpdateCount(r)
    <2>1. req'[r].pc \in {"create.plan", "update.plan"}
      BY <1>1 DEF CreateCount, UpdateCount, GateCount, TypeOK, RequestState
    <2>2. QED BY <1>n, <2>1 DEF HoldingPCs
  <1>2. CASE CreatePlan(r) \/ UpdatePlan(r)
    <2>1. Finish(r) \/ req'[r].pc \in {"create.insert", "update.find"}
      BY <1>2 DEF CreatePlan, UpdatePlan, GatePlan, TypeOK, RequestState
    <2>2. QED BY <1>n, <1>f, <2>1 DEF HoldingPCs
  <1>3. CASE CreateInsert(r)
    <2>1. PICK p \in Projects, pc \in {"onboard.mode", "crawl.delete"} :
            /\ Owner[p] = Sender[r]
            /\ Save([project |-> p, goal |-> req[r].goal, edit |-> r])
            /\ req' = [req EXCEPT ![r] = Holding(pc, [project |-> p, goal |-> req[r].goal, edit |-> r])]
      BY <1>3 DEF CreateInsert
    <2>2. [project |-> p, goal |-> req[r].goal, edit |-> r] \in Copies
      BY DEF Copies, RequestState, TypeOK
    <2>3. project'[p].state = "live"
      <3> DEFINE row == [project |-> p, goal |-> req[r].goal, edit |-> r]
      <3>1. row \in Copies /\ row.project = p /\ Save(row)
        BY <2>1, <2>2
      <3> HIDE DEF row
      <3>2. QED BY <3>1, SaveType
    <2>4. req'[r] = Holding(pc, [project |-> p, goal |-> req[r].goal, edit |-> r])
      BY <2>1 DEF TypeOK
    <2>5. QED BY <1>h, <2>1, <2>2, <2>3, <2>4
  <1>4. CASE OnboardMode(r) \/ CrawlDeleteIssues(r) \/ CrawlInsertIssues(r)
    BY <1>4, <1>k DEF OnboardMode, CrawlDeleteIssues, CrawlInsertIssues, HoldingPCs
  <1>5. CASE UpdateFind(r)
    <2>1. CASE Finish(r)
      BY <2>1, <1>f
    <2>2. CASE ~ Finish(r)
      <3>1. PICK p \in FindAllByUser(Sender[r]) :
              req' = [req EXCEPT ![r] =
                Holding("update.save", [project |-> p, goal |-> req[r].goal, edit |-> r])]
        BY <1>5, <2>2 DEF UpdateFind
      <3>2. [project |-> p, goal |-> req[r].goal, edit |-> r] \in Copies
        BY DEF Copies, RequestState, FindAllByUser, TypeOK
      <3>3. req'[r] = Holding("update.save", [project |-> p, goal |-> req[r].goal, edit |-> r])
        BY <3>1 DEF TypeOK
      <3>4. p \in Projects /\ Owner[p] = Sender[r] /\ project'[p].state # "absent"
        BY DEF FindAllByUser, TablesKept
      <3>5. QED BY <1>h, <3>2, <3>3, <3>4
    <2>3. QED BY <2>1, <2>2
  <1>6. CASE UpdateSave(r) \/ Delete(r) \/ ResolveIssue(r) \/ CrawlFails(r) \/ CrawlSave(r)
             \/ ServerStops(r)
    BY <1>6, <1>f DEF UpdateSave, Delete, ResolveIssue, CrawlFails, CrawlSave, ServerStops
  <1>7. CASE CrawlFind(r)
    <2>1. PICK p \in FindAllByUser(Sender[r]) :
            req' = [req EXCEPT ![r] = Holding("crawl.delete", CopyOf(p))]
      BY <1>7 DEF CrawlFind
    <2>2. CopyOf(p) \in Copies /\ CopyOf(p).project = p
      BY CopyType DEF FindAllByUser, CopyOf
    <2>3. req'[r] = Holding("crawl.delete", CopyOf(p))
      BY <2>1 DEF TypeOK
    <2>4. p \in Projects /\ Owner[p] = Sender[r] /\ project'[p].state # "absent"
      BY DEF FindAllByUser, TablesKept
    <2>5. QED BY <1>h, <2>2, <2>3, <2>4
  <1>8. CASE StatementFails(r)
    <2>1. \/ Finish(r)
          \/ req[r].pc \in HoldingPCs /\ (GoTo(r, "crawl.delete") \/ GoTo(r, "crawl.save"))
      BY <1>8 DEF StatementFails, HoldingPCs
    <2>2. QED BY <2>1, <1>f, <1>k
  <1>9. QED
    BY <1>1, <1>2, <1>3, <1>4, <1>5, <1>6, <1>7, <1>8 DEF Create, Update, Crawl

LEMMA HeldStep == TypeOK /\ HeldRows /\ [Next]_vars => HeldRows'
  <1> SUFFICES ASSUME TypeOK, HeldRows, [Next]_vars PROVE HeldRows'
    OBVIOUS
  <1>1. ASSUME NEW r \in Requests,
               \/ Create(r) \/ Update(r) \/ Delete(r) \/ Crawl(r) \/ ResolveIssue(r)
               \/ StatementFails(r) \/ ServerStops(r)
        PROVE  HeldRows'
    <2>1. TablesKept
      BY <1>1, TableStep DEF Next
    <2>2. HeldBy(r)'
      BY <1>1, <2>1, HeldByStep
    <2>3. ASSUME NEW q \in Requests, q # r PROVE HeldBy(q)'
      <3>1. req'[q] = req[q]
        BY <1>1, <2>3, RequestStep
      <3>2. req[q].pc \in HoldingPCs => req[q].copy \in Copies /\ req[q].copy.project \in Projects
        BY DEF HeldRows, Copies
      <3>3. QED BY <2>1, <3>1, <3>2 DEF HeldBy, HeldRows, TablesKept
    <2>4. scorer' = scorer
      BY <1>1 DEF Create, CreateCount, CreatePlan, CreateInsert, OnboardMode, Update, UpdateCount,
         UpdatePlan, UpdateFind, UpdateSave, Delete, Crawl, CrawlFind, CrawlFails,
         CrawlDeleteIssues, CrawlInsertIssues, CrawlSave, ResolveIssue, StatementFails, ServerStops
    <2>5. \A copy \in scorer : copy.project \in Projects
      BY DEF TypeOK, Copies
    <2>6. QED BY <2>1, <2>2, <2>3, <2>4, <2>5 DEF HeldRows, HeldBy, TablesKept
  <1>2. ASSUME HealthScorer PROVE HeldRows'
    <2>1. TablesKept
      BY <1>2, TableStep DEF Next
    <2>2. req' = req
      BY <1>2 DEF HealthScorer, ScorerList, ScorerSave, ScorerSkip
    <2>3. \A copy \in scorer' : copy \in scorer \/ (ScorerList /\ project[copy.project].state # "absent")
      BY <1>2 DEF HealthScorer, ScorerList, ScorerSave, ScorerSkip, CopyOf, FindAll
    <2>4. \A copy \in scorer' : copy.project \in Projects /\ project[copy.project].state # "absent"
      BY <2>1, <2>3 DEF HeldRows, TablesKept, Copies
    <2>5. \A q \in Requests : req[q].pc \in HoldingPCs => req[q].copy.project \in Projects
      BY DEF HeldRows, Copies
    <2>6. QED BY <2>1, <2>2, <2>4, <2>5 DEF HeldRows, TablesKept
  <1>3. CASE UNCHANGED vars
    BY <1>3 DEF vars, HeldRows
  <1>4. QED BY <1>1, <1>2, <1>3 DEF Next

\* Every table and every local keeps its range, whatever the requests, the crawls
\* and the HealthScorer do.
THEOREM TypeCorrect == Spec => [](TypeOK /\ HeldRows)
  BY TypeInit, TypeStep, HeldStep, PTL DEF Spec

-----------------------------------------------------------------------------
(* The steps of a request, by what they do to project rows and held rows.  *)

Acts(r) ==
    \/ Create(r) \/ Update(r) \/ Delete(r) \/ Crawl(r) \/ ResolveIssue(r)
    \/ StatementFails(r) \/ ServerStops(r)

\* r ends without a write, or goes on with the row it holds.
Rests(r) ==
    /\ project' = project /\ offBooks' = offBooks
    /\ \/ req'[r].pc = "done"
       \/ /\ req[r].pc \in HoldingPCs /\ req[r].pc # "update.save"
          /\ req'[r].pc \in HoldingPCs /\ req'[r].pc # "update.save"
          /\ req'[r].copy = req[r].copy

\* r arrives and reads the count of its account.
Counts(r) ==
    /\ project' = project
    /\ Arrives(r)
    /\ \E goal \in Goals, pc \in CountedPCs : GateCount(r, goal, pc)

\* r is let through.
Passes(r) ==
    /\ project' = project /\ offBooks' = offBooks
    /\ req[r].pc \in CountedPCs
    /\ \E pc \in LetThroughPCs : req' = [req EXCEPT ![r].pc = pc, ![r].count = 0]
    /\ \E plan \in Plans : CanCreateSEOProject(req[r].goal, req[r].count, plan)

\* r inserts a project, and holds its row.
Inserts(r) ==
    /\ offBooks' = offBooks
    /\ req[r].pc = "create.insert"
    /\ \E row \in Copies, pc \in HoldingPCs \ {"update.save"} :
          /\ Owner[row.project] = Sender[r]
          /\ project[row.project].state = "absent"
          /\ row.goal = req[r].goal
          /\ row.edit = r
          /\ Save(row)
          /\ req'[r] = Holding(pc, row)

\* r loads a live project of its account to overwrite its columns.
Edits(r) ==
    /\ project' = project /\ offBooks' = offBooks
    /\ req[r].pc = "update.find"
    /\ \E row \in Copies :
          /\ row.project \in FindAllByUser(Sender[r])
          /\ row.goal = req[r].goal
          /\ row.edit = r
          /\ req'[r] = Holding("update.save", row)

\* r loads a live project of its account to crawl it.
Loads(r) ==
    /\ project' = project /\ offBooks' = offBooks
    /\ \E p \in FindAllByUser(Sender[r]) : req'[r] = Holding("crawl.delete", CopyOf(p))

\* r saves the row it holds, and is done.
Writes(r) ==
    /\ offBooks' = offBooks
    /\ req[r].pc \in HoldingPCs
    /\ req[r].pc = "update.save" <=> UpdateSave(r)
    /\ Save(req[r].copy)
    /\ req'[r].pc = "done"

Deletes(r) ==
    /\ offBooks' = offBooks
    /\ \E p \in FindAllByUser(Sender[r]) :
          project' = [project EXCEPT ![p].state = "deleted"]
    /\ req'[r].pc = "done"

LEMMA Effects ==
    ASSUME TypeOK, HeldRows, NEW r \in Requests, Acts(r)
    PROVE  /\ scorer' = scorer
           /\ \/ Rests(r) \/ Counts(r) \/ Passes(r) \/ Inserts(r)
              \/ Edits(r) \/ Loads(r) \/ Writes(r) \/ Deletes(r)
  <1>0. scorer' = scorer
    BY DEF Acts, Create, CreateCount, CreatePlan, CreateInsert, OnboardMode, Update, UpdateCount,
       UpdatePlan, UpdateFind, UpdateSave, Delete, Crawl, CrawlFind, CrawlFails,
       CrawlDeleteIssues, CrawlInsertIssues, CrawlSave, ResolveIssue, StatementFails, ServerStops
  <1>f. Finish(r) => req'[r].pc = "done"
    BY DEF Finish, Idle, TypeOK
  <1>k. ASSUME NEW pc, GoTo(r, pc)
        PROVE  req'[r].pc = pc /\ req'[r].copy = req[r].copy
    BY <1>k DEF GoTo, TypeOK, RequestState
  <1>1. CASE CreateCount(r) \/ UpdateCount(r)
    <2>1. Counts(r)
      BY <1>1 DEF CreateCount, UpdateCount, Counts, CountedPCs
    <2>2. QED BY <1>0, <2>1
  <1>2. CASE CreatePlan(r) \/ UpdatePlan(r)
    <2>1. PICK pc \in LetThroughPCs : GatePlan(r, pc) /\ req[r].pc \in CountedPCs
      BY <1>2 DEF CreatePlan, UpdatePlan, CountedPCs, LetThroughPCs
    <2>2. CASE Finish(r)
      BY <1>0, <1>2, <1>f, <2>2 DEF CreatePlan, UpdatePlan, Rests
    <2>3. CASE ~ Finish(r)
      BY <1>0, <1>2, <2>1, <2>3 DEF CreatePlan, UpdatePlan, Passes, GatePlan
    <2>4. QED BY <2>2, <2>3
  <1>3. CASE CreateInsert(r)
    <2>1. PICK p \in Projects, pc \in {"onboard.mode", "crawl.delete"} :
            /\ Owner[p] = Sender[r] /\ project[p].state = "absent"
            /\ Save([project |-> p, goal |-> req[r].goal, edit |-> r])
            /\ req' = [req EXCEPT ![r] = Holding(pc, [project |-> p, goal |-> req[r].goal, edit |-> r])]
      BY <1>3 DEF CreateInsert
    <2> DEFINE row == [project |-> p, goal |-> req[r].goal, edit |-> r]
    <2>2. /\ row \in Copies /\ row.project = p /\ row.goal = req[r].goal /\ row.edit = r
          /\ Save(row)
      BY <2>1 DEF Copies, RequestState, TypeOK
    <2>3. req'[r] = Holding(pc, row)
      BY <2>1 DEF TypeOK
    <2> HIDE DEF row
    <2>4. pc \in HoldingPCs \ {"update.save"}
      BY DEF HoldingPCs
    <2>5. Inserts(r)
      BY <1>3, <2>1, <2>2, <2>3, <2>4 DEF Inserts, CreateInsert
    <2>6. QED BY <1>0, <2>5
  <1>4. CASE OnboardMode(r) \/ CrawlDeleteIssues(r) \/ CrawlInsertIssues(r)
    <2>1. Rests(r)
      BY <1>4, <1>k DEF OnboardMode, CrawlDeleteIssues, CrawlInsertIssues, Rests, HoldingPCs
    <2>2. QED BY <1>0, <2>1
  <1>5. CASE UpdateFind(r)
    <2>1. CASE Finish(r)
      BY <1>0, <1>5, <1>f, <2>1 DEF UpdateFind, Rests
    <2>2. CASE ~ Finish(r)
      <3>1. PICK p \in FindAllByUser(Sender[r]) :
              req' = [req EXCEPT ![r] =
                Holding("update.save", [project |-> p, goal |-> req[r].goal, edit |-> r])]
        BY <1>5, <2>2 DEF UpdateFind
      <3> DEFINE row == [project |-> p, goal |-> req[r].goal, edit |-> r]
      <3>2. row \in Copies /\ row.project = p /\ row.goal = req[r].goal /\ row.edit = r
        BY DEF Copies, RequestState, FindAllByUser, TypeOK
      <3>3. req'[r] = Holding("update.save", row)
        BY <3>1 DEF TypeOK
      <3> HIDE DEF row
      <3>4. Edits(r)
        BY <1>5, <3>2, <3>3 DEF Edits, UpdateFind
      <3>5. QED BY <1>0, <3>4
    <2>3. QED BY <2>1, <2>2
  <1>6. CASE UpdateSave(r)
    <2>1. Writes(r)
      BY <1>6, <1>f DEF UpdateSave, Writes, HoldingPCs
    <2>2. QED BY <1>0, <2>1
  <1>7. CASE CrawlSave(r)
    <2>1. Writes(r)
      BY <1>7, <1>f DEF CrawlSave, UpdateSave, Writes, HoldingPCs
    <2>2. QED BY <1>0, <2>1
  <1>8. CASE Delete(r)
    <2>1. Deletes(r)
      BY <1>8, <1>f DEF Delete, Deletes
    <2>2. QED BY <1>0, <2>1
  <1>9. CASE ResolveIssue(r) \/ CrawlFails(r) \/ ServerStops(r)
    <2>1. Rests(r)
      BY <1>9, <1>f DEF ResolveIssue, CrawlFails, ServerStops, Rests
    <2>2. QED BY <1>0, <2>1
  <1>10. CASE CrawlFind(r)
    <2>1. PICK p \in FindAllByUser(Sender[r]) :
            req' = [req EXCEPT ![r] = Holding("crawl.delete", CopyOf(p))]
      BY <1>10 DEF CrawlFind
    <2>2. req'[r] = Holding("crawl.delete", CopyOf(p))
      BY <2>1 DEF TypeOK
    <2>3. Loads(r)
      BY <1>10, <2>2 DEF CrawlFind, Loads
    <2>4. QED BY <1>0, <2>3
  <1>11. CASE StatementFails(r)
    <2>1. \/ Finish(r)
          \/ /\ req[r].pc \in {"onboard.mode", "crawl.delete", "crawl.insert"}
             /\ GoTo(r, "crawl.delete") \/ GoTo(r, "crawl.save")
      BY <1>11 DEF StatementFails
    <2>2. Rests(r)
      BY <1>11, <1>f, <1>k, <2>1 DEF StatementFails, Rests, HoldingPCs
    <2>3. QED BY <1>0, <2>2
  <1>12. QED
    BY <1>1, <1>2, <1>3, <1>4, <1>5, <1>6, <1>7, <1>8, <1>9, <1>10, <1>11
    DEF Acts, Create, Update, Crawl

LEMMA OthersWait ==
    ASSUME TypeOK, HeldRows, NEW r \in Requests, Acts(r)
    PROVE  \A q \in Requests \ {r} : req'[q] = req[q]
  BY RequestStep DEF Acts

-----------------------------------------------------------------------------
Gone(p) == project[p].state = "deleted" /\ HeldByNobody(p)

LEMMA GoneStep ==
    ASSUME TypeOK, HeldRows, Next, NEW p \in Projects, Gone(p)
    PROVE  Gone(p)'
  <1>0. /\ project[p].state = "deleted"
        /\ \A r \in Requests : req[r].pc \in HoldingPCs => req[r].copy.project # p
        /\ \A copy \in scorer : copy.project # p
    BY DEF Gone, HeldByNobody, Holders
  <1>1. ASSUME NEW r \in Requests, Acts(r) PROVE Gone(p)'
    <2>1. SUFFICES /\ project'[p] = project[p]
                   /\ req'[r].pc \in HoldingPCs => req'[r].copy.project # p
      BY <1>0, <1>1, Effects, OthersWait DEF Gone, HeldByNobody, Holders
    <2>2. CASE Rests(r)
      BY <1>0, <2>2 DEF Rests, HoldingPCs
    <2>3. CASE Counts(r)
      BY <2>3 DEF Counts, GateCount, CountedPCs, HoldingPCs, TypeOK, RequestState
    <2>4. CASE Passes(r)
      BY <2>4 DEF Passes, LetThroughPCs, HoldingPCs, TypeOK, RequestState
    <2>5. CASE Inserts(r)
      <3>1. PICK row \in Copies, pc \in HoldingPCs :
              /\ project[row.project].state = "absent"
              /\ Save(row)
              /\ req'[r] = Holding(pc, row)
        BY <2>5 DEF Inserts
      <3>2. row.project # p
        BY <1>0, <3>1
      <3>3. QED BY <3>1, <3>2, SaveType DEF Holding
    <2>6. CASE Edits(r)
      BY <1>0, <2>6 DEF Edits, Holding, FindAllByUser
    <2>7. CASE Loads(r)
      BY <1>0, <2>7 DEF Loads, Holding, CopyOf, FindAllByUser
    <2>8. CASE Writes(r)
      <3>1. req[r].copy \in Copies /\ req[r].copy.project # p
        BY <1>0, <2>8 DEF Writes, HeldRows
      <3>2. QED BY <2>8, <3>1, SaveType DEF Writes, HoldingPCs
    <2>9. CASE Deletes(r)
      BY <1>0, <2>9 DEF Deletes, FindAllByUser, HoldingPCs, TypeOK
    <2>10. QED
      BY <1>1, <2>2, <2>3, <2>4, <2>5, <2>6, <2>7, <2>8, <2>9, Effects
  <1>2. ASSUME HealthScorer PROVE Gone(p)'
    <2>1. CASE ScorerList
      BY <1>0, <2>1 DEF ScorerList, FindAll, CopyOf, Gone, HeldByNobody, Holders
    <2>2. ASSUME NEW copy \in scorer, ScorerSave(copy) PROVE Gone(p)'
      <3>1. copy \in Copies /\ copy.project # p
        BY <1>0 DEF TypeOK
      <3>2. project'[p] = project[p]
        BY <2>2, <3>1, SaveType DEF ScorerSave
      <3>3. QED BY <1>0, <2>2, <3>2 DEF ScorerSave, Gone, HeldByNobody, Holders
    <2>3. ASSUME NEW copy \in scorer, ScorerSkip(copy) PROVE Gone(p)'
      BY <1>0, <2>3 DEF ScorerSkip, Gone, HeldByNobody, Holders
    <2>4. QED BY <1>2, <2>1, <2>2, <2>3 DEF HealthScorer
  <1>3. QED BY <1>1, <1>2 DEF Next, Acts

\* A project that its owner deleted and that no request, goroutine or HealthScorer
\* run still holds never comes back.
THEOREM DeletedStaysDeletedHolds == Spec => DeletedStaysDeleted
  <1>1. TypeOK /\ HeldRows /\ [Next]_vars =>
          [\A p \in Projects :
              project[p].state = "deleted" /\ HeldByNobody(p)
                => (project[p].state = "deleted" /\ HeldByNobody(p))']_vars
    BY GoneStep DEF Gone
  <1>2. QED BY <1>1, TypeCorrect, PTL DEF Spec, DeletedStaysDeleted

-----------------------------------------------------------------------------
LEMMA EditStep ==
    ASSUME TypeOK, HeldRows, Next, NEW p \in Projects,
           project[p].state # "absent", EditSettled(p),
           \A r \in Requests : UpdateSave(r) => req[r].copy.project # p
    PROVE  project'[p].edit = project[p].edit /\ EditSettled(p)'
  <1>0. /\ \A r \in Requests :
              /\ req[r].pc \in HoldingPCs /\ req[r].pc # "update.save"
              /\ req[r].copy.project = p
              => req[r].copy.edit = project[p].edit
        /\ \A copy \in scorer : copy.project = p => copy.edit = project[p].edit
    BY DEF EditSettled, Holders
  <1>1. ASSUME NEW r \in Requests, Acts(r)
        PROVE  project'[p].edit = project[p].edit /\ EditSettled(p)'
    <2>1. SUFFICES /\ project'[p].edit = project[p].edit
                   /\ /\ req'[r].pc \in HoldingPCs /\ req'[r].pc # "update.save"
                      /\ req'[r].copy.project = p
                      => req'[r].copy.edit = project[p].edit
      <3>1. \A q \in Requests \ {r} : req'[q] = req[q]
        BY <1>1, OthersWait
      <3>2. scorer' = scorer
        BY <1>1, Effects
      <3>3. QED BY <1>0, <2>1, <3>1, <3>2 DEF EditSettled, Holders
    <2>2. CASE Rests(r)
      BY <1>0, <2>2 DEF Rests, HoldingPCs
    <2>3. CASE Counts(r)
      BY <2>3 DEF Counts, GateCount, CountedPCs, HoldingPCs, TypeOK, RequestState
    <2>4. CASE Passes(r)
      BY <2>4 DEF Passes, LetThroughPCs, HoldingPCs, TypeOK, RequestState
    <2>5. CASE Inserts(r)
      <3>1. PICK row \in Copies, pc \in HoldingPCs :
              /\ project[row.project].state = "absent"
              /\ Save(row)
              /\ req'[r] = Holding(pc, row)
        BY <2>5 DEF Inserts
      <3>2. row.project # p
        BY <3>1
      <3>3. QED BY <3>1, <3>2, SaveType DEF Holding
    <2>6. CASE Edits(r)
      BY <2>6 DEF Edits, Holding
    <2>7. CASE Loads(r)
      BY <2>7 DEF Loads, Holding, CopyOf
    <2>8. CASE Writes(r)
      <3>1. req[r].copy \in Copies
        BY <2>8 DEF Writes, HeldRows
      <3>2. req[r].copy.project = p => req[r].copy.edit = project[p].edit
        BY <1>0, <2>8 DEF Writes
      <3>3. project'[p].edit = project[p].edit
        BY <2>8, <3>1, <3>2, SaveType DEF Writes
      <3>4. QED BY <2>8, <3>3 DEF Writes, HoldingPCs
    <2>9. CASE Deletes(r)
      <3>1. PICK q \in FindAllByUser(Sender[r]) :
              project' = [project EXCEPT ![q].state = "deleted"]
        BY <2>9 DEF Deletes
      <3>2. q \in Projects /\ project[q] \in [state : {"live", "deleted"}, goal : Goals, edit : Requests]
        BY CopyType DEF FindAllByUser
      <3>3. project'[p].edit = project[p].edit
        BY <3>1, <3>2 DEF TypeOK
      <3>4. QED BY <2>9, <3>3 DEF Deletes, HoldingPCs
    <2>10. QED
      BY <1>1, <2>2, <2>3, <2>4, <2>5, <2>6, <2>7, <2>8, <2>9, Effects
  <1>2. ASSUME HealthScorer
        PROVE  project'[p].edit = project[p].edit /\ EditSettled(p)'
    <2>1. CASE ScorerList
      BY <1>0, <2>1 DEF ScorerList, FindAll, CopyOf, EditSettled, Holders
    <2>2. ASSUME NEW copy \in scorer, ScorerSave(copy)
          PROVE  project'[p].edit = project[p].edit /\ EditSettled(p)'
      <3>1. copy \in Copies
        BY DEF TypeOK
      <3>2. project'[p].edit = project[p].edit
        BY <1>0, <2>2, <3>1, SaveType DEF ScorerSave
      <3>3. QED BY <1>0, <2>2, <3>2 DEF ScorerSave, EditSettled, Holders
    <2>3. ASSUME NEW copy \in scorer, ScorerSkip(copy)
          PROVE  project'[p].edit = project[p].edit /\ EditSettled(p)'
      BY <1>0, <2>3 DEF ScorerSkip, EditSettled, Holders
    <2>4. QED BY <1>2, <2>1, <2>2, <2>3 DEF HealthScorer
  <1>3. QED BY <1>1, <1>2 DEF Next, Acts

\* The user-entered columns of a project change by an edit, or by a save of a row
\* that was loaded before the last edit; nothing else touches them.
THEOREM EditKeptHolds == Spec => EditKept
  <1>1. TypeOK /\ HeldRows /\ [Next]_vars =>
          [\A p \in Projects :
              /\ project[p].state # "absent" /\ EditSettled(p)
              /\ \A r \in Requests : UpdateSave(r) => req[r].copy.project # p
              => project'[p].edit = project[p].edit /\ EditSettled(p)']_vars
    BY EditStep
  <1>2. QED BY <1>1, TypeCorrect, PTL DEF Spec, EditKept

-----------------------------------------------------------------------------
InFlightBound == \A u \in Users : Cardinality(InFlight(u)) <= MaxInFlight

\* A set that grows by at most one element.
LEMMA GrowsByOne ==
    ASSUME NEW S, NEW T, NEW x, IsFiniteSet(S), T \subseteq S \cup {x}
    PROVE  /\ IsFiniteSet(T) /\ Cardinality(S) \in Nat /\ Cardinality(T) \in Nat
           /\ Cardinality(T) <= Cardinality(S) + 1
  <1>1. Cardinality(S) \in Nat
    BY FS_CardinalityType
  <1>2. /\ IsFiniteSet(S \cup {x})
        /\ Cardinality(S \cup {x}) = IF x \in S THEN Cardinality(S) ELSE Cardinality(S) + 1
    BY FS_AddElement
  <1>3. Cardinality(S \cup {x}) <= Cardinality(S) + 1
    BY <1>1, <1>2
  <1>4. T \in SUBSET (S \cup {x})
    OBVIOUS
  <1>5. IsFiniteSet(T) /\ Cardinality(T) <= Cardinality(S \cup {x})
    BY <1>2, <1>4, FS_Subset
  <1>6. Cardinality(T) \in Nat /\ Cardinality(S \cup {x}) \in Nat
    BY <1>2, <1>5, FS_CardinalityType
  <1>7. QED BY <1>1, <1>3, <1>5, <1>6

\* A set that does not grow.
LEMMA GrowsNot ==
    ASSUME NEW S, NEW T, IsFiniteSet(S), T \subseteq S
    PROVE  /\ IsFiniteSet(T) /\ Cardinality(S) \in Nat /\ Cardinality(T) \in Nat
           /\ Cardinality(T) <= Cardinality(S)
  BY FS_CardinalityType, FS_Subset

LEMMA FiniteCounts ==
    /\ \A u : IsFiniteSet(InFlight(u)) /\ Cardinality(InFlight(u)) \in Nat
    /\ \A u : IsFiniteSet(Slots(u)) => Cardinality(Slots(u)) \in Nat
    /\ \A u : IsFiniteSet(Gated(u)) /\ Cardinality(Gated(u)) \in Nat
  <1>1. \A u : InFlight(u) \in SUBSET Requests /\ Gated(u) \in SUBSET Requests
    BY DEF InFlight, Gated
  <1>2. QED BY <1>1, ProjectAssumption, FS_Subset, FS_CardinalityType

\* A request acts when it arrives, under the bound, or is in flight already.
LEMMA ArrivesOrInFlight ==
    ASSUME NEW r \in Requests, Acts(r)
    PROVE  Arrives(r) \/ r \in InFlight(Sender[r])
  BY DEF Acts, Create, CreateCount, CreatePlan, CreateInsert, OnboardMode, Update, UpdateCount,
     UpdatePlan, UpdateFind, UpdateSave, Delete, Crawl, CrawlFind, CrawlFails, CrawlDeleteIssues,
     CrawlInsertIssues, CrawlSave, ResolveIssue, StatementFails, ServerStops, InFlight

LEMMA InFlightStep ==
    TypeOK /\ HeldRows /\ InFlightBound /\ [Next]_vars => InFlightBound'
  <1> SUFFICES ASSUME TypeOK, HeldRows, InFlightBound, [Next]_vars, NEW u \in Users
               PROVE  Cardinality(InFlight(u)') <= MaxInFlight
    BY DEF InFlightBound
  <1>0. MaxInFlight \in Nat /\ Cardinality(InFlight(u)) <= MaxInFlight
    BY ProjectAssumption DEF InFlightBound
  <1>1. ASSUME NEW r \in Requests, Acts(r) PROVE Cardinality(InFlight(u)') <= MaxInFlight
    <2>1. \A q \in Requests \ {r} : req'[q] = req[q]
      BY <1>1, OthersWait
    <2>2. CASE u = Sender[r] /\ Arrives(r)
      <3>1. InFlight(u)' \in SUBSET (InFlight(u) \cup {r})
        BY <2>1 DEF InFlight
      <3>2. Cardinality(InFlight(u)) < MaxInFlight
        BY <2>2 DEF Arrives
      <3>3. Cardinality(InFlight(u)') <= Cardinality(InFlight(u)) + 1 /\ Cardinality(InFlight(u)') \in Nat
        BY <3>1, FiniteCounts, GrowsByOne
      <3>4. QED BY <1>0, <2>2, <3>2, <3>3, FiniteCounts
    <2>3. CASE ~ (u = Sender[r] /\ Arrives(r))
      <3>1. InFlight(u)' \in SUBSET InFlight(u)
        BY <1>1, <2>1, <2>3, ArrivesOrInFlight DEF InFlight
      <3>2. QED BY <1>0, <3>1, FiniteCounts, FS_Subset, FS_CardinalityType
    <2>4. QED BY <2>2, <2>3
  <1>2. CASE req' = req
    <2>1. InFlight(u)' = InFlight(u)
      BY <1>2 DEF InFlight
    <2>2. QED BY <1>0, <2>1
  <1>3. HealthScorer \/ UNCHANGED vars => req' = req
    BY DEF HealthScorer, ScorerList, ScorerSave, ScorerSkip, vars
  <1>4. QED BY <1>1, <1>2, <1>3 DEF Next, Acts

LEMMA InFlightInit == Init => InFlightBound
  <1> SUFFICES ASSUME Init, NEW u \in Users PROVE Cardinality(InFlight(u)) <= MaxInFlight
    BY DEF InFlightBound
  <1>1. InFlight(u) = {}
    BY DEF Init, InFlight, Idle
  <1>2. QED BY <1>1, FS_EmptySet, ProjectAssumption

\* The model's bound on concurrency is one: no account ever has more in flight.
LEMMA InFlightBoundHolds == Spec => []InFlightBound
  BY InFlightInit, InFlightStep, TypeCorrect, PTL DEF Spec

-----------------------------------------------------------------------------
LEMMA LimitType ==
    LargestLimit \in Nat /\ LargestLimit > 0 /\ \A p \in Plans : MaxSites[p] <= LargestLimit
  <1>1. PICK top \in Plans : \A p \in Plans : MaxSites[p] <= MaxSites[top]
    BY ProjectAssumption
  <1> DEFINE best == CHOOSE t \in Plans : \A p \in Plans : MaxSites[p] <= MaxSites[t]
  <1>2. best \in Plans /\ \A p \in Plans : MaxSites[p] <= MaxSites[best]
    BY <1>1
  <1>3. QED BY <1>2, PlanAssumption DEF LargestLimit

\* p takes a site of u: it is a live SEO project, or a request of u holds it as one.
TakesSlot(u, p) ==
    \/ /\ Owner[p] = u /\ project[p].state = "live" /\ project[p].goal \in SEOGoals
    \/ \E h \in Requests : /\ req[h].pc \in HoldingPCs
                           /\ Sender[h] = u
                           /\ req[h].copy.goal \in SEOGoals
                           /\ req[h].copy.project = p

LEMMA SlotsAre ==
    ASSUME HeldRows, NEW u
    PROVE  Slots(u) = {p \in Projects : TakesSlot(u, p)}
  BY DEF Slots, LiveSEO, FindAllByUser, Holders, HeldRows, Copies, TakesSlot

LEMMA SlotsFinite ==
    ASSUME HeldRows, NEW u
    PROVE  IsFiniteSet(Slots(u)) /\ Cardinality(Slots(u)) \in Nat
  <1>1. Slots(u) \in SUBSET Projects
    BY SlotsAre
  <1>2. QED BY <1>1, ProjectAssumption, FS_Subset, FS_CardinalityType

\* When a request of u is let in, the held rows and the requests at the gate are
\* fewer than the bound, so at most LargestLimit - 2 + MaxInFlight sites are spoken
\* for if fewer than LargestLimit are taken.
LEMMA RoomAtTheGate ==
    ASSUME TypeOK, HeldRows, NEW u \in Users,
           Cardinality(InFlight(u)) < MaxInFlight,
           Cardinality(LiveSEO(u)) < LargestLimit
    PROVE  Cardinality(Slots(u)) + Cardinality(Gated(u)) + 1 <= LargestLimit - 1 + MaxInFlight
  <1> DEFINE H == {h \in Holders : Sender[h] = u /\ req[h].copy.goal \in SEOGoals}
             P == {req[h].copy.project : h \in H}
             f == [h \in H |-> req[h].copy.project]
  <1>1. H \in SUBSET Requests /\ Gated(u) \in SUBSET Requests /\ LiveSEO(u) \in SUBSET Projects
    BY DEF Holders, Gated, InFlight, LiveSEO, FindAllByUser
  <1>2. /\ IsFiniteSet(H) /\ IsFiniteSet(Gated(u)) /\ IsFiniteSet(LiveSEO(u))
        /\ Cardinality(H) \in Nat /\ Cardinality(Gated(u)) \in Nat
        /\ Cardinality(LiveSEO(u)) \in Nat
    BY <1>1, ProjectAssumption, FS_Subset, FS_CardinalityType
  <1>3. /\ IsFiniteSet(P) /\ Cardinality(P) \in Nat /\ Cardinality(P) <= Cardinality(H)
    <2>1. f \in Surjection(H, P)
      BY DEF Surjection
    <2>2. IsFiniteSet(P) /\ Cardinality(P) <= Cardinality(H)
      <3> HIDE DEF f, P, H
      <3>1. QED BY <1>2, <2>1, FS_Surjection
    <2>3. QED BY <2>2, FS_CardinalityType
  <1>4. Slots(u) = LiveSEO(u) \cup P
    BY DEF Slots
  <1>5. Cardinality(Slots(u)) <= Cardinality(LiveSEO(u)) + Cardinality(P)
    <2> HIDE DEF P
    <2>1. /\ IsFiniteSet(LiveSEO(u) \cap P)
          /\ Cardinality(LiveSEO(u) \cup P) =
               Cardinality(LiveSEO(u)) + Cardinality(P) - Cardinality(LiveSEO(u) \cap P)
      BY <1>2, <1>3, FS_Union, FS_Intersection
    <2>2. Cardinality(LiveSEO(u) \cap P) \in Nat
      BY <2>1, FS_CardinalityType
    <2>3. QED BY <1>2, <1>3, <1>4, <2>1, <2>2
  <1>6. Cardinality(H) + Cardinality(Gated(u)) <= Cardinality(InFlight(u))
    <2>1. H \cap Gated(u) = {}
      BY DEF Holders, Gated, HoldingPCs, LetThroughPCs, CountedPCs
    <2>2. H \cup Gated(u) \in SUBSET InFlight(u)
      BY DEF Holders, Gated, HoldingPCs, InFlight
    <2> HIDE DEF H
    <2>3. Cardinality(H \cup Gated(u)) = Cardinality(H) + Cardinality(Gated(u))
      <3>1. Cardinality(H \cup Gated(u))
              = Cardinality(H) + Cardinality(Gated(u)) - Cardinality(H \cap Gated(u))
        BY <1>2, FS_Union
      <3>2. Cardinality(H \cap Gated(u)) = 0
        BY <2>1, FS_EmptySet
      <3>3. QED BY <1>2, <3>1, <3>2
    <2>4. Cardinality(H \cup Gated(u)) <= Cardinality(InFlight(u))
      BY <2>2, FiniteCounts, FS_Subset
    <2>5. QED BY <2>3, <2>4
  <1>7. Cardinality(InFlight(u)) \in Nat /\ MaxInFlight \in Nat /\ LargestLimit \in Nat
    BY FiniteCounts, LimitType, ProjectAssumption
  <1>8. Cardinality(Slots(u)) \in Nat
    BY SlotsFinite
  <1> HIDE DEF H, P
  <1>9. QED BY <1>2, <1>3, <1>5, <1>6, <1>7, <1>8

QuotaKept(u) ==
    Cardinality(Slots(u)) + Cardinality(Gated(u)) <= LargestLimit - 1 + MaxInFlight

\* Fewer sites taken and fewer requests at the gate.
LEMMA QuotaShrinks ==
    ASSUME HeldRows, HeldRows', NEW u, QuotaKept(u),
           Slots(u)' \subseteq Slots(u), Gated(u)' \subseteq Gated(u)
    PROVE  QuotaKept(u)'
  <1>1. /\ Cardinality(Slots(u)') \in Nat /\ Cardinality(Slots(u)) \in Nat
        /\ Cardinality(Slots(u)') <= Cardinality(Slots(u))
    BY SlotsFinite, GrowsNot
  <1>2. /\ Cardinality(Gated(u)') \in Nat /\ Cardinality(Gated(u)) \in Nat
        /\ Cardinality(Gated(u)') <= Cardinality(Gated(u))
    BY FiniteCounts, GrowsNot
  <1>3. QED BY <1>1, <1>2, LimitType, ProjectAssumption DEF QuotaKept

\* A request leaves the gate with the one site it takes.
LEMMA QuotaMoves ==
    ASSUME HeldRows, NEW u, QuotaKept(u), NEW r \in Gated(u), NEW p,
           Slots(u)' \subseteq Slots(u) \cup {p}, Gated(u)' \subseteq Gated(u) \ {r}
    PROVE  QuotaKept(u)'
  <1>1. /\ Cardinality(Slots(u)') \in Nat /\ Cardinality(Slots(u)) \in Nat
        /\ Cardinality(Slots(u)') <= Cardinality(Slots(u)) + 1
    BY SlotsFinite, GrowsByOne
  <1>2. /\ IsFiniteSet(Gated(u) \ {r}) /\ Cardinality(Gated(u) \ {r}) = Cardinality(Gated(u)) - 1
        /\ Cardinality(Gated(u)) \in Nat
    BY FiniteCounts, FS_RemoveElement
  <1>3. /\ Cardinality(Gated(u)') \in Nat
        /\ Cardinality(Gated(u)') <= Cardinality(Gated(u) \ {r})
    BY <1>2, GrowsNot
  <1>4. QED BY <1>1, <1>2, <1>3, LimitType, ProjectAssumption DEF QuotaKept

\* What the actions of r do to the sites and the gate of an account.
LEMMA QuotaActs ==
    ASSUME TypeOK, HeldRows, HeldRows', InFlightBound, NEW r \in Requests, Acts(r),
           NEW u \in Users, u \notin offBooks', u \notin offBooks => QuotaKept(u)
    PROVE  QuotaKept(u)'
  <1>1. \A q \in Requests \ {r} : req'[q] = req[q]
    BY OthersWait
  <1>2. /\ Slots(u) = {p \in Projects : TakesSlot(u, p)}
        /\ Slots(u)' = {p \in Projects : TakesSlot(u, p)'}
    BY DEF Slots, LiveSEO, FindAllByUser, Holders, HeldRows, Copies, TakesSlot
  <1>3. Gated(u) = {q \in Requests : /\ Sender[q] = u
                                     /\ req[q].goal \in SEOGoals
                                     /\ \/ req[q].pc \in LetThroughPCs
                                        \/ req[q].pc \in CountedPCs /\ req[q].count < LargestLimit}
    BY DEF Gated, InFlight, LetThroughPCs, CountedPCs
  <1>4. Gated(u)' = {q \in Requests : /\ Sender[q] = u
                                      /\ req'[q].goal \in SEOGoals
                                      /\ \/ req'[q].pc \in LetThroughPCs
                                         \/ req'[q].pc \in CountedPCs /\ req'[q].count < LargestLimit}
    BY DEF Gated, InFlight, LetThroughPCs, CountedPCs
  <1>s. ASSUME u \notin offBooks,
               \A p \in Projects : TakesSlot(u, p)' => TakesSlot(u, p),
               Sender[r] = u => req'[r].pc \notin GatedPCs \/ r \in Gated(u)
        PROVE  QuotaKept(u)'
    <2>1. Slots(u)' \subseteq Slots(u)
      BY <1>2, <1>s
    <2>2. Gated(u)' \subseteq Gated(u)
      BY <1>1, <1>3, <1>4, <1>s DEF GatedPCs
    <2>3. QED BY <1>s, <2>1, <2>2, QuotaShrinks
  <1>m. ASSUME u \notin offBooks, NEW x \in Projects,
               \A p \in Projects : TakesSlot(u, p)' => TakesSlot(u, p) \/ p = x,
               r \in Gated(u), req'[r].pc \notin GatedPCs
        PROVE  QuotaKept(u)'
    <2>1. Slots(u)' \subseteq Slots(u) \cup {x}
      BY <1>2, <1>m
    <2>2. Gated(u)' \subseteq Gated(u) \ {r}
      BY <1>1, <1>3, <1>4, <1>m DEF GatedPCs
    <2>3. QED BY <1>m, <2>1, <2>2, QuotaMoves
  <1>5. CASE Rests(r)
    <2>1. req'[r].pc \notin GatedPCs
      BY <1>5 DEF Rests, GatedPCs, CountedPCs, LetThroughPCs, HoldingPCs
    <2>2. \A p \in Projects : TakesSlot(u, p)' => TakesSlot(u, p)
      BY <1>1, <1>5 DEF Rests, TakesSlot, HoldingPCs
    <2>3. QED BY <1>5, <1>s, <2>1, <2>2 DEF Rests
  <1>6. CASE Counts(r)
    <2>1. PICK goal \in Goals, pc \in CountedPCs : GateCount(r, goal, pc)
      BY <1>6 DEF Counts
    <2>2. PICK n \in CountSEOByUser(Sender[r]) :
            /\ req' = [req EXCEPT ![r].pc = pc, ![r].goal = goal, ![r].count = n]
            /\ offBooks' = IF goal \in SEOGoals /\ n # Cardinality(LiveSEO(Sender[r]))
                           THEN offBooks \cup {Sender[r]} ELSE offBooks
      BY <2>1 DEF GateCount
    <2>3. req'[r].pc = pc /\ req'[r].goal = goal /\ req'[r].count = n
      BY <2>2 DEF TypeOK, RequestState
    <2>4. u \notin offBooks
      BY <2>2
    <2>5. \A p \in Projects : TakesSlot(u, p)' => TakesSlot(u, p)
      BY <1>1, <1>6, <2>3 DEF Counts, TakesSlot, HoldingPCs, CountedPCs
    <2>6. CASE r \notin Gated(u)' \/ u # Sender[r]
      <3>1. Gated(u)' \subseteq Gated(u)
        BY <1>1, <1>3, <1>4, <2>6
      <3>2. Slots(u)' \subseteq Slots(u)
        BY <1>2, <2>5
      <3>3. QED BY <2>4, <3>1, <3>2, QuotaShrinks
    <2>7. CASE r \in Gated(u)' /\ u = Sender[r]
      <3>1. goal \in SEOGoals /\ n < LargestLimit
        BY <1>4, <2>3, <2>7 DEF CountedPCs, LetThroughPCs
      <3>2. n = Cardinality(LiveSEO(u))
        BY <2>2, <2>7, <3>1
      <3>3. Cardinality(InFlight(u)) < MaxInFlight
        BY <1>6, <2>7 DEF Counts, Arrives
      <3>4. Cardinality(Slots(u)) + Cardinality(Gated(u)) + 1 <= LargestLimit - 1 + MaxInFlight
        BY <3>1, <3>2, <3>3, RoomAtTheGate
      <3>5. /\ Cardinality(Gated(u)') \in Nat /\ Cardinality(Gated(u)) \in Nat
            /\ Cardinality(Gated(u)') <= Cardinality(Gated(u)) + 1
        <4>1. Gated(u)' \subseteq Gated(u) \cup {r}
          BY <1>1, <1>3, <1>4
        <4>2. QED BY <4>1, FiniteCounts, GrowsByOne
      <3>6. /\ Cardinality(Slots(u)') \in Nat /\ Cardinality(Slots(u)) \in Nat
            /\ Cardinality(Slots(u)') <= Cardinality(Slots(u))
        <4>1. Slots(u)' \subseteq Slots(u)
          BY <1>2, <2>5
        <4>2. QED BY <4>1, SlotsFinite, GrowsNot
      <3>7. QED BY <3>4, <3>5, <3>6, LimitType, ProjectAssumption DEF QuotaKept
    <2>8. QED BY <2>6, <2>7
  <1>7. CASE Passes(r)
    <2>1. PICK pc \in LetThroughPCs : req' = [req EXCEPT ![r].pc = pc, ![r].count = 0]
      BY <1>7 DEF Passes
    <2>2. req'[r].pc = pc /\ req'[r].goal = req[r].goal
      BY <2>1 DEF TypeOK, RequestState
    <2>3. req[r].goal \in SEOGoals => req[r].count < LargestLimit
      <3>1. PICK plan \in Plans : CanCreateSEOProject(req[r].goal, req[r].count, plan)
        BY <1>7 DEF Passes
      <3>2. MaxSites[plan] \in Nat /\ req[r].count \in Nat /\ MaxSites[plan] <= LargestLimit
        BY LimitType, PlanAssumption DEF TypeOK, RequestState
      <3>3. QED BY <3>1, <3>2, LimitType DEF CanCreateSEOProject
    <2>4. \A p \in Projects : TakesSlot(u, p)' => TakesSlot(u, p)
      BY <1>1, <1>7, <2>2 DEF Passes, TakesSlot, HoldingPCs, LetThroughPCs
    <2>5. Gated(u)' \subseteq Gated(u)
      BY <1>1, <1>3, <1>4, <1>7, <2>2, <2>3 DEF Passes, CountedPCs
    <2>6. Slots(u)' \subseteq Slots(u)
      BY <1>2, <2>4
    <2>7. QED BY <1>7, <2>5, <2>6, QuotaShrinks DEF Passes
  <1>8. CASE Inserts(r)
    <2>1. PICK row \in Copies, pc \in HoldingPCs :
            /\ Owner[row.project] = Sender[r]
            /\ row.goal = req[r].goal
            /\ Save(row)
            /\ req'[r] = Holding(pc, row)
      BY <1>8 DEF Inserts
    <2>2. /\ row.project \in Projects /\ req'[r].pc = pc /\ req'[r].copy = row
          /\ req'[r].pc \notin GatedPCs
      BY <2>1 DEF Holding, Copies, HoldingPCs, GatedPCs, CountedPCs, LetThroughPCs
    <2>3. \A p \in Projects : TakesSlot(u, p)' =>
            TakesSlot(u, p) \/ (p = row.project /\ u = Sender[r] /\ row.goal \in SEOGoals)
      BY <1>1, <2>1, <2>2, SaveType DEF TakesSlot
    <2>4. CASE u = Sender[r] /\ row.goal \in SEOGoals
      <3>1. r \in Gated(u)
        BY <1>3, <1>8, <2>1, <2>4 DEF Inserts, LetThroughPCs
      <3>2. QED BY <1>8, <1>m, <2>2, <2>3, <3>1 DEF Inserts
    <2>5. CASE ~ (u = Sender[r] /\ row.goal \in SEOGoals)
      BY <1>8, <1>s, <2>2, <2>3, <2>5 DEF Inserts
    <2>6. QED BY <2>4, <2>5
  <1>9. CASE Edits(r)
    <2>1. PICK row \in Copies :
            /\ row.project \in FindAllByUser(Sender[r])
            /\ row.goal = req[r].goal
            /\ req'[r] = Holding("update.save", row)
      BY <1>9 DEF Edits
    <2>2. /\ row.project \in Projects /\ req'[r].pc = "update.save" /\ req'[r].copy = row
          /\ req'[r].pc \notin GatedPCs
      BY <2>1 DEF Holding, Copies, GatedPCs, CountedPCs, LetThroughPCs
    <2>3. \A p \in Projects : TakesSlot(u, p)' =>
            TakesSlot(u, p) \/ (p = row.project /\ u = Sender[r] /\ row.goal \in SEOGoals)
      BY <1>1, <1>9, <2>2 DEF TakesSlot, Edits
    <2>4. CASE u = Sender[r] /\ row.goal \in SEOGoals
      <3>1. r \in Gated(u)
        BY <1>3, <1>9, <2>1, <2>4 DEF Edits, LetThroughPCs
      <3>2. QED BY <1>9, <1>m, <2>2, <2>3, <3>1 DEF Edits
    <2>5. CASE ~ (u = Sender[r] /\ row.goal \in SEOGoals)
      BY <1>9, <1>s, <2>2, <2>3, <2>5 DEF Edits
    <2>6. QED BY <2>4, <2>5
  <1>10. CASE Loads(r)
    <2>1. PICK x \in FindAllByUser(Sender[r]) : req'[r] = Holding("crawl.delete", CopyOf(x))
      BY <1>10 DEF Loads
    <2>2. /\ x \in Projects /\ Owner[x] = Sender[r] /\ project[x].state = "live"
          /\ req'[r].pc = "crawl.delete"
          /\ req'[r].copy.project = x /\ req'[r].copy.goal = project[x].goal
          /\ req'[r].pc \notin GatedPCs
      BY <2>1 DEF Holding, CopyOf, FindAllByUser, GatedPCs, CountedPCs, LetThroughPCs
    <2>3. \A p \in Projects : TakesSlot(u, p)' => TakesSlot(u, p)
      BY <1>1, <1>10, <2>2 DEF TakesSlot, Loads
    <2>4. QED BY <1>10, <1>s, <2>2, <2>3 DEF Loads
  <1>11. CASE Writes(r)
    <2>1. /\ req[r].copy \in Copies /\ Owner[req[r].copy.project] = Sender[r]
          /\ Save(req[r].copy) /\ req'[r].pc = "done"
          /\ req[r].pc \in HoldingPCs
      BY <1>11 DEF Writes, HeldRows
    <2>2. \A p \in Projects : TakesSlot(u, p)' => TakesSlot(u, p)
      BY <1>1, <2>1, SaveType DEF TakesSlot, HoldingPCs
    <2>3. req'[r].pc \notin GatedPCs
      BY <2>1 DEF GatedPCs, CountedPCs, LetThroughPCs
    <2>4. QED BY <1>11, <1>s, <2>2, <2>3 DEF Writes
  <1>12. CASE Deletes(r)
    <2>1. PICK x \in FindAllByUser(Sender[r]) :
            project' = [project EXCEPT ![x].state = "deleted"]
      BY <1>12 DEF Deletes
    <2>2. /\ \A p \in Projects : p # x => project'[p] = project[p]
          /\ project'[x].state = "deleted"
      <3>1. x \in Projects /\ project[x] \in [state : {"live", "deleted"}, goal : Goals, edit : Requests]
        BY CopyType DEF FindAllByUser
      <3>2. QED BY <2>1, <3>1 DEF TypeOK
    <2>3. \A p \in Projects : TakesSlot(u, p)' => TakesSlot(u, p)
      BY <1>1, <1>12, <2>2 DEF TakesSlot, Deletes, HoldingPCs
    <2>4. req'[r].pc \notin GatedPCs
      BY <1>12 DEF Deletes, GatedPCs, CountedPCs, LetThroughPCs
    <2>5. QED BY <1>12, <1>s, <2>3, <2>4 DEF Deletes
  <1>13. QED
    BY <1>5, <1>6, <1>7, <1>8, <1>9, <1>10, <1>11, <1>12, Effects

\* The HealthScorer takes a site only for an account it puts off the books.
LEMMA QuotaScorer ==
    ASSUME TypeOK, HeldRows, HeldRows', HealthScorer,
           NEW u \in Users, u \notin offBooks', u \notin offBooks => QuotaKept(u)
    PROVE  QuotaKept(u)'
  <1>1. u \notin offBooks /\ req' = req
    BY DEF HealthScorer, ScorerList, ScorerSave, ScorerSkip
  <1>2. \A p \in Projects : TakesSlot(u, p)' => TakesSlot(u, p)
    <2>1. ASSUME NEW copy \in scorer, ScorerSave(copy), NEW p \in Projects, TakesSlot(u, p)'
          PROVE  TakesSlot(u, p)
      <3>1. copy \in Copies
        BY DEF TypeOK
      <3>2. CASE copy.project # p
        <4>1. project'[p] = project[p]
          BY <2>1, <3>1, <3>2, SaveType DEF ScorerSave
        <4>2. QED BY <1>1, <2>1, <4>1 DEF TakesSlot
      <3>3. CASE copy.project = p /\ Owner[p] = u /\ copy.goal \in SEOGoals
        <4>1. p \in LiveSEO(u)
          BY <2>1, <3>3 DEF ScorerSave
        <4>2. QED BY <4>1 DEF LiveSEO, FindAllByUser, TakesSlot
      <3>4. CASE copy.project = p /\ ~ (Owner[p] = u /\ copy.goal \in SEOGoals)
        <4>1. project'[p].goal = copy.goal
          BY <2>1, <3>1, <3>4, SaveType DEF ScorerSave
        <4>2. QED BY <1>1, <2>1, <3>4, <4>1 DEF TakesSlot
      <3>5. QED BY <3>2, <3>3, <3>4
    <2>2. ASSUME project' = project, NEW p \in Projects, TakesSlot(u, p)'
          PROVE  TakesSlot(u, p)
      BY <1>1, <2>2 DEF TakesSlot
    <2>3. QED BY <2>1, <2>2 DEF HealthScorer, ScorerList, ScorerSkip
  <1>3. /\ Slots(u) = {p \in Projects : TakesSlot(u, p)}
        /\ Slots(u)' = {p \in Projects : TakesSlot(u, p)'}
    BY DEF Slots, LiveSEO, FindAllByUser, Holders, HeldRows, Copies, TakesSlot
  <1>4. Slots(u)' \subseteq Slots(u)
    BY <1>2, <1>3
  <1>5. Gated(u)' \subseteq Gated(u)
    BY <1>1 DEF Gated, InFlight
  <1>6. QED BY <1>1, <1>4, <1>5, QuotaShrinks

QuotaInv == \A u \in Users : u \notin offBooks => QuotaKept(u)

LEMMA QuotaInit == Init => QuotaInv
  <1> SUFFICES ASSUME Init, NEW u \in Users PROVE QuotaKept(u)
    BY DEF QuotaInv
  <1>1. Slots(u) = {} /\ Gated(u) = {}
    BY DEF Init, Idle, Slots, Gated, LiveSEO, FindAllByUser, Holders, HoldingPCs, InFlight
  <1>2. Cardinality(Slots(u)) = 0 /\ Cardinality(Gated(u)) = 0
    BY <1>1, FS_EmptySet
  <1>3. QED BY <1>2, LimitType, ProjectAssumption DEF QuotaKept

LEMMA QuotaStep ==
    TypeOK /\ HeldRows /\ HeldRows' /\ InFlightBound /\ QuotaInv /\ [Next]_vars => QuotaInv'
  <1> SUFFICES ASSUME TypeOK, HeldRows, HeldRows', InFlightBound, QuotaInv, [Next]_vars,
                      NEW u \in Users, u \notin offBooks'
               PROVE  QuotaKept(u)'
    BY DEF QuotaInv
  <1>1. u \notin offBooks => QuotaKept(u)
    BY DEF QuotaInv
  <1>2. ASSUME NEW r \in Requests, Acts(r) PROVE QuotaKept(u)'
    BY <1>1, <1>2, QuotaActs
  <1>3. CASE HealthScorer
    BY <1>1, <1>3, QuotaScorer
  <1>4. CASE UNCHANGED vars
    BY <1>1, <1>4 DEF vars, QuotaKept, Slots, Gated, LiveSEO, FindAllByUser, Holders, InFlight
  <1>5. QED BY <1>2, <1>3, <1>4 DEF Next, Acts

\* However the check of the quota and the writes it allows interleave, an account
\* has at most as many sites as its limit and the requests it had in flight beside
\* the one that was let through.
THEOREM QuotaBoundHolds == Spec => []QuotaBound
  <1>1. QuotaInv => QuotaBound
    BY DEF QuotaInv, QuotaKept, QuotaBound
  <1>2. QED BY <1>1, QuotaInit, QuotaStep, TypeCorrect, InFlightBoundHolds, PTL DEF Spec

-----------------------------------------------------------------------------
\* The crawls of p between their delete and their insert.
Inserting(p) == {r \in Requests : req[r].pc = "crawl.insert" /\ req[r].copy.project = p}

IssuesKept(p) == Cardinality(open[p]) + Cardinality(Inserting(p)) <= MaxInFlight

LEMMA IssuesFinite ==
    ASSUME TypeOK, NEW p \in Projects
    PROVE  /\ IsFiniteSet(open[p]) /\ Cardinality(open[p]) \in Nat
           /\ IsFiniteSet(Inserting(p)) /\ Cardinality(Inserting(p)) \in Nat
  <1>1. open[p] \in SUBSET Requests /\ Inserting(p) \in SUBSET Requests
    BY DEF TypeOK, Inserting
  <1>2. QED BY <1>1, ProjectAssumption, FS_Subset, FS_CardinalityType

LEMMA IssuesShrink ==
    ASSUME TypeOK, NEW p \in Projects, IssuesKept(p),
           open'[p] \subseteq open[p], Inserting(p)' \subseteq Inserting(p)
    PROVE  IssuesKept(p)'
  <1>1. /\ Cardinality(open'[p]) \in Nat /\ Cardinality(open[p]) \in Nat
        /\ Cardinality(open'[p]) <= Cardinality(open[p])
    BY IssuesFinite, GrowsNot
  <1>2. /\ Cardinality(Inserting(p)') \in Nat /\ Cardinality(Inserting(p)) \in Nat
        /\ Cardinality(Inserting(p)') <= Cardinality(Inserting(p))
    BY IssuesFinite, GrowsNot
  <1>3. QED BY <1>1, <1>2, ProjectAssumption DEF IssuesKept

\* Only a crawl's delete and insert, and the resolving of an issue, touch the open
\* issues; only a delete brings a crawl to its insert.
LEMMA IssueEffects ==
    ASSUME TypeOK, NEW r \in Requests, Acts(r)
    PROVE  \/ CrawlDeleteIssues(r) \/ CrawlInsertIssues(r)
           \/ /\ \A p \in Projects : open'[p] \subseteq open[p]
              /\ req'[r].pc # "crawl.insert"
  <1>1. CASE Create(r)
    <2>1. CASE CreateCount(r)
      BY <2>1 DEF CreateCount, GateCount, TypeOK, RequestState
    <2>2. CASE CreatePlan(r)
      BY <2>2 DEF CreatePlan, GatePlan, Finish, Idle, TypeOK, RequestState
    <2>3. CASE CreateInsert(r)
      BY <2>3 DEF CreateInsert, Holding, TypeOK
    <2>4. CASE OnboardMode(r)
      BY <2>4 DEF OnboardMode, GoTo, TypeOK, RequestState
    <2>5. QED BY <1>1, <2>1, <2>2, <2>3, <2>4 DEF Create
  <1>2. CASE Update(r)
    <2>1. CASE UpdateCount(r)
      BY <2>1 DEF UpdateCount, GateCount, TypeOK, RequestState
    <2>2. CASE UpdatePlan(r)
      BY <2>2 DEF UpdatePlan, GatePlan, Finish, Idle, TypeOK, RequestState
    <2>3. CASE UpdateFind(r)
      BY <2>3 DEF UpdateFind, Finish, Idle, Holding, TypeOK
    <2>4. CASE UpdateSave(r)
      BY <2>4 DEF UpdateSave, Finish, Idle, TypeOK
    <2>5. QED BY <1>2, <2>1, <2>2, <2>3, <2>4 DEF Update
  <1>3. CASE Delete(r)
    BY <1>3 DEF Delete, Finish, Idle, TypeOK
  <1>4. CASE Crawl(r)
    BY <1>4 DEF Crawl, CrawlFind, CrawlFails, CrawlSave, Finish, Idle, Holding, TypeOK
  <1>5. CASE ResolveIssue(r)
    BY <1>5 DEF ResolveIssue, Finish, Idle, TypeOK
  <1>6. CASE StatementFails(r) \/ ServerStops(r)
    BY <1>6 DEF StatementFails, ServerStops, GoTo, Finish, Idle, TypeOK, RequestState
  <1>7. QED BY <1>1, <1>2, <1>3, <1>4, <1>5, <1>6 DEF Acts

LEMMA IssuesStep ==
    TypeOK /\ HeldRows /\ TypeOK' /\ HeldRows' /\ InFlightBound' /\ IssuesBound /\ [Next]_vars
      => IssuesBound'
  <1> SUFFICES ASSUME TypeOK, HeldRows, TypeOK', HeldRows', InFlightBound', IssuesBound,
                      [Next]_vars,
                      NEW p \in Projects
               PROVE  IssuesKept(p)'
    BY DEF IssuesBound, IssuesKept, Inserting
  <1>0. IssuesKept(p)
    BY DEF IssuesBound, IssuesKept, Inserting
  <1>1. ASSUME NEW r \in Requests, Acts(r) PROVE IssuesKept(p)'
    <2>1. \A q \in Requests \ {r} : req'[q] = req[q]
      BY <1>1, OthersWait
    <2>2. CASE CrawlDeleteIssues(r) /\ req[r].copy.project = p
      <3>1. open'[p] = {}
        BY <2>2 DEF CrawlDeleteIssues, TypeOK
      <3>2. Inserting(p)' \in SUBSET (InFlight(Owner[p])')
        BY DEF Inserting, InFlight, HeldRows, HoldingPCs
      <3>3. Owner[p] \in Users
        BY ProjectAssumption
      <3>4. /\ IsFiniteSet(InFlight(Owner[p])') /\ Cardinality(InFlight(Owner[p])') \in Nat
            /\ Cardinality(InFlight(Owner[p])') <= MaxInFlight
        <4>1. InFlight(Owner[p])' \in SUBSET Requests
          BY DEF InFlight
        <4>2. QED BY <3>3, <4>1, ProjectAssumption, FS_Subset, FS_CardinalityType DEF InFlightBound
      <3>5. Cardinality(Inserting(p)') <= MaxInFlight /\ Cardinality(Inserting(p)') \in Nat
        BY <3>2, <3>4, GrowsNot, ProjectAssumption
      <3>6. Cardinality(open'[p]) = 0
        BY <3>1, FS_EmptySet
      <3>7. QED BY <3>5, <3>6, ProjectAssumption DEF IssuesKept
    <2>3. CASE CrawlInsertIssues(r) /\ req[r].copy.project = p
      <3>1. r \in Inserting(p) /\ open'[p] \subseteq open[p] \cup {r}
        BY <2>3 DEF CrawlInsertIssues, Inserting, TypeOK
      <3>2. req'[r].pc = "crawl.save"
        BY <2>3 DEF CrawlInsertIssues, GoTo, TypeOK, RequestState
      <3>3. Inserting(p)' \subseteq Inserting(p) \ {r}
        BY <2>1, <3>2 DEF Inserting
      <3>4. /\ Cardinality(open'[p]) \in Nat /\ Cardinality(open[p]) \in Nat
            /\ Cardinality(open'[p]) <= Cardinality(open[p]) + 1
        BY <3>1, IssuesFinite, GrowsByOne
      <3>5. /\ IsFiniteSet(Inserting(p) \ {r})
            /\ Cardinality(Inserting(p) \ {r}) = Cardinality(Inserting(p)) - 1
            /\ Cardinality(Inserting(p)) \in Nat
        BY <3>1, IssuesFinite, FS_RemoveElement
      <3>6. /\ Cardinality(Inserting(p)') \in Nat
            /\ Cardinality(Inserting(p)') <= Cardinality(Inserting(p) \ {r})
        BY <3>3, <3>5, GrowsNot
      <3>7. QED BY <1>0, <3>4, <3>5, <3>6, ProjectAssumption DEF IssuesKept
    <2>4. CASE /\ CrawlDeleteIssues(r) \/ CrawlInsertIssues(r)
               /\ req[r].copy.project # p
      <3>1. open'[p] = open[p] /\ req'[r].copy = req[r].copy
        BY <2>4 DEF CrawlDeleteIssues, CrawlInsertIssues, GoTo, TypeOK, RequestState
      <3>2. Inserting(p)' \subseteq Inserting(p)
        BY <2>1, <2>4, <3>1 DEF Inserting
      <3>3. QED BY <1>0, <3>1, <3>2, IssuesShrink
    <2>5. CASE /\ \A x \in Projects : open'[x] \subseteq open[x]
               /\ req'[r].pc # "crawl.insert"
      <3>1. Inserting(p)' \subseteq Inserting(p)
        BY <2>1, <2>5 DEF Inserting
      <3>2. QED BY <1>0, <2>5, <3>1, IssuesShrink
    <2>6. QED BY <1>1, <2>2, <2>3, <2>4, <2>5, IssueEffects
  <1>2. CASE HealthScorer \/ UNCHANGED vars
    <2>1. open' = open /\ req' = req
      BY <1>2 DEF HealthScorer, ScorerList, ScorerSave, ScorerSkip, vars
    <2>2. QED BY <1>0, <2>1 DEF IssuesKept, Inserting
  <1>3. QED BY <1>1, <1>2 DEF Next, Acts

LEMMA IssuesInit == Init => IssuesBound
  <1> SUFFICES ASSUME Init, NEW p \in Projects PROVE IssuesKept(p)
    BY DEF IssuesBound, IssuesKept, Inserting
  <1>1. open[p] = {} /\ Inserting(p) = {}
    BY DEF Init, Idle, Inserting
  <1>2. QED BY <1>1, FS_EmptySet, ProjectAssumption DEF IssuesKept

\* A project shows the findings of at most as many crawls as its owner may have in
\* flight: each delete takes all that came before it.
THEOREM IssuesBoundHolds == Spec => []IssuesBound
  BY IssuesInit, IssuesStep, TypeCorrect, InFlightBoundHolds, PTL DEF Spec
=============================================================================
