------------------------------ MODULE Billing ------------------------------
(***************************************************************************)
(* Accounts, trials and subscriptions.  Every handler below runs in its    *)
(* own goroutine and takes no transaction and no lock, so two requests     *)
(* interleave at each statement they send to the database: a request is a  *)
(* small process, and an action is one statement with the code up to the   *)
(* next one.                                                               *)
(*                                                                         *)
(*   req[r].pc   the statement request r sends next                        *)
(*   subs[u]     the rows of the subscriptions table that belong to u      *)
(*   account[u]  the users row of u: absent, or whether trial_used_at is   *)
(*               NULL ("fresh") or set ("used")                            *)
(***************************************************************************)
EXTENDS Entitlements

CONSTANTS Requests,       \* HTTP requests; each one arrives at most once
          Sender,         \* the account each request is sent for
          DbMayFail       \* may a statement fail, or the server stop?

ASSUME RequestAssumption ==
    /\ Sender \in [Requests -> Users]
    /\ DbMayFail \in BOOLEAN

VARIABLES
    account,
    subs,
    req,
    clock,      \* time.Now(), as the number of stamps taken so far
    flagLost,   \* history: accounts that lost a trial_used_at they had earned
    raced       \* history: accounts whose rows were written while a request of
                \* theirs was about to insert one, and no UPDATE since mended it

vars == <<account, subs, req, clock, flagLost, raced>>

PCs == {"waiting", "done",
        "register.user", "register.subscription",
        "trial.latest", "trial.create", "trial.update", "trial.flag",
        "subscribe.create", "subscribe.update",
        "cancel.update", "updateMe.save"}

\* The locals of a handler: the plan asked for, the time it read, and the
\* trial_used_at of the users row it loaded.
RequestState == [pc : PCs, plan : Plans, now : Nat, copy : {"fresh", "used"}]

TypeOK ==
    /\ account \in [Users -> {"absent", "fresh", "used"}]
    /\ subs \in [Users -> SUBSET SubscriptionRow]
    /\ req \in [Requests -> RequestState]
    /\ clock \in Nat
    /\ flagLost \in SUBSET Users
    /\ raced \in SUBSET Users

InFlight(u) ==
    {r \in Requests : Sender[r] = u /\ req[r].pc \notin {"waiting", "done"}}

Idle(pc) == [pc |-> pc, plan |-> FreePlan, now |-> 0, copy |-> "fresh"]

Init ==
    /\ account = [u \in Users |-> "absent"]
    /\ subs = [u \in Users |-> {}]
    /\ req = [r \in Requests |-> Idle("waiting")]
    /\ clock = 0
    /\ flagLost = {}
    /\ raced = {}

-----------------------------------------------------------------------------
\* A request of a registered account reaches its handler.
Arrives(r) == req[r].pc = "waiting"

Authenticated(r) == Arrives(r) /\ account[Sender[r]] # "absent"

GoTo(r, pc) == req' = [req EXCEPT ![r].pc = pc]

Finish(r) == req' = [req EXCEPT ![r] = Idle("done")]

\* r has found no row in its way and is about to insert one.
Creating(r) ==
    req[r].pc \in {"register.subscription", "trial.create", "subscribe.create"}

\* Another request of r's account is about to insert.
Overlapped(r) == \E q \in Requests \ {r} : Sender[q] = Sender[r] /\ Creating(q)

\* INSERT a row for the account of r.
InsertRow(r, row) ==
    /\ subs' = [subs EXCEPT ![Sender[r]] = @ \cup {row}]
    /\ raced' = IF Overlapped(r) THEN raced \cup {Sender[r]} ELSE raced

\* A bug: the latest row is all that an UPDATE takes, while older ones are current.
TargetsNewest(rows) == Newest(rows)

\* The rows an UPDATE ... WHERE user_id = u hits.  The code chains ORDER BY
\* starts_at DESC and LIMIT 1 to it, and GORM's postgres and sqlite dialects render
\* neither on an UPDATE: every row of the account is rewritten.
Targets(rows) == rows

UpdateTargets(r, rewritten) ==
    /\ subs' = [subs EXCEPT ![Sender[r]] = (@ \ Targets(@)) \cup rewritten]
    /\ raced' = IF Overlapped(r) THEN raced \cup {Sender[r]} ELSE raced \ {Sender[r]}

-----------------------------------------------------------------------------
\* POST /api/auth/register
RegisterFindByEmail(r) ==
    /\ Arrives(r)
    /\ IF account[Sender[r]] = "absent" THEN GoTo(r, "register.user") ELSE Finish(r)
    /\ UNCHANGED <<account, subs, clock, flagLost, raced>>

\* The unique index on email turns the loser of two registrations away.
RegisterCreateUser(r) ==
    /\ req[r].pc = "register.user"
    /\ IF account[Sender[r]] = "absent"
       THEN /\ account' = [account EXCEPT ![Sender[r]] = "fresh"]
            /\ clock' = clock + 1
            /\ req' = [req EXCEPT ![r].pc = "register.subscription", ![r].now = clock + 1]
       ELSE /\ Finish(r)
            /\ UNCHANGED <<account, clock>>
    /\ UNCHANGED <<subs, flagLost, raced>>

RegisterCreateSubscription(r) ==
    /\ req[r].pc = "register.subscription"
    /\ InsertRow(r, Row(req[r].now, FreePlan, "active"))
    /\ Finish(r)
    /\ UNCHANGED <<account, clock, flagLost>>

-----------------------------------------------------------------------------
\* POST /api/billing/trial
\* A bug: trial_used_at is not looked at.
StartTrialUnchecked(r) ==
    /\ Authenticated(r)
    /\ \E p \in PaidPlans :
          req' = [req EXCEPT ![r].pc = "trial.latest", ![r].plan = p]
    /\ UNCHANGED <<account, subs, clock, flagLost, raced>>

StartTrialCheckUsed(r) ==
    /\ Authenticated(r)
    /\ IF account[Sender[r]] = "used"
       THEN Finish(r)
       ELSE \E p \in PaidPlans :
              req' = [req EXCEPT ![r].pc = "trial.latest", ![r].plan = p]
    /\ UNCHANGED <<account, subs, clock, flagLost, raced>>

StartTrialFindLatest(r) ==
    /\ req[r].pc = "trial.latest"
    /\ IF FindLatestByUser(subs[Sender[r]]) = {}
       THEN /\ clock' = clock + 1
            /\ req' = [req EXCEPT ![r].pc = "trial.create", ![r].now = clock + 1]
       ELSE /\ GoTo(r, "trial.update")
            /\ UNCHANGED clock
    /\ UNCHANGED <<account, subs, flagLost, raced>>

StartTrialCreate(r) ==
    /\ req[r].pc = "trial.create"
    /\ InsertRow(r, Row(req[r].now, req[r].plan, "trialing"))
    /\ GoTo(r, "trial.flag")
    /\ UNCHANGED <<account, clock, flagLost>>

StartTrialUpdate(r) ==
    /\ req[r].pc = "trial.update"
    /\ UpdateTargets(r,
          {Row(s.startsAt, req[r].plan, "trialing") : s \in Targets(subs[Sender[r]])})
    /\ GoTo(r, "trial.flag")
    /\ UNCHANGED <<account, clock, flagLost>>

\* A bug: the trial starts and trial_used_at stays NULL.
StartTrialNoFlag(r) ==
    /\ req[r].pc = "trial.flag"
    /\ Finish(r)
    /\ UNCHANGED <<account, subs, clock, flagLost, raced>>

StartTrialSetFlag(r) ==
    /\ req[r].pc = "trial.flag"
    /\ account' = [account EXCEPT ![Sender[r]] = "used"]
    /\ Finish(r)
    /\ UNCHANGED <<subs, clock, flagLost, raced>>

-----------------------------------------------------------------------------
\* POST /api/billing/subscribe
\* A bug: starts_at is a day, so two subscriptions of a day share it.
SubscribeStampsDay(r) ==
    /\ Authenticated(r)
    /\ \E p \in PaidPlans :
          IF FindCurrentByUser(subs[Sender[r]]) = {}
          THEN req' = [req EXCEPT ![r].pc = "subscribe.create", ![r].plan = p,
                                  ![r].now = clock]
          ELSE req' = [req EXCEPT ![r].pc = "subscribe.update", ![r].plan = p]
    /\ UNCHANGED <<account, subs, clock, flagLost, raced>>

\* A bug: Subscribe always inserts.
SubscribeAlwaysCreates(r) ==
    /\ Authenticated(r)
    /\ \E p \in PaidPlans :
          req' = [req EXCEPT ![r].pc = "subscribe.create", ![r].plan = p, ![r].now = clock + 1]
    /\ clock' = clock + 1
    /\ UNCHANGED <<account, subs, flagLost, raced>>

SubscribeFindCurrent(r) ==
    /\ Authenticated(r)
    /\ \E p \in PaidPlans :
          IF FindCurrentByUser(subs[Sender[r]]) = {}
          THEN /\ clock' = clock + 1
               /\ req' = [req EXCEPT ![r].pc = "subscribe.create", ![r].plan = p,
                                     ![r].now = clock + 1]
          ELSE /\ req' = [req EXCEPT ![r].pc = "subscribe.update", ![r].plan = p]
               /\ UNCHANGED clock
    /\ UNCHANGED <<account, subs, flagLost, raced>>

SubscribeCreate(r) ==
    /\ req[r].pc = "subscribe.create"
    /\ InsertRow(r, Row(req[r].now, req[r].plan, "active"))
    /\ Finish(r)
    /\ UNCHANGED <<account, clock, flagLost>>

UpdatePlanAndStatus(r) ==
    /\ req[r].pc = "subscribe.update"
    /\ UpdateTargets(r,
          {Row(s.startsAt, req[r].plan, "active") : s \in Targets(subs[Sender[r]])})
    /\ Finish(r)
    /\ UNCHANGED <<account, clock, flagLost>>

-----------------------------------------------------------------------------
\* POST /api/billing/cancel
CancelFindLatest(r) ==
    /\ Authenticated(r)
    /\ IF FindLatestByUser(subs[Sender[r]]) = {} THEN Finish(r) ELSE GoTo(r, "cancel.update")
    /\ UNCHANGED <<account, subs, clock, flagLost, raced>>

CancelUpdate(r) ==
    /\ req[r].pc = "cancel.update"
    /\ UpdateTargets(r,
          {Row(s.startsAt, s.plan, "canceled") : s \in Targets(subs[Sender[r]])})
    /\ Finish(r)
    /\ UNCHANGED <<account, clock, flagLost>>

-----------------------------------------------------------------------------
\* PATCH /api/auth/me: db.Save writes every column of the row it loaded, so it
\* also writes the trial_used_at it read.
UpdateMeFindByID(r) ==
    /\ Authenticated(r)
    /\ req' = [req EXCEPT ![r].copy = account[Sender[r]], ![r].pc = "updateMe.save"]
    /\ UNCHANGED <<account, subs, clock, flagLost, raced>>

UpdateMeSave(r) ==
    LET u == Sender[r]
    IN  /\ req[r].pc = "updateMe.save"
        /\ account' = [account EXCEPT ![u] = req[r].copy]
        /\ flagLost' = IF account[u] = "used" /\ req[r].copy = "fresh"
                       THEN flagLost \cup {u} ELSE flagLost
        /\ Finish(r)
        /\ UNCHANGED <<subs, clock, raced>>

-----------------------------------------------------------------------------
\* The statement r is about to send fails, or the server stops: nothing is
\* written, and nothing already written is undone.  A failed trial_used_at
\* update is only logged.
StatementFails(r) ==
    /\ DbMayFail
    /\ req[r].pc \notin {"waiting", "done"}
    /\ flagLost' = IF req[r].pc = "trial.flag"
                   THEN flagLost \cup {Sender[r]} ELSE flagLost
    /\ Finish(r)
    /\ UNCHANGED <<account, subs, clock, raced>>

Register(r) ==
    \/ RegisterFindByEmail(r) \/ RegisterCreateUser(r) \/ RegisterCreateSubscription(r)

StartTrial(r) ==
    \/ StartTrialCheckUsed(r) \/ StartTrialFindLatest(r) \/ StartTrialCreate(r)
    \/ StartTrialUpdate(r) \/ StartTrialSetFlag(r)

Subscribe(r) == SubscribeFindCurrent(r) \/ SubscribeCreate(r) \/ UpdatePlanAndStatus(r)

Cancel(r) == CancelFindLatest(r) \/ CancelUpdate(r)

UpdateMe(r) == UpdateMeFindByID(r) \/ UpdateMeSave(r)

Next ==
    \E r \in Requests :
        \/ Register(r) \/ StartTrial(r) \/ Subscribe(r) \/ Cancel(r) \/ UpdateMe(r)
        \/ StatementFails(r)

Spec == Init /\ [][Next]_vars

-----------------------------------------------------------------------------
(***************************************************************************)
(* Properties                                                              *)
(***************************************************************************)
\* starts_at is what "latest" and "current" order by: no two rows of an account
\* share one, and a row about to be inserted brings one of its own, however the
\* stamps and the inserts of racing handlers interleave.
StartsAtIdentifiesRow ==
    /\ \A u \in Users : \A s, t \in subs[u] : s.startsAt = t.startsAt => s = t
    /\ \A u \in Users : \A s \in subs[u] : s.startsAt <= clock
    /\ \A r \in Requests : Creating(r) =>
          /\ req[r].now <= clock
          /\ \A s \in subs[Sender[r]] : s.startsAt # req[r].now
          /\ \A q \in Requests : Creating(q) /\ q # r => req[q].now # req[r].now

\* No trial is handed out for nothing: an account with a trialing row has its
\* trial_used_at set, or the StartTrial that wrote the row is still on its way to
\* set it, or the flag was lost (its update failed, or a stale Save undid it).
TrialAccounted ==
    \A u \in Users :
        (\E s \in subs[u] : s.status = "trialing")
          => \/ account[u] = "used"
             \/ \E r \in InFlight(u) : req[r].pc = "trial.flag"
             \/ u \in flagLost

\* u has used its trial, no StartTrial of u is past the check of trial_used_at,
\* and no handler holds a users row of u from before the flag.
TrialSealed(u) ==
    /\ account[u] = "used"
    /\ \A r \in InFlight(u) :
          /\ req[r].pc \notin {"trial.latest", "trial.create", "trial.update"}
          /\ req[r].pc = "updateMe.save" => req[r].copy = "used"

TrialRowTimes(u) == {s.startsAt : s \in {t \in subs[u] : t.status = "trialing"}}

\* One trial per account, forever, from the moment the requests that overlapped
\* the first trial have finished: a sealed account stays sealed, and no row of it
\* becomes trialing again.
SealedForever ==
    [][\A u \in Users :
          TrialSealed(u) => /\ TrialSealed(u)'
                            /\ TrialRowTimes(u)' \subseteq TrialRowTimes(u)]_vars

\* What the account resolves to is what its last UPDATE wrote, whatever rows earlier
\* races left: the plan of a Subscribe or of a StartTrial, and after a Cancel no row
\* entitles it.  A row that an insert adds counts unless a handler that took its stamp
\* later was there first, and then the account keeps what it had.
PlanFollowsLastWrite ==
    [][\A r \in Requests :
          LET u      == Sender[r]
              latest == \A s \in Current(subs[u]) : s.startsAt < req[r].now
              insert == StartTrialCreate(r) \/ SubscribeCreate(r)
          IN  /\ StartTrialUpdate(r) \/ UpdatePlanAndStatus(r)
                   => ResolveSubscription(subs[u])' = req[r].plan
              /\ CancelUpdate(r) => Current(subs[u])' = {}
              /\ insert /\ latest => ResolveSubscription(subs[u])' = req[r].plan
              /\ insert /\ ~latest
                   => ResolveSubscription(subs[u])' = ResolveSubscription(subs[u])]_vars

\* No unique index keeps an account at one current row, and an UPDATE makes canceled
\* rows current again; yet its current rows agree on plan and status, so that it does
\* not matter which one a lookup returns, unless a write reached the account between
\* the read and the insert of another request of it and no later UPDATE mended that.
CurrentRowsAgree ==
    \A u \in Users \ raced : \A s, t \in Current(subs[u]) :
        s.plan = t.plan /\ s.status = t.status

\* What r read still holds when it writes, unless its account was raced.
ReadHolds(r) ==
    /\ req[r].pc \notin {"waiting", "done", "register.user"} => account[Sender[r]] # "absent"
    /\ req[r].pc \in {"trial.update", "subscribe.update", "cancel.update"}
         => subs[Sender[r]] # {}
    /\ Creating(r) /\ Sender[r] \notin raced => Current(subs[Sender[r]]) = {}

\* CurrentRowsAgree as an invariant of every step: rows belong to registered accounts,
\* and the reads of the requests in flight hold.
RowsInv ==
    /\ CurrentRowsAgree
    /\ \A u \in Users : account[u] = "absent" => subs[u] = {}
    /\ \A r \in Requests : ReadHolds(r)

\* "You'll keep access until the end of the current period", says the page that asks
\* for a Cancel (billing/page.tsx:124): the Cancel itself leaves the plan.
CancelKeepsAccess ==
    [][\A r \in Requests :
          CancelUpdate(r)
            => ResolveSubscription(subs[Sender[r]])' = ResolveSubscription(subs[Sender[r]])]_vars

=============================================================================
