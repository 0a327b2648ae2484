--------------------------- MODULE BillingProofs ---------------------------
(***************************************************************************)
(* What Billing guarantees for every set of accounts, requests and plans.  *)
(***************************************************************************)
EXTENDS Billing, TLAPS, WellFoundedInduction

LEMMA RowType ==
    ASSUME NEW at \in Nat, NEW p \in Plans, NEW st \in Statuses
    PROVE  Row(at, p, st) \in SubscriptionRow
  BY DEF Row, SubscriptionRow

LEMMA TargetsAreRows == ASSUME NEW rows PROVE Targets(rows) \subseteq rows
  BY DEF Targets, Newest

LEMMA UpdateTargetsType ==
    ASSUME TypeOK, NEW r \in Requests, NEW rewritten \in SUBSET SubscriptionRow,
           UpdateTargets(r, rewritten)
    PROVE  subs' \in [Users -> SUBSET SubscriptionRow] /\ raced' \in SUBSET Users
  BY RequestAssumption DEF UpdateTargets, TypeOK

LEMMA TypeInit == Init => TypeOK
  BY RequestAssumption, PlanAssumption
  DEF Init, TypeOK, Idle, RequestState, PCs, Plans

LEMMA TypeStep == TypeOK /\ [Next]_vars => TypeOK'
  <1> SUFFICES ASSUME TypeOK, [Next]_vars PROVE TypeOK'
    OBVIOUS
  <1> USE RequestAssumption, PlanAssumption
  <1>1. ASSUME NEW r \in Requests, Register(r) PROVE TypeOK'
    <2> USE DEF TypeOK, RequestState, PCs, Plans, GoTo, Finish, Idle
    <2>1. CASE RegisterFindByEmail(r)
      BY <2>1 DEF RegisterFindByEmail
    <2>2. CASE RegisterCreateUser(r)
      BY <2>2 DEF RegisterCreateUser
    <2>3. CASE RegisterCreateSubscription(r)
      BY <2>3 DEF RegisterCreateSubscription, InsertRow, Row, SubscriptionRow, Statuses,
         CurrentStatuses
    <2>4. QED BY <1>1, <2>1, <2>2, <2>3 DEF Register
  <1>2. ASSUME NEW r \in Requests, StartTrial(r) PROVE TypeOK'
    <2> USE DEF TypeOK, RequestState, PCs, Plans, GoTo, Finish, Idle
    <2>1. CASE StartTrialCheckUsed(r)
      BY <2>1 DEF StartTrialCheckUsed
    <2>2. CASE StartTrialFindLatest(r)
      BY <2>2 DEF StartTrialFindLatest
    <2>3. CASE StartTrialCreate(r)
      BY <2>3 DEF StartTrialCreate, InsertRow, Row, SubscriptionRow, Statuses, CurrentStatuses
    <2>4. CASE StartTrialUpdate(r)
      <3> DEFINE rewritten == {Row(s.startsAt, req[r].plan, "trialing") : s \in Targets(subs[Sender[r]])}
      <3>1. rewritten \in SUBSET SubscriptionRow
        BY TargetsAreRows, RowType DEF Statuses, CurrentStatuses, SubscriptionRow
      <3>2. UpdateTargets(r, rewritten)
        BY <2>4 DEF StartTrialUpdate
      <3>3. subs' \in [Users -> SUBSET SubscriptionRow] /\ raced' \in SUBSET Users
        <4> HIDE DEF rewritten
        <4>1. TypeOK
          OBVIOUS
        <4>2. QED BY <3>1, <3>2, <4>1, UpdateTargetsType
      <3>4. QED BY <2>4, <3>3 DEF StartTrialUpdate
    <2>5. CASE StartTrialSetFlag(r)
      BY <2>5 DEF StartTrialSetFlag
    <2>6. QED BY <1>2, <2>1, <2>2, <2>3, <2>4, <2>5 DEF StartTrial
  <1>3. ASSUME NEW r \in Requests, Subscribe(r) PROVE TypeOK'
    <2> USE DEF TypeOK, RequestState, PCs, Plans, GoTo, Finish, Idle
    <2>1. CASE SubscribeFindCurrent(r)
      <3>1. PICK p \in PaidPlans :
              IF FindCurrentByUser(subs[Sender[r]]) = {}
              THEN /\ clock' = clock + 1
                   /\ req' = [req EXCEPT ![r].pc = "subscribe.create", ![r].plan = p,
                                         ![r].now = clock + 1]
              ELSE /\ req' = [req EXCEPT ![r].pc = "subscribe.update", ![r].plan = p]
                   /\ UNCHANGED clock
        BY <2>1 DEF SubscribeFindCurrent
      <3>2. QED BY <2>1, <3>1 DEF SubscribeFindCurrent
    <2>2. CASE SubscribeCreate(r)
      BY <2>2 DEF SubscribeCreate, InsertRow, Row, SubscriptionRow, Statuses, CurrentStatuses
    <2>3. CASE UpdatePlanAndStatus(r)
      <3> DEFINE rewritten == {Row(s.startsAt, req[r].plan, "active") : s \in Targets(subs[Sender[r]])}
      <3>1. rewritten \in SUBSET SubscriptionRow
        BY TargetsAreRows, RowType DEF Statuses, CurrentStatuses, SubscriptionRow
      <3>2. UpdateTargets(r, rewritten)
        BY <2>3 DEF UpdatePlanAndStatus
      <3>3. subs' \in [Users -> SUBSET SubscriptionRow] /\ raced' \in SUBSET Users
        <4> HIDE DEF rewritten
        <4>1. TypeOK
          OBVIOUS
        <4>2. QED BY <3>1, <3>2, <4>1, UpdateTargetsType
      <3>4. QED BY <2>3, <3>3 DEF UpdatePlanAndStatus
    <2>4. QED BY <1>3, <2>1, <2>2, <2>3 DEF Subscribe
  <1>4. ASSUME NEW r \in Requests, Cancel(r) PROVE TypeOK'
    <2> USE DEF TypeOK, RequestState, PCs, Plans, GoTo, Finish, Idle
    <2>1. CASE CancelFindLatest(r)
      <3>1. Finish(r) \/ GoTo(r, "cancel.update")
        BY <2>1 DEF CancelFindLatest
      <3>2. QED BY <2>1, <3>1 DEF CancelFindLatest
    <2>2. CASE CancelUpdate(r)
      <3> DEFINE rewritten == {Row(s.startsAt, s.plan, "canceled") : s \in Targets(subs[Sender[r]])}
      <3>1. rewritten \in SUBSET SubscriptionRow
        BY TargetsAreRows, RowType DEF Statuses, CurrentStatuses, SubscriptionRow
      <3>2. UpdateTargets(r, rewritten)
        BY <2>2 DEF CancelUpdate
      <3>3. subs' \in [Users -> SUBSET SubscriptionRow] /\ raced' \in SUBSET Users
        <4> HIDE DEF rewritten
        <4>1. TypeOK
          OBVIOUS
        <4>2. QED BY <3>1, <3>2, <4>1, UpdateTargetsType
      <3>4. QED BY <2>2, <3>3 DEF CancelUpdate
    <2>3. QED BY <1>4, <2>1, <2>2 DEF Cancel
  <1>5. ASSUME NEW r \in Requests, UpdateMe(r) PROVE TypeOK'
    <2> USE DEF TypeOK, RequestState, PCs
    <2>1. CASE UpdateMeFindByID(r)
      BY <2>1 DEF UpdateMeFindByID, Authenticated
    <2>2. CASE UpdateMeSave(r)
      BY <2>2 DEF UpdateMeSave, Finish, Idle, Plans
    <2>3. QED BY <1>5, <2>1, <2>2 DEF UpdateMe
  <1>6. ASSUME NEW r \in Requests, StatementFails(r) PROVE TypeOK'
    BY <1>6 DEF StatementFails, TypeOK, RequestState, PCs, Plans, Finish, Idle
  <1>7. CASE UNCHANGED vars
    BY <1>7 DEF vars, TypeOK
  <1>8. QED BY <1>1, <1>2, <1>3, <1>4, <1>5, <1>6, <1>7 DEF Next

\* Every column and every local keeps its range, whatever the requests do.
THEOREM TypeCorrect == Spec => []TypeOK
  BY TypeInit, TypeStep, PTL DEF Spec

-----------------------------------------------------------------------------
\* Only the request that acts changes its locals.
LEMMA OthersWait ==
    ASSUME TypeOK, NEW r \in Requests, NEW q \in Requests, q # r,
           \/ Register(r) \/ StartTrial(r) \/ Subscribe(r) \/ Cancel(r)
           \/ UpdateMe(r) \/ StatementFails(r)
    PROVE  req'[q] = req[q]
  <1> USE DEF TypeOK, GoTo, Finish
  <1>1. CASE Register(r)
    BY <1>1 DEF Register, RegisterFindByEmail, RegisterCreateUser,
       RegisterCreateSubscription
  <1>2. CASE StartTrial(r)
    BY <1>2 DEF StartTrial, StartTrialCheckUsed, StartTrialFindLatest, StartTrialCreate,
       StartTrialUpdate, StartTrialSetFlag
  <1>3. CASE Subscribe(r)
    BY <1>3 DEF Subscribe, SubscribeFindCurrent, SubscribeCreate, UpdatePlanAndStatus
  <1>4. CASE Cancel(r)
    BY <1>4 DEF Cancel, CancelFindLatest, CancelUpdate
  <1>5. CASE UpdateMe(r)
    BY <1>5 DEF UpdateMe, UpdateMeFindByID, UpdateMeSave
  <1>6. CASE StatementFails(r)
    BY <1>6 DEF StatementFails
  <1>7. QED BY <1>1, <1>2, <1>3, <1>4, <1>5, <1>6

\* A step that makes no row trialing, clears no flag and does not take the pending
\* flag write of a StartTrial away keeps every trial accounted for.
LEMMA AccountedKept ==
    ASSUME TypeOK, TrialAccounted, NEW r \in Requests, req[r].pc # "trial.flag",
           \A q \in Requests \ {r} : req'[q] = req[q],
           \A u \in Users : (\E s \in subs'[u] : s.status = "trialing")
                              => \E s \in subs[u] : s.status = "trialing",
           \A u \in Users : account[u] = "used" => account'[u] = "used" \/ u \in flagLost',
           flagLost \subseteq flagLost'
    PROVE  TrialAccounted'
  BY DEF TrialAccounted, InFlight

LEMMA AccountedStep == TypeOK /\ TrialAccounted /\ [Next]_vars => TrialAccounted'
  <1> SUFFICES ASSUME TypeOK, TrialAccounted, [Next]_vars PROVE TrialAccounted'
    OBVIOUS
  <1> USE RequestAssumption DEF Row
  <1>1. ASSUME NEW r \in Requests, Register(r) PROVE TrialAccounted'
    <2>1. \A q \in Requests \ {r} : req'[q] = req[q]
      BY <1>1, OthersWait
    <2>2. req[r].pc # "trial.flag" /\ flagLost' = flagLost
      BY <1>1 DEF Register, RegisterFindByEmail, RegisterCreateUser,
         RegisterCreateSubscription, Arrives
    <2>3. \A u \in Users : account[u] = "used" => account'[u] = "used"
      BY <1>1 DEF Register, RegisterFindByEmail, RegisterCreateUser,
         RegisterCreateSubscription, TypeOK
    <2>4. \A u \in Users : \A s \in subs'[u] : s.status = "trialing" => s \in subs[u]
      BY <1>1 DEF Register, RegisterFindByEmail, RegisterCreateUser,
         RegisterCreateSubscription, InsertRow, TypeOK
    <2>5. QED BY <2>1, <2>2, <2>3, <2>4, AccountedKept
  <1>2. ASSUME NEW r \in Requests, StartTrial(r) PROVE TrialAccounted'
    <2>1. \A q \in Requests \ {r} : req'[q] = req[q]
      BY <1>2, OthersWait
    <2>2. CASE StartTrialCheckUsed(r) \/ StartTrialFindLatest(r)
      <3>1. req[r].pc # "trial.flag" /\ UNCHANGED <<flagLost, account, subs>>
        BY <2>2 DEF StartTrialCheckUsed, StartTrialFindLatest, Arrives, Authenticated
      <3>2. QED BY <2>1, <3>1, AccountedKept
    <2>3. CASE StartTrialCreate(r) \/ StartTrialUpdate(r)
      <3>1. req'[r].pc = "trial.flag" /\ req[r].pc # "trial.flag"
        BY <2>3 DEF StartTrialCreate, StartTrialUpdate, GoTo, TypeOK, RequestState
      <3>2. UNCHANGED <<account, flagLost>>
        BY <2>3 DEF StartTrialCreate, StartTrialUpdate
      <3>3. \A u \in Users \ {Sender[r]} : subs'[u] = subs[u]
        BY <2>3 DEF StartTrialCreate, StartTrialUpdate, InsertRow, UpdateTargets, TypeOK
      <3>4. QED BY <2>1, <3>1, <3>2, <3>3 DEF TrialAccounted, InFlight
    <2>4. CASE StartTrialSetFlag(r)
      <3>1. account'[Sender[r]] = "used"
        BY <2>4 DEF StartTrialSetFlag, TypeOK
      <3>2. UNCHANGED <<subs, flagLost>>
        BY <2>4 DEF StartTrialSetFlag
      <3>3. \A u \in Users \ {Sender[r]} : account'[u] = account[u]
        BY <2>4 DEF StartTrialSetFlag, TypeOK
      <3>4. QED BY <2>1, <3>1, <3>2, <3>3 DEF TrialAccounted, InFlight
    <2>5. QED BY <1>2, <2>2, <2>3, <2>4 DEF StartTrial
  <1>3. ASSUME NEW r \in Requests, Subscribe(r) \/ Cancel(r) PROVE TrialAccounted'
    <2>1. \A q \in Requests \ {r} : req'[q] = req[q]
      BY <1>3, OthersWait
    <2>2. req[r].pc # "trial.flag" /\ UNCHANGED <<account, flagLost>>
      BY <1>3 DEF Subscribe, SubscribeFindCurrent, SubscribeCreate, UpdatePlanAndStatus,
         Cancel, CancelFindLatest, CancelUpdate, Authenticated, Arrives
    <2>3. \A u \in Users : \A s \in subs'[u] : s.status = "trialing" => s \in subs[u]
      <3>0. CASE SubscribeFindCurrent(r) \/ CancelFindLatest(r)
        <4>1. subs' = subs
          BY <3>0 DEF SubscribeFindCurrent, CancelFindLatest
        <4>2. QED BY <4>1
      <3>1. CASE SubscribeCreate(r)
        BY <3>1 DEF SubscribeCreate, InsertRow, TypeOK
      <3>2. CASE UpdatePlanAndStatus(r)
        BY <3>2 DEF UpdatePlanAndStatus, UpdateTargets, TypeOK
      <3>3. CASE CancelUpdate(r)
        BY <3>3 DEF CancelUpdate, UpdateTargets, TypeOK
      <3>4. QED BY <1>3, <3>0, <3>1, <3>2, <3>3 DEF Subscribe, Cancel
    <2>4. QED BY <2>1, <2>2, <2>3, AccountedKept
  <1>4. ASSUME NEW r \in Requests, UpdateMe(r) PROVE TrialAccounted'
    <2>1. \A q \in Requests \ {r} : req'[q] = req[q]
      BY <1>4, OthersWait
    <2>2. req[r].pc # "trial.flag" /\ subs' = subs /\ flagLost \subseteq flagLost'
      BY <1>4 DEF UpdateMe, UpdateMeFindByID, UpdateMeSave, Authenticated, Arrives
    <2>3. \A u \in Users : account[u] = "used" => account'[u] = "used" \/ u \in flagLost'
      BY <1>4 DEF UpdateMe, UpdateMeFindByID, UpdateMeSave, TypeOK, RequestState
    <2>4. QED BY <2>1, <2>2, <2>3, AccountedKept
  <1>5. ASSUME NEW r \in Requests, StatementFails(r) PROVE TrialAccounted'
    <2>1. \A q \in Requests \ {r} : req'[q] = req[q]
      BY <1>5, OthersWait
    <2>2. UNCHANGED <<subs, account>> /\ flagLost \subseteq flagLost'
      BY <1>5 DEF StatementFails
    <2>3. CASE req[r].pc = "trial.flag"
      <3>1. Sender[r] \in flagLost'
        BY <1>5, <2>3 DEF StatementFails
      <3>2. QED BY <2>1, <2>2, <3>1 DEF TrialAccounted, InFlight
    <2>4. CASE req[r].pc # "trial.flag"
      BY <2>1, <2>2, <2>4, AccountedKept
    <2>5. QED BY <2>3, <2>4
  <1>6. CASE UNCHANGED vars
    BY <1>6 DEF vars, TrialAccounted, InFlight
  <1>7. QED BY <1>1, <1>2, <1>3, <1>4, <1>5, <1>6 DEF Next

\* Every trialing row is behind a trial_used_at, a StartTrial about to write it, or
\* a lost flag, for every interleaving and every failure.
THEOREM TrialAccountedFor == Spec => []TrialAccounted
  <1>1. Init => TrialAccounted
    BY DEF Init, TrialAccounted
  <1>2. QED BY <1>1, TypeCorrect, AccountedStep, PTL DEF Spec

-----------------------------------------------------------------------------
\* Once sealed, the account keeps its flag and every request of it that can still
\* write a trial, or an old users row, is ruled out.
LEMMA SealStep ==
    ASSUME TypeOK, [Next]_vars, NEW u \in Users, TrialSealed(u)
    PROVE  TrialSealed(u)' /\ TrialRowTimes(u)' \subseteq TrialRowTimes(u)
  <1> USE RequestAssumption DEF TrialSealed, TrialRowTimes, InFlight, TypeOK
  <1>1. ASSUME NEW r \in Requests, Sender[r] # u,
               \/ Register(r) \/ StartTrial(r) \/ Subscribe(r) \/ Cancel(r)
               \/ UpdateMe(r) \/ StatementFails(r)
        PROVE  TrialSealed(u)' /\ TrialRowTimes(u)' \subseteq TrialRowTimes(u)
    <2>1. \A q \in Requests : Sender[q] = u => req'[q] = req[q]
      BY <1>1, OthersWait
    <2>2. account'[u] = account[u] /\ subs'[u] = subs[u]
      <3>1. CASE Register(r)
        BY <1>1, <3>1 DEF Register, RegisterFindByEmail, RegisterCreateUser,
           RegisterCreateSubscription, InsertRow
      <3>2. CASE StartTrial(r)
        BY <1>1, <3>2 DEF StartTrial, StartTrialCheckUsed, StartTrialFindLatest,
           StartTrialCreate, StartTrialUpdate, StartTrialSetFlag, InsertRow, UpdateTargets
      <3>3. CASE Subscribe(r)
        BY <1>1, <3>3 DEF Subscribe, SubscribeFindCurrent, SubscribeCreate,
           UpdatePlanAndStatus, InsertRow, UpdateTargets
      <3>4. CASE Cancel(r)
        BY <1>1, <3>4 DEF Cancel, CancelFindLatest, CancelUpdate, UpdateTargets
      <3>5. CASE UpdateMe(r) \/ StatementFails(r)
        BY <1>1, <3>5 DEF UpdateMe, UpdateMeFindByID, UpdateMeSave, StatementFails
      <3>6. QED BY <1>1, <3>1, <3>2, <3>3, <3>4, <3>5
    <2>3. QED BY <2>1, <2>2
  <1>2. ASSUME NEW r \in Requests, Sender[r] = u, Register(r)
        PROVE  TrialSealed(u)' /\ TrialRowTimes(u)' \subseteq TrialRowTimes(u)
    <2>1. \A q \in Requests : q # r => req'[q] = req[q]
      BY <1>2, OthersWait
    <2>2. account' = account
      BY <1>2 DEF Register, RegisterFindByEmail, RegisterCreateUser,
         RegisterCreateSubscription
    <2>3. req'[r].pc \in {"done", "register.user"}
      BY <1>2 DEF Register, RegisterFindByEmail, RegisterCreateUser,
         RegisterCreateSubscription, GoTo, Finish, Idle, RequestState
    <2>4. \A s \in subs'[u] : s.status = "trialing" => s \in subs[u]
      BY <1>2 DEF Register, RegisterFindByEmail, RegisterCreateUser,
         RegisterCreateSubscription, InsertRow, Row
    <2>5. QED BY <2>1, <2>2, <2>3, <2>4
  <1>3. ASSUME NEW r \in Requests, Sender[r] = u, StartTrial(r)
        PROVE  TrialSealed(u)' /\ TrialRowTimes(u)' \subseteq TrialRowTimes(u)
    <2>1. \A q \in Requests : q # r => req'[q] = req[q]
      BY <1>3, OthersWait
    <2>2. CASE StartTrialCheckUsed(r)
      <3>1. Finish(r)
        BY <1>3, <2>2 DEF StartTrialCheckUsed
      <3>2. req'[r].pc = "done"
        BY <3>1 DEF Finish, Idle
      <3>3. UNCHANGED <<account, subs>>
        BY <2>2 DEF StartTrialCheckUsed
      <3>4. QED BY <2>1, <3>2, <3>3
    <2>3. CASE StartTrialFindLatest(r) \/ StartTrialCreate(r) \/ StartTrialUpdate(r)
      <3>1. r \in InFlight(u) /\ req[r].pc \in {"trial.latest", "trial.create", "trial.update"}
        BY <1>3, <2>3 DEF StartTrialFindLatest, StartTrialCreate, StartTrialUpdate
      <3>2. QED BY <3>1
    <2>4. CASE StartTrialSetFlag(r)
      <3>1. req'[r].pc = "done" /\ account'[u] = "used" /\ subs' = subs
        BY <1>3, <2>4 DEF StartTrialSetFlag, Finish, Idle
      <3>2. QED BY <2>1, <3>1
    <2>5. QED BY <1>3, <2>2, <2>3, <2>4 DEF StartTrial
  <1>4. ASSUME NEW r \in Requests, Sender[r] = u, Subscribe(r) \/ Cancel(r)
        PROVE  TrialSealed(u)' /\ TrialRowTimes(u)' \subseteq TrialRowTimes(u)
    <2>1. \A q \in Requests : q # r => req'[q] = req[q]
      BY <1>4, OthersWait
    <2>2. account' = account
      BY <1>4 DEF Subscribe, SubscribeFindCurrent, SubscribeCreate, UpdatePlanAndStatus,
         Cancel, CancelFindLatest, CancelUpdate
    <2>3. CASE SubscribeFindCurrent(r)
      <3>1. PICK pc \in {"subscribe.create", "subscribe.update"} : req'[r].pc = pc
        BY <2>3 DEF SubscribeFindCurrent, RequestState
      <3>2. subs' = subs
        BY <2>3 DEF SubscribeFindCurrent
      <3>3. QED BY <2>1, <2>2, <3>1, <3>2
    <2>4. CASE CancelFindLatest(r)
      <3>1. req'[r].pc \in {"done", "cancel.update"}
        <4>1. Finish(r) \/ GoTo(r, "cancel.update")
          BY <2>4 DEF CancelFindLatest
        <4>2. QED BY <4>1 DEF Finish, GoTo, Idle, RequestState
      <3>2. subs' = subs
        BY <2>4 DEF CancelFindLatest
      <3>3. QED BY <2>1, <2>2, <3>1, <3>2
    <2>5. CASE SubscribeCreate(r) \/ UpdatePlanAndStatus(r) \/ CancelUpdate(r)
      <3>1. req'[r].pc = "done"
        BY <2>5 DEF SubscribeCreate, UpdatePlanAndStatus, CancelUpdate, Finish, Idle
      <3>2. \A s \in subs'[u] : s.status = "trialing" => s \in subs[u]
        <4>1. CASE SubscribeCreate(r)
          BY <1>4, <4>1 DEF SubscribeCreate, InsertRow, Row
        <4>2. CASE UpdatePlanAndStatus(r)
          BY <1>4, <4>2 DEF UpdatePlanAndStatus, UpdateTargets, Row
        <4>3. CASE CancelUpdate(r)
          BY <1>4, <4>3 DEF CancelUpdate, UpdateTargets, Row
        <4>4. QED BY <2>5, <4>1, <4>2, <4>3
      <3>3. QED BY <2>1, <2>2, <3>1, <3>2
    <2>6. QED BY <1>4, <2>3, <2>4, <2>5 DEF Subscribe, Cancel
  <1>5. ASSUME NEW r \in Requests, Sender[r] = u, UpdateMe(r)
        PROVE  TrialSealed(u)' /\ TrialRowTimes(u)' \subseteq TrialRowTimes(u)
    <2>1. \A q \in Requests : q # r => req'[q] = req[q]
      BY <1>5, OthersWait
    <2>2. CASE UpdateMeFindByID(r)
      <3>1. req'[r].pc = "updateMe.save" /\ req'[r].copy = "used"
        BY <1>5, <2>2 DEF UpdateMeFindByID, RequestState
      <3>2. UNCHANGED <<account, subs>>
        BY <2>2 DEF UpdateMeFindByID
      <3>3. QED BY <2>1, <3>1, <3>2
    <2>3. CASE UpdateMeSave(r)
      <3>1. req[r].copy = "used"
        BY <1>5, <2>3 DEF UpdateMeSave
      <3>2. req'[r].pc = "done" /\ account'[u] = "used" /\ subs' = subs
        BY <1>5, <2>3, <3>1 DEF UpdateMeSave, Finish, Idle
      <3>3. QED BY <2>1, <3>2
    <2>4. QED BY <1>5, <2>2, <2>3 DEF UpdateMe
  <1>6. ASSUME NEW r \in Requests, Sender[r] = u, StatementFails(r)
        PROVE  TrialSealed(u)' /\ TrialRowTimes(u)' \subseteq TrialRowTimes(u)
    <2>1. \A q \in Requests : q # r => req'[q] = req[q]
      BY <1>6, OthersWait
    <2>2. req'[r].pc = "done" /\ UNCHANGED <<account, subs>>
      BY <1>6 DEF StatementFails, Finish, Idle
    <2>3. QED BY <2>1, <2>2
  <1>7. CASE UNCHANGED vars
    BY <1>7 DEF vars
  <1>8. QED BY <1>1, <1>2, <1>3, <1>4, <1>5, <1>6, <1>7 DEF Next

\* One trial per account, forever, once the requests that overlapped the first
\* trial are over.
THEOREM SealedForeverHolds == Spec => SealedForever
  <1>1. TypeOK /\ [Next]_vars =>
          [\A u \in Users :
              TrialSealed(u) => /\ TrialSealed(u)'
                                /\ TrialRowTimes(u)' \subseteq TrialRowTimes(u)]_vars
    <2> SUFFICES ASSUME TypeOK, [Next]_vars, NEW u \in Users, TrialSealed(u)
                 PROVE  /\ TrialSealed(u)'
                        /\ TrialRowTimes(u)' \subseteq TrialRowTimes(u)
      OBVIOUS
    <2>1. QED BY SealStep
  <1>2. QED BY <1>1, TypeCorrect, PTL DEF Spec, SealedForever

-----------------------------------------------------------------------------
\* A set of rows with distinct stamps keeps them when some rows are rewritten one
\* for one.
LEMMA RewriteKeepsStamps ==
    ASSUME NEW rows, NEW targets \in SUBSET rows, NEW new,
           \A s, t \in rows : s.startsAt = t.startsAt => s = t,
           \A n \in new : \E s \in targets : n.startsAt = s.startsAt,
           \A m, n \in new : m.startsAt = n.startsAt => m = n
    PROVE  LET after == (rows \ targets) \cup new
           IN  /\ \A s, t \in after : s.startsAt = t.startsAt => s = t
               /\ \A t \in after : \E s \in rows : t.startsAt = s.startsAt
  OBVIOUS

\* A step that rewrites rows one for one and makes no request about to create.
LEMMA StampsKept ==
    ASSUME TypeOK, StartsAtIdentifiesRow, clock' = clock,
           \A u \in Users : \A s, t \in subs'[u] : s.startsAt = t.startsAt => s = t,
           \A u \in Users : \A t \in subs'[u] : \E s \in subs[u] : t.startsAt = s.startsAt,
           \A q \in Requests : Creating(q)' => Creating(q) /\ req'[q].now = req[q].now
    PROVE  StartsAtIdentifiesRow'
  <1>1. \A u \in Users : \A s \in subs[u] : s.startsAt \in Nat
    BY DEF TypeOK, SubscriptionRow
  <1>2. (\A u \in Users : \A s \in subs[u] : s.startsAt <= clock)'
    BY <1>1 DEF StartsAtIdentifiesRow
  <1>3. ASSUME NEW r \in Requests, Creating(r)'
        PROVE  /\ req'[r].now <= clock'
               /\ \A s \in subs'[Sender[r]] : s.startsAt # req'[r].now
               /\ \A q \in Requests : Creating(q)' /\ q # r => req'[q].now # req'[r].now
    <2>1. Creating(r) /\ req'[r].now = req[r].now
      BY <1>3
    <2>2. Sender[r] \in Users
      BY RequestAssumption
    <2>3. \A s \in subs'[Sender[r]] : s.startsAt # req'[r].now
      BY <2>1, <2>2 DEF StartsAtIdentifiesRow
    <2>4. \A q \in Requests : Creating(q)' /\ q # r => req'[q].now # req'[r].now
      BY <2>1 DEF StartsAtIdentifiesRow
    <2>5. QED BY <2>1, <2>3, <2>4 DEF StartsAtIdentifiesRow
  <1>4. QED BY <1>2, <1>3 DEF StartsAtIdentifiesRow

\* A request takes a fresh stamp.
LEMMA StampsTaken ==
    ASSUME TypeOK, StartsAtIdentifiesRow, NEW r \in Requests,
           clock' = clock + 1, subs' = subs, req'[r].now = clock + 1,
           \A q \in Requests \ {r} : req'[q] = req[q]
    PROVE  StartsAtIdentifiesRow'
  <1> USE RequestAssumption DEF TypeOK, SubscriptionRow
  <1>1. (\A u \in Users : \A s \in subs[u] : s.startsAt <= clock)'
    BY DEF StartsAtIdentifiesRow
  <1>2. \A q \in Requests \ {r} : Creating(q)' => Creating(q) /\ req[q].now \in Nat
    BY DEF Creating, RequestState
  <1>3. \A q \in Requests : Creating(q)' => req'[q].now <= clock'
    BY <1>2 DEF StartsAtIdentifiesRow
  <1>4. \A q \in Requests : Creating(q)' =>
            \A s \in subs'[Sender[q]] : s.startsAt # req'[q].now
    BY <1>2 DEF StartsAtIdentifiesRow
  <1>5. \A p, q \in Requests : Creating(p)' /\ Creating(q)' /\ p # q
                                 => req'[p].now # req'[q].now
    BY <1>2 DEF StartsAtIdentifiesRow
  <1>6. QED BY <1>1, <1>3, <1>4, <1>5 DEF StartsAtIdentifiesRow

\* A request inserts the row it has the stamp for.
LEMMA StampUsed ==
    ASSUME TypeOK, StartsAtIdentifiesRow, NEW r \in Requests, Creating(r), ~Creating(r)',
           NEW row, row.startsAt = req[r].now, InsertRow(r, row), clock' = clock,
           \A q \in Requests \ {r} : req'[q] = req[q]
    PROVE  StartsAtIdentifiesRow'
  <1> USE RequestAssumption DEF TypeOK
  <1>1. subs'[Sender[r]] = subs[Sender[r]] \cup {row}
    BY DEF InsertRow
  <1>2. \A u \in Users : u # Sender[r] => subs'[u] = subs[u]
    BY DEF InsertRow
  <1>3. \A u \in Users : \A s, t \in subs'[u] : s.startsAt = t.startsAt => s = t
    BY <1>1, <1>2 DEF StartsAtIdentifiesRow
  <1>4. \A u \in Users : \A s \in subs'[u] : s.startsAt <= clock'
    BY <1>1, <1>2 DEF StartsAtIdentifiesRow
  <1>5. \A q \in Requests : Creating(q)' => q # r /\ Creating(q) /\ req'[q] = req[q]
    BY DEF Creating
  <1>6. ASSUME NEW q \in Requests, Creating(q)'
        PROVE  \A s \in subs'[Sender[q]] : s.startsAt # req'[q].now
    BY <1>1, <1>2, <1>5, <1>6 DEF StartsAtIdentifiesRow
  <1>7. QED BY <1>3, <1>4, <1>5, <1>6 DEF StartsAtIdentifiesRow
LEMMA StampsStep ==
    TypeOK /\ StartsAtIdentifiesRow /\ [Next]_vars => StartsAtIdentifiesRow'
  <1> SUFFICES ASSUME TypeOK, StartsAtIdentifiesRow, [Next]_vars
               PROVE  StartsAtIdentifiesRow'
    OBVIOUS
  <1> USE RequestAssumption
  <1>1. ASSUME NEW r \in Requests, subs' = subs, clock' = clock, ~Creating(r)',
               \A q \in Requests \ {r} : req'[q] = req[q]
        PROVE  StartsAtIdentifiesRow'
    <2>1. \A q \in Requests : Creating(q)' => Creating(q) /\ req'[q].now = req[q].now
      BY <1>1 DEF Creating
    <2>2. QED BY <1>1, <2>1, StampsKept DEF StartsAtIdentifiesRow
  <1>2. ASSUME NEW r \in Requests, NEW plan, NEW status,
               \/ UpdateTargets(r,
                    {Row(s.startsAt, plan, status) : s \in Targets(subs[Sender[r]])})
               \/ UpdateTargets(r,
                    {Row(s.startsAt, s.plan, status) : s \in Targets(subs[Sender[r]])}),
               clock' = clock, ~Creating(r)',
               \A q \in Requests \ {r} : req'[q] = req[q]
        PROVE  StartsAtIdentifiesRow'
    <2> DEFINE rows == subs[Sender[r]]
               new1 == {Row(s.startsAt, plan, status) : s \in Targets(rows)}
               new2 == {Row(s.startsAt, s.plan, status) : s \in Targets(rows)}
    <2>1. PICK new \in {new1, new2} : UpdateTargets(r, new)
      BY <1>2
    <2>2. Targets(rows) \in SUBSET rows
      BY TargetsAreRows
    <2>3. \A s, t \in rows : s.startsAt = t.startsAt => s = t
      BY DEF StartsAtIdentifiesRow
    <2>4. \A n \in new : \E s \in Targets(rows) : n.startsAt = s.startsAt
      BY DEF Row
    <2>5. \A m, n \in new : m.startsAt = n.startsAt => m = n
      <3>1. \A s, t \in Targets(rows) : s.startsAt = t.startsAt => s = t
        BY <2>2, <2>3
      <3>2. QED BY <3>1 DEF Row
    <2>6. /\ \A s, t \in (rows \ Targets(rows)) \cup new : s.startsAt = t.startsAt => s = t
          /\ \A t \in (rows \ Targets(rows)) \cup new : \E s \in rows : t.startsAt = s.startsAt
      <3> HIDE DEF rows, new1, new2
      <3>1. QED BY <2>2, <2>3, <2>4, <2>5, RewriteKeepsStamps
    <2>7. subs'[Sender[r]] = (rows \ Targets(rows)) \cup new
      BY <2>1 DEF UpdateTargets, TypeOK
    <2>8. \A u \in Users : u # Sender[r] => subs'[u] = subs[u]
      BY <2>1 DEF UpdateTargets, TypeOK
    <2>9. \A u \in Users : \A s, t \in subs'[u] : s.startsAt = t.startsAt => s = t
      BY <2>6, <2>7, <2>8 DEF StartsAtIdentifiesRow
    <2>10. \A u \in Users : \A t \in subs'[u] : \E s \in subs[u] : t.startsAt = s.startsAt
      BY <2>6, <2>7, <2>8
    <2>11. \A q \in Requests : Creating(q)' => Creating(q) /\ req'[q].now = req[q].now
      BY <1>2 DEF Creating
    <2>12. QED BY <1>2, <2>9, <2>10, <2>11, StampsKept
  <1>3. ASSUME NEW r \in Requests, Register(r) PROVE StartsAtIdentifiesRow'
    <2>1. \A q \in Requests \ {r} : req'[q] = req[q]
      BY <1>3, OthersWait
    <2>2. CASE RegisterFindByEmail(r)
      <3>1. subs' = subs /\ clock' = clock /\ ~Creating(r)'
        BY <2>2 DEF RegisterFindByEmail, GoTo, Finish, Idle, Creating, TypeOK, RequestState
      <3>2. QED BY <1>1, <2>1, <3>1
    <2>3. CASE RegisterCreateUser(r)
      <3>1. CASE account[Sender[r]] = "absent"
        <4>1. clock' = clock + 1 /\ subs' = subs /\ req'[r].now = clock + 1
          BY <2>3, <3>1 DEF RegisterCreateUser, TypeOK, RequestState
        <4>2. QED BY <2>1, <4>1, StampsTaken
      <3>2. CASE account[Sender[r]] # "absent"
        <4>1. subs' = subs /\ clock' = clock /\ ~Creating(r)'
          BY <2>3, <3>2 DEF RegisterCreateUser, Finish, Idle, Creating, TypeOK
        <4>2. QED BY <1>1, <2>1, <4>1
      <3>3. QED BY <3>1, <3>2
    <2>4. CASE RegisterCreateSubscription(r)
      <3>1. Creating(r) /\ ~Creating(r)' /\ clock' = clock
        BY <2>4 DEF RegisterCreateSubscription, Finish, Idle, Creating, TypeOK
      <3>2. InsertRow(r, Row(req[r].now, FreePlan, "active"))
        BY <2>4 DEF RegisterCreateSubscription
      <3>3. QED BY <2>1, <3>1, <3>2, StampUsed DEF Row
    <2>5. QED BY <1>3, <2>2, <2>3, <2>4 DEF Register
  <1>4. ASSUME NEW r \in Requests, StartTrial(r) PROVE StartsAtIdentifiesRow'
    <2>1. \A q \in Requests \ {r} : req'[q] = req[q]
      BY <1>4, OthersWait
    <2>2. CASE StartTrialCheckUsed(r) \/ StartTrialSetFlag(r)
      <3>1. req'[r].pc \in {"done", "trial.latest"}
        BY <2>2 DEF StartTrialCheckUsed, StartTrialSetFlag, Finish, Idle, TypeOK, RequestState
      <3>2. subs' = subs /\ clock' = clock
        BY <2>2 DEF StartTrialCheckUsed, StartTrialSetFlag
      <3>3. QED BY <1>1, <2>1, <3>1, <3>2 DEF Creating
    <2>3. CASE StartTrialFindLatest(r)
      <3>1. subs' = subs
        BY <2>3 DEF StartTrialFindLatest
      <3>2. CASE FindLatestByUser(subs[Sender[r]]) = {}
        <4>1. clock' = clock + 1 /\ req'[r].now = clock + 1
          BY <2>3, <3>2 DEF StartTrialFindLatest, TypeOK, RequestState
        <4>2. QED BY <2>1, <3>1, <4>1, StampsTaken
      <3>3. CASE FindLatestByUser(subs[Sender[r]]) # {}
        <4>1. clock' = clock /\ GoTo(r, "trial.update")
          BY <2>3, <3>3 DEF StartTrialFindLatest
        <4>2. ~Creating(r)'
          BY <4>1 DEF GoTo, Creating, TypeOK, RequestState
        <4>3. QED BY <1>1, <2>1, <3>1, <4>1, <4>2
      <3>4. QED BY <3>2, <3>3
    <2>4. CASE StartTrialCreate(r)
      <3>1. Creating(r) /\ ~Creating(r)' /\ clock' = clock
        BY <2>4 DEF StartTrialCreate, GoTo, Creating, TypeOK, RequestState
      <3>2. InsertRow(r, Row(req[r].now, req[r].plan, "trialing"))
        BY <2>4 DEF StartTrialCreate
      <3>3. QED BY <2>1, <3>1, <3>2, StampUsed DEF Row
    <2>5. CASE StartTrialUpdate(r)
      <3>1. clock' = clock /\ ~Creating(r)'
        BY <2>5 DEF StartTrialUpdate, GoTo, Creating, TypeOK, RequestState
      <3>2. QED BY <1>2, <2>1, <2>5, <3>1 DEF StartTrialUpdate
    <2>6. QED BY <1>4, <2>2, <2>3, <2>4, <2>5 DEF StartTrial
  <1>5. ASSUME NEW r \in Requests, Subscribe(r) PROVE StartsAtIdentifiesRow'
    <2>1. \A q \in Requests \ {r} : req'[q] = req[q]
      BY <1>5, OthersWait
    <2>2. CASE SubscribeFindCurrent(r)
      <3>1. subs' = subs
        BY <2>2 DEF SubscribeFindCurrent
      <3>2. CASE FindCurrentByUser(subs[Sender[r]]) = {}
        <4>1. clock' = clock + 1 /\ req'[r].now = clock + 1
          BY <2>2, <3>2 DEF SubscribeFindCurrent, TypeOK, RequestState
        <4>2. QED BY <2>1, <3>1, <4>1, StampsTaken
      <3>3. CASE FindCurrentByUser(subs[Sender[r]]) # {}
        <4>1. clock' = clock /\ req'[r].pc = "subscribe.update"
          BY <2>2, <3>3 DEF SubscribeFindCurrent, TypeOK, RequestState
        <4>2. QED BY <1>1, <2>1, <3>1, <4>1 DEF Creating
      <3>4. QED BY <3>2, <3>3
    <2>3. CASE SubscribeCreate(r)
      <3>1. Creating(r) /\ ~Creating(r)' /\ clock' = clock
        BY <2>3 DEF SubscribeCreate, Finish, Idle, Creating, TypeOK
      <3>2. InsertRow(r, Row(req[r].now, req[r].plan, "active"))
        BY <2>3 DEF SubscribeCreate
      <3>3. QED BY <2>1, <3>1, <3>2, StampUsed DEF Row
    <2>4. CASE UpdatePlanAndStatus(r)
      <3>1. clock' = clock /\ ~Creating(r)'
        BY <2>4 DEF UpdatePlanAndStatus, Finish, Idle, Creating, TypeOK
      <3>2. QED BY <1>2, <2>1, <2>4, <3>1 DEF UpdatePlanAndStatus
    <2>5. QED BY <1>5, <2>2, <2>3, <2>4 DEF Subscribe
  <1>6. ASSUME NEW r \in Requests, Cancel(r) PROVE StartsAtIdentifiesRow'
    <2>1. \A q \in Requests \ {r} : req'[q] = req[q]
      BY <1>6, OthersWait
    <2>2. CASE CancelFindLatest(r)
      <3>1. Finish(r) \/ GoTo(r, "cancel.update")
        BY <2>2 DEF CancelFindLatest
      <3>2. ~Creating(r)'
        BY <3>1 DEF Finish, GoTo, Idle, Creating, TypeOK, RequestState
      <3>3. subs' = subs /\ clock' = clock
        BY <2>2 DEF CancelFindLatest
      <3>4. QED BY <1>1, <2>1, <3>2, <3>3
    <2>3. CASE CancelUpdate(r)
      <3>1. clock' = clock /\ ~Creating(r)'
        BY <2>3 DEF CancelUpdate, Finish, Idle, Creating, TypeOK
      <3>2. QED BY <1>2, <2>1, <2>3, <3>1 DEF CancelUpdate
    <2>4. QED BY <1>6, <2>2, <2>3 DEF Cancel
  <1>7. ASSUME NEW r \in Requests, UpdateMe(r) \/ StatementFails(r)
        PROVE  StartsAtIdentifiesRow'
    <2>1. \A q \in Requests \ {r} : req'[q] = req[q]
      BY <1>7, OthersWait
    <2>2. subs' = subs /\ clock' = clock
      BY <1>7 DEF UpdateMe, UpdateMeFindByID, UpdateMeSave, StatementFails
    <2>3. req'[r].pc \in {"done", "updateMe.save"}
      BY <1>7 DEF UpdateMe, UpdateMeFindByID, UpdateMeSave, StatementFails, Finish, Idle,
         TypeOK, RequestState
    <2>4. QED BY <1>1, <2>1, <2>2, <2>3 DEF Creating
  <1>8. CASE UNCHANGED vars
    BY <1>8 DEF vars, StartsAtIdentifiesRow, Creating
  <1>9. QED BY <1>3, <1>4, <1>5, <1>6, <1>7, <1>8 DEF Next

\* "Latest" and "current" name one row, and a racing insert never ties with it.
THEOREM StartsAtIdentifiesRowHolds == Spec => []StartsAtIdentifiesRow
  <1>1. Init => StartsAtIdentifiesRow
    BY DEF Init, StartsAtIdentifiesRow, Creating, Idle
  <1>2. QED BY <1>1, TypeCorrect, StampsStep, PTL DEF Spec

-----------------------------------------------------------------------------
\* A bounded set of rows that is not empty has a newest row.
LEMMA HasNewest ==
    ASSUME NEW rows \in SUBSET SubscriptionRow, rows # {}, NEW n \in Nat,
           \A s \in rows : s.startsAt <= n
    PROVE  Newest(rows) # {}
  <1> DEFINE ages == {n - s.startsAt : s \in rows}
             less == OpToRel(<, Nat)
  <1>1. \A s \in rows : s.startsAt \in Nat
    BY DEF SubscriptionRow
  <1>2. ages \subseteq Nat /\ ages # {}
    BY <1>1
  <1>3. PICK x \in ages : \A y \in ages : <<y, x>> \notin less
    <2> HIDE DEF ages, less
    <2>1. IsWellFoundedOn(less, Nat)
      BY NatLessThanWellFounded DEF less
    <2>2. QED BY <1>2, <2>1, WFMin
  <1>4. \A y \in ages : ~(y < x)
    BY <1>2, <1>3 DEF OpToRel
  <1>5. PICK s \in rows : x = n - s.startsAt
    BY <1>3
  <1>6. ASSUME NEW t \in rows PROVE t.startsAt <= s.startsAt
    <2>1. ~(n - t.startsAt < n - s.startsAt)
      BY <1>4, <1>5
    <2>2. s.startsAt \in Nat /\ t.startsAt \in Nat
      BY <1>1
    <2> HIDE DEF ages
    <2>3. QED BY <2>1, <2>2
  <1>7. QED BY <1>6 DEF Newest

-----------------------------------------------------------------------------
\* One newest row decides what an account resolves to.
LEMMA ResolvesTo ==
    ASSUME NEW rows, NEW row \in FindCurrentByUser(rows),
           \A s \in FindCurrentByUser(rows) : s.plan = row.plan
    PROVE  ResolveSubscription(rows) = row.plan
  BY DEF ResolveSubscription

\* A step that writes no row.
LEMMA RowsQuiet ==
    ASSUME TypeOK, RowsInv, NEW r \in Requests,
           \A q \in Requests \ {r} : req'[q] = req[q],
           subs' = subs, raced' = raced,
           \A u \in Users : account'[u] = "absent" => account[u] = "absent",
           ReadHolds(r)'
    PROVE  RowsInv'
  <1> USE RequestAssumption
  <1>1. CurrentRowsAgree'
    BY DEF RowsInv, CurrentRowsAgree
  <1>2. \A u \in Users : account'[u] = "absent" => subs'[u] = {}
    BY DEF RowsInv
  <1>3. \A q \in Requests \ {r} : ReadHolds(q)'
    BY DEF RowsInv, ReadHolds, Creating
  <1>4. QED BY <1>1, <1>2, <1>3 DEF RowsInv

\* A write to the rows of r's account leaves the other accounts and their requests
\* alone, and the other requests of r's own account stay right about what they read:
\* one that is about to insert makes the account a raced one.
LEMMA OthersHold ==
    ASSUME TypeOK, RowsInv, NEW r \in Requests,
           \A q \in Requests \ {r} : req'[q] = req[q],
           \A u \in Users \ {Sender[r]} : subs'[u] = subs[u] /\ (u \in raced' <=> u \in raced),
           subs'[Sender[r]] # {}, account' = account,
           Overlapped(r) => Sender[r] \in raced',
           req[r].pc \notin {"waiting", "done", "register.user"},
           req'[r].pc \in {"done", "trial.flag"},
           Sender[r] \notin raced'
             => \A s, t \in Current(subs'[Sender[r]]) : s.plan = t.plan /\ s.status = t.status
    PROVE  RowsInv'
  <1> USE RequestAssumption
  <1>1. account[Sender[r]] # "absent"
    BY DEF RowsInv, ReadHolds
  <1>2. \A u \in Users : account'[u] = "absent" => subs'[u] = {}
    BY <1>1 DEF RowsInv
  <1>3. CurrentRowsAgree'
    <2>1. ASSUME NEW u \in Users \ raced', NEW s \in Current(subs'[u]),
                 NEW t \in Current(subs'[u])
          PROVE  s.plan = t.plan /\ s.status = t.status
      <3>1. CASE u = Sender[r]
        BY <2>1, <3>1
      <3>2. CASE u # Sender[r]
        BY <2>1, <3>2 DEF RowsInv, CurrentRowsAgree
      <3>3. QED BY <3>1, <3>2
    <2>2. QED BY <2>1 DEF CurrentRowsAgree
  <1>4. ASSUME NEW q \in Requests PROVE ReadHolds(q)'
    <2>1. CASE q = r
      BY <1>1, <2>1 DEF ReadHolds, Creating
    <2>2. CASE q # r /\ Sender[q] = Sender[r]
      <3>1. ReadHolds(q) /\ req'[q] = req[q]
        BY <2>2 DEF RowsInv
      <3>2. Creating(q)' => Overlapped(r)
        BY <2>2, <3>1 DEF Creating, Overlapped
      <3>3. Creating(q)' => Sender[q] \in raced'
        BY <2>2, <3>2
      <3>4. req'[q].pc \in {"trial.update", "subscribe.update", "cancel.update"}
              => subs'[Sender[q]] # {}
        BY <2>2
      <3>5. QED BY <3>1, <3>3, <3>4 DEF ReadHolds
    <2>3. CASE Sender[q] # Sender[r]
      <3>1. /\ ReadHolds(q) /\ req'[q] = req[q]
            /\ subs'[Sender[q]] = subs[Sender[q]]
            /\ Sender[q] \in raced' <=> Sender[q] \in raced
        BY <2>3 DEF RowsInv
      <3>2. QED BY <3>1 DEF ReadHolds, Creating
    <2>4. QED BY <2>1, <2>2, <2>3
  <1>5. QED BY <1>2, <1>3, <1>4 DEF RowsInv

\* A step that ends with an INSERT.
LEMMA RowsInsert ==
    ASSUME TypeOK, RowsInv, NEW r \in Requests, NEW row \in SubscriptionRow,
           \A q \in Requests \ {r} : req'[q] = req[q],
           Creating(r), InsertRow(r, row), account' = account,
           req'[r].pc \in {"done", "trial.flag"}
    PROVE  RowsInv'
  <1> USE RequestAssumption
  <1>1. subs'[Sender[r]] = subs[Sender[r]] \cup {row}
    BY DEF InsertRow, TypeOK
  <1>2. \A u \in Users \ {Sender[r]} : subs'[u] = subs[u] /\ (u \in raced' <=> u \in raced)
    BY DEF InsertRow, TypeOK
  <1>3. /\ Overlapped(r) => Sender[r] \in raced'
        /\ Sender[r] \notin raced' => Sender[r] \notin raced
    BY DEF InsertRow
  <1>4. Sender[r] \notin raced' => Current(subs'[Sender[r]]) \subseteq {row}
    <2>1. Sender[r] \notin raced' => Current(subs[Sender[r]]) = {}
      BY <1>3 DEF RowsInv, ReadHolds
    <2>2. QED BY <1>1, <2>1 DEF Current
  <1>5. Sender[r] \notin raced'
          => \A s, t \in Current(subs'[Sender[r]]) : s.plan = t.plan /\ s.status = t.status
    BY <1>4
  <1>6. subs'[Sender[r]] # {}
    BY <1>1
  <1>7. req[r].pc \notin {"waiting", "done", "register.user"}
    BY DEF Creating
  <1>8. QED BY <1>2, <1>3, <1>5, <1>6, <1>7, OthersHold

\* A step that ends with an UPDATE: every row of the account is rewritten.
LEMMA RowsUpdate ==
    ASSUME TypeOK, RowsInv, NEW r \in Requests, NEW new, new # {},
           \A s, t \in Current(new) : s.plan = t.plan /\ s.status = t.status,
           \A q \in Requests \ {r} : req'[q] = req[q],
           req[r].pc \in {"trial.update", "subscribe.update", "cancel.update"},
           UpdateTargets(r, new), account' = account,
           req'[r].pc \in {"done", "trial.flag"}
    PROVE  RowsInv' /\ subs'[Sender[r]] = new
  <1> USE RequestAssumption
  <1>1. subs'[Sender[r]] = new
    BY DEF UpdateTargets, Targets, TypeOK
  <1>2. \A u \in Users \ {Sender[r]} : subs'[u] = subs[u] /\ (u \in raced' <=> u \in raced)
    BY DEF UpdateTargets, TypeOK
  <1>3. Overlapped(r) => Sender[r] \in raced'
    BY DEF UpdateTargets
  <1>4. \A s, t \in Current(subs'[Sender[r]]) : s.plan = t.plan /\ s.status = t.status
    BY <1>1
  <1>5. subs'[Sender[r]] # {}
    BY <1>1
  <1>6. req[r].pc \notin {"waiting", "done", "register.user"}
    OBVIOUS
  <1>7. RowsInv'
    BY <1>2, <1>3, <1>4, <1>5, <1>6, OthersHold
  <1>8. QED BY <1>1, <1>7

\* A set of rows that all carry one plan and are all current resolves to it.
LEMMA AllResolve ==
    ASSUME NEW rows \in SUBSET SubscriptionRow, rows # {}, NEW n \in Nat,
           \A s \in rows : s.startsAt <= n, NEW plan, NEW status \in CurrentStatuses,
           \A s \in rows : s.plan = plan /\ s.status = status
    PROVE  ResolveSubscription(rows) = plan
  <1>1. Current(rows) = rows
    BY DEF Current
  <1>2. PICK row \in FindCurrentByUser(rows) : TRUE
    BY <1>1, HasNewest DEF FindCurrentByUser
  <1>3. \A s \in FindCurrentByUser(rows) : s.plan = plan
    BY <1>1 DEF FindCurrentByUser, Newest
  <1>4. QED BY <1>2, <1>3, ResolvesTo

LEMMA RowsStep ==
    TypeOK /\ StartsAtIdentifiesRow /\ RowsInv /\ [Next]_vars => RowsInv'
  <1> SUFFICES ASSUME TypeOK, StartsAtIdentifiesRow, RowsInv, [Next]_vars PROVE RowsInv'
    OBVIOUS
  <1> USE RequestAssumption
  <1>0. \A r \in Requests : /\ req[r] \in RequestState
                            /\ subs[Sender[r]] \in SUBSET SubscriptionRow
                            /\ \A s \in subs[Sender[r]] : s.startsAt <= clock
                            /\ clock \in Nat
    BY DEF TypeOK, StartsAtIdentifiesRow
  <1>1. ASSUME NEW r \in Requests, Register(r) PROVE RowsInv'
    <2>1. \A q \in Requests \ {r} : req'[q] = req[q]
      BY <1>1, OthersWait
    <2>2. CASE RegisterFindByEmail(r)
      <3>1. req'[r].pc \in {"done", "register.user"}
        BY <2>2 DEF RegisterFindByEmail, GoTo, Finish, Idle, TypeOK, RequestState
      <3>2. UNCHANGED <<account, subs, raced>>
        BY <2>2 DEF RegisterFindByEmail
      <3>3. QED BY <2>1, <3>1, <3>2, RowsQuiet DEF ReadHolds, Creating
    <2>3. CASE RegisterCreateUser(r)
      <3>1. UNCHANGED <<subs, raced>>
        BY <2>3 DEF RegisterCreateUser
      <3>2. \A u \in Users : account'[u] = "absent" => account[u] = "absent"
        BY <2>3 DEF RegisterCreateUser, TypeOK
      <3>3. CASE account[Sender[r]] = "absent"
        <4>1. /\ req'[r].pc = "register.subscription"
              /\ account'[Sender[r]] = "fresh"
          BY <2>3, <3>3 DEF RegisterCreateUser, TypeOK, RequestState
        <4>2. subs[Sender[r]] = {}
          BY <3>3 DEF RowsInv
        <4>3. ReadHolds(r)'
          BY <3>1, <4>1, <4>2 DEF ReadHolds, Current
        <4>4. QED BY <2>1, <3>1, <3>2, <4>3, RowsQuiet
      <3>4. CASE account[Sender[r]] # "absent"
        <4>1. req'[r].pc = "done"
          BY <2>3, <3>4 DEF RegisterCreateUser, Finish, Idle, TypeOK
        <4>2. QED BY <2>1, <3>1, <3>2, <4>1, RowsQuiet DEF ReadHolds, Creating
      <3>5. QED BY <3>3, <3>4
    <2>4. CASE RegisterCreateSubscription(r)
      <3>1. /\ Creating(r) /\ account' = account
            /\ InsertRow(r, Row(req[r].now, FreePlan, "active"))
        BY <2>4 DEF RegisterCreateSubscription, Creating
      <3>2. req'[r].pc = "done"
        BY <2>4 DEF RegisterCreateSubscription, Finish, Idle, TypeOK
      <3>3. Row(req[r].now, FreePlan, "active") \in SubscriptionRow
        BY <1>0, PlanAssumption, RowType DEF RequestState, Plans, Statuses, CurrentStatuses
      <3>4. QED BY <2>1, <3>1, <3>2, <3>3, RowsInsert
    <2>5. QED BY <1>1, <2>2, <2>3, <2>4 DEF Register
  <1>2. ASSUME NEW r \in Requests, StartTrial(r) PROVE RowsInv'
    <2>1. \A q \in Requests \ {r} : req'[q] = req[q]
      BY <1>2, OthersWait
    <2>2. CASE StartTrialCheckUsed(r)
      <3>1. /\ req'[r].pc \in {"done", "trial.latest"}
            /\ account[Sender[r]] # "absent"
        BY <2>2 DEF StartTrialCheckUsed, Authenticated, Finish, Idle, TypeOK, RequestState
      <3>2. UNCHANGED <<account, subs, raced>>
        BY <2>2 DEF StartTrialCheckUsed
      <3>3. QED BY <2>1, <3>1, <3>2, RowsQuiet DEF ReadHolds, Creating
    <2>3. CASE StartTrialFindLatest(r)
      <3>1. /\ req'[r].pc \in {"trial.create", "trial.update"}
            /\ req'[r].pc = "trial.create" => FindLatestByUser(subs[Sender[r]]) = {}
            /\ req'[r].pc = "trial.update" => FindLatestByUser(subs[Sender[r]]) # {}
        BY <2>3 DEF StartTrialFindLatest, GoTo, TypeOK, RequestState
      <3>2. UNCHANGED <<account, subs, raced>>
        BY <2>3 DEF StartTrialFindLatest
      <3>3. account[Sender[r]] # "absent"
        BY <2>3 DEF StartTrialFindLatest, RowsInv, ReadHolds
      <3>4. FindLatestByUser(subs[Sender[r]]) = {} <=> subs[Sender[r]] = {}
        BY <1>0, HasNewest DEF FindLatestByUser, Newest
      <3>5. ReadHolds(r)'
        BY <3>1, <3>2, <3>3, <3>4 DEF ReadHolds, Creating, Current
      <3>6. QED BY <2>1, <3>2, <3>5, RowsQuiet
    <2>4. CASE StartTrialCreate(r)
      <3>1. /\ Creating(r) /\ account' = account
            /\ InsertRow(r, Row(req[r].now, req[r].plan, "trialing"))
        BY <2>4 DEF StartTrialCreate, Creating
      <3>2. req'[r].pc = "trial.flag"
        BY <2>4 DEF StartTrialCreate, GoTo, TypeOK
      <3>3. Row(req[r].now, req[r].plan, "trialing") \in SubscriptionRow
        BY <1>0, RowType DEF RequestState, Statuses, CurrentStatuses
      <3>4. QED BY <2>1, <3>1, <3>2, <3>3, RowsInsert
    <2>5. CASE StartTrialUpdate(r)
      <3> DEFINE new == {Row(s.startsAt, req[r].plan, "trialing") :
                           s \in Targets(subs[Sender[r]])}
      <3>1. /\ req[r].pc = "trial.update" /\ account' = account /\ UpdateTargets(r, new)
            /\ req'[r].pc = "trial.flag"
        BY <2>5 DEF StartTrialUpdate, GoTo, TypeOK
      <3>2. subs[Sender[r]] # {}
        BY <3>1 DEF RowsInv, ReadHolds
      <3>3. new # {}
        BY <3>2 DEF Targets
      <3>4. \A n \in new : n.plan = req[r].plan /\ n.status = "trialing"
        BY DEF Row
      <3>5. QED
        <4> HIDE DEF new
        <4>1. \A s, t \in Current(new) : s.plan = t.plan /\ s.status = t.status
          BY <3>4 DEF Current
        <4>2. QED BY <2>1, <3>1, <3>3, <4>1, RowsUpdate
    <2>6. CASE StartTrialSetFlag(r)
      <3>1. req'[r].pc = "done" /\ UNCHANGED <<subs, raced>>
        BY <2>6 DEF StartTrialSetFlag, Finish, Idle, TypeOK
      <3>2. \A u \in Users : account'[u] = "absent" => account[u] = "absent"
        BY <2>6 DEF StartTrialSetFlag, TypeOK
      <3>3. QED BY <2>1, <3>1, <3>2, RowsQuiet DEF ReadHolds, Creating
    <2>7. QED BY <1>2, <2>2, <2>3, <2>4, <2>5, <2>6 DEF StartTrial
  <1>3. ASSUME NEW r \in Requests, Subscribe(r) PROVE RowsInv'
    <2>1. \A q \in Requests \ {r} : req'[q] = req[q]
      BY <1>3, OthersWait
    <2>2. CASE SubscribeFindCurrent(r)
      <3>1. /\ req'[r].pc \in {"subscribe.create", "subscribe.update"}
            /\ req'[r].pc = "subscribe.create" => FindCurrentByUser(subs[Sender[r]]) = {}
            /\ req'[r].pc = "subscribe.update" => FindCurrentByUser(subs[Sender[r]]) # {}
        BY <2>2 DEF SubscribeFindCurrent, TypeOK, RequestState
      <3>2. UNCHANGED <<account, subs, raced>> /\ account[Sender[r]] # "absent"
        BY <2>2 DEF SubscribeFindCurrent, Authenticated
      <3>3. FindCurrentByUser(subs[Sender[r]]) = {} => Current(subs[Sender[r]]) = {}
        <4>1. Current(subs[Sender[r]]) \in SUBSET SubscriptionRow
          BY <1>0 DEF Current
        <4>2. \A s \in Current(subs[Sender[r]]) : s.startsAt <= clock
          BY <1>0 DEF Current
        <4>3. QED BY <1>0, <4>1, <4>2, HasNewest DEF FindCurrentByUser
      <3>4. FindCurrentByUser(subs[Sender[r]]) # {} => subs[Sender[r]] # {}
        BY DEF FindCurrentByUser, Newest, Current
      <3>5. ReadHolds(r)'
        BY <3>1, <3>2, <3>3, <3>4 DEF ReadHolds, Creating
      <3>6. QED BY <2>1, <3>2, <3>5, RowsQuiet
    <2>3. CASE SubscribeCreate(r)
      <3>1. /\ Creating(r) /\ account' = account
            /\ InsertRow(r, Row(req[r].now, req[r].plan, "active"))
        BY <2>3 DEF SubscribeCreate, Creating
      <3>2. req'[r].pc = "done"
        BY <2>3 DEF SubscribeCreate, Finish, Idle, TypeOK
      <3>3. Row(req[r].now, req[r].plan, "active") \in SubscriptionRow
        BY <1>0, RowType DEF RequestState, Statuses, CurrentStatuses
      <3>4. QED BY <2>1, <3>1, <3>2, <3>3, RowsInsert
    <2>4. CASE UpdatePlanAndStatus(r)
      <3> DEFINE new == {Row(s.startsAt, req[r].plan, "active") :
                           s \in Targets(subs[Sender[r]])}
      <3>1. /\ req[r].pc = "subscribe.update" /\ account' = account /\ UpdateTargets(r, new)
            /\ req'[r].pc = "done"
        BY <2>4 DEF UpdatePlanAndStatus, Finish, Idle, TypeOK
      <3>2. subs[Sender[r]] # {}
        BY <3>1 DEF RowsInv, ReadHolds
      <3>3. new # {}
        BY <3>2 DEF Targets
      <3>4. \A n \in new : n.plan = req[r].plan /\ n.status = "active"
        BY DEF Row
      <3>5. QED
        <4> HIDE DEF new
        <4>1. \A s, t \in Current(new) : s.plan = t.plan /\ s.status = t.status
          BY <3>4 DEF Current
        <4>2. QED BY <2>1, <3>1, <3>3, <4>1, RowsUpdate
    <2>5. QED BY <1>3, <2>2, <2>3, <2>4 DEF Subscribe
  <1>4. ASSUME NEW r \in Requests, Cancel(r) PROVE RowsInv'
    <2>1. \A q \in Requests \ {r} : req'[q] = req[q]
      BY <1>4, OthersWait
    <2>2. CASE CancelFindLatest(r)
      <3>1. /\ req'[r].pc \in {"done", "cancel.update"}
            /\ req'[r].pc = "cancel.update" => FindLatestByUser(subs[Sender[r]]) # {}
        BY <2>2 DEF CancelFindLatest, GoTo, Finish, Idle, TypeOK, RequestState
      <3>2. UNCHANGED <<account, subs, raced>> /\ account[Sender[r]] # "absent"
        BY <2>2 DEF CancelFindLatest, Authenticated
      <3>3. FindLatestByUser(subs[Sender[r]]) # {} => subs[Sender[r]] # {}
        BY DEF FindLatestByUser, Newest
      <3>4. ReadHolds(r)'
        BY <3>1, <3>2, <3>3 DEF ReadHolds, Creating
      <3>5. QED BY <2>1, <3>2, <3>4, RowsQuiet
    <2>3. CASE CancelUpdate(r)
      <3> DEFINE new == {Row(s.startsAt, s.plan, "canceled") : s \in Targets(subs[Sender[r]])}
      <3>1. /\ req[r].pc = "cancel.update" /\ account' = account /\ UpdateTargets(r, new)
            /\ req'[r].pc = "done"
        BY <2>3 DEF CancelUpdate, Finish, Idle, TypeOK
      <3>2. subs[Sender[r]] # {}
        BY <3>1 DEF RowsInv, ReadHolds
      <3>3. new # {}
        BY <3>2 DEF Targets
      <3>4. \A n \in new : n.status = "canceled"
        BY DEF Row
      <3>5. QED
        <4> HIDE DEF new
        <4>1. Current(new) = {}
          BY <3>4 DEF Current, CurrentStatuses
        <4>2. QED BY <2>1, <3>1, <3>3, <4>1, RowsUpdate
    <2>4. QED BY <1>4, <2>2, <2>3 DEF Cancel
  <1>5. ASSUME NEW r \in Requests, UpdateMe(r) PROVE RowsInv'
    <2>1. \A q \in Requests \ {r} : req'[q] = req[q]
      BY <1>5, OthersWait
    <2>2. CASE UpdateMeFindByID(r)
      <3>1. /\ req'[r].pc = "updateMe.save" /\ account[Sender[r]] # "absent"
            /\ UNCHANGED <<account, subs, raced>>
        BY <2>2 DEF UpdateMeFindByID, Authenticated, TypeOK, RequestState
      <3>2. QED BY <2>1, <3>1, RowsQuiet DEF ReadHolds, Creating
    <2>3. CASE UpdateMeSave(r)
      <3>1. req'[r].pc = "done" /\ UNCHANGED <<subs, raced>>
        BY <2>3 DEF UpdateMeSave, Finish, Idle, TypeOK
      <3>2. \A u \in Users : account'[u] = "absent" => account[u] = "absent"
        BY <1>0, <2>3 DEF UpdateMeSave, TypeOK, RequestState
      <3>3. QED BY <2>1, <3>1, <3>2, RowsQuiet DEF ReadHolds, Creating
    <2>4. QED BY <1>5, <2>2, <2>3 DEF UpdateMe
  <1>6. ASSUME NEW r \in Requests, StatementFails(r) PROVE RowsInv'
    <2>1. \A q \in Requests \ {r} : req'[q] = req[q]
      BY <1>6, OthersWait
    <2>2. req'[r].pc = "done" /\ UNCHANGED <<account, subs, raced>>
      BY <1>6 DEF StatementFails, Finish, Idle, TypeOK
    <2>3. QED BY <2>1, <2>2, RowsQuiet DEF ReadHolds, Creating
  <1>7. CASE UNCHANGED vars
    <2>1. UNCHANGED <<account, subs, req, raced>>
      BY <1>7 DEF vars
    <2>2. QED BY <2>1 DEF RowsInv, CurrentRowsAgree, ReadHolds, Creating
  <1>8. QED BY <1>1, <1>2, <1>3, <1>4, <1>5, <1>6, <1>7 DEF Next

LEMMA RowsInvHolds == Spec => []RowsInv
  <1>1. Init => RowsInv
    BY DEF Init, RowsInv, CurrentRowsAgree, ReadHolds, Creating, Idle, Current
  <1>2. QED BY <1>1, TypeCorrect, StartsAtIdentifiesRowHolds, RowsStep, PTL DEF Spec

\* The current rows of an account agree, for every overlap of requests that no write
\* fell into the read and the insert of, and again after the next UPDATE.
THEOREM CurrentRowsAgreeHolds == Spec => []CurrentRowsAgree
  <1>1. RowsInv => CurrentRowsAgree
    BY DEF RowsInv
  <1>2. QED BY <1>1, RowsInvHolds, PTL

\* An insert into rows none of which is newer decides; among newer current rows it
\* decides nothing.
LEMMA InsertResolves ==
    ASSUME TypeOK, StartsAtIdentifiesRow, NEW r \in Requests, Creating(r),
           NEW status \in CurrentStatuses, NEW plan \in Plans,
           InsertRow(r, Row(req[r].now, plan, status))
    PROVE  LET u      == Sender[r]
               latest == \A s \in Current(subs[u]) : s.startsAt < req[r].now
           IN  /\ latest => ResolveSubscription(subs'[u]) = plan
               /\ ~latest => ResolveSubscription(subs'[u]) = ResolveSubscription(subs[u])
  <1> USE RequestAssumption
  <1> DEFINE u == Sender[r]
             row == Row(req[r].now, plan, status)
             rows == Current(subs[u])
  <1>1. /\ subs'[u] = subs[u] \cup {row}
        /\ row.startsAt = req[r].now /\ row.plan = plan /\ row.status = status
    BY DEF InsertRow, TypeOK, Row
  <1>2. Current(subs'[u]) = rows \cup {row}
    BY <1>1 DEF Current
  <1>3. row.startsAt \in Nat /\ \A s \in rows : s.startsAt \in Nat
    BY <1>1 DEF TypeOK, RequestState, Current, SubscriptionRow
  <1>4. \A s \in rows : s.startsAt # row.startsAt
    BY <1>1 DEF StartsAtIdentifiesRow, Current
  <1>5. ASSUME \A s \in rows : s.startsAt < row.startsAt
        PROVE  ResolveSubscription(subs'[u]) = plan
    <2> HIDE DEF u, row, rows
    <2>1. Newest(rows \cup {row}) = {row}
      BY <1>3, <1>5 DEF Newest
    <2>2. FindCurrentByUser(subs'[u]) = {row}
      BY <1>2, <2>1 DEF FindCurrentByUser
    <2>3. QED BY <1>1, <2>2, ResolvesTo
  <1>6. ASSUME NEW s \in rows, ~(s.startsAt < row.startsAt)
        PROVE  ResolveSubscription(subs'[u]) = ResolveSubscription(subs[u])
    <2> HIDE DEF u, row, rows
    <2>1. row.startsAt < s.startsAt
      BY <1>3, <1>4, <1>6
    <2>2. Newest(rows \cup {row}) = Newest(rows)
      BY <1>3, <1>6, <2>1 DEF Newest
    <2>3. FindCurrentByUser(subs'[u]) = FindCurrentByUser(subs[u])
      BY <1>2, <2>2 DEF FindCurrentByUser, rows
    <2>4. QED BY <2>3 DEF ResolveSubscription
  <1>7. QED BY <1>1, <1>5, <1>6

\* What each write makes its account resolve to, whatever raced before it.
LEMMA WritesResolve ==
    ASSUME TypeOK, TypeOK', StartsAtIdentifiesRow, StartsAtIdentifiesRow', RowsInv,
           NEW r \in Requests
    PROVE  LET u      == Sender[r]
               latest == \A s \in Current(subs[u]) : s.startsAt < req[r].now
               insert == StartTrialCreate(r) \/ SubscribeCreate(r)
           IN  /\ StartTrialUpdate(r) \/ UpdatePlanAndStatus(r)
                    => ResolveSubscription(subs'[u]) = req[r].plan
               /\ CancelUpdate(r) => Current(subs'[u]) = {}
               /\ insert /\ latest => ResolveSubscription(subs'[u]) = req[r].plan
               /\ insert /\ ~latest
                    => ResolveSubscription(subs'[u]) = ResolveSubscription(subs[u])
  <1> USE RequestAssumption
  <1>0. /\ req[r] \in RequestState
        /\ subs'[Sender[r]] \in SUBSET SubscriptionRow
        /\ \A s \in subs'[Sender[r]] : s.startsAt <= clock'
        /\ clock' \in Nat
    BY DEF TypeOK, StartsAtIdentifiesRow
  <1>1. ASSUME NEW status \in CurrentStatuses,
               req[r].pc \in {"trial.update", "subscribe.update"},
               UpdateTargets(r, {Row(s.startsAt, req[r].plan, status) :
                                   s \in Targets(subs[Sender[r]])})
        PROVE  ResolveSubscription(subs'[Sender[r]]) = req[r].plan
    <2> DEFINE new == {Row(s.startsAt, req[r].plan, status) : s \in Targets(subs[Sender[r]])}
    <2>1. subs[Sender[r]] # {}
      BY <1>1 DEF RowsInv, ReadHolds
    <2>2. new # {}
      BY <2>1 DEF Targets
    <2>3. \A n \in new : n.plan = req[r].plan /\ n.status = status
      BY DEF Row
    <2>4. subs'[Sender[r]] = new
      BY <1>1 DEF UpdateTargets, Targets, TypeOK
    <2> HIDE DEF new
    <2>5. QED BY <1>0, <2>2, <2>3, <2>4, AllResolve
  <1>2. StartTrialUpdate(r) \/ UpdatePlanAndStatus(r)
          => ResolveSubscription(subs'[Sender[r]]) = req[r].plan
    BY <1>1 DEF StartTrialUpdate, UpdatePlanAndStatus, CurrentStatuses
  <1>3. ASSUME CancelUpdate(r) PROVE Current(subs'[Sender[r]]) = {}
    <2> DEFINE new == {Row(s.startsAt, s.plan, "canceled") : s \in Targets(subs[Sender[r]])}
    <2>1. subs'[Sender[r]] = new
      BY <1>3 DEF CancelUpdate, UpdateTargets, Targets, TypeOK
    <2>2. \A n \in new : n.status = "canceled"
      BY DEF Row
    <2> HIDE DEF new
    <2>3. QED BY <2>1, <2>2 DEF Current, CurrentStatuses
  <1>4. ASSUME StartTrialCreate(r) \/ SubscribeCreate(r)
        PROVE  LET u      == Sender[r]
                   latest == \A s \in Current(subs[u]) : s.startsAt < req[r].now
               IN  /\ latest => ResolveSubscription(subs'[u]) = req[r].plan
                   /\ ~latest => ResolveSubscription(subs'[u]) = ResolveSubscription(subs[u])
    <2>1. PICK status \in CurrentStatuses : InsertRow(r, Row(req[r].now, req[r].plan, status))
      BY <1>4 DEF StartTrialCreate, SubscribeCreate, CurrentStatuses
    <2>2. Creating(r) /\ req[r].plan \in Plans
      BY <1>0, <1>4 DEF StartTrialCreate, SubscribeCreate, Creating, RequestState
    <2>3. QED BY <2>1, <2>2, InsertResolves
  <1>5. QED BY <1>2, <1>3, <1>4

\* The account resolves to what its last UPDATE wrote, and an insert counts unless a
\* row with a later stamp is current, for every interleaving and every failure.
THEOREM PlanFollowsLastWriteHolds == Spec => PlanFollowsLastWrite
  <1>1. TypeOK /\ TypeOK' /\ StartsAtIdentifiesRow /\ StartsAtIdentifiesRow' /\ RowsInv =>
          [\A r \in Requests :
             LET u      == Sender[r]
                 latest == \A s \in Current(subs[u]) : s.startsAt < req[r].now
                 insert == StartTrialCreate(r) \/ SubscribeCreate(r)
             IN  /\ StartTrialUpdate(r) \/ UpdatePlanAndStatus(r)
                      => ResolveSubscription(subs[u])' = req[r].plan
                 /\ CancelUpdate(r) => Current(subs[u])' = {}
                 /\ insert /\ latest => ResolveSubscription(subs[u])' = req[r].plan
                 /\ insert /\ ~latest
                      => ResolveSubscription(subs[u])' = ResolveSubscription(subs[u])]_vars
    BY WritesResolve
  <1>2. QED
    BY <1>1, TypeCorrect, StartsAtIdentifiesRowHolds, RowsInvHolds, PTL
    DEF Spec, PlanFollowsLastWrite
=============================================================================
