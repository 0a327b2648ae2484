---------------------------- MODULE Entitlements ----------------------------
(***************************************************************************)
(* What the current plan of a user allows: the lookups of the subscription *)
(* repository and the pure part of the entitlement service, as operators   *)
(* on the set of subscription rows of one user.                            *)
(*                                                                         *)
(* A row keeps the columns the handlers decide on.  starts_at is a tick of *)
(* a logical clock: two rows never share one, so a set of rows loses       *)
(* nothing of the table's order.                                           *)
(***************************************************************************)
EXTENDS Naturals

CONSTANTS Users,        \* registered or registrable accounts
          PaidPlans,    \* pro_monthly, pro_yearly
          FreePlan,     \* DefaultPlanCode
          MaxSites      \* plans.max_sites of every plan row

Plans == PaidPlans \cup {FreePlan}

ASSUME PlanAssumption ==
    /\ FreePlan \notin PaidPlans
    /\ MaxSites \in [Plans -> Nat \ {0}]

\* The statuses FindCurrentByUser accepts.  past_due is declared in the model
\* package and written by no code.
CurrentStatuses == {"active", "trialing"}
Statuses == CurrentStatuses \cup {"canceled"}

SubscriptionRow == [startsAt : Nat, plan : Plans, status : Statuses]

\* A bug: the plan and the status of the new row are swapped.
RowSwapped(startsAt, plan, status) ==
    [startsAt |-> startsAt, plan |-> status, status |-> plan]

Row(startsAt, plan, status) ==
    [startsAt |-> startsAt, plan |-> plan, status |-> status]

\* The rows ordered first by starts_at DESC: a singleton, or empty with rows.
Newest(rows) == {s \in rows : \A t \in rows : t.startsAt <= s.startsAt}

FindLatestByUser(rows) == Newest(rows)

Current(rows) == {s \in rows : s.status \in CurrentStatuses}

FindCurrentByUser(rows) == Newest(Current(rows))

\* The plan a request is judged by: the plan of the newest current row, else free.
ResolveSubscription(rows) ==
    IF \E s \in FindCurrentByUser(rows) : TRUE
    THEN (CHOOSE s \in FindCurrentByUser(rows) : TRUE).plan
    ELSE FreePlan

\* The goals that take one of the plan's SEO sites.
SEOGoals == {"seo", "both"}
Goals == SEOGoals \cup {"social"}

\* The verdict of the quota gate on a project of this goal.
CanCreateSEOProject(goal, count, plan) ==
    goal \in SEOGoals => count < MaxSites[plan]
=============================================================================
