------------------------------ MODULE BillingPage ------------------------------
(***************************************************************************)
(* The user's billing page: a copy of the subscription, and three actions  *)
(* on it, each a call followed by a reading of the page's data.  Another   *)
(* tab or the staff may act on the same account.                           *)
(*                                                                         *)
(*   account   what the API resolves: the status of the subscription, and  *)
(*             whether the trial has been used.  Its calls are those of    *)
(*             module Billing, here one step each                          *)
(*   copy      state of the component, or "none"                           *)
(*   hasPlans  the plans are loaded                                        *)
(*   doing, at the handler under way, and whether it waits for its call or *)
(*             for the refresh that follows; "open" is the first refresh   *)
(***************************************************************************)
EXTENDS Naturals

CONSTANT MaxPressed \* bound on the actions the user starts

PressedAssumption == MaxPressed \in Nat

VARIABLES
    account, copy, hasPlans, loading, busy, cycle, doing, at, pressed,
    copyStale  \* history: the account changed since the copy was read

billingVars == <<account, copy, hasPlans, loading, busy, cycle, doing, at, pressed, copyStale>>

Statuses == {"free", "trialing", "active", "canceled"}
Handlers == {"trial", "subscribe", "cancel"}

BillingTypeOK ==
    /\ account \in [status : Statuses, used : BOOLEAN]
    /\ copy \in Statuses \cup {"none"}
    /\ {hasPlans, loading, busy, copyStale} \subseteq BOOLEAN
    /\ cycle \in {"monthly", "yearly"}
    /\ doing \in Handlers \cup {"open", "nothing"} /\ at \in {"idle", "called", "refreshing"}
    /\ pressed \in 0 .. MaxPressed

BillingInit ==
    /\ account \in [status : Statuses, used : BOOLEAN]
    /\ account.status = "trialing" => account.used
    /\ copy = "none" /\ hasPlans = FALSE
    /\ loading = TRUE /\ busy = FALSE /\ cycle = "monthly"
    /\ doing = "open" /\ at = "refreshing" /\ pressed = 0 /\ copyStale = FALSE

-----------------------------------------------------------------------------
(* What the page offers: a spinner, an apology without a copy, or the      *)
(* buttons the copy calls for.                                             *)
Visible == ~loading /\ copy # "none"

\* The badge of the card "Current plan", with the dates that go with it.
Badge ==
    [Trialing |-> copy = "trialing", Active |-> copy = "active", Canceled |-> copy = "canceled",
     Free |-> copy = "free"]

\* "Try Pro free": trial and subscription, to those on the free plan.
UpgradeCard == Visible /\ hasPlans /\ copy \in {"free", "canceled"}

\* "Manage subscription": a change of plan, unless it is active, and the end of it.
ManageCard == Visible /\ hasPlans /\ copy \in {"active", "trialing"}

\* CycleToggle.
setCycle ==
    /\ UpgradeCard \/ ManageCard
    /\ ~busy
    /\ cycle' = IF cycle = "monthly" THEN "yearly" ELSE "monthly"
    /\ UNCHANGED <<account, copy, hasPlans, loading, busy, doing, at, pressed, copyStale>>

\* A handler, up to its call.
Press(h) ==
    /\ ~busy /\ pressed < MaxPressed
    /\ pressed' = pressed + 1
    /\ busy' = TRUE /\ doing' = h /\ at' = "called"
    /\ UNCHANGED <<account, copy, hasPlans, loading, cycle, copyStale>>

handleStartTrial == UpgradeCard /\ Press("trial")

\* A bug: the button of an active plan is not disabled.
SubscribeAnyway == (UpgradeCard \/ ManageCard) /\ Press("subscribe")

handleSubscribe == (UpgradeCard \/ (ManageCard /\ copy # "active")) /\ Press("subscribe")

handleCancel == ManageCard /\ Press("cancel")

-----------------------------------------------------------------------------
(* The calls.                                                              *)

StartTrial ==
    /\ ~account.used
    /\ account' = [status |-> "trialing", used |-> TRUE]

Subscribe == account' = [account EXCEPT !.status = "active"]

Cancel ==
    /\ account.status # "free"
    /\ account' = [account EXCEPT !.status = "canceled"]

Taken(h) ==
    \/ h = "trial" /\ StartTrial
    \/ h = "subscribe" /\ Subscribe
    \/ h = "cancel" /\ Cancel

\* The call succeeds, and the page is read again.
CallSucceeds ==
    /\ at = "called" /\ Taken(doing)
    /\ at' = "refreshing" /\ loading' = TRUE
    /\ copyStale' = (copyStale \/ account' # account)
    /\ UNCHANGED <<copy, hasPlans, busy, cycle, doing, pressed>>

\* The call fails, before or after the API took it; a toast says so.
CallFails ==
    /\ at = "called" /\ (Taken(doing) \/ UNCHANGED account)
    /\ at' = "idle" /\ doing' = "nothing" /\ busy' = FALSE
    /\ copyStale' = (copyStale \/ account' # account)
    /\ UNCHANGED <<copy, hasPlans, loading, cycle, pressed>>

\* Both calls of refresh are answered.
RefreshLands ==
    /\ at = "refreshing"
    /\ copy' = account.status /\ hasPlans' = TRUE /\ copyStale' = FALSE
    /\ loading' = FALSE /\ busy' = FALSE /\ at' = "idle" /\ doing' = "nothing"
    /\ UNCHANGED <<account, cycle, pressed>>

\* A bug: a refresh that fails leaves the spinner.
RefreshFailsLoading ==
    /\ at = "refreshing"
    /\ busy' = FALSE /\ at' = "idle" /\ doing' = "nothing"
    /\ UNCHANGED <<account, copy, hasPlans, loading, cycle, pressed, copyStale>>

\* One of them fails: the page keeps what it has, the handler goes on as if it had not.
RefreshFails ==
    /\ at = "refreshing"
    /\ loading' = FALSE /\ busy' = FALSE /\ at' = "idle" /\ doing' = "nothing"
    /\ UNCHANGED <<account, copy, hasPlans, cycle, pressed, copyStale>>

\* Another tab, or the staff, acts on the account.
OtherActs(h) ==
    /\ Taken(h) /\ account' # account
    /\ copyStale' = TRUE
    /\ UNCHANGED <<copy, hasPlans, loading, busy, cycle, doing, at, pressed>>

BillingNext ==
    \/ setCycle \/ handleStartTrial \/ handleSubscribe \/ handleCancel
    \/ CallSucceeds \/ CallFails \/ RefreshLands \/ RefreshFails
    \/ \E h \in Handlers : OtherActs(h)

-----------------------------------------------------------------------------
(* Nobody who subscribes already is subscribed again, and nobody who has   *)
(* no subscription is asked to cancel one, while the copy is up to date.   *)
OffersFitAccount ==
    /\ at = "called" /\ ~copyStale =>
          /\ doing \in {"trial", "subscribe"} => account.status # "active"
          /\ doing = "cancel" => account.status \in {"active", "trialing"}
    /\ Visible /\ ~copyStale =>
          /\ Badge.Free \/ Badge.Canceled <=> account.status \in {"free", "canceled"}
          /\ Badge.Trialing => account.status = "trialing" /\ account.used

(* The spinner and the disabled buttons have a call under way.             *)
BillingSpinnerHasCause ==
    /\ loading => at = "refreshing"
    /\ busy => at # "idle"
=============================================================================
