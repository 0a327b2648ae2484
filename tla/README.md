# dmtool: TLA+ models of the back end and the front end

dmtool is a marketing dashboard: a Go (Gin, GORM) API server over SQLite or
Postgres, three background workers inside that server, and a Next.js front end.
This directory models the parts of both in which something can go wrong that unit
tests hardly reach, checks the models with TLC on small instances and proves every
safety property of the passing runs with TLAPS for every instance.

Two facts shape everything below.

**In the server, no handler and no worker opens a transaction or takes a lock.** Gin
runs every request in a goroutine of its own, a handler is a sequence of separate SQL
statements with decisions between them, and most writes are `db.Save`, which writes
back *every* column of the row the handler loaded earlier. So in the models of the
server a request is a small process, an action is one statement (or one remote call)
with the code up to the next one, and any two processes interleave between
statements.

**In the browser, no page cancels or orders its calls.** A page is a React component:
its event handlers, effects and timers run one at a time to their next `await`, and
what runs when an answer arrives uses the state its closure captured. So in the models
of the pages an action is one such task; calls under way are kept as records with
what their closures hold, answers arrive in any order, early, late or not at all,
and the user goes on clicking whatever the page leaves enabled.

Paths below are relative to `src/backend/internal/` for the server, and to
`src/frontend/` for the browser, unless they say otherwise.

## 1. Inventory

| component | state it keeps | operations | hard behaviour | what makes it correct | model |
|---|---|---|---|---|---|
| Billing and subscriptions (`handlers/billing_handlers.go`, `repository/subscription_repo.go`, part of `handlers/auth_handlers.go`) | `subscriptions` rows; `users.trial_used_at` | Register, StartTrial, Subscribe, Cancel, UpdateMe; the Stripe webhook is a stub answering 501 | check-then-act on the trial flag and on "is there a current row"; an UPDATE with an ORDER BY/LIMIT that GORM does not render; whole-row saves of `users` | one trial per account; the current rows of an account agree; the account resolves to what was written last | `Billing` |
| Entitlements (`services/entitlements`) | none | ResolveSubscription, the site limit | reads what Billing is writing | the newest current row decides | `Entitlements` |
| Projects (`handlers/project_handlers.go`, `repository/project_repo.go`) | `projects` rows, soft-deleted; `users.dashboard_mode` | Create, Onboard, Update, Delete, and the goroutine `autoSyncNewProject` | quota gate is three statements before the insert; whole-row saves after minutes of crawling | site quota; deletes and edits are not undone | `Projects` |
| SEO audits (`handlers/seo_handlers.go`, `handlers/sync_handlers.go`, `repository/seo_repo.go`) | `seo_issues` | AuditRun, SyncProject, ResolveIssue | `ReplaceOpenIssues` is a delete and an insert | the open issues are those of the last crawl | `Projects` |
| HealthScorer (`workers/health_scorer.go`) | its list of projects | list, crawl, save each, every 24 h | saves rows listed long ago | as Projects | `Projects` |
| Content calendar and CalendarPublisher (`workers/calendar_publisher.go`, `handlers/system_handlers.go`, `handlers/task_handlers.go`, `repository/task_repo.go`) | `tasks`; the worker's locals | create, edit, toggle, delete; list due, post, save | the post is remote and cannot be undone; the save that records it comes later and may be lost or overwritten | a task is posted once, and in the end | `Publisher` |
| Sessions (`handlers/auth_handlers.go`, `repository/token_repo.go`, `middleware/auth.go`, `middleware/reject_disabled.go`) | `refresh_tokens`; the tokens clients hold | Login, Refresh (rotation), Logout, impersonation | rotation is find, delete, create; suspension is checked before the token is issued | a token is used once; a logout ends its session; a suspended account gets no token | `Accounts` |
| Staff administration and RBAC (`handlers/admin_handlers.go`, `handlers/admin_roles.go`, `middleware/require_permission.go`) | `users` role, status, `role_permissions` | update, suspend, unsuspend, create/update/delete role | whole-row saves; count-then-write on the last Super Admin; permissions replaced in two statements | there is always a Super Admin; a suspension lasts | `Accounts`; the editors: `StaffEditor` |
| Metrics, insights, OAuth credentials (`repository/metric_repo.go`, `insight_repo.go`, `oauth_repo.go`, `workers/metrics_syncer.go`, `workers/insight_generator.go`) | one row per key | find, then create or update; delete all, then create | two writers of one key | one row per key | as the pages see them: `SyncedPages`, `ProfileAnalyzer`, `IntegrationsPage` |
| Client session (`lib/api-client.ts`, `lib/auth-cookie.ts`, `proxy.ts`, the login and register pages, `components/dashboard/topbar.tsx`, `components/admin/impersonation-banner.tsx`) | the cookies, shared by the tabs; in each tab the refresh in flight and the keep-alive timer | request, 401, refresh once, retry; login, logout, redirect, support session | many 401s at once; two tabs that rotate one token; a logout overtaken by a refresh | one refresh a tab; the requests of a tab never sign their user out; every request settles | `ClientSession`, `SharedCall` |
| Content calendar page (`app/(dashboard)/system/calendar/page.tsx`) | project, posts, the dialog's rows; `localStorage` | poll, select, schedule several rows, edit, delete, retry, the timer of a due post | five causes of a load of the same state; rows sent one by one | the page shows the project that was chosen; nothing is posted twice or to a wrong platform | `CalendarPage` |
| Onboarding and create project (`app/(auth)/onboarding/page.tsx`, `app/(dashboard)/projects/create/page.tsx`, `app/(dashboard)/integrations/callback/page.tsx`) | the form, the popup, a message between windows | submit, login in the popup, callback, create | three programs; closures and intervals; exit animations | one project; none without its login; no wait for nothing | `ConnectWizard` |
| Profile analyzer; traffic, ranks and growth (`social/profile-analyzer`, `analytics/traffic`, `seo/rank-tracking`, `social/growth`) | project, range, rows | load, select, sync | a sync of minutes ends in a page that moved on | what is shown belongs together | `ProfileAnalyzer`, `SyncedPages` |
| Keywords and site explorer (`seo/keywords`, `seo/site-explorer`) | keywords, seed; audit, issues | load, generate, audit | load and generation cross; the API's cache of a day | nothing is listed twice or lost | `SeoPages` |
| Billing page, projects and settings, integrations, action center, mode switcher | a copy of rows of the API | read, act, read again | copies go stale; optimistic updates; whole-form saves | copies are current at rest; a save undoes nothing | `BillingPage`, `ProjectPages`, `IntegrationsPage`, `ActionCenter`, `DashboardMode` |
| Chat, generator, automations (`ai/chat`, `ai/content`, `system/automations`) | conversation, draft, automations | send, generate, copy, toggle | inputs stay editable during a call | an answer follows its question | `AiPages` |
| Staff console (`app/(dashboard)/admin`) | lists, a user, plans, roles, a project | filter, page, edit, suspend, impersonate | answers out of order; whole-form saves beside other staff | a list answers its filters; a save undoes nothing | `StaffList`, `StaffUser`, `StaffEditor`, `StaffProject`, `StaffConsole` |
| Rate limiter, migrations and seeds, SEO crawler, remote API clients, server assembly, reports, pages that read once | little or none | HTTP, HTML parsing, DDL, rendering | | | not modelled, see section 7 |

How they interact: on the server everything goes through the database. Billing writes the rows
that the quota gate of Projects and the entitlement checks read; Projects decides
which projects the three workers visit; UpdateMe, the admin handlers and StartTrial
all write whole `users` rows; Publisher looks up the live projects at the start of
each run. The workers are goroutines of the API process (`src/backend/cmd/api/main.go`)
with a ticker each, and stop with it; `src/docker-compose.yml` restarts the server
(`restart: unless-stopped`).

The pages call the API through the one client of `lib/api-client.ts`, whose interceptors
add the token and renew it, and share nothing with each other but the cookies and
`localStorage`: a page begins anew when it is opened. Two windows talk once, when the
callback page posts `OAUTH_SUCCESS` to the wizard that opened it.

`PROJECT.json` lists the hazards of this code line by line with the properties that
cover each; a hazard without one says why.

## 2. Modules and the code

| module | what it is |
|---|---|
| `Entitlements` | the repository lookups and the entitlement rules as operators on the rows of one account; extended by the next two |
| `Billing` | accounts, trials, subscriptions: state machine and properties |
| `BillingProofs` | its theorems |
| `Projects` | projects, quota, crawls, issues, HealthScorer: state machine and properties |
| `ProjectsProofs` | its theorems |
| `Publisher` | calendar tasks, their requests and the CalendarPublisher: state machine and properties |
| `PublisherProofs` | its theorems |
| `Accounts` | staff administration of the `users` row, and sessions: state machine and properties |
| `AccountsProofs` | its theorems |
| `ClientSession` | the cookies, the api-client in every tab, login, logout and support sessions: state machine and properties |
| `SharedCall` | what the shared refresh promises: the abstract specification that ClientSession implements |
| `ClientSessionProofs` | its theorems, the refinement among them |
| `CalendarPage`, `ConnectWizard`, `ProfileAnalyzer`, `BillingPage`, `ProjectPages`, `IntegrationsPage`, `ActionCenter`, `DashboardMode`, `SyncedPages`, `SeoPages`, `AiPages` | one page, or a few alike, each: state machine and properties |
| `Workspace` | the dashboard: one of those pages is open; its properties are those of the page that is |
| `PageProofs` | the theorems of the calendar, the wizards, the list of projects and the settings |
| `WorkspaceProofs` | the theorems of the other pages, and of all of them together |
| `StaffList`, `StaffUser`, `StaffEditor`, `StaffProject` | the pages of the staff console, in the same way |
| `StaffConsole` | their composition behind the guard of `admin/layout.tsx` |
| `StaffConsoleProofs` | its theorems |
| `MCBilling`, `MCProjects`, `MCPublisher`, `MCAccounts`, `MCClientSession`, `MCWorkspace`, `MCStaffConsole`, `MCConnectWizard`, `MCSyncedPages` | the constants of the TLC runs |

Definitions whose comment begins "A bug:" are plausible mistakes in a definition of
the code next to it (a dropped check, a missing reset). No action of the
specification uses them. Each property is shown to notice one of them: TLC finds the
property violated when the definition is replaced. Where a property is a conjunction
over the pages, every page has at least one mistake of its own, and each of them is
noticed by the run.

**Conventions.** `req[r].pc` names the statement request `r` will send next; the other
fields are the handler's locals it still needs, reset when it does not. A request
that would answer without writing (400, 404) is left out or ends at its read. A
request arrives once; a retry is another request. Database rows are kept at the
columns the decisions read.

### Billing

`account[u]` is the `users` row of `u`: absent, or whether `trial_used_at` is NULL
(`"fresh"`) or set (`"used"`). `subs[u]` is the account's rows. `starts_at`, which
"latest" and "current" order by, is a tick of a logical clock taken where the code calls
`time.Now()`; the row is inserted a statement later, so rows may be inserted in another
order than they were stamped. Two calls of `time.Now()` are assumed to differ.

*LIMIT.* Cancel, StartTrial and `UpdatePlanAndStatus` are written
`Where("user_id = ?").Order("starts_at DESC").Limit(1).Updates(...)`. GORM's postgres and
sqlite dialects render neither ORDER BY nor LIMIT on an UPDATE, so every row of the
account is hit (`Targets`), canceled ones included. That is the deployed meaning and the only
one modelled; nothing serialises the requests of an account, and nothing does in the model.

*The other writers of `users`.* UpdateMe stands for the whole-row saves of `users`: to
the trial flag, the admin handlers do nothing else. `Accounts` has them all.

*Failure.* `StatementFails` drops the rest of a request: the statement failed, or the
server stopped, which for one request is the same. A server stop that ends several
requests is several such steps.

Two history variables. `flagLost`: the accounts whose flag was lost to a failure or to a
stale save. `raced`: the accounts whose rows were written between the read and the insert of
another of their requests; an UPDATE, which rewrites every row alike, takes the account out
again unless another insert is still to come.

### Projects

`project[p]` is absent, live or soft-deleted, with its goal and `edit`, the request whose
values the user-entered columns hold. A process that loaded a row holds a copy of
those two. `Save` is GORM's `Save`: an UPDATE restricted to live rows and, when that hits
none, an `INSERT ... ON CONFLICT DO UPDATE` of all columns, `deleted_at = NULL` included;
so it revives a deleted project. `open[p]` is the set of crawls whose findings are open.

The gate is two statements: `CountSEOByUser`, whose error `entitlements.go:112` drops with a
count of zero, and the plan lookup, which may give any plan because Billing runs beside
it. After `CreateInsert` the answer is sent and the same process goes on as
`autoSyncNewProject`; an Onboard sets `dashboard_mode` first. `CrawlFind`, `CrawlDeleteIssues`,
`CrawlInsertIssues` and `CrawlSave` are the audit, the sync and that goroutine. `scorer` is what
a run of the HealthScorer has listed and not reached.

`offBooks` is a history variable: accounts given an SEO project that nobody counted,
by a failed count or by the HealthScorer reviving one.

### Publisher

`task[t]` is the row: due date (0 is NULL; an automation is a task without one),
`completed`, `publish_status`, platform. A run of the worker is `FindProjects`,
`FindDueScheduledTasks`, then for each task in due order `SkipTask` (unknown platform or
project), or `PublishContent`/`PublishFails` followed by `UpdateTask`, then `RunEnds`. A failed
call may have posted all the same. `UpdateCalendarEvent` loads the row and reads the
form, uploads included, before it saves; a due date in the form sets `publish_status` back
to scheduled and leaves `completed`. Failures of the worker and restarts of the server
are counted against `MaxFailures`; failed saves of requests are not, they change nothing.
`live`, the projects `FindAll` returns, flips freely: the composition with Projects is
abstracted to that. `posts` and `saved` are history variables.

### Accounts

`user[u]` is the `users` row at the two columns the guards read, `role` and `disabled_at`.
Roles are `owner` (customers), `admin` (Super Admin, the one system role) and the custom
roles of staff; a custom role is taken to have any permission. UpdateMe,
UpdateUser, SuspendUser and UnsuspendUser read the row (`UpdateMeFind`, ...), UpdateUser counts
the Super Admins when it demotes one (`UpdateUserCount`), and `Save` writes the row held. The
sender of a request is checked once, on arrival (`UserRequest`): the middleware
reads the row (`RejectDisabled`) and the permission guard reuses what it read. What an
impersonator sends to PATCH /api/auth/me is an UpdateMe of the account impersonated.

`token[r]` is the `refresh_tokens` row that request `r` inserted; its `session` is the login
that the chain of rotations began with, which the code does not store. A login and
a registration check, then issue (`Login`, `issueTokens`); a refresh finds the token, reads the
user, deletes the token and issues the next (`FindByRawToken`, `RefreshFindUser`, `RefreshRotate`,
`issueTokens`); a logout finds and deletes (`Revoke`). Nothing looks at how many rows a DELETE
hit, and Refresh drops its error. `revoked` is never set: `RevokeByHash`,
`RevokeAllForUser` and `PurgeExpired` have no caller.

`forked`, `overtaken` and `stale` are history variables: the sessions that a refresh left with
a second token, the requests that hold a row read before some role changed, and
whether one of those has saved its row.

### ClientSession

One browser, any number of tabs. The cookies `dmtool_token`, `dmtool_user`,
`dmtool_impersonation_token` and the HttpOnly `refresh_token` are shared by the tabs; in
each tab `refreshInFlight` (here `inFlight[t]`: who started the call it holds) and
`keepAliveTimer` are module variables of `lib/api-client.ts`. A request is sent with the
token of the jar (`SendRequest`), is answered (`Answered`) or gets a 401 (`Renew`, `GiveUp`,
`DropSupport`: the three branches of the response interceptor); a refresh is rotated or
refused by the API, and its answer lands, is refused or is lost (`RefreshLands`,
`RefreshRefusedLands`, `RefreshFails`), with the continuations of everyone who waited. The
API's side of the rotation is that of `Accounts`, here one step. A logout is two steps, the
API's (`LogoutRevokes`) and the end of the call (`handleLogout`), between which anything may
happen and after the first of which the answer may be lost. `proxy` is a load of a document:
`proxy.ts` sends the paths under `/dashboard` and `/admin` to the login page when the jar has
neither token, and lets every other path through. `SetImpersonation` writes its cookies
whatever the jar holds. History variables: `rotatedBy`; `excused`, the
refresh tokens revoked or whose successor was lost; and `closed`, the logins signed out of of
which, when the logout ended, nothing was on its way and the browser kept no accepted cookie.

`SharedCall` is the promise of `runRefresh` alone: in a tab one call is under way at a time,
who needs it joins it, and nobody waits once it ends. `SharesOneCall` is
`Shared!Spec`, with the calls under way and the requests that wait as its state: every
step of ClientSession is a Start, a Join, a Finish or nothing there.

### The pages

Each module keeps the state of a component under the names it has there, and what its
closures hold in a record per call. What the API keeps is a variable too, in as much
detail as the page can tell, and other tabs, other staff and the workers write it
between any two steps. Two conventions: a call is taken by the API and answered in one
step where nothing can come in between that the page could tell, and in separate steps where it
can (`DataAnswered` and `DataLands` of SyncedPages, for instance); and what a page offers is
defined by what it renders (`Usable`, `Offered`, `Buttons`, ...), so that an action the user
cannot reach is not taken.

`CalendarPage` has the five causes of a `fetchData` (poll, choice, due post, save, act), the
dialog with its rows, `saveScheduledContent` row by row with the check on the row and the call
on the project, and module Publisher's effect on the posts as one step. The rows that are left
of a save keep the places they had in the dialog (`save.todo` is a function on those places),
as the loop goes through a filtered array in its order.

`ConnectWizard` has three programs: the page, the popup, the callback page; each submission is
an attempt with its own listener, interval and login it needs (`neededLogin`: LinkedIn's or
Meta's, `LinkedIn` names the one channel of the first), and the step that leaves stays
clickable until its exit animation ends. The popup shows the login it was last sent to
(`provider`), the API keeps the tokens by login (`credential`), and the message that the
callback posts names a provider which the listeners do not look at (`MessageLands`). A callback
whose window is closed or sent elsewhere may have stored its token (`Abandoned`).

`ProjectPages` has the form of the settings by parts (`Parts`: what both tabs send) over the
values `Values`, of which `EmptyField` is the empty string. `loadProject` fills the Facebook
part with `EmptyField`: the page reads `fb_handle` (`settings/page.tsx:61`), the API answers
`facebook_handle` (`models/project.go:34`), and PUT reads `fb_handle` again
(`project_handlers.go:192`).

`ActionCenter` reads the tasks at the API in one step and shows them in another (`GetTasks`,
`TasksLand`), and a toggle is the API's find (`ToggleFinds`), then its save with the answer
(`ToggleLands`) or with an error that may come before or after it (`ToggleFails`). `AiPages`
has the same of the automations.

In the console `StaffEditor` keeps each run of `refresh` with the rows the API answered it
(`GetRows`), so that two may land in either order (`TableLands`), and a deletion that was done
and whose answer was lost (`DeleteFails`); `StaffUser` separates the API's read from the
filling of the page (`GetUser`, `RefreshLands`) in the same way.

`Workspace` opens one page: a behaviour is one visit, since pages share nothing but
`localStorage`, which is part of the initial states. `StaffConsole` does the same behind
`AdminGuard`, which shows the page as well when its request fails.

**What the properties excuse.** The exceptions in the properties of the pages are history
variables: they are set where the code itself lets go of an order, and while one is set its
property says nothing. None of them makes the code right about the hazard it stands for: the
property bounds the harm to the steps that set it, and section 6 lists what that means for a
user. Most are reset by what mends the page:

| variable | set by | until |
|---|---|---|
| `unsettled` (calendar) | a load begins while another is under way, or fails; another tab selects | the next load begins alone |
| `strayed` (calendar) | a selection fails or meets another load; a timer loads a project that was left; another tab selects | the next selection begins alone |
| `upset` (analyzer) | a load or a selection meets another or fails; a sync ends after another project was chosen | the next selection, or the next sync's load of the project chosen, begins alone |
| `crossed` (pages that sync) | fetches meet; a sync brings back what was left; a call fails | the next fetch runs alone |
| `muddled` (tasks) | an error takes back more than its own click, or a stored toggle; two toggles of one task cross in the API; an answer comes to another project or is lost; a fetch fails | the tasks are next fetched alone |
| `mingled` (automations), `copyStale` (billing), `unread` (explorer), `mixed` (mode) | readings meet or fail, an answer is lost, or the API moved elsewhere | the next reading that is right; for the mode, the next load of the document |
| `stale`, `replaced` (settings), `formStale` (user), `tableSound`, `modalSound` (editors; these two hold while all is well) | the row was written, or could not be read, after the form or the table was filled from it | the form or the table is filled anew, or the settings are saved |
| `uneven` (list of projects), `unsure` (integrations) | readings meet or fail, or a project or a token came or went elsewhere | the page is opened anew |
| `overwritten`, `raced` (keywords) | the load of the opening lands after a generation; two requests store one seed | the page is opened anew |
| `disturbed`, `cut` (calendar), `again`, `lost`, `stranded` (wizards), `twice` (tasks) | loads met; a save was cut short; a form was sent again; an answer was lost; the popup was blocked, closed or could not be written | the page is opened anew: what was posted or made then stays so |

## 3. Properties

**Billing**
- `StartsAtIdentifiesRow`: however stamps and inserts of racing handlers interleave, no
  two rows of an account share `starts_at`, so "latest" and "current" are well defined.
- `TrialAccounted`: no trial for nothing. An account with a trialing row has its flag set,
  or about to be set, or lost it to a failure or a stale save, which the property books and
  does not prevent.
- `SealedForever`: once the requests that overlapped the first trial are over, the account
  never gets another.
- `PlanFollowsLastWrite`: an UPDATE decides what the account resolves to, whatever rows races
  left behind: the plan of a Subscribe or a StartTrial, nothing after a Cancel. An insert
  decides it too, unless a handler that took its stamp later was there first, and then the
  account keeps what it had. It holds *because* LIMIT is not rendered: with it, an older current
  row of a race would survive the UPDATE.
- `CurrentRowsAgree`: an account may have several current rows, but they agree on plan and
  status unless a race is still unmended (`raced`); it does not matter which a lookup returns.
- `CancelKeepsAccess`, what the billing page promises, is refuted by `billing_cancel`.

**Projects**
- `QuotaBound`: overlapping requests overrun the site quota by no more than the requests
  and goroutines in flight beside the one that was let through.
- `IssuesBound`: open issues come from at most as many crawls as overlapped.
- `DeletedStaysDeleted`: a delete is undone only through a row loaded before it.
- `EditKept`: an edit is lost only to a row loaded before it.

**Publisher**
- `PostsBound`: a task is posted at most once per save of it as scheduled, and once more
  per failure.
- `PutAwayStays`: a published, failed or deleted task that no process holds as scheduled
  is not posted before a request gives it a new date.
- `WaitingIsHandled` (liveness): no due task waits forever.

**Accounts**
- `OneTokenPerSession`: a refresh token is good for one refresh; a session has one token at
  a time unless a refresh could not delete the one it used, or found it already gone.
- `LogoutIsFinal`: a logout that overlaps no refresh of its session ends it; an ended
  session is never taken up again.
- `SuspensionLasts`: once nothing that overlapped the suspension is in flight, the account
  gets no refresh token and stays suspended until staff lift it.
- `AdminLeft`: the count a demotion makes is enough as long as no request saves a row read
  before a role changed. Without that condition it fails (`accounts_last_admin`).

**ClientSession**
- `SharesOneCall`: the refresh is one call a tab shares (refinement of `SharedCall`).
- `NoSelfRefusal`: the tokens rotate, so a tab that refreshed twice would sign its own user
  out; a refusal always has a cause outside the tab.
- `HeldIsGood`: the refresh cookie is good, or revoked, or its successor is on its way.
- `OnlyStraysReturn`: a login that was signed out of does not come back to the jar, unless
  something of it was still on its way, or its refresh cookie accepted, when the logout ended.
- `EveryRequestSettles` (liveness): no request of a page waits forever.

**Workspace** (a conjunction over the pages each)
- `SpinnersHaveCause`: no spinner and no disabled button stays for nothing.
- `QuietPagesAreConsistent`: at rest the calendar, the analyzer and the pages that sync show
  the project that was chosen last, and data of that project alone, once a load has run alone
  since calls last met or failed. While they meet nothing is promised: the wrong project's data
  stays on the screen until that load.
- `CopiesAreCurrent`: at rest lists and switches show what the API holds, from one reading that
  ran alone to the next thing that the table in section 2 names.
- `NothingTwice`: a post, a project, a task, a keyword, an answer: composed once, made once,
  where nothing was sent again and no answer was lost.
- `PlatformIsProjects`: no post on a platform its project is not on, on a visit undisturbed.
- `NoProjectWithoutLogin`: no project that needs a login before the API holds a token of that
  login; of either, when the form was submitted again under an earlier attempt.
- `SettingsUndoNothing`: a save of the whole form changes what the user changed, and the Facebook
  page, which it empties.

**StaffConsole**
- `SpinnersHaveCause`: a spinner or a busy button has a call under way, but on the pages of a user
  and of a project, which say that they load for good when their first read has failed.
- `NothingUndone`: a save of a user, plan or role undoes nothing written before the API read what
  the form was filled from, the page's own saves included while its refreshes neither overlap
  nor fail. What others wrote after that read is undone, and outside the property.
- `ListAnswersFilters`: when the newest answer is shown, it is that to the filters shown.
- `TabsAreFresh`: a tab shows nothing older than its visit, and one answer's figures together.

## 4. Runs

| run | instance | what it shows |
|---|---|---|
| `billing_overlap` | 1 account, 5 overlapping requests, 2 paid plans, failures | the five guarantees of Billing, which survive every overlap |
| `projects_overlap` | 1 account, 2 projects, 4 requests of which 2 may be in flight, the HealthScorer, failures | the four properties of Projects |
| `publisher_overlap` | 2 tasks, 3 requests, dates up to 1, 1 failure or restart, fair worker, no symmetry | the three properties of Publisher |
| `accounts_overlap` | 2 accounts, 1 custom role, 4 requests, failures anywhere | the four properties of Accounts |
| `session_tabs` | 2 tabs, 2 requests of one of them, 2 tokens, 1 support session, fair answers, no symmetry | the five properties of ClientSession |
| `workspace_pages` | each page with 2 projects, 2 rows of everything, and 1 to 3 calls under way | the properties of the pages |
| `console_pages` | 3 users on pages of 1, 4 roles, 2 plans or roles, 2 changes by others, 3 to 5 calls | the properties of the console |
| `billing_cancel`, `projects_delete`, `accounts_last_admin`, `wizard_popup`, `ranks_repeat` | small instances | the findings of section 6 |

**Why the bounds are enough to meet the cases.** A lost update needs two processes on one row.
Five requests of one account are a registration, two that race, and two that come after and meet
what the race left (a cancel of an account with two current rows needs all five). Two projects
are enough to overrun limits of 1 and 2, the shape of the real 1 and 3, and four requests are
two creates, or a create, an edit and two crawls. Two tasks give the worker one to be stuck on
and one to wait; three requests are a create, an edit that races the worker and a second edit or
a delete. In Accounts four requests are a login and two refreshes that race a logout, or a
suspension and three that overlapped it, and two accounts are two Super Admins who demote each
other. Identical requests, and identical projects or accounts, are symmetric; the run with the
liveness property uses no symmetry. The proofs of section 5 remove the bounds for safety.

In ClientSession two requests of one tab are the least that share a refresh, and the second
tab's keep-alive is the other party that rotates the token; of two tokens the second is the
successor of the first. In the pages a race takes two calls: two loads, a load and a sync, two
toggles, a save and a load. In `workspace_pages` the user's actions of the calendar are bounded
at two (`MaxBegun`); a load the user begins may meet one under way (`MaxLoads`), while the poll
and the timer of a due post begin only when none is (`MaxTimed`): a timer's load overlaps the
user's all the same, because the user's may begin during it. Two projects on different platforms
are what a mixed page needs, and three audits a first one and two here. In the console three
users on pages of one let the pager turn twice, and the three requests are two filters and a
page. The wizards have two attempts and three channels: one of LinkedIn's login, one of Meta's
and one that needs none. The settings have two values, one of them blank. The run of the pages
has 2.9 million states, of which the calendar has 1.7 and the wizards 0.7. The other bounds are
named in the modules and given in the `.cfg` files.

**Deadlock** checking is off in Billing, Projects and Accounts, where requests arrive once
and the system then rests, and in the pages, which rest when the user has done what the
bounds allow. The worker of Publisher and the tabs of ClientSession always have a step.

**Fairness.** ClientSession assumes `WF_vars(AnAnswerLands)`: while calls are open, one of them
ends, with an answer or in an error. A browser ends every call sooner or later, whatever the
network does; in which order is left open, and nothing makes a user act. `FairSpec` of Publisher
assumes `WF_vars(runCalendarPublisher)`. The worker's loop is a ticker of one minute that
nothing stops; its queries return; its remote calls go through clients with 60 s and 30 s
timeouts, and the wait for a media container is bounded; a server that stops is started again.
One call is an assumption and not a fact: `services/meta.go:182` downloads the upload of a
Facebook video story with `http.Get`, which has no timeout. Requests of Publisher are given no
fairness: a client may never come back. Failures are finitely many in the model (`MaxFailures`):
a platform or a database that fails forever makes no promise possible.

## 5. Proofs

All safety properties that a passing run checks are theorems of `Spec`, for every value of the
constants under the named assumptions (`PlanAssumption`, `RequestAssumption`,
`ProjectAssumption`, `PublisherAssumption`, `AccountAssumption`, `SessionAssumption`,
`PagesAssumption`, `ConsoleAssumption`: constants have their types, `None` is no value,
projects, requests, accounts and tabs are finitely many, the plans have a largest limit, there
is room for a first fetch where a page makes one). `PagesAssumption` and `ConsoleAssumption`
are conjunctions of what each page assumes of its own constants (`CalendarAssumption`,
`TaskAssumption`, ...). The runs evaluate all of them.

**BillingProofs.** `TypeCorrect` first. `StartsAtIdentifiesRow` is inductive on its own with the
types: a stamp is new when it is taken and remains the holder's until it is
inserted. `TrialAccounted` is inductive because each step that makes a row trialing moves
its request to `trial.flag`, and leaves it only by setting the flag or by a failure that is
booked in `flagLost`. `SealedForever` needs no invariant: a sealed account's requests cannot
pass the check. `CurrentRowsAgree` is not inductive: the insert of a Subscribe could add a row
beside one it did not see. `RowsInv` adds `ReadHolds`: what a request read (there is no current
row, there is a row to update) still holds when it writes, unless the account is in `raced`; it
holds since a write that passes another request's read puts the account there, and an UPDATE
takes it out only when no insert is to come. `PlanFollowsLastWrite` is a step property proved
from `RowsInv` and from `StartsAtIdentifiesRow`, by which the newest current row is one row.
No theorem assumes that requests are serial or that a LIMIT is honoured.
**ProjectsProofs.** `TypeCorrect` includes that every held row is of a project that exists and
belongs to the request's account. `QuotaBound` counts both `Slots(u)`, the projects that
take a site or will when a held row is saved, and `Gated(u)`, the requests that may still
take one; a request moves from the second to the first when it inserts or loads its row.
It rests on `InFlightBound` (at most `MaxInFlight` requests of an account): when a request
is let in with fewer than `LargestLimit` live SEO projects, those projects, the rows held by
other requests and the other requests at the gate leave room for it (`RoomAtTheGate`).
`IssuesBound` uses that an insert needs its own delete
before it. `DeletedStaysDeleted` and `EditKept` are step properties proved action by action
from the types.

**PublisherProofs.** The worker's locals are consistent (`WorkerInv`, `Loaded`: whatever is listed
as due was loaded as scheduled, dated and not completed). `PostsBound` is not inductive;
the invariant `Ledger` adds to `posts[t]` the one post still to come when the worker has
listed `t` or, unless the worker is about to save its outcome, the row is scheduled:
what is due is booked on the row or on the list, never on both.

**AccountsProofs.** One lemma per action says what it does to the rows and to its request
(`LoginStep`, ...); the proofs go by those. `OneTokenPerSession` needs `Chained`: the holder of
a token row is a request that is over, and the first token of its session was issued.
Without it a refresh could find the token it is about to insert already there, or a login
begin a session that has tokens. `LogoutIsFinal` and `SuspensionLasts` are step properties
proved action by action from that invariant (`TipsStep`, `RefreshingStep`, `BarredStep`).
`AdminLeft` is strengthened by `AdminInv`: a request that is about to demote a Super Admin, and
that no change of a role has overtaken, leaves another one.

**ClientSessionProofs.** A step does one of few things to the refresh (`QuietStep`,
`NeedStep`, `AnswerStep`, `EndStep`, `LoadStep`, `SignStep`); `StepKind` says every action is
of a kind, and the proofs go by the kinds. The invariant is `SingleFlight` with `Own` (what
`refreshInFlight` stands for is a call of that tab), which the reload of a tab needs.
`SharesOneCallHolds` maps each kind to Start, Join or Finish of SharedCall or to a stutter.
`NoSelfRefusal` rests on `TokenInv`: a used token is not accepted again, the successor on its
way is known to nobody else, and what a pending call sent is good unless another tab used it
meanwhile; it is here that the single flight counts, because a new call sends the cookie,
and only a call of the same tab could be about to replace it. `OnlyStraysReturn` rests on
`LoginInv`: of a closed login no call is rotated or may be, and no refresh cookie is accepted
(`WaysBack`); a successor is of the login of the token it replaces (`SameLogin`). So nothing that
begins after the logout can bring one.

**The pages: PageProofs and WorkspaceProofs.** A step of Workspace is a step of the one page that
is open and leaves the variables of the others alone. So the invariant `PagesInv` is a
conjunction of `route = "x" => XInv`; each page has the same lemmas about its `XInv`: the
page begins in it (`...Init`), each of its actions keeps it (`...StepInv`, from one lemma per
action or group of actions), stuttering keeps it (`...Stays`), and it implies what the page
promises (`...Promises`). `PagesKept` puts them together, and the theorems about Workspace are read off
`PagesInv`, which was also checked as an invariant of the instance of `workspace_pages` before
its proof. What the invariants add to the properties:

- *The calendar* (`CalInv`). A post the page knows of is one the API made (`KnownInv`). What is in
  the dialog, on its way, held by the API or shown is one post's alone (`FreshInv`), unless a
  save was cut short. Loads follow each other, each for the project that is shown or for the one
  just selected (`LoadInv`), and what is composed is on the platform of that project
  (`ProperInv`), unless loads met (`disturbed`). With those `SettledInv` and `ChoiceInv` say
  what a load, or a selection, that began alone will leave: they are what makes
  `QuietPagesAreConsistent` hold again after loads have met.
- *The wizards* (`WizardInv`). `OneProject` counts: `created` is bounded by the attempts that
  got past their creation (`CountInv`), and of those there is one unless a step was submitted
  again (`OnceInv`); `LoginInv` has a token behind each attempt that
  needs one and goes on to make its project, and behind each popup that says so; `OwnInv` has
  the login which the attempt needs, while no other attempt has sent the popup elsewhere.
- *Projects and settings* (`ScreensInv`). `UndoInv` says where the form and the project
  held by the API agree: on every part the user did not touch but the Facebook page, unless
  someone wrote it.
- *Tasks* (`TaskInv`). The card of a task is what the API has, turned over once for every
  toggle of it under way, so that only the parity of those counts (`CardsFollow`, by the lemma
  `ParityFlips`); each title is
  known to one place, the field, a create, or a row (`TitleInv`). *Automations* (`JobsInv`) are
  alike for one toggle of each.
- *Integrations, billing, mode* (`ConnectedInv`, `OfferInv`, `ModeInv`). A page at rest has
  what the API has; what is under way knows what it will bring.
- *The analyzer and the pages that sync* (`AnalyzerInv`, `SyncedInv`). A load or a sync that
  runs alone is of the choice made last (`ChosenInv`, `AloneInv`), and the tab of a network is of a
  row that is shown, or of the answer, whatever overlapped (`AnalyzedInv`, `SyncsInv`).
- *Keywords and site explorer* (`SeoInv`). No seed is stored twice unless two requests raced, and
  no answer on its way has a word twice (`SeedsInv`); what the explorer shows is as far as its
  calls are (`ExplorerInv`).
- *Chat and generator* (`ChatInv`). Questions and answers alternate, and the last question is
  the one whose answer is awaited.

**StaffConsoleProofs.** The same scheme for the console, with the guard (`ConsoleInv`).
`ListAnswersFilters` needs arithmetic: `Places` and `SliceRows` say which rows a page of a given
size is, and `PageExists` why an empty page means that there is nothing to show. `NothingUndone`
rests on `FormFollows` and `ModalFollows`: a form differs from what the API holds only where its
editor changed it, unless that was written later. `TabsAreFresh` rests on `VisitFollows` and
`TabFollows`: an answer to a read of the open tab is no older than the visit, and a tab that
shows something older still waits for a read.

What the proofs required of the models was small: bounds named as assumptions, types of
records written as sets, and the rows of a save at their places.

Only model-checked: `WaitingIsHandled` and `EveryRequestSettles`, because liveness under
fairness and ENABLED are beyond the prover, as is induction over data. What the violation runs
refute is refuted on their instance. No module uses RECURSIVE operators.

## 6. Findings, and what the models say about this code

Five runs exhibit a disagreement between the code and what it says of itself;
`PROJECT.json` quotes the lines.

1. A crawl that loaded a project before its delete brings it back (`projects_delete`).
2. Two overlapping demotions leave no Super Admin, said to be impossible
   (`accounts_last_admin`).
3. Closing the login window of the create page, which the page watches for, does not
   release the form: the watching closure reads an old `authWaiting` (`wizard_popup`).
4. Syncing a project again lists its queries again, though the upsert is said to replace
   (`ranks_repeat`).
5. A cancel takes the plan in the UPDATE that answers it, where the billing page
   (`billing/page.tsx:124`) promises access until the end of the period (`billing_cancel`).

The conditions of the passing properties say more, each met in the runs:

- `trial_used_at`, said to be one-way, is cleared by a PATCH /api/auth/me that read the row
  before the trial (`flagLost` in `TrialAccounted`).
- `UpdatePlanAndStatus`, said to leave canceled rows alone, and Cancel, said to set the most recent
  row only (`IMPLEMENTATION_PLAN.md:594-599`), rewrite every row of the account, since no LIMIT is
  rendered: after a Subscribe that updates, old canceled rows are current again (`Targets`).
- An account, said to have one active subscription (`subscription_repo.go:9`), has several current
  rows after that, and after two subscribes that overlap even rows of two plans, until the next
  UPDATE (`raced`, the slack in `CurrentRowsAgree`).
- Overlapping creates pass the site gate together, and overlapping audits add up their open
  issues (the slack in `QuotaBound`, `IssuesBound`).
- Giving a published task a new date leaves it completed, so the worker never finds it.
- Two tabs that refresh together may sign the user out (`excused` by another tab's rotation).
- A refresh that outlives a logout signs the user in again, and a logout whose call failed
  leaves a cookie that does (both keep a login out of `closed`).
- A load of the calendar, or the reload after a sync, that ends after the choice of another
  project shows the old one under it, until the next load that runs alone (`unsettled`,
  `strayed`, `upset`, `crossed`).
- A save of the calendar cut short keeps in the dialog the rows it has sent (`cut`).
- A step of the onboarding can be submitted twice while it leaves (`again`), and the listeners do
  not look at the provider of the message: a project for LinkedIn may then be made on a login of
  Meta, and the other way round (`NoProjectWithoutLogin`).
- Every save of the settings empties the Facebook page of the project unless the user enters it
  anew: the page reads a field that the API does not answer (`SettingsUndoNothing`).
- A failed toggle takes back what was clicked after it (`muddled`); two toggles of one task or of
  one automation that overlap lose one (`muddled`, `mingled`).
- Two refreshes of the plans or the roles may land in the wrong order and leave the older table,
  from which a whole row is then saved (`tableSound`); a deletion whose answer was lost leaves its
  row in the table.
- The filter by plan is applied to one page of users, so an empty page does not mean that
  none is on the plan (`ListAnswersFilters`).
- The project page and the user page of the console say "Loading project" and "Loading user" for
  ever when their first read fails (`DetailSpinnerHasCause`, `UserSpinnerHasCause`).

Differences between page and API that no order of steps is needed to see, and that the
models keep as they are: the automations page reads `completed` where the API answers
`status`, so every card is on, and it sends a `title` where the API requires a `name`, so
none is created; the notification preferences of a project's settings are never saved.

## 7. What is not modelled

- The remote services (Meta, LinkedIn, Google, OpenAI, DataForSEO): their clients are
  code outside any state of the server. The models have what the worker or a page can
  see of them: an answer, an error, or none.
- The insight generator and the metrics syncer as processes: they write rows that nothing
  here decides on. The two-statement upserts of metrics and credentials have the shape of
  `ReplaceOpenIssues`, which is modelled.
- The rows of `role_permissions`: `StaffEditor` takes a write of a role as one step. The
  window between the delete and the inserts of `replaceRolePerms` is in the list of hazards.
- The rate limiter, a counter under a mutex; migrations and seeds, idempotent DDL.
- HTML parsing in the SEO crawler; reports, the public pages, the pages of the console and
  the dashboard that read once and show; components of the interface. The dashboard,
  the list of scheduled posts and the social insights make calls that other pages make too,
  whose modules have the handlers of the API.
- Webhooks of Stripe, which the code answers with 501.
- Reuse of the ids of deleted rows: none is assumed.
- One composition of all of it: the pages meet the server through their own abstraction of
  it, because the product of both is beyond TLC; where a race of the server matters to a
  page (two toggles, two inserts of keywords, a rotation), the page's module has its steps.

## 8. What could come next

The API's credential or the shown list as an abstract specification of the pages that
copy it; Billing and Projects in one module, where the gate reads the rows it is about;
the permissions of roles, statement by statement; `SyncedPages` and `ConnectWizard` on their own,
whose properties the violation runs refute, with the weaker statements that do hold.
