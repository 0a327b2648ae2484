------------------------------- MODULE Workspace -------------------------------
(***************************************************************************)
(* The pages of the dashboard.  The browser shows one of them, and what a  *)
(* page keeps begins anew when it is opened: a behaviour is one visit of   *)
(* one page, and the variables of the others are away.  What outlives a    *)
(* visit, the selection in the storage and what the API holds, is among    *)
(* the initial states of the page that is opened next.                     *)
(***************************************************************************)
EXTENDS Integers, FiniteSets, Sequences

CONSTANTS
    None,
    Projects, LastListed, Posts, Initial, Contents, PlatformOf, PhotoStories, Fileless,
    LastDate, MaxDrafts, MaxBegun, MaxLoads, MaxTimed,   \* of the calendar
    Channels, LoginChannels, LinkedIn, MaxAttempts,  \* of the wizards
    Values, EmptyField, MaxOpened,             \* of the list of projects and the settings
    Providers, Unknown, MaxReading,            \* of the integrations
    MaxPressed,                                \* of billing
    Linked, Rows, MaxSelected,                 \* of the profile analyzer
    TaskIds, MaxCalls, MaxTyped, MaxClicks,    \* of the action center
    MaxChosen, MaxPageLoads,                   \* of the mode
    Ranges, FirstRange, Networks, NetworksOf, MaxFetches, MaxEdition, MaxActs,
    \* of the pages that sync
    Words, SuggestionsOf, DomainSeed, MaxSeedRows, MaxGenerated, MaxAudits, Findings,
    \* of keyword research and the site explorer
    Formats, MaxTopics, MaxCopies, MaxFlips  \* of the chat, the generator, the automations

VARIABLES
    route,  \* the page that is open
    server, now, calProject, calSaved, shown, calLoading, calLoad, dueTimer, selectedDate,
    editing, drafts, calSaving, save, begun, calChosen, disturbed, unsettled, strayed, cut,
    page, step, onScreen, leftLive, goal, url, channel, wizLoading, authWaiting, success,
    error, attempt, popup, provider, message, credential, created, lost, again, stranded,
    held, screen, cards, listing, fetch, deleting, asked, setProject, formData, opening,
    setSaving, setSaved, sent, opened, uneven, stale, touched, replaced,
    creds, status, iLoading, reading, calls, gone, unsure,
    account, copy, hasPlans, billLoading, billBusy, cycle, doing, at, pressed, copyStale,
    listed, rows, anaProject, metrics, platform, profile, savedId, savedPlatform,
    anaLoading, syncing, anaLoad, sync, selected, anaChosen, upset,
    api, taskProject, tasks, newTitle, typed, taskBusy, creating, taskLoad, toggles,
    creates, clicks, muddled, twice,
    stored, cookie, mode, ready, openGroups, mounted, me, patch, modeChosen, loads, mixed,
    kind, edition, connected, savedSite, savedNetwork, site, days, search, network, chart,
    fetching, fetches, siteSyncing, syncs, acts, wish, crossed,
    tool, seoStored, keywords, seed, filter, seoListing, seoReady, generating, get, post,
    generated, gained, overwritten, raced, audits, row, auditResult, issues, activeTab,
    exploring, running, survey, crawl, unread,
    desk, hasProject, aiReady, input, messages, aiPlatform, variants, copied, timers, drafting,
    draft, topics, copies, jobs, jobCards, gathering, gathers, flips, flipped, making, misread,
    mingled

CalendarVars ==
    <<server, now, calProject, calSaved, shown, calLoading, calLoad, dueTimer, selectedDate,
      editing, drafts, calSaving, save, begun, calChosen, disturbed, unsettled, strayed, cut>>
WizardVars ==
    <<page, step, onScreen, leftLive, goal, url, channel, wizLoading, authWaiting, success,
      error, attempt, popup, provider, message, credential, created, lost, again, stranded>>
ProjectScreensVars ==
    <<held, screen, cards, listing, fetch, deleting, asked, setProject, formData, opening,
      setSaving, setSaved, sent, opened, uneven, stale, touched, replaced>>
IntegrationsVars ==
    <<creds, status, iLoading, reading, calls, gone, unsure>>
BillingScreenVars ==
    <<account, copy, hasPlans, billLoading, billBusy, cycle, doing, at, pressed, copyStale>>
AnalyzerVars ==
    <<listed, rows, anaProject, metrics, platform, profile, savedId, savedPlatform,
      anaLoading, syncing, anaLoad, sync, selected, anaChosen, upset>>
TasksVars ==
    <<api, taskProject, tasks, newTitle, typed, taskBusy, creating, taskLoad, toggles,
      creates, clicks, muddled, twice>>
ModeVars ==
    <<stored, cookie, mode, ready, openGroups, mounted, me, patch, modeChosen, loads, mixed>>
SyncedVars ==
    <<kind, edition, connected, savedSite, savedNetwork, site, days, search, network, chart,
      fetching, fetches, siteSyncing, syncs, acts, wish, crossed>>
SeoVars ==
    <<tool, seoStored, keywords, seed, filter, seoListing, seoReady, generating, get, post,
      generated, gained, overwritten, raced, audits, row, auditResult, issues, activeTab,
      exploring, running, survey, crawl, unread>>
AiVars ==
    <<desk, hasProject, aiReady, input, messages, aiPlatform, variants, copied, timers,
      drafting, draft, topics, copies, jobs, jobCards, gathering, gathers, flips, flipped,
      making, misread, mingled>>
vars ==
    <<route, CalendarVars, WizardVars, ProjectScreensVars, IntegrationsVars, BillingScreenVars,
      AnalyzerVars, TasksVars, ModeVars, SyncedVars, SeoVars, AiVars>>

Calendar == INSTANCE CalendarPage WITH
    project <- calProject, saved <- calSaved, loading <- calLoading, load <- calLoad, saving
    <- calSaving, chosen <- calChosen
Wizard == INSTANCE ConnectWizard WITH loading <- wizLoading
ProjectScreens == INSTANCE ProjectPages WITH
    Ids <- Projects, project <- setProject, saving <- setSaving, saved <- setSaved
Integrations == INSTANCE IntegrationsPage
BillingScreen == INSTANCE BillingPage WITH loading <- billLoading, busy <- billBusy
Analyzer == INSTANCE ProfileAnalyzer WITH
    project <- anaProject, loading <- anaLoading, load <- anaLoad, chosen <- anaChosen
Tasks == INSTANCE ActionCenter WITH project <- taskProject, busy <- taskBusy, load <- taskLoad
Mode == INSTANCE DashboardMode WITH chosen <- modeChosen, MaxLoads <- MaxPageLoads
Synced == INSTANCE SyncedPages WITH Sites <- Projects
Seo == INSTANCE SeoPages WITH
    stored <- seoStored, listing <- seoListing, ready <- seoReady, MaxCopies <- MaxSeedRows
Ai == INSTANCE AiPages WITH
    ready <- aiReady, platform <- aiPlatform, cards <- jobCards, JobIds <- TaskIds

ASSUME PagesAssumption ==
    /\ Calendar!CalendarAssumption
    /\ Wizard!WizardAssumption
    /\ ProjectScreens!ListAssumption
    /\ Integrations!ReadingAssumption /\ BillingScreen!PressedAssumption
    /\ Analyzer!AnalyzerAssumption
    /\ Tasks!TaskAssumption /\ Mode!ModeAssumption
    /\ Synced!SyncedAssumption /\ Seo!SeoAssumption /\ Ai!AiAssumption

-----------------------------------------------------------------------------
\* A page that is not open has no state.
Away(v) == v = "away"

NoCalendar ==
    /\ Away(server) /\ Away(now) /\ Away(calProject) /\ Away(calSaved) /\ Away(shown)
    /\ Away(calLoading) /\ Away(calLoad) /\ Away(dueTimer) /\ Away(selectedDate)
    /\ Away(editing) /\ Away(drafts) /\ Away(calSaving) /\ Away(save) /\ Away(begun)
    /\ Away(calChosen) /\ Away(disturbed) /\ Away(unsettled) /\ Away(strayed) /\ Away(cut)
NoWizard ==
    /\ Away(page) /\ Away(step) /\ Away(onScreen) /\ Away(leftLive) /\ Away(goal) /\ Away(url)
    /\ Away(channel) /\ Away(wizLoading) /\ Away(authWaiting) /\ Away(success)
    /\ Away(error) /\ Away(attempt) /\ Away(popup) /\ Away(provider) /\ Away(message)
    /\ Away(credential) /\ Away(created) /\ Away(lost) /\ Away(again) /\ Away(stranded)
NoProjectScreens ==
    /\ Away(held) /\ Away(screen) /\ Away(cards) /\ Away(listing) /\ Away(fetch)
    /\ Away(deleting) /\ Away(asked) /\ Away(setProject) /\ Away(formData) /\ Away(opening)
    /\ Away(setSaving) /\ Away(setSaved) /\ Away(sent) /\ Away(opened) /\ Away(uneven)
    /\ Away(stale) /\ Away(touched) /\ Away(replaced)
NoIntegrations ==
    /\ Away(creds) /\ Away(status) /\ Away(iLoading) /\ Away(reading) /\ Away(calls)
    /\ Away(gone) /\ Away(unsure)
NoBillingScreen ==
    /\ Away(account) /\ Away(copy) /\ Away(hasPlans) /\ Away(billLoading) /\ Away(billBusy)
    /\ Away(cycle) /\ Away(doing) /\ Away(at) /\ Away(pressed) /\ Away(copyStale)
NoAnalyzer ==
    /\ Away(listed) /\ Away(rows) /\ Away(anaProject) /\ Away(metrics) /\ Away(platform)
    /\ Away(profile) /\ Away(savedId) /\ Away(savedPlatform) /\ Away(anaLoading)
    /\ Away(syncing) /\ Away(anaLoad) /\ Away(sync) /\ Away(selected) /\ Away(anaChosen)
    /\ Away(upset)
NoTasks ==
    /\ Away(api) /\ Away(taskProject) /\ Away(tasks) /\ Away(newTitle) /\ Away(typed)
    /\ Away(taskBusy) /\ Away(creating) /\ Away(taskLoad) /\ Away(toggles) /\ Away(creates)
    /\ Away(clicks) /\ Away(muddled) /\ Away(twice)
NoMode ==
    /\ Away(stored) /\ Away(cookie) /\ Away(mode) /\ Away(ready) /\ Away(openGroups)
    /\ Away(mounted) /\ Away(me) /\ Away(patch) /\ Away(modeChosen) /\ Away(loads)
    /\ Away(mixed)
NoSynced ==
    /\ Away(kind) /\ Away(edition) /\ Away(connected) /\ Away(savedSite)
    /\ Away(savedNetwork) /\ Away(site) /\ Away(days) /\ Away(search) /\ Away(network)
    /\ Away(chart) /\ Away(fetching) /\ Away(fetches) /\ Away(siteSyncing) /\ Away(syncs)
    /\ Away(acts) /\ Away(wish) /\ Away(crossed)
NoSeo ==
    /\ Away(tool) /\ Away(seoStored) /\ Away(keywords) /\ Away(seed) /\ Away(filter)
    /\ Away(seoListing) /\ Away(seoReady) /\ Away(generating) /\ Away(get) /\ Away(post)
    /\ Away(generated) /\ Away(gained) /\ Away(overwritten) /\ Away(raced) /\ Away(audits)
    /\ Away(row) /\ Away(auditResult) /\ Away(issues) /\ Away(activeTab) /\ Away(exploring)
    /\ Away(running) /\ Away(survey) /\ Away(crawl) /\ Away(unread)
NoAi ==
    /\ Away(desk) /\ Away(hasProject) /\ Away(aiReady) /\ Away(input) /\ Away(messages)
    /\ Away(aiPlatform) /\ Away(variants) /\ Away(copied) /\ Away(timers) /\ Away(drafting)
    /\ Away(draft) /\ Away(topics) /\ Away(copies) /\ Away(jobs) /\ Away(jobCards)
    /\ Away(gathering) /\ Away(gathers) /\ Away(flips) /\ Away(flipped) /\ Away(making)
    /\ Away(misread) /\ Away(mingled)

Init ==
    \/ /\ route = "calendar" /\ Calendar!Init
       /\ NoWizard /\ NoProjectScreens /\ NoIntegrations /\ NoBillingScreen /\ NoAnalyzer
       /\ NoTasks /\ NoMode /\ NoSynced /\ NoSeo /\ NoAi
    \/ /\ route = "wizard" /\ Wizard!Init
       /\ NoCalendar /\ NoProjectScreens /\ NoIntegrations /\ NoBillingScreen /\ NoAnalyzer
       /\ NoTasks /\ NoMode /\ NoSynced /\ NoSeo /\ NoAi
    \/ /\ route = "projects" /\ ProjectScreens!ProjectInit
       /\ NoCalendar /\ NoWizard /\ NoIntegrations /\ NoBillingScreen /\ NoAnalyzer
       /\ NoTasks /\ NoMode /\ NoSynced /\ NoSeo /\ NoAi
    \/ /\ route = "integrations" /\ Integrations!IntegrationInit
       /\ NoCalendar /\ NoWizard /\ NoProjectScreens /\ NoBillingScreen /\ NoAnalyzer
       /\ NoTasks /\ NoMode /\ NoSynced /\ NoSeo /\ NoAi
    \/ /\ route = "billing" /\ BillingScreen!BillingInit
       /\ NoCalendar /\ NoWizard /\ NoProjectScreens /\ NoIntegrations /\ NoAnalyzer
       /\ NoTasks /\ NoMode /\ NoSynced /\ NoSeo /\ NoAi
    \/ /\ route = "analyzer" /\ Analyzer!AnalyzerInit
       /\ NoCalendar /\ NoWizard /\ NoProjectScreens /\ NoIntegrations /\ NoBillingScreen
       /\ NoTasks /\ NoMode /\ NoSynced /\ NoSeo /\ NoAi
    \/ /\ route = "tasks" /\ Tasks!ActionInit
       /\ NoCalendar /\ NoWizard /\ NoProjectScreens /\ NoIntegrations /\ NoBillingScreen
       /\ NoAnalyzer /\ NoMode /\ NoSynced /\ NoSeo /\ NoAi
    \/ /\ route = "mode" /\ Mode!ModeInit
       /\ NoCalendar /\ NoWizard /\ NoProjectScreens /\ NoIntegrations /\ NoBillingScreen
       /\ NoAnalyzer /\ NoTasks /\ NoSynced /\ NoSeo /\ NoAi
    \/ /\ route = "synced" /\ Synced!SyncedInit
       /\ NoCalendar /\ NoWizard /\ NoProjectScreens /\ NoIntegrations /\ NoBillingScreen
       /\ NoAnalyzer /\ NoTasks /\ NoMode /\ NoSeo /\ NoAi
    \/ /\ route = "seo" /\ Seo!SeoInit
       /\ NoCalendar /\ NoWizard /\ NoProjectScreens /\ NoIntegrations /\ NoBillingScreen
       /\ NoAnalyzer /\ NoTasks /\ NoMode /\ NoSynced /\ NoAi
    \/ /\ route = "ai" /\ Ai!AiInit
       /\ NoCalendar /\ NoWizard /\ NoProjectScreens /\ NoIntegrations /\ NoBillingScreen
       /\ NoAnalyzer /\ NoTasks /\ NoMode /\ NoSynced /\ NoSeo

-----------------------------------------------------------------------------
CalendarStep ==
    /\ route = "calendar" /\ Calendar!Next
    /\ UNCHANGED <<route, WizardVars, ProjectScreensVars, IntegrationsVars,
                   BillingScreenVars, AnalyzerVars, TasksVars, ModeVars, SyncedVars,
                   SeoVars, AiVars>>
WizardStep ==
    /\ route = "wizard" /\ Wizard!Next
    /\ UNCHANGED <<route, CalendarVars, ProjectScreensVars, IntegrationsVars,
                   BillingScreenVars, AnalyzerVars, TasksVars, ModeVars, SyncedVars,
                   SeoVars, AiVars>>
ProjectScreensStep ==
    /\ route = "projects" /\ ProjectScreens!ProjectNext
    /\ UNCHANGED <<route, CalendarVars, WizardVars, IntegrationsVars, BillingScreenVars,
                   AnalyzerVars, TasksVars, ModeVars, SyncedVars, SeoVars, AiVars>>
IntegrationsStep ==
    /\ route = "integrations" /\ Integrations!IntegrationNext
    /\ UNCHANGED <<route, CalendarVars, WizardVars, ProjectScreensVars, BillingScreenVars,
                   AnalyzerVars, TasksVars, ModeVars, SyncedVars, SeoVars, AiVars>>
BillingScreenStep ==
    /\ route = "billing" /\ BillingScreen!BillingNext
    /\ UNCHANGED <<route, CalendarVars, WizardVars, ProjectScreensVars, IntegrationsVars,
                   AnalyzerVars, TasksVars, ModeVars, SyncedVars, SeoVars, AiVars>>
AnalyzerStep ==
    /\ route = "analyzer" /\ Analyzer!AnalyzerNext
    /\ UNCHANGED <<route, CalendarVars, WizardVars, ProjectScreensVars, IntegrationsVars,
                   BillingScreenVars, TasksVars, ModeVars, SyncedVars, SeoVars, AiVars>>
TasksStep ==
    /\ route = "tasks" /\ Tasks!ActionNext
    /\ UNCHANGED <<route, CalendarVars, WizardVars, ProjectScreensVars, IntegrationsVars,
                   BillingScreenVars, AnalyzerVars, ModeVars, SyncedVars, SeoVars, AiVars>>
ModeStep ==
    /\ route = "mode" /\ Mode!ModeNext
    /\ UNCHANGED <<route, CalendarVars, WizardVars, ProjectScreensVars, IntegrationsVars,
                   BillingScreenVars, AnalyzerVars, TasksVars, SyncedVars, SeoVars, AiVars>>
SyncedStep ==
    /\ route = "synced" /\ Synced!SyncedNext
    /\ UNCHANGED <<route, CalendarVars, WizardVars, ProjectScreensVars, IntegrationsVars,
                   BillingScreenVars, AnalyzerVars, TasksVars, ModeVars, SeoVars, AiVars>>
SeoStep ==
    /\ route = "seo" /\ Seo!SeoNext
    /\ UNCHANGED <<route, CalendarVars, WizardVars, ProjectScreensVars, IntegrationsVars,
                   BillingScreenVars, AnalyzerVars, TasksVars, ModeVars, SyncedVars,
                   AiVars>>
AiStep ==
    /\ route = "ai" /\ Ai!AiNext
    /\ UNCHANGED <<route, CalendarVars, WizardVars, ProjectScreensVars, IntegrationsVars,
                   BillingScreenVars, AnalyzerVars, TasksVars, ModeVars, SyncedVars,
                   SeoVars>>

Next ==
    \/ CalendarStep
    \/ WizardStep
    \/ ProjectScreensStep
    \/ IntegrationsStep
    \/ BillingScreenStep
    \/ AnalyzerStep
    \/ TasksStep
    \/ ModeStep
    \/ SyncedStep
    \/ SeoStep
    \/ AiStep

Spec == Init /\ [][Next]_vars

-----------------------------------------------------------------------------
TypeOK ==
    /\ route = "calendar" => Calendar!TypeOK
    /\ route = "wizard" => Wizard!TypeOK
    /\ route = "projects" => ProjectScreens!ProjectTypeOK
    /\ route = "integrations" => Integrations!IntegrationTypeOK
    /\ route = "billing" => BillingScreen!BillingTypeOK
    /\ route = "analyzer" => Analyzer!AnalyzerTypeOK
    /\ route = "tasks" => Tasks!ActionTypeOK
    /\ route = "mode" => Mode!ModeTypeOK
    /\ route = "synced" => Synced!SyncedTypeOK
    /\ route = "seo" => Seo!SeoTypeOK
    /\ route = "ai" => Ai!AiTypeOK

(* A spinner, an analysis screen or a disabled button never stays for      *)
(* nothing: a call is under way whose end, well or not, takes it away.     *)
SpinnersHaveCause ==
    /\ route = "calendar" => Calendar!SpinnerHasCause
    /\ route = "wizard" => Wizard!WaitingHasCause
    /\ route = "projects" => ProjectScreens!ProjectSpinnerHasCause
    /\ route = "integrations" => Integrations!IntegrationSpinnerHasCause
    /\ route = "billing" => BillingScreen!BillingSpinnerHasCause
    /\ route = "analyzer" => Analyzer!AnalyzerSpinnerHasCause
    /\ route = "tasks" => Tasks!ActionSpinnerHasCause
    /\ route = "synced" => Synced!SyncedSpinnerHasCause
    /\ route = "seo" => Seo!SeoSpinnerHasCause
    /\ route = "ai" => Ai!AiSpinnerHasCause /\ Ai!CopiedGoes

(* The calendar, the analyzer and the pages that sync show at rest the     *)
(* project the user chose last and nothing of another one, once a load has *)
(* run alone and well.  What is shown by a page whose last loads met, or   *)
(* failed, is not bounded: the next load that runs alone repairs it, and   *)
(* of the calendar, the next selection.                                    *)
QuietPagesAreConsistent ==
    /\ route = "calendar" => Calendar!QuietPageIsConsistent
    /\ route = "analyzer" => Analyzer!AnalyzerIsConsistent
    /\ route = "synced" => Synced!SyncedPageIsConsistent /\ Synced!NetworkIsShown

(* What the lists of projects, connections, tasks and automations, the     *)
(* billing page, the sidebar and the site explorer show at rest is what    *)
(* the API holds; nobody is offered a subscription they have, and what was *)
(* generated stays listed.                                                 *)
CopiesAreCurrent ==
    /\ route = "projects" => ProjectScreens!ListIsCurrent
    /\ route = "integrations" => Integrations!CardsAreCurrent
    /\ route = "billing" => BillingScreen!OffersFitAccount
    /\ route = "tasks" => Tasks!TasksAreCurrent
    /\ route = "mode" => Mode!ModeFollowsRow
    /\ route = "seo" => Seo!ExplorerIsCurrent /\ Seo!GeneratedStays
    /\ route = "ai" => Ai!AutomationsAreCurrent

(* What the user composed once is made once: a post, a project of the      *)
(* wizard, a task; a keyword is listed once; and each message to the chat  *)
(* has one answer, before the next.                                        *)
NothingTwice ==
    /\ route = "calendar" => Calendar!PostedOnce
    /\ route = "wizard" => Wizard!OneProject
    /\ route = "tasks" => Tasks!OneTaskPerTitle
    /\ route = "seo" => Seo!KeywordsListedOnce
    /\ route = "ai" => Ai!AnswersFollowQuestions

(* No post is on a platform its project is not on, and no photo story on   *)
(* Facebook: the check reads the row, the call reads the project.          *)
PlatformIsProjects == route = "calendar" => Calendar!PlatformIsProjects

(* No project that needs a login is made before the API holds a token of   *)
(* it, however the popup ends; of that login or the other one when the     *)
(* form was submitted again under an earlier attempt.                      *)
NoProjectWithoutLogin == route = "wizard" => Wizard!NoProjectWithoutLogin

(* A save of the settings changes nothing but what the user changed, and   *)
(* the Facebook page, which it empties; and nothing of another project.    *)
SettingsUndoNothing == route = "projects" => ProjectScreens!SettingsUndoNothing
=============================================================================
