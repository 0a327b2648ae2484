--------------------------- MODULE ProfileAnalyzer ---------------------------
(***************************************************************************)
(* The profile analyzer: the social metrics of one project at a time, and  *)
(* a sync that asks the providers for newer ones.  A sync does not hide    *)
(* the project switcher; when it ends it loads the project it was started  *)
(* for, whichever is selected by then.                                     *)
(*                                                                         *)
(*   rows       the metrics the API holds of every project: of a platform, *)
(*              measured or simulated, with activity or blank              *)
(*   project, metrics, platform, profile                                   *)
(*              project, socialMetrics, activePlatform and publicProfile   *)
(*              of the component; metrics says whose they are              *)
(*   savedId, savedPlatform   dmtool_active_project_id and                 *)
(*              dmtool_active_platform of localStorage                     *)
(*   load[l]    a run of fetchData, named for its cause                    *)
(*   sync       handleSync: its await, and the project of its closure      *)
(***************************************************************************)
EXTENDS Integers, FiniteSets

CONSTANTS Projects,   \* ids of projects, in the API's order
          Linked,     \* those with a handle of Instagram or Facebook
          Rows,       \* the metrics there may be; of a platform no two are as old
          None,
          MaxSelected \* bound on the selections and syncs

VARIABLES
    listed, rows, project, metrics, platform, profile, savedId, savedPlatform,
    loading, syncing, load, sync, selected,
    chosen,   \* history: the project the user chose last, or the page at first
    upset     \* history: since a load of the chosen project last began alone, loads
              \* have overlapped or failed, or a sync has loaded another project

memory == <<savedId, savedPlatform>>
shownVars == <<project, metrics, platform, profile>>
runs == <<loading, syncing, load, sync, selected>>
analyzerVars == <<listed, rows, memory, shownVars, runs, chosen, upset>>

\* A row stands for one of socialMetrics; `at` orders recorded_at.
Row == [platform : {"instagram", "linkedin"}, simulated : BOOLEAN, blank : BOOLEAN, at : Nat]

AnalyzerAssumption ==
    /\ Projects \subseteq Nat /\ IsFiniteSet(Projects) /\ None \notin Projects
    /\ Rows \subseteq Row /\ MaxSelected \in Nat

Causes == {"open", "select", "sync"}
Await == {"idle", "projects", "insights", "refresh", "again"}
NoLoad == [at |-> "idle", target |-> None, of |-> None]
NoMetrics == [of |-> None, rows |-> {}]
NoSync == [at |-> "idle", of |-> None]

AnalyzerTypeOK ==
    /\ listed \subseteq Projects
    /\ rows \in [Projects -> SUBSET Rows]
    /\ {project, profile, savedId, chosen} \subseteq Projects \cup {None}
    /\ metrics \in [of : Projects \cup {None}, rows : SUBSET Rows]
    /\ {platform, savedPlatform} \subseteq {r.platform : r \in Rows} \cup {None}
    /\ loading \in BOOLEAN /\ syncing \in BOOLEAN /\ upset \in BOOLEAN
    /\ load \in [Causes -> [at : Await, target : Projects \cup {None}, of : Projects \cup {None}]]
    /\ sync \in [at : {"idle", "refresh", "profile"}, of : Projects \cup {None}]
    /\ selected \in 0 .. MaxSelected

AnalyzerInit ==
    /\ listed \in SUBSET Projects
    /\ rows \in [Projects -> SUBSET Rows]
    /\ project = None /\ metrics = NoMetrics /\ platform = None /\ profile = None
    /\ savedId \in Projects \cup {None} /\ savedPlatform = None
    /\ loading = TRUE /\ syncing = FALSE
    /\ load = [l \in Causes |-> IF l = "open" THEN [NoLoad EXCEPT !.at = "projects"] ELSE NoLoad]
    /\ sync = NoSync /\ selected = 0
    /\ chosen = None /\ upset = FALSE

-----------------------------------------------------------------------------
(* The metrics.                                                            *)

\* dedupeLatestMetrics orders measured before simulated rows, and newer before older.
Before(r, s) ==
    \/ s.simulated /\ ~r.simulated
    \/ s.simulated = r.simulated /\ r.at > s.at

\* Of every platform the first row in that order.
dedupeLatestMetrics(S) ==
    {r \in S : \A s \in S \ {r} : s.platform = r.platform => Before(r, s)}

\* A project with a Meta handle whose metrics are missing, all simulated or in part blank.
needsLiveRefresh(p, M) ==
    /\ p \in Linked
    /\ \/ \A r \in M : r.simulated
       \/ \E r \in M : r.blank

\* The platform used last if there are metrics of it, else that of the first row.
Target(M) ==
    IF \E r \in M : r.platform = savedPlatform THEN savedPlatform
    ELSE (CHOOSE r \in M : \A s \in M \ {r} : ~Before(s, r)).platform

-----------------------------------------------------------------------------
(* What the page shows: a spinner; without metrics an invitation to sync   *)
(* or to the settings; and else the account of one tab.                    *)

\* The tabs.
Tabs == IF loading THEN {} ELSE metrics.rows

\* Sync Live Data of the header.
SyncOffered == ~loading /\ ~syncing

\* The row of the active tab: every figure of the page is its, or the public profile's.
ActiveSocial == {r \in Tabs : r.platform = platform}

\* The card of the account falls back to the public profile where the row has nothing.
AccountOf == IF ActiveSocial # {} THEN metrics.of ELSE profile

-----------------------------------------------------------------------------
(* fetchData.                                                              *)

InFlight == {l \in Causes : load[l].at # "idle"}

\* Up to the first await.
fetchData(l, target) ==
    /\ load[l].at = "idle"
    /\ load' = [load EXCEPT ![l] = [at |-> "projects", target |-> target, of |-> None]]
    /\ loading' = TRUE

\* Whichever load ends, the spinner goes.
LoadEnds(l) ==
    /\ load' = [load EXCEPT ![l] = NoLoad]
    /\ loading' = FALSE

\* The target, else the project used last, else the last of the list.
Pick(target) ==
    IF target \in listed THEN target
    ELSE IF savedId \in listed THEN savedId
    ELSE CHOOSE p \in listed : \A q \in listed : q <= p

\* A bug: the project is selected when its metrics are there, not before.
ProjectsLandLate(l) ==
    /\ load[l].at = "projects"
    /\ \/ listed = {} /\ LoadEnds(l) /\ UNCHANGED <<savedId, project, chosen>>
       \/ /\ listed # {} /\ savedId' = Pick(load[l].target)
          /\ load' = [load EXCEPT ![l].at = "insights", ![l].of = savedId']
          /\ chosen' = IF chosen = None THEN savedId' ELSE chosen
          /\ UNCHANGED <<loading, project>>
    /\ UNCHANGED <<listed, rows, metrics, platform, profile, savedPlatform, syncing, sync,
                   selected, upset>>

\* The projects arrive: one is selected and stored, and its metrics are asked for.
ProjectsLand(l) ==
    /\ load[l].at = "projects"
    /\ \/ listed = {} /\ LoadEnds(l) /\ UNCHANGED <<savedId, project, chosen>>
       \/ /\ listed # {} /\ savedId' = Pick(load[l].target)
          /\ project' = savedId'
          /\ load' = [load EXCEPT ![l].at = "insights", ![l].of = savedId']
          /\ chosen' = IF chosen = None THEN savedId' ELSE chosen
          /\ UNCHANGED loading
    /\ UNCHANGED <<listed, rows, metrics, platform, profile, savedPlatform, syncing, sync,
                   selected, upset>>

\* setSocialMetrics, and the platform of the tabs when there is one.
Show(p, M) ==
    /\ metrics' = [of |-> p, rows |-> M]
    /\ IF M = {} THEN UNCHANGED <<platform, savedPlatform>>
       ELSE platform' = Target(M) /\ savedPlatform' = platform'

\* The metrics arrive: they are shown, or refreshed first.
InsightsLand(l) ==
    /\ load[l].at = "insights"
    /\ LET M == dedupeLatestMetrics(rows[load[l].of])
       IN  IF needsLiveRefresh(load[l].of, M)
           THEN /\ load' = [load EXCEPT ![l].at = "refresh"]
                /\ UNCHANGED <<loading, metrics, platform, savedPlatform>>
           ELSE Show(load[l].of, M) /\ LoadEnds(l)
    /\ UNCHANGED <<listed, rows, project, profile, savedId, syncing, sync, selected, chosen, upset>>

\* The API asks the providers: a row is added, or not.
refreshSocial(p) ==
    \/ UNCHANGED rows
    \/ \E r \in Rows : rows' = [rows EXCEPT ![p] = @ \cup {r}]

\* syncLiveSocialInsights has ended, well or not, and the metrics are asked for again.
syncLiveSocialInsights(l) ==
    /\ load[l].at = "refresh"
    /\ refreshSocial(load[l].of)
    /\ load' = [load EXCEPT ![l].at = "again"]
    /\ UNCHANGED <<listed, memory, shownVars, loading, syncing, sync, selected, chosen, upset>>

RefreshedLand(l) ==
    /\ load[l].at = "again"
    /\ Show(load[l].of, dedupeLatestMetrics(rows[load[l].of]))
    /\ LoadEnds(l)
    /\ UNCHANGED <<listed, rows, project, profile, savedId, syncing, sync, selected, chosen, upset>>

\* A bug: the spinner goes only when a load succeeds.
FetchFailsLoading(l) ==
    /\ load[l].at \in {"projects", "insights", "again"}
    /\ load' = [load EXCEPT ![l] = NoLoad] /\ upset' = TRUE
    /\ UNCHANGED <<listed, rows, memory, shownVars, loading, syncing, sync, selected, chosen>>

FetchFails(l) ==
    /\ load[l].at \in {"projects", "insights", "again"}
    /\ LoadEnds(l) /\ upset' = TRUE
    /\ UNCHANGED <<listed, rows, memory, shownVars, syncing, sync, selected, chosen>>

-----------------------------------------------------------------------------
(* The user.                                                               *)

Begin == selected < MaxSelected /\ selected' = selected + 1

\* The project switcher.
handleProjectChange(p) ==
    /\ ~loading /\ p \in listed /\ Begin
    /\ fetchData("select", p)
    /\ chosen' = p
    /\ upset' = (InFlight # {})
    /\ UNCHANGED <<listed, rows, memory, shownVars, syncing, sync>>

\* The tabs of platforms.
setActivePlatform(r) ==
    /\ r \in Tabs /\ platform # r.platform
    /\ platform' = r.platform /\ savedPlatform' = r.platform
    /\ UNCHANGED <<listed, rows, project, metrics, profile, savedId, runs, chosen, upset>>

\* Sync Live Data, disabled while it runs.
handleSync ==
    /\ SyncOffered /\ project # None /\ Begin
    /\ syncing' = TRUE
    /\ sync' = [at |-> "refresh", of |-> project]
    /\ UNCHANGED <<listed, rows, memory, shownVars, loading, load, chosen, upset>>

\* The providers have answered: a public profile is asked for when there is a handle.
SyncRefreshed ==
    /\ sync.at = "refresh" /\ sync.of \in Linked
    /\ refreshSocial(sync.of)
    /\ sync' = [sync EXCEPT !.at = "profile"]
    /\ UNCHANGED <<listed, memory, shownVars, loading, syncing, load, selected, chosen, upset>>

\* The sync ends, and loads its own project without waiting for it.
SyncEnds ==
    /\ fetchData("sync", sync.of)
    /\ syncing' = FALSE /\ sync' = NoSync
    /\ upset' = (InFlight # {} \/ sync.of # chosen)

SyncDone ==
    /\ \/ sync.at = "refresh" /\ sync.of \notin Linked /\ refreshSocial(sync.of)
          /\ UNCHANGED profile
       \/ sync.at = "profile" /\ profile' = sync.of /\ UNCHANGED rows
    /\ SyncEnds
    /\ UNCHANGED <<listed, memory, project, metrics, platform, selected, chosen>>

\* Either call fails: nothing is loaded, though the API may have newer rows.
SyncFails ==
    /\ sync.at # "idle"
    /\ \/ sync.at = "refresh" /\ refreshSocial(sync.of)
       \/ sync.at = "profile" /\ UNCHANGED rows
    /\ syncing' = FALSE /\ sync' = NoSync
    /\ UNCHANGED <<listed, memory, shownVars, loading, load, selected, chosen, upset>>

AnalyzerNext ==
    \/ \E l \in Causes : \/ ProjectsLand(l) \/ InsightsLand(l) \/ syncLiveSocialInsights(l)
                         \/ RefreshedLand(l) \/ FetchFails(l)
    \/ \E p \in Projects : handleProjectChange(p)
    \/ \E r \in Rows : setActivePlatform(r)
    \/ handleSync \/ SyncRefreshed \/ SyncDone \/ SyncFails

-----------------------------------------------------------------------------
(* A page at rest shows the project that was chosen last, its metrics and  *)
(* no other project's, and one account card, that of a row of its own and  *)
(* never the public profile a sync has left; unless, since a load of that  *)
(* project last began alone, loads overlapped or failed, or a sync came    *)
(* back with another project.                                              *)
AnalyzerIsConsistent ==
    InFlight = {} /\ ~upset =>
        /\ project = chosen /\ metrics.of = chosen
        /\ metrics.rows # {} => AccountOf = chosen /\ Cardinality(ActiveSocial) = 1
        /\ \A r, s \in Tabs : r # s => r.platform # s.platform

(* The spinner and "Syncing" have a call under way behind them.            *)
AnalyzerSpinnerHasCause ==
    /\ loading => InFlight # {}
    /\ syncing <=> sync.at # "idle"
=============================================================================
