----------------------------- MODULE SyncedPages -----------------------------
(***************************************************************************)
(* Traffic, rank tracking and growth: three pages that fetch the data of a *)
(* project, another one when the header's menu says so, and again after a  *)
(* sync of it.  Nothing is waited for and nothing is cancelled, and what a *)
(* sync fetches is what the page showed when the button was pressed.  The  *)
(* traffic page stays usable during a fetch; the others show a spinner.    *)
(*                                                                         *)
(*   kind         the page: "traffic", "ranks" or "growth"                 *)
(*   edition[p]   how often project p has been synced                      *)
(*   connected    the API holds a token to sync with                       *)
(*   savedSite, savedNetwork   of the storage                              *)
(*   site, days, search, network, fetching, siteSyncing   project, days,   *)
(*                search, activePlatform, loading, syncing of a component  *)
(*   chart        the answer that is shown                                 *)
(*   fetches[f]   a fetchData: its await, target, days, project, answer    *)
(*   syncs[s]     a handleSync: what its closure holds                     *)
(***************************************************************************)
EXTENDS Integers, FiniteSets

CONSTANTS Sites,        \* ids of projects, in the API's order
          Ranges,       \* numbers of days the traffic page offers
          FirstRange,   \* the one it begins with
          NetworksOf,   \* the networks with rows, of each project
          Networks, None,
          MaxFetches,   \* bound on the fetches, and on the syncs, under way
          MaxEdition,   \* bound on the syncs of a project
          MaxActs       \* bound on the selections and syncs

SyncedAssumption ==
    /\ Sites \subseteq Nat /\ IsFiniteSet(Sites) /\ Sites # {} /\ None \notin Sites
    /\ FirstRange \in Ranges /\ NetworksOf \in [Sites -> SUBSET Networks]
    /\ {MaxFetches, MaxEdition} \subseteq Nat \ {0} /\ MaxActs \in Nat

VARIABLES
    kind, edition, connected, savedSite, savedNetwork, site, days, search, network, chart,
    fetching, fetches, siteSyncing, syncs, acts,
    wish,     \* history: the project that was chosen last
    crossed   \* history: since the last fetch that ran alone, calls have met or failed

memoryVars == <<savedSite, savedNetwork>>
viewVars == <<site, days, search, network, chart>>
syncedVars ==
    <<kind, edition, connected, memoryVars, viewVars, fetching, fetches, siteSyncing, syncs,
      acts, wish, crossed>>

Slots == 1 .. MaxFetches
Answer == [of : Sites, days : Ranges, edition : 0 .. MaxEdition, connected : BOOLEAN]
Reply == [of : Sites \cup {None}, days : Ranges, edition : 0 .. MaxEdition, connected : BOOLEAN]
NoAnswer == [of |-> None, days |-> FirstRange, edition |-> 0, connected |-> FALSE]
NoFetch == [at |-> "idle", target |-> None, days |-> FirstRange, answer |-> NoAnswer]
NoSync == [of |-> None, days |-> FirstRange]

SyncedTypeOK ==
    /\ kind \in {"traffic", "ranks", "growth"} /\ edition \in [Sites -> 0 .. MaxEdition]
    /\ {connected, fetching, siteSyncing, crossed} \subseteq BOOLEAN
    /\ {savedSite, site, wish} \subseteq Sites \cup {None}
    /\ {savedNetwork, network} \subseteq Networks \cup {None}
    /\ days \in Ranges /\ search \in {"", "hit", "miss"} /\ chart \in Answer \cup {NoAnswer}
    /\ fetches \in [Slots -> [at : {"idle", "projects", "data", "answered"},
                            target : Sites \cup {None}, days : Ranges, answer : Reply]]
    /\ syncs \in [Slots -> [of : Sites \cup {None}, days : Ranges]]
    /\ acts \in 0 .. MaxActs

Fetching == {f \in Slots : fetches[f] # NoFetch}
Syncing == {s \in Slots : syncs[s] # NoSync}
Unused(f) == f \notin Fetching /\ \A g \in Slots \ Fetching : f <= g

SyncedInit ==
    /\ kind \in {"traffic", "ranks", "growth"} /\ connected \in BOOLEAN
    /\ edition \in [Sites -> 0 .. 1]
    /\ savedSite \in Sites \cup {None} /\ savedNetwork \in Networks \cup {None}
    /\ kind # "growth" => savedNetwork = None
    /\ site = None /\ days = FirstRange /\ search = "" /\ network = None /\ chart = NoAnswer
    /\ fetching = TRUE /\ siteSyncing = FALSE
    /\ fetches = [f \in Slots |-> IF f = 1 THEN [NoFetch EXCEPT !.at = "projects"] ELSE NoFetch]
    /\ syncs = [s \in Slots |-> NoSync]
    /\ acts = 0 /\ wish = None /\ crossed = FALSE

-----------------------------------------------------------------------------
(* What the pages show.                                                    *)

\* The traffic page: a chart, or a button to sync with or to connect.
TrafficBody ==
    IF chart.edition > 0 THEN "chart" ELSE IF chart.connected THEN "sync" ELSE "connect"

\* The banner that asks for a connection, which is up until the first answer too.
TrafficBanner == ~chart.connected

\* The ranks: every stored row of a query, and one was stored by each sync.
ListedTimes == IF chart.connected THEN chart.edition ELSE 0
RanksBody ==
    IF fetching THEN "spinner"
    ELSE IF ListedTimes = 0 \/ search = "miss" THEN "none" ELSE "table"
RankCards == ~fetching /\ ListedTimes > 0

\* The growth page: two snapshots make a chart.
GrowthBody ==
    IF fetching THEN "spinner" ELSE IF chart.edition > 1 THEN "chart" ELSE "sync"
GrowthTabs == IF fetching \/ chart.of = None THEN {} ELSE NetworksOf[chart.of]

Usable ==
    CASE kind = "traffic" -> TRUE
      [] kind = "ranks" -> RanksBody # "spinner"
      [] OTHER -> GrowthBody # "spinner"

\* The sync buttons are disabled during a sync; that of the empty chart is not.
TrafficSyncOpen == ~siteSyncing \/ TrafficBody = "sync"
RanksSyncOpen == ~siteSyncing /\ site # None

-----------------------------------------------------------------------------
(* fetchData.                                                              *)

Begin(f, target, d) ==
    /\ Unused(f)
    /\ fetches' = [fetches EXCEPT ![f] = [NoFetch EXCEPT !.at = "projects", !.target = target,
                                                         !.days = d]]
    /\ fetching' = TRUE
    /\ crossed' = \/ Fetching # {} \/ d # days'
                  \/ target # None /\ target # wish'

\* A bug: the choice is not stored, and the next page opens another project.
SitesLandUnstored(f) ==
    /\ fetches[f].at = "projects"
    /\ site' = IF fetches[f].target # None THEN fetches[f].target
               ELSE IF savedSite # None THEN savedSite
               ELSE CHOOSE p \in Sites : \A q \in Sites : q <= p
    /\ wish' = IF wish = None THEN site' ELSE wish
    /\ fetches' = [fetches EXCEPT ![f].at = "data", ![f].answer.of = site']
    /\ UNCHANGED <<kind, edition, connected, memoryVars, days, search, network, chart,
                   fetching, siteSyncing, syncs, acts, crossed>>

\* The target, or the project of the storage, or the last one; it is stored at once.
SitesLand(f) ==
    LET selected == IF fetches[f].target # None THEN fetches[f].target
                    ELSE IF savedSite # None THEN savedSite
                    ELSE CHOOSE p \in Sites : \A q \in Sites : q <= p
    IN  /\ fetches[f].at = "projects"
        /\ site' = selected /\ savedSite' = selected
        /\ wish' = IF wish = None THEN selected ELSE wish
        /\ fetches' = [fetches EXCEPT ![f].at = "data", ![f].answer.of = selected]
        /\ UNCHANGED <<kind, edition, connected, savedNetwork, days, search, network, chart,
                       fetching, siteSyncing, syncs, acts, crossed>>

\* The API reads the rows of that project.
DataAnswered(f) ==
    LET of == fetches[f].answer.of
    IN  /\ fetches[f].at = "data"
        /\ fetches' = [fetches EXCEPT
               ![f].at = "answered",
               ![f].answer = [of |-> of, days |-> fetches[f].days, edition |-> edition[of],
                              connected |-> connected]]
        /\ UNCHANGED <<kind, edition, connected, memoryVars, viewVars, fetching, siteSyncing,
                       syncs, acts, wish, crossed>>

\* The answers are shown, whichever fetch they are of.
DataLands(f) ==
    /\ kind # "growth" /\ fetches[f].at = "answered"
    /\ chart' = fetches[f].answer
    /\ fetching' = FALSE /\ fetches' = [fetches EXCEPT ![f] = NoFetch]
    /\ UNCHANGED <<kind, edition, connected, memoryVars, site, days, search, network,
                   siteSyncing, syncs, acts, wish, crossed>>

\* A bug: the network stays, whether or not the project is on it.
GrowthKeepsNetwork(f) ==
    /\ kind = "growth" /\ fetches[f].at = "answered"
    /\ chart' = fetches[f].answer
    /\ fetching' = FALSE /\ fetches' = [fetches EXCEPT ![f] = NoFetch]
    /\ UNCHANGED <<kind, edition, connected, memoryVars, site, days, search, network,
                   siteSyncing, syncs, acts, wish, crossed>>

\* The growth page picks a network too: the stored one, when the project has rows of it.
GrowthLands(f) ==
    LET offered == NetworksOf[fetches[f].answer.of]
    IN  /\ kind = "growth" /\ fetches[f].at = "answered"
        /\ chart' = fetches[f].answer
        /\ IF offered = {} THEN UNCHANGED <<network, savedNetwork>>
           ELSE /\ network' = IF savedNetwork \in offered THEN savedNetwork
                              ELSE CHOOSE n \in offered : TRUE
                /\ savedNetwork' = network'
        /\ fetching' = FALSE /\ fetches' = [fetches EXCEPT ![f] = NoFetch]
        /\ UNCHANGED <<kind, edition, connected, savedSite, site, days, search, siteSyncing,
                       syncs, acts, wish, crossed>>

\* A bug: the spinner stays too.
FetchFailsFetching(f) ==
    /\ f \in Fetching
    /\ fetches' = [fetches EXCEPT ![f] = NoFetch]
    /\ crossed' = TRUE
    /\ UNCHANGED <<kind, edition, connected, memoryVars, viewVars, fetching, siteSyncing,
                   syncs, acts, wish>>

\* An error is logged: what is shown stays, under the project selected by then.
FetchFails(f) ==
    /\ f \in Fetching
    /\ fetching' = FALSE /\ fetches' = [fetches EXCEPT ![f] = NoFetch]
    /\ crossed' = TRUE
    /\ UNCHANGED <<kind, edition, connected, memoryVars, viewVars, siteSyncing, syncs, acts, wish>>

-----------------------------------------------------------------------------
(* The controls.                                                           *)

Act == acts < MaxActs /\ acts' = acts + 1

onProjectChange(f, p) ==
    /\ Usable /\ Act /\ site # None /\ p # site
    /\ wish' = p /\ UNCHANGED days
    /\ Begin(f, p, days)
    /\ UNCHANGED <<kind, edition, connected, memoryVars, site, search, network, chart,
                   siteSyncing, syncs>>

\* A range of days, of the project shown.
handleDaysChange(f, d) ==
    /\ kind = "traffic" /\ Act /\ d # days
    /\ days' = d /\ UNCHANGED wish
    /\ Begin(f, site, d)
    /\ UNCHANGED <<kind, edition, connected, memoryVars, site, search, network, chart,
                   siteSyncing, syncs>>

setSearch(text) ==
    /\ kind = "ranks" /\ Usable /\ text # search
    /\ search' = text
    /\ UNCHANGED <<kind, edition, connected, memoryVars, site, days, network, chart, fetching,
                   fetches, siteSyncing, syncs, acts, wish, crossed>>

setActivePlatform(n) ==
    /\ kind = "growth" /\ n \in GrowthTabs /\ n # network
    /\ network' = n /\ savedNetwork' = n
    /\ UNCHANGED <<kind, edition, connected, savedSite, site, days, search, chart, fetching,
                   fetches, siteSyncing, syncs, acts, wish, crossed>>

handleSync(s) ==
    /\ Usable /\ Act /\ site # None /\ s \notin Syncing
    /\ IF kind = "traffic" THEN TrafficSyncOpen ELSE RanksSyncOpen
    /\ siteSyncing' = TRUE
    /\ syncs' = [syncs EXCEPT ![s] = [of |-> site, days |-> days]]
    /\ UNCHANGED <<kind, edition, connected, memoryVars, viewVars, fetching, fetches, wish,
                   crossed>>

\* The API syncs the project when it holds a token; every sync stores its rows anew.
UpsertKeywords(p) ==
    IF connected
    THEN edition[p] < MaxEdition /\ edition' = [edition EXCEPT ![p] = @ + 1]
    ELSE UNCHANGED edition

\* The answer begins a fetch of the project, and the days, that the page showed then.
SyncLands(s, f) ==
    /\ s \in Syncing /\ UpsertKeywords(syncs[s].of)
    /\ syncs' = [syncs EXCEPT ![s] = NoSync] /\ siteSyncing' = FALSE
    /\ UNCHANGED <<days, wish>>
    /\ Begin(f, syncs[s].of, syncs[s].days)
    /\ UNCHANGED <<kind, connected, memoryVars, site, search, network, chart, acts>>

\* A sync fails, before or after the API stored rows.
SyncFails(s) ==
    /\ s \in Syncing
    /\ UpsertKeywords(syncs[s].of) \/ UNCHANGED edition
    /\ syncs' = [syncs EXCEPT ![s] = NoSync] /\ siteSyncing' = FALSE
    /\ crossed' = (crossed \/ edition' # edition)
    /\ UNCHANGED <<kind, connected, memoryVars, viewVars, fetching, fetches, acts, wish>>

SyncedNext ==
    \/ \E f \in Slots :
        \/ SitesLand(f) \/ DataAnswered(f) \/ DataLands(f) \/ GrowthLands(f) \/ FetchFails(f)
        \/ \E p \in Sites : onProjectChange(f, p)
        \/ \E d \in Ranges : handleDaysChange(f, d)
        \/ \E s \in Slots : SyncLands(s, f)
    \/ \E text \in {"", "hit", "miss"} : setSearch(text)
    \/ \E n \in Networks : setActivePlatform(n)
    \/ \E s \in Slots : handleSync(s) \/ SyncFails(s)

Spec == SyncedInit /\ [][SyncedNext]_syncedVars

-----------------------------------------------------------------------------
(* A page at rest shows the project chosen last, the one the storage keeps *)
(* for the next page, with the rows the API has of it for the days that    *)
(* are selected; unless, since a fetch ran alone, fetches met, a sync      *)
(* brought back a project or a range that had been left, or a call failed. *)
SyncedPageIsConsistent ==
    Fetching \cup Syncing = {} /\ ~crossed =>
        /\ site = wish /\ savedSite = site
        /\ chart = [of |-> site, days |-> days, edition |-> edition[site],
                    connected |-> connected]

(* The network of the growth page has rows of the project it shows.        *)
NetworkIsShown ==
    kind = "growth" /\ GrowthTabs # {} => network \in GrowthTabs /\ network = savedNetwork

(* Each spinner has a call under way.                                      *)
SyncedSpinnerHasCause ==
    /\ fetching => Fetching # {}
    /\ siteSyncing => Syncing # {}

(* repository/seo_repo.go says UpsertKeywords "replaces on same project+   *)
(* keyword": a query has one row, however often the project is synced.     *)
RanksListedOnce == kind = "ranks" /\ RanksBody = "table" => ListedTimes = 1
=============================================================================
