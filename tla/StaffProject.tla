----------------------------- MODULE StaffProject -----------------------------
(***************************************************************************)
(* The staff's view of one project.  Opening it reads the overview and the *)
(* traffic, and nothing is shown before both are over; each visit of the   *)
(* SEO or the Social tab then reads that tab again.  Every read is best    *)
(* effort: a failed one leaves what was shown, and is not tried again.     *)
(*                                                                         *)
(*   edition    counts the changes of the project's data in the API        *)
(*   overview, seo, latest, history, traffic   the edition from which      *)
(*              project, seoIssues/keywords, socialData, socialHistory and *)
(*              metrics were set; None while they are unset                *)
(*   opening    loading of the component                                   *)
(*   read[i]    the i-th request                                           *)
(***************************************************************************)
EXTENDS Integers

CONSTANTS None,       \* no data
          MaxEdition, \* bound on the changes of the data
          MaxReads    \* bound on the requests

DetailAssumption ==
    /\ MaxEdition \in Nat /\ MaxReads \in Nat /\ MaxReads >= 2
    /\ None \notin 0 .. MaxEdition

VARIABLES
    edition, overview, seo, latest, history, traffic, opening, activeTab, read, reads,
    visit   \* history: what the visit of the tab has met

shown == <<overview, seo, latest, history, traffic>>
detailVars == <<edition, shown, opening, activeTab, read, reads, visit>>

Tabs == {"overview", "seo", "social"}
Kinds == Tabs \cup {"metrics"}
Reads == 1 .. MaxReads
Editions == 0 .. MaxEdition
NoRead == [of |-> "overview", at |-> "idle", edition |-> 0]
Ask(kind) == [NoRead EXCEPT !.of = kind, !.at = "sent"]

DetailTypeOK ==
    /\ edition \in Editions
    /\ {overview, seo, latest, history, traffic} \subseteq Editions \cup {None}
    /\ opening \in BOOLEAN /\ activeTab \in Tabs
    /\ read \in [Reads -> [of : Kinds, at : {"idle", "sent", "answered", "over"}, edition : Editions]]
    /\ reads \in Reads /\ \A i \in Reads : read[i].at = "idle" <=> i > reads
    /\ visit \in [since : Editions, failed : BOOLEAN, crossed : BOOLEAN]

UnderWay(kinds) == {i \in Reads : read[i].of \in kinds /\ read[i].at \in {"sent", "answered"}}

\* The page opens on the overview, and reads it and the traffic.
DetailInit ==
    /\ edition = 0
    /\ overview = None /\ seo = None /\ latest = None /\ history = None /\ traffic = None
    /\ opening = TRUE /\ activeTab = "overview"
    /\ read = [i \in Reads |-> IF i = 1 THEN Ask("overview") ELSE IF i = 2 THEN Ask("metrics")
                               ELSE NoRead]
    /\ reads = 2
    /\ visit = [since |-> 0, failed |-> FALSE, crossed |-> FALSE]

\* "Loading project" covers the page.
Covered == opening \/ overview = None

\* What the cards of a tab are set from.
OverviewCards == [counts |-> overview, social |-> latest, traffic |-> traffic]
SEOCards == [issues |-> seo, keywords |-> seo]
SocialCards == [figures |-> latest, history |-> history]

\* A bug: a tab read once is not read again.
setActiveTabOnce(tab) ==
    /\ ~Covered /\ activeTab' = tab /\ tab # activeTab
    /\ visit' = [since |-> edition, failed |-> FALSE, crossed |-> UnderWay({tab}) # {}]
    /\ IF tab = "overview" \/ (tab = "seo" /\ seo # None) \/ (tab = "social" /\ history # None)
         THEN UNCHANGED <<read, reads>>
         ELSE /\ reads < MaxReads /\ reads' = reads + 1
              /\ read' = [read EXCEPT ![reads + 1] = Ask(tab)]
    /\ UNCHANGED <<edition, shown, opening>>

\* A tab is chosen, and the effect reads what the tab shows; the overview is not read again.
setActiveTab(tab) ==
    /\ ~Covered /\ tab # activeTab
    /\ activeTab' = tab
    /\ visit' = [since |-> edition, failed |-> FALSE, crossed |-> UnderWay({tab}) # {}]
    /\ \/ tab = "overview" /\ UNCHANGED <<read, reads>>
       \/ /\ tab # "overview" /\ reads < MaxReads
          /\ reads' = reads + 1
          /\ read' = [read EXCEPT ![reads + 1] = Ask(tab)]
    /\ UNCHANGED <<edition, shown, opening>>

\* The API answers a read.
GetProject(i) ==
    /\ read[i].at = "sent"
    /\ read' = [read EXCEPT ![i].at = "answered", ![i].edition = edition]
    /\ UNCHANGED <<edition, shown, opening, activeTab, reads, visit>>

\* The project's data changes.
DataMoves ==
    /\ edition < MaxEdition /\ edition' = edition + 1
    /\ UNCHANGED <<shown, opening, activeTab, read, reads, visit>>

\* A read is over, and the page is uncovered once the first two are.
Over(i) ==
    /\ read' = [read EXCEPT ![i].at = "over", ![i].edition = 0]
    /\ opening' = (opening /\ UnderWay({"overview", "metrics"}) \ {i} # {})
    /\ UNCHANGED <<edition, activeTab, reads>>

Landing(i, kind) == read[i].of = kind /\ read[i].at = "answered" /\ Over(i) /\ UNCHANGED visit

\* fetchOverview: the project, its owner, its counts and its latest social figures.
OverviewLands(i) ==
    /\ Landing(i, "overview")
    /\ overview' = read[i].edition /\ latest' = read[i].edition
    /\ UNCHANGED <<seo, history, traffic>>

\* fetchSEO: the open issues and the keywords.
SEOLands(i) == Landing(i, "seo") /\ seo' = read[i].edition /\ UNCHANGED <<overview, latest, history, traffic>>

\* A bug: the history is set and the latest figures are not.
SocialLandsByHalf(i) ==
    /\ Landing(i, "social")
    /\ history' = read[i].edition /\ UNCHANGED <<overview, seo, latest, traffic>>

\* fetchSocial: the latest figures, which the overview shows too, and their history.
SocialLands(i) ==
    /\ Landing(i, "social")
    /\ latest' = read[i].edition /\ history' = read[i].edition
    /\ UNCHANGED <<overview, seo, traffic>>

\* fetchMetrics.
MetricsLand(i) ==
    /\ Landing(i, "metrics")
    /\ traffic' = read[i].edition
    /\ UNCHANGED <<overview, seo, latest, history>>

\* A read fails; no message is shown.
ReadFails(i) ==
    /\ read[i].at \in {"sent", "answered"}
    /\ Over(i)
    /\ visit' = [visit EXCEPT !.failed = @ \/ read[i].of = activeTab]
    /\ UNCHANGED shown

DetailNext ==
    \/ \E tab \in Tabs : setActiveTab(tab)
    \/ DataMoves
    \/ \E i \in Reads :
          \/ GetProject(i) \/ OverviewLands(i) \/ SEOLands(i) \/ SocialLands(i) \/ MetricsLand(i)
          \/ ReadFails(i)

-----------------------------------------------------------------------------
(* The figures and the history of the Social tab come from one answer,     *)
(* although the overview sets the figures too: nothing can be asked of the *)
(* tab before the overview is over.  The figures the overview shows are    *)
(* never older than the counts above them.                                 *)
SocialIsOneAnswer ==
    /\ history # None => SocialCards.figures = SocialCards.history
    /\ ~Covered => OverviewCards.social >= OverviewCards.counts

(* When the reads of the tab that is shown are over and none failed, it    *)
(* shows data no older than the visit of the tab, whatever it showed       *)
(* before; unless a read of an earlier visit was still under way then,     *)
(* whose answer may come last.                                             *)
TabIsFresh ==
    \/ UnderWay({activeTab}) # {} \/ visit.failed \/ visit.crossed
    \/ /\ activeTab = "seo" => \A c \in DOMAIN SEOCards : SEOCards[c] >= visit.since
       /\ activeTab = "social" => \A c \in DOMAIN SocialCards : SocialCards[c] >= visit.since

(* "Loading project" is shown only while the first reads are under way, or *)
(* for good once the overview has failed.                                  *)
DetailSpinnerHasCause ==
    Covered => UnderWay({"overview", "metrics"}) # {} \/ (overview = None /\ ~opening /\ visit.failed)
=============================================================================
