------------------------------- MODULE SeoPages -------------------------------
(***************************************************************************)
(* Keyword research and the site explorer.                                 *)
(*                                                                         *)
(* The keywords of a project are loaded once, for its domain, and more are *)
(* generated from a seed, with the page usable during both.  The API keeps *)
(* what a seed gave for a day; a row is stored by every request that finds *)
(* none, or only old ones.                                                 *)
(*                                                                         *)
(* The explorer shows the last audit: the score and the issues the API has *)
(* kept, and the checks of an audit run here.  An audit is a number, and   *)
(* stands for the score and the issues it gave.                            *)
(*                                                                         *)
(*   stored[s]   the rows of seed s: how often each is there, and whether  *)
(*               the first is older than a day                             *)
(*   keywords[w] how often the page lists keyword w                        *)
(*   seed, filter, generating, listing   the state of the page; listing is *)
(*               its `loading`, ready that it has a project                *)
(*   get, post   the request of the page's load and of the button          *)
(*   audits      the last audit of the API                                 *)
(*   row         the audit of the project's row as the page loaded it      *)
(*   auditResult, issues, activeTab, exploring, running   of the page; the *)
(*               issues by their audit; exploring is its `loading`         *)
(*   survey, crawl   its load and its audit                                *)
(***************************************************************************)
EXTENDS Integers, FiniteSets

CONSTANTS None, Words,
          SuggestionsOf,   \* the keywords of every seed
          DomainSeed,      \* the seed of the project's own domain
          MaxCopies,       \* bound on the rows of a keyword
          MaxGenerated,    \* bound on the requests of the button
          MaxAudits,       \* bound on the audits
          Findings         \* the audits that find issues

Seeds == DOMAIN SuggestionsOf

SeoAssumption ==
    /\ DomainSeed \in Seeds /\ SuggestionsOf \in [Seeds -> SUBSET Words]
    /\ None \notin Seeds /\ None \notin 0 .. MaxAudits
    /\ {MaxCopies, MaxAudits} \subseteq Nat \ {0} /\ MaxGenerated \in Nat

VARIABLES
    tool,  \* the page
    stored, keywords, seed, filter, listing, ready, generating, get, post, generated,
    gained, overwritten, raced,   \* history
    audits, row, auditResult, issues, activeTab, exploring, running, survey, crawl,
    unread   \* history: an audit the page has not read, or not been told of

keywordVars ==
    <<stored, keywords, seed, filter, listing, ready, generating, get, post, generated, gained,
      overwritten, raced>>
explorerVars ==
    <<audits, row, auditResult, issues, activeTab, exploring, running, survey, crawl, unread>>
seoVars == <<tool, keywordVars, explorerVars>>

Audits == 0 .. MaxAudits
Counts == [Words -> 0 .. MaxCopies]
Nothing == [w \in Words |-> 0]
Request == [at : {"idle", "projects", "sent", "missed", "answered"},
            seed : Seeds \cup {None}, answer : Counts]
NoRequest == [at |-> "idle", seed |-> None, answer |-> Nothing]
NoResult == [of |-> None, checks |-> FALSE]
Filters == {"all", "easy", "medium", "hard"}

SeoTypeOK ==
    /\ tool \in {"keywords", "explorer"}
    /\ stored \in [Seeds -> [copies : 0 .. MaxCopies, old : BOOLEAN]]
    /\ keywords \in Counts /\ seed \in Seeds \cup {None} /\ filter \in Filters
    /\ {get, post} \subseteq Request /\ generated \in 0 .. MaxGenerated /\ gained \subseteq Words
    /\ {listing, ready, generating, overwritten, raced, exploring, running, unread}
         \subseteq BOOLEAN
    /\ {audits, issues} \subseteq Audits /\ row \in Audits \cup {None}
    /\ auditResult \in [of : Audits, checks : BOOLEAN] \cup {NoResult}
    /\ activeTab \in {"checks", "issues"}
    /\ survey \in {"idle", "projects", "issues", "status"} /\ crawl \in {"idle", "run", "issues"}

SeoInit ==
    /\ tool \in {"keywords", "explorer"}
    /\ stored \in [Seeds -> [copies : 0 .. 1, old : BOOLEAN]]
    /\ \A s \in Seeds : stored[s].old => stored[s].copies > 0
    /\ tool = "explorer" => \A s \in Seeds : stored[s].copies = 0
    /\ keywords = Nothing /\ seed = None /\ filter = "all" /\ ready = FALSE
    /\ listing = (tool = "keywords") /\ generating = FALSE /\ post = NoRequest
    /\ get = IF listing THEN [NoRequest EXCEPT !.at = "projects"] ELSE NoRequest
    /\ generated = 0 /\ gained = {} /\ overwritten = FALSE /\ raced = FALSE
    /\ audits \in {0, 1} /\ row = None /\ auditResult = NoResult /\ issues = 0
    /\ activeTab = "checks" /\ exploring = (tool = "explorer") /\ running = FALSE
    /\ survey = (IF exploring THEN "projects" ELSE "idle") /\ crawl = "idle" /\ unread = FALSE

-----------------------------------------------------------------------------
(* The API's keywords.                                                     *)

Suggested(s, n) == [w \in Words |-> IF w \in SuggestionsOf[s] THEN n ELSE 0]

\* The rows of a seed answer as they are while the first is younger than a day.
FindKeywords(request) ==
    LET kept == stored[request.seed]
    IN  IF kept.copies > 0 /\ ~kept.old
        THEN [request EXCEPT !.at = "answered", !.answer = Suggested(request.seed, kept.copies)]
        ELSE [request EXCEPT !.at = "missed"]

\* Otherwise Google is asked, and what it gives is inserted; an error of the insert is dropped.
Resolved(request) ==
    LET s == request.seed
    IN  \/ /\ stored[s].copies < MaxCopies
           /\ stored' = [stored EXCEPT ![s].copies = @ + 1]
           /\ raced' = (raced \/ (stored[s].copies > 0 /\ ~stored[s].old))
        \/ UNCHANGED <<stored, raced>>

\* A day goes by.  The rows that are inserted later come after the old ones.
Expire(s) ==
    /\ tool = "keywords" /\ stored[s].copies > 0 /\ ~stored[s].old
    /\ stored' = [stored EXCEPT ![s].old = TRUE]
    /\ UNCHANGED <<tool, keywords, seed, filter, listing, ready, generating, get, post,
                   generated, gained, overwritten, raced, explorerVars>>

-----------------------------------------------------------------------------
(* The page of keywords.                                                   *)

\* None of the suggestions has a difficulty, and each filter but "all" asks for one.
KeywordBody ==
    IF listing THEN "spinner"
    ELSE IF filter # "all" \/ keywords = Nothing THEN "none" ELSE "table"

\* The button, and Enter, which a disabled button blocks.
GenerateOpen == ~generating /\ seed # None /\ ready

KeywordProjectsLand ==
    /\ get.at = "projects"
    /\ ready' = TRUE /\ get' = [get EXCEPT !.at = "sent", !.seed = DomainSeed]
    /\ UNCHANGED <<tool, stored, keywords, seed, filter, listing, generating, post, generated,
                   gained, overwritten, raced, explorerVars>>

\* The API answers the load.
Keywords ==
    /\ \/ get.at = "sent" /\ get' = FindKeywords(get) /\ UNCHANGED <<stored, raced>>
       \/ /\ get.at = "missed" /\ Resolved(get)
          /\ get' = [get EXCEPT !.at = "answered", !.answer = Suggested(get.seed, 1)]
       \/ /\ get.at = "missed" /\ UNCHANGED <<stored, raced>>   \* Google gives nothing
          /\ get' = [get EXCEPT !.at = "answered"]
    /\ UNCHANGED <<tool, keywords, seed, filter, listing, ready, generating, post, generated,
                   gained, overwritten, explorerVars>>

\* The load replaces the list, whatever was generated meanwhile; or it fails.
KeywordsLand ==
    /\ get.at # "idle"
    /\ \/ get.at = "answered" /\ keywords' = get.answer /\ overwritten' = (gained # {})
       \/ UNCHANGED <<keywords, overwritten>>
    /\ get' = NoRequest /\ listing' = FALSE
    /\ UNCHANGED <<tool, stored, seed, filter, ready, generating, post, generated, gained,
                   raced, explorerVars>>

setSeed(s) ==
    /\ tool = "keywords" /\ s # seed
    /\ seed' = s
    /\ UNCHANGED <<tool, stored, keywords, filter, listing, ready, generating, get, post,
                   generated, gained, overwritten, raced, explorerVars>>

setFilter(f) ==
    /\ tool = "keywords" /\ f # filter
    /\ filter' = f
    /\ UNCHANGED <<tool, stored, keywords, seed, listing, ready, generating, get, post,
                   generated, gained, overwritten, raced, explorerVars>>

handleGenerate ==
    /\ tool = "keywords" /\ GenerateOpen /\ generated < MaxGenerated
    /\ generated' = generated + 1 /\ generating' = TRUE
    /\ post' = [NoRequest EXCEPT !.at = "sent", !.seed = seed]
    /\ UNCHANGED <<tool, stored, keywords, seed, filter, listing, ready, get, gained,
                   overwritten, raced, explorerVars>>

\* The API answers the button.
KeywordsPost ==
    /\ \/ post.at = "sent" /\ post' = FindKeywords(post) /\ UNCHANGED <<stored, raced>>
       \/ /\ post.at = "missed" /\ Resolved(post)
          /\ post' = [post EXCEPT !.at = "answered", !.answer = Suggested(post.seed, 1)]
       \/ /\ post.at = "missed" /\ UNCHANGED <<stored, raced>>
          /\ post' = [post EXCEPT !.at = "answered"]
    /\ UNCHANGED <<tool, keywords, seed, filter, listing, ready, generating, get, generated,
                   gained, overwritten, explorerVars>>

\* A bug: everything is put in front.
MergeRepeats ==
    /\ post.at = "answered"
    /\ keywords' = [w \in Words |-> keywords[w] + post.answer[w]]
    /\ gained' = gained \cup {w \in Words : post.answer[w] > 0}
    /\ seed' = None
    /\ post' = NoRequest /\ generating' = FALSE
    /\ UNCHANGED <<tool, stored, filter, listing, ready, get, generated, overwritten, raced,
                   explorerVars>>

\* A bug: the list is replaced.
MergeReplaces ==
    /\ post.at = "answered"
    /\ keywords' = post.answer
    /\ gained' = gained \cup {w \in Words : post.answer[w] > 0}
    /\ seed' = None
    /\ post' = NoRequest /\ generating' = FALSE
    /\ UNCHANGED <<tool, stored, filter, listing, ready, get, generated, overwritten, raced,
                   explorerVars>>

\* What is not listed yet is put in front; the input is emptied, whatever it holds by then.
Merge ==
    /\ post.at = "answered"
    /\ keywords' = [w \in Words |-> IF keywords[w] > 0 THEN keywords[w] ELSE post.answer[w]]
    /\ gained' = gained \cup {w \in Words : post.answer[w] > 0}
    /\ seed' = None
    /\ post' = NoRequest /\ generating' = FALSE
    /\ UNCHANGED <<tool, stored, filter, listing, ready, get, generated, overwritten, raced,
                   explorerVars>>

GenerateFails ==
    /\ post.at # "idle"
    /\ post' = NoRequest /\ generating' = FALSE
    /\ UNCHANGED <<tool, stored, keywords, seed, filter, listing, ready, get, generated,
                   gained, overwritten, raced, explorerVars>>

-----------------------------------------------------------------------------
(* The explorer.                                                           *)

\* The score of the audit that is shown, else of the project's row.
Score == IF auditResult # NoResult THEN auditResult.of ELSE IF row # None THEN row ELSE 0
TabsShown == auditResult.checks \/ issues \in Findings

\* The table of a tab, or what stands in its place.  The issues alone bring up the tabs, of
\* which the first is then empty.
ExplorerBody ==
    IF exploring THEN "spinner"
    ELSE IF ~TabsShown THEN IF running THEN "blank" ELSE "none"
    ELSE IF activeTab = "checks" /\ ~auditResult.checks THEN "blank" ELSE activeTab

Surveyed ==
    \/ /\ survey = "projects" /\ row' = audits /\ survey' = "issues"
       /\ UNCHANGED <<auditResult, issues, exploring>>
    \/ /\ survey = "issues" /\ issues' = audits /\ survey' = "status"
       /\ UNCHANGED <<row, auditResult, exploring>>
    \/ /\ survey = "status" /\ auditResult' = [of |-> audits, checks |-> FALSE]
       /\ survey' = "idle" /\ exploring' = FALSE
       /\ UNCHANGED <<row, issues>>

\* The page's load: the project, its issues, the state of its audit.
LoadExplorer ==
    /\ Surveyed
    /\ UNCHANGED <<tool, keywordVars, audits, activeTab, running, crawl, unread>>

\* A bug: after a failure the page loads for ever.
LoadFailsExploring ==
    /\ survey # "idle"
    /\ survey' = "idle" /\ unread' = TRUE
    /\ UNCHANGED <<tool, keywordVars, audits, row, auditResult, issues, activeTab, exploring,
                   running, crawl>>

\* One of the three fails.  Without its status an audit is still shown by the project's row.
LoadFails ==
    /\ survey # "idle"
    /\ survey' = "idle" /\ exploring' = FALSE
    /\ unread' = (survey # "status")
    /\ UNCHANGED <<tool, keywordVars, audits, row, auditResult, issues, activeTab, running, crawl>>

setActiveTab(tab) ==
    /\ tool = "explorer" /\ ~exploring /\ TabsShown /\ tab # activeTab
    /\ activeTab' = tab
    /\ UNCHANGED <<tool, keywordVars, audits, row, auditResult, issues, exploring, running,
                   survey, crawl, unread>>

handleRunAudit ==
    /\ tool = "explorer" /\ ~exploring /\ ~running /\ row # None
    /\ running' = TRUE /\ auditResult' = NoResult /\ crawl' = "run"
    /\ UNCHANGED <<tool, keywordVars, audits, row, issues, activeTab, exploring, survey, unread>>

\* The API crawls the site and stores the audit.
AuditRun == audits < MaxAudits /\ audits' = audits + 1

\* A bug: the issues are not read again.
AuditLandsAlone ==
    /\ crawl = "run" /\ AuditRun
    /\ auditResult' = [of |-> audits', checks |-> TRUE]
    /\ running' = FALSE /\ crawl' = "idle" /\ unread' = FALSE
    /\ UNCHANGED <<tool, keywordVars, row, issues, activeTab, exploring, survey>>

AuditLands ==
    /\ crawl = "run" /\ AuditRun
    /\ auditResult' = [of |-> audits', checks |-> TRUE] /\ crawl' = "issues"
    /\ UNCHANGED <<tool, keywordVars, row, issues, activeTab, exploring, running, survey, unread>>

IssuesReload ==
    /\ crawl = "issues"
    /\ issues' = audits /\ activeTab' = "checks"
    /\ running' = FALSE /\ crawl' = "idle" /\ unread' = FALSE
    /\ UNCHANGED <<tool, keywordVars, audits, row, auditResult, exploring, survey>>

\* The audit fails, before or after it is stored, and the page is back at the score it was
\* loaded with; or its issues cannot be read, and those of the audit before stay.
AuditFails ==
    /\ crawl # "idle"
    /\ \/ crawl = "run" /\ AuditRun
       \/ UNCHANGED audits
    /\ running' = FALSE /\ crawl' = "idle"
    /\ unread' = \/ unread \/ audits' # audits
                  \/ crawl = "issues" \/ row # audits
    /\ UNCHANGED <<tool, keywordVars, row, auditResult, issues, activeTab, exploring, survey>>

SeoNext ==
    \/ \E s \in Seeds : Expire(s) \/ setSeed(s)
    \/ KeywordProjectsLand \/ Keywords \/ KeywordsLand
    \/ \E f \in Filters : setFilter(f)
    \/ handleGenerate \/ KeywordsPost \/ Merge \/ GenerateFails
    \/ LoadExplorer \/ LoadFails
    \/ \E tab \in {"checks", "issues"} : setActiveTab(tab)
    \/ handleRunAudit \/ AuditLands \/ IssuesReload \/ AuditFails

-----------------------------------------------------------------------------
(* No keyword is listed twice, whatever the load and the button answer in  *)
(* whichever order; unless both asked for one seed before either stored    *)
(* it, whose rows are then there twice for a day.                          *)
KeywordsListedOnce == ~raced => \A w \in Words : keywords[w] <= 1

(* What was generated stays listed, unless the page's load came after it.  *)
GeneratedStays == ~overwritten => \A w \in gained : keywords[w] > 0

(* The explorer at rest shows the score and the issues of the last audit,  *)
(* unless the page could not read it, or an audit failed after another had *)
(* succeeded here.                                                         *)
ExplorerIsCurrent ==
    tool = "explorer" /\ survey = "idle" /\ crawl = "idle" /\ ~unread =>
        Score = audits /\ issues = audits

(* Each spinner and disabled button has a call under way.                  *)
SeoSpinnerHasCause ==
    /\ listing => get.at # "idle"
    /\ generating => post.at # "idle"
    /\ exploring => survey # "idle"
    /\ running => crawl # "idle"
=============================================================================
