------------------------------- MODULE AiPages -------------------------------
(***************************************************************************)
(* The chat, the content generator and the automations.                    *)
(*                                                                         *)
(* The chat sends one topic at a time and appends what comes back.  The    *)
(* generator sends a topic for a platform, both of which the user may      *)
(* change while the answer is on its way, and shows the answer alone.      *)
(* The automations of the last project are flipped on the page at once and *)
(* on the API later; a failure fetches them all again.                     *)
(*                                                                         *)
(*   desk       the page: "chat", "content" or "automations"               *)
(*   hasProject, ready   a project is selected, and the load is over       *)
(*   input      a topic that is typed, 0 for none                          *)
(*   messages   the conversation after the greeting: who, on which topic   *)
(*   platform, variants, copied, timers   of the generator; variants by    *)
(*              what they were asked for; timers the ends of "Copied!"     *)
(*   drafting   `loading` of the chat and of the generator                 *)
(*   draft      their request: what it asked for                           *)
(*   jobs, cards, gathering   the automations of the API and of the page,  *)
(*              "on", "off" or absent, and the page's `loading`            *)
(*   gathers[g], flips[f]   a fetchData and a toggle under way             *)
(***************************************************************************)
EXTENDS Integers, Sequences, FiniteSets

CONSTANTS None, Formats,
          MaxTopics,   \* bound on the topics typed
          MaxCopies,   \* bound on the copies made
          JobIds,      \* the ids the API hands out
          MaxFlips     \* bound on the toggles under way, the fetches, and the toggles in all

AiAssumption ==
    /\ None \notin JobIds
    /\ {MaxTopics, MaxCopies} \subseteq Nat /\ MaxFlips \in Nat \ {0}

VARIABLES
    desk, hasProject, ready, input, messages, platform, variants, copied, timers, drafting,
    draft, topics, copies,
    jobs, cards, gathering, gathers, flips, flipped, making,
    misread,  \* history: the automations that were off when the page fetched them last
    mingled   \* history: a fetch met a toggle or failed, since the last that did not

draftVars ==
    <<input, messages, platform, variants, copied, timers, drafting, draft, topics, copies>>
jobVars == <<jobs, cards, gathering, gathers, flips, flipped, making, misread, mingled>>
aiVars == <<desk, hasProject, ready, draftVars, jobVars>>

Topics == 0 .. MaxTopics
Variants == {0, 1}   \* the variants that are told apart
Slots == 1 .. MaxFlips
State == {"on", "off", "absent"}
NoDraft == [topic |-> 0, platform |-> None]
NoFlip == [of |-> None, found |-> None]
NoGather == [at |-> "idle", answer |-> [j \in JobIds |-> "absent"]]

AiTypeOK ==
    /\ desk \in {"chat", "content", "automations"}
    /\ {hasProject, ready, drafting, gathering, making, mingled} \subseteq BOOLEAN
    /\ input \in Topics /\ topics \in Topics /\ copies \in 0 .. MaxCopies
    /\ messages \in Seq([role : {"user", "bot"}, topic : Topics])
    /\ platform \in Formats
    /\ {variants, draft} \subseteq [topic : Topics, platform : Formats \cup {None}]
    /\ copied \in Variants \cup {None} /\ timers \in 0 .. MaxCopies
    /\ {jobs, cards} \subseteq [JobIds -> State]
    /\ gathers \in [Slots -> [at : {"idle", "projects", "sent", "answered"},
                              answer : [JobIds -> State]]]
    /\ flips \in [Slots -> [of : JobIds \cup {None}, found : State \cup {None}]]
    /\ misread \subseteq JobIds /\ flipped \in 0 .. MaxFlips

AiInit ==
    /\ desk \in {"chat", "content", "automations"}
    /\ hasProject = FALSE /\ ready = FALSE /\ input = 0 /\ messages = <<>>
    /\ platform \in Formats /\ variants = NoDraft /\ copied = None /\ timers = 0
    /\ drafting = FALSE /\ draft = NoDraft /\ topics = 0 /\ copies = 0
    /\ jobs \in [JobIds -> State]
    /\ desk # "automations" => \A j \in JobIds : jobs[j] = "absent"
    /\ cards = [j \in JobIds |-> "absent"] /\ gathering = (desk = "automations")
    /\ gathers = [g \in Slots |->
           IF g = 1 /\ gathering THEN [NoGather EXCEPT !.at = "projects"] ELSE NoGather]
    /\ flips = [f \in Slots |-> NoFlip] /\ flipped = 0 /\ making = FALSE
    /\ misread = {} /\ mingled = FALSE

-----------------------------------------------------------------------------
(* The chat and the generator.                                             *)

\* The load ends: a project, or none, when there is none or the call failed.
ChatReady ==
    /\ desk = "chat" /\ ~ready
    /\ hasProject' \in BOOLEAN /\ ready' = TRUE
    /\ UNCHANGED <<desk, draftVars, jobVars>>

ContentReady ==
    /\ desk = "content" /\ ~ready
    /\ hasProject' \in BOOLEAN /\ ready' = TRUE
    /\ UNCHANGED <<desk, draftVars, jobVars>>

\* The chat takes no input during a request or without a project; the generator always does.
InputOpen == desk = "content" \/ (desk = "chat" /\ hasProject /\ ~drafting)
canSend == desk = "chat" /\ ready /\ hasProject /\ input # 0 /\ ~drafting

setInput ==
    /\ InputOpen /\ topics < MaxTopics
    /\ input' = topics + 1 /\ topics' = topics + 1
    /\ UNCHANGED <<desk, hasProject, ready, messages, platform, variants, copied, timers,
                   drafting, draft, copies, jobVars>>

handleSend ==
    /\ canSend
    /\ messages' = Append(messages, [role |-> "user", topic |-> input])
    /\ draft' = [topic |-> input, platform |-> None]
    /\ input' = 0 /\ drafting' = TRUE
    /\ UNCHANGED <<desk, hasProject, ready, platform, variants, copied, timers, topics, copies,
                   jobVars>>

\* A bug: the answer is taken for one to what is typed by then.
RepliedToInput ==
    /\ desk = "chat" /\ draft # NoDraft
    /\ messages' = Append(messages, [role |-> "bot", topic |-> input])
    /\ draft' = NoDraft /\ drafting' = FALSE
    /\ UNCHANGED <<desk, hasProject, ready, input, platform, variants, copied, timers, topics,
                   copies, jobVars>>

\* What came back is appended: a caption, that there was none, or that it failed.
Replied ==
    /\ desk = "chat" /\ draft # NoDraft
    /\ messages' = Append(messages, [role |-> "bot", topic |-> draft.topic])
    /\ draft' = NoDraft /\ drafting' = FALSE
    /\ UNCHANGED <<desk, hasProject, ready, input, platform, variants, copied, timers, topics,
                   copies, jobVars>>

\* What the chat shows.
ChatBody ==
    IF ~ready THEN <<"blank">> ELSE IF ~hasProject THEN <<"create a project">>
    ELSE <<"greeting">> \o messages \o (IF drafting THEN <<"dots">> ELSE <<>>)

setPlatform(p) ==
    /\ desk = "content" /\ p # platform
    /\ platform' = p
    /\ UNCHANGED <<desk, hasProject, ready, input, messages, variants, copied, timers,
                   drafting, draft, topics, copies, jobVars>>

\* The output panel.
ContentBody == IF drafting THEN "spinner" ELSE IF variants # NoDraft THEN "variants" ELSE "none"

\* The button of the settings, or of the variants, with the platform selected by now.
handleGenerate ==
    /\ desk = "content" /\ ContentBody # "spinner" /\ input # 0 /\ hasProject
    /\ draft' = [topic |-> input, platform |-> platform]
    /\ drafting' = TRUE /\ variants' = NoDraft
    /\ UNCHANGED <<desk, hasProject, ready, input, messages, platform, copied, timers, topics,
                   copies, jobVars>>

\* The answer, or an error, which leaves none.
Generated ==
    /\ desk = "content" /\ draft # NoDraft
    /\ variants' \in {draft, NoDraft}
    /\ draft' = NoDraft /\ drafting' = FALSE
    /\ UNCHANGED <<desk, hasProject, ready, input, messages, platform, copied, timers, topics,
                   copies, jobVars>>

\* A bug: nothing takes the mark away.
handleCopyForGood(i) ==
    /\ desk = "content" /\ ContentBody = "variants" /\ copies < MaxCopies
    /\ copies' = copies + 1
    /\ copied' = i
    /\ UNCHANGED <<desk, hasProject, ready, input, messages, platform, variants, timers,
                   drafting, draft, topics, jobVars>>

handleCopy(i) ==
    /\ desk = "content" /\ ContentBody = "variants" /\ copies < MaxCopies
    /\ copies' = copies + 1
    /\ copied' = i /\ timers' = timers + 1
    /\ UNCHANGED <<desk, hasProject, ready, input, messages, platform, variants, drafting,
                   draft, topics, jobVars>>

\* The end of a timer takes the mark away, of a later copy too.
CopiedFades ==
    /\ timers > 0
    /\ timers' = timers - 1 /\ copied' = None
    /\ UNCHANGED <<desk, hasProject, ready, input, messages, platform, variants, drafting,
                   draft, topics, copies, jobVars>>

-----------------------------------------------------------------------------
(* The automations.                                                        *)

Gathering == {g \in Slots : gathers[g] # NoGather}
Flipping == {f \in Slots : flips[f] # NoFlip}
Negated(s) == IF s = "on" THEN "off" ELSE "on"

\* The last project, and the API's read of its automations.
GatherSent(g) ==
    /\ gathers[g].at = "projects"
    /\ gathers' = [gathers EXCEPT ![g].at = "sent"] /\ hasProject' = TRUE
    /\ UNCHANGED <<desk, ready, draftVars, jobs, cards, gathering, flips, flipped, making,
                   misread, mingled>>

GetAutomations(g) ==
    /\ gathers[g].at = "sent"
    /\ gathers' = [gathers EXCEPT ![g] = [at |-> "answered", answer |-> jobs]]
    /\ UNCHANGED <<desk, hasProject, ready, draftVars, jobs, cards, gathering, flips, flipped,
                   making, misread, mingled>>

\* There is a card for each automation of the answer, which may be older than a click.  The
\* answer has a `status`, the page reads `completed`: every card is on.
GatherLands(g) ==
    LET answer == gathers[g].answer
    IN  /\ gathers[g].at = "answered"
        /\ cards' = [j \in JobIds |-> IF answer[j] = "absent" THEN "absent" ELSE "on"]
        /\ misread' = {j \in JobIds : answer[j] = "off"}
        /\ gathers' = [gathers EXCEPT ![g] = NoGather] /\ gathering' = FALSE
        /\ mingled' = (Gathering # {g} \/ Flipping # {} \/ answer # jobs)
        /\ UNCHANGED <<desk, hasProject, ready, draftVars, jobs, flips, flipped, making>>

\* A bug: without a project the page loads for ever.
GatherFailsGathering(g) ==
    /\ g \in Gathering
    /\ gathers' = [gathers EXCEPT ![g] = NoGather]
    /\ mingled' = TRUE
    /\ UNCHANGED <<desk, hasProject, ready, draftVars, jobs, cards, gathering, flips, flipped,
                   making, misread>>

\* There is no project, or an error.
GatherFails(g) ==
    /\ g \in Gathering
    /\ gathers' = [gathers EXCEPT ![g] = NoGather] /\ gathering' = FALSE
    /\ mingled' = TRUE
    /\ UNCHANGED <<desk, hasProject, ready, draftVars, jobs, cards, flips, flipped, making,
                   misread>>

toggleAutomation(f, j) ==
    /\ ~gathering /\ cards[j] # "absent" /\ f \notin Flipping /\ flipped < MaxFlips
    /\ flipped' = flipped + 1
    /\ cards' = [cards EXCEPT ![j] = Negated(@)]
    /\ flips' = [flips EXCEPT ![f] = [of |-> j, found |-> None]]
    /\ UNCHANGED <<desk, hasProject, ready, draftVars, jobs, gathering, gathers, making,
                   misread, mingled>>

\* The API finds the automation, and then stores it flipped: of two at once one may be lost.
ToggleFinds(f) ==
    /\ f \in Flipping /\ flips[f].found = None
    /\ flips' = [flips EXCEPT ![f].found = jobs[flips[f].of]]
    /\ UNCHANGED <<desk, hasProject, ready, draftVars, jobs, cards, gathering, gathers, flipped,
                   making, misread, mingled>>

ToggleAutomation(f) ==
    flips[f].found # None /\ jobs' = [jobs EXCEPT ![flips[f].of] = Negated(flips[f].found)]

FlipLands(f) ==
    /\ f \in Flipping /\ ToggleAutomation(f)
    /\ flips' = [flips EXCEPT ![f] = NoFlip]
    /\ mingled' = (mingled \/ \E e \in Flipping \ {f} : flips[e].of = flips[f].of)
    /\ UNCHANGED <<desk, hasProject, ready, draftVars, cards, gathering, gathers, flipped,
                   making, misread>>

\* A bug: nothing is fetched after an error.
FlipFailsShown(f, g) ==
    /\ f \in Flipping /\ g \notin Gathering
    /\ ToggleAutomation(f) \/ UNCHANGED jobs
    /\ flips' = [flips EXCEPT ![f] = NoFlip]
    /\ UNCHANGED <<desk, hasProject, ready, draftVars, cards, gathering, gathers, flipped,
                   making, misread, mingled>>

\* An error, before or after the API flipped it: everything is fetched again.
FlipFails(f, g) ==
    /\ f \in Flipping /\ g \notin Gathering
    /\ ToggleAutomation(f) \/ UNCHANGED jobs
    /\ flips' = [flips EXCEPT ![f] = NoFlip]
    /\ gathers' = [gathers EXCEPT ![g] = [NoGather EXCEPT !.at = "projects"]]
    /\ UNCHANGED <<desk, hasProject, ready, draftVars, cards, gathering, flipped, making,
                   misread, mingled>>

\* A description is entered, and may be again before the first is answered; one is enough here.
handleCreateWorkflow ==
    /\ desk = "automations" /\ ~gathering /\ hasProject /\ ~making
    /\ making' = TRUE
    /\ UNCHANGED <<desk, hasProject, ready, draftVars, jobs, cards, gathering, gathers, flips,
                   flipped, misread, mingled>>

\* The page sends a `title`; the API requires a `name`, stores nothing and answers an error.
CreateAutomation ==
    /\ making /\ making' = FALSE
    /\ UNCHANGED <<desk, hasProject, ready, draftVars, jobs, cards, gathering, gathers, flips,
                   flipped, misread, mingled>>

AutomationsBody ==
    IF gathering THEN "spinner"
    ELSE IF \A j \in JobIds : cards[j] = "absent" THEN "none" ELSE "cards"

AiNext ==
    \/ ChatReady \/ ContentReady \/ setInput \/ handleSend \/ Replied
    \/ \E p \in Formats : setPlatform(p)
    \/ handleGenerate \/ Generated \/ CopiedFades
    \/ \E i \in Variants : handleCopy(i)
    \/ \E g \in Slots :
        \/ GatherSent(g) \/ GetAutomations(g) \/ GatherLands(g) \/ GatherFails(g)
        \/ \E f \in Slots : FlipFails(f, g)
    \/ \E f \in Slots : ToggleFinds(f) \/ FlipLands(f) \/ \E j \in JobIds : toggleAutomation(f, j)
    \/ handleCreateWorkflow \/ CreateAutomation

-----------------------------------------------------------------------------
(* The conversation is a question and its answer, a question and its       *)
(* answer, and a last question only while its answer is awaited.           *)
AnswersFollowQuestions ==
    /\ \A i \in 1 .. Len(messages) : messages[i].role = IF i % 2 = 1 THEN "user" ELSE "bot"
    /\ \A i \in 1 .. Len(messages) : i % 2 = 0 => messages[i].topic = messages[i - 1].topic
    /\ desk = "chat" => (drafting <=> Len(messages) % 2 = 1)

(* "Copied!" does not stay.                                                *)
CopiedGoes == copied # None => timers > 0

(* The automations at rest are shown as the API has them, after a failed   *)
(* toggle too, whether or not the API had taken it, but for those that     *)
(* were off when they were fetched, which are shown the other way round;   *)
(* unless a fetch failed or met something, or two toggles met.             *)
AutomationsAreCurrent ==
    desk = "automations" /\ Gathering \cup Flipping = {} /\ ~mingled =>
        \A j \in JobIds : cards[j] = IF j \in misread THEN Negated(jobs[j]) ELSE jobs[j]

(* Each spinner has a call under way.                                      *)
AiSpinnerHasCause ==
    /\ gathering => Gathering # {}
    /\ drafting => draft # NoDraft
=============================================================================
