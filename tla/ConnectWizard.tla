----------------------------- MODULE ConnectWizard -----------------------------
(***************************************************************************)
(* The two forms that make a project, the onboarding of a new account and  *)
(* "create project", with the popup in which the user grants access to a   *)
(* social network.  Three programs interleave: the form's page, the popup, *)
(* and the callback page the provider sends the popup back to.             *)
(*                                                                         *)
(*   page       which of the two forms this is                             *)
(*   step, onScreen   the step of the wizard, and the step the user can    *)
(*              click in: AnimatePresence keeps the old one until its exit *)
(*              animation ends, with the handlers and the button it had    *)
(*   leftLive   the button of the form that is leaving is enabled          *)
(*   goal, url, channel   the form; url says only whether it is filled in  *)
(*   attempt[i] a run of the submit handler: where it is, the login it     *)
(*              needs, and its loginWindow                                 *)
(*   popup      what the one window named SocialLogin shows                *)
(*   provider   the login the popup was last sent to                       *)
(*   message    OAUTH_SUCCESS, which names no provider, is on its way      *)
(***************************************************************************)
EXTENDS Naturals, FiniteSets

CONSTANTS Channels,      \* the networks on offer
          LoginChannels, \* those a project needs a login for
          LinkedIn,      \* the one of them with a login of its own: the others are Meta's
          None,
          MaxAttempts    \* bound on the submissions

WizardAssumption ==
    /\ LoginChannels \subseteq Channels /\ None \notin Channels
    /\ LinkedIn \in LoginChannels
    /\ MaxAttempts \in Nat \ {0}

VARIABLES
    page, step, onScreen, leftLive, goal, url, channel,
    loading, authWaiting, success, error,
    attempt, popup, provider, message,
    credential,  \* the logins the API holds a token of
    created,     \* the projects the API has made
    lost,        \* history: the answer to a creation, or a popup's callback, was lost
    again,       \* history: submitted while an earlier attempt, or its message, was under way
    stranded     \* history: create's popup was blocked, closed, or could not be written

form == <<page, goal, url, channel>>
screen == <<step, onScreen, leftLive>>
flags == <<loading, authWaiting, success, error>>
login == <<popup, provider, message, credential>>
vars == <<form, screen, flags, attempt, login, created, lost, again, stranded>>

Attempts == 1 .. MaxAttempts
Goals == {"seo", "social", "both"}
Steps == {"goal", "details", "analysing", "done", "left"}

Logins == {"linkedin", "meta"}

Attempt == [at : {"idle", "url", "listening", "creating", "moding", "timer", "over"},
            needs : Logins \cup {None}, win : {"none", "open", "closed"}]
NoAttempt == [at |-> "idle", needs |-> None, win |-> "none"]

UnderWay(i) == attempt[i].at \notin {"idle", "over"}

TypeOK ==
    /\ page \in {"onboarding", "create"}
    /\ step \in Steps /\ onScreen \in Steps /\ leftLive \in BOOLEAN
    /\ goal \in Goals \cup {None} /\ url \in BOOLEAN /\ channel \in Channels \cup {None}
    /\ loading \in BOOLEAN /\ authWaiting \in BOOLEAN /\ success \in BOOLEAN
    /\ error \in BOOLEAN
    /\ attempt \in [Attempts -> Attempt]
    /\ popup \in {"none", "blank", "provider", "callback", "saved", "failed"}
    /\ provider \in Logins \cup {None}
    /\ message \in BOOLEAN /\ credential \subseteq Logins /\ created \in 0 .. MaxAttempts
    /\ lost \in BOOLEAN /\ again \in BOOLEAN /\ stranded \in BOOLEAN

Init ==
    /\ page \in {"onboarding", "create"}
    /\ step = "goal" /\ onScreen = "goal" /\ leftLive = TRUE
    /\ goal = None /\ url = FALSE /\ channel = None
    /\ loading = FALSE /\ authWaiting = FALSE /\ success = FALSE /\ error = FALSE
    /\ attempt = [i \in Attempts |-> NoAttempt]
    /\ popup = "none" /\ provider = None /\ message = FALSE /\ credential = {}
    /\ created = 0 /\ lost = FALSE /\ again = FALSE /\ stranded = FALSE

-----------------------------------------------------------------------------
(* What the two pages show.                                                *)

\* The button of create's form.
Enabled == page = "create" => ~(loading \/ success \/ authWaiting)

\* Fields of the onboarding form: a goal asks for the URL, for a network, or both.
OnboardingForm == [url |-> goal \in {"seo", "both"}, channels |-> goal \in {"social", "both"}]

\* Fields of the create form: the URL is optional for a social project.
CreateForm == [url |-> goal # "social", channels |-> goal # "seo"]

Form == IF page = "onboarding" THEN OnboardingForm ELSE CreateForm

\* The step changes; the one on screen starts to leave.  Leaving the page takes it all away.
GoTo(s) ==
    /\ step' = s
    /\ onScreen' = IF s = "left" THEN "left" ELSE onScreen
    /\ leftLive' = IF onScreen = "details" THEN Enabled ELSE TRUE

\* An exit animation ends.
ExitEnds ==
    /\ onScreen # step
    /\ onScreen' = step
    /\ UNCHANGED <<form, step, leftLive, flags, attempt, login, created, lost, again, stranded>>

\* The cards of the onboarding's first step.
handleGoalSelect(g) ==
    /\ page = "onboarding" /\ onScreen = "goal"
    /\ goal' = g
    /\ GoTo("details")
    /\ UNCHANGED <<page, url, channel, flags, attempt, login, created, lost, again,
                   stranded>>

\* The cards of create's first step.
selectGoal(g) ==
    /\ page = "create" /\ onScreen = "goal" /\ step # "left"
    /\ goal' = g
    /\ GoTo("details")
    /\ UNCHANGED <<page, url, channel, flags, attempt, login, created, lost, again,
                   stranded>>

\* Create's header: from the form back to the goal, from the goal off the page.
Back ==
    /\ page = "create"
    /\ \/ step = "details" /\ GoTo("goal")
       \/ step = "goal" /\ GoTo("left")
    /\ UNCHANGED <<form, flags, attempt, login, created, lost, again, stranded>>

\* A bug: networks add up.
toggleAdds(c) ==
    /\ onScreen = "details" /\ Form.channels
    /\ channel' = IF channel = c THEN None ELSE {channel, c}
    /\ UNCHANGED <<page, goal, url, screen, flags, attempt, login, created, lost, again, stranded>>

\* At most one network is selected.
toggleSocial(c) ==
    /\ onScreen = "details" /\ Form.channels
    /\ channel' = IF channel = c THEN None ELSE c
    /\ UNCHANGED <<page, goal, url, screen, flags, attempt, login, created, lost, again, stranded>>

ChangeUrl ==
    /\ onScreen = "details" /\ (page = "onboarding" => Form.url)
    /\ url' = ~url
    /\ UNCHANGED <<page, goal, channel, screen, flags, attempt, login, created, lost, again,
                   stranded>>

-----------------------------------------------------------------------------
(* Submitting.                                                             *)

needsSocialLogin == goal \in {"social", "both"} /\ channel \in LoginChannels

\* LinkedIn's own, or Meta's.
neededLogin == IF channel = LinkedIn THEN "linkedin" ELSE "meta"

Submittable(i) ==
    /\ onScreen = "details"
    /\ IF step = "details" THEN Enabled ELSE leftLive
    /\ Form.url => url
    /\ attempt[i].at = "idle" /\ \A j \in Attempts : j < i => attempt[j].at # "idle"
    /\ again' = (again \/ message \/ \E j \in Attempts : UnderWay(j))

\* window.open finds the window of that name, or opens one; the browser may block it.
OpenWindow(i) ==
    \/ /\ popup # "provider"
       /\ popup' = IF popup \in {"callback", "saved"} THEN popup ELSE "blank"
       /\ attempt' = [attempt EXCEPT ![i] = [at |-> "url", needs |-> neededLogin, win |-> "open"]]
    \/ /\ popup = "none"
       /\ popup' = "none"
       /\ attempt' = [attempt EXCEPT ![i] = [at |-> "url", needs |-> neededLogin, win |-> "none"]]

\* A window that shows the provider cannot be written to: the handler throws.
WriteThrows(i) ==
    /\ popup = "provider"
    /\ attempt' = [attempt EXCEPT ![i] = [at |-> "over", needs |-> neededLogin, win |-> "open"]]
    /\ UNCHANGED popup

\* executeOnboarding, up to its first await.
executeOnboarding(i) ==
    /\ GoTo("analysing")
    /\ attempt' = [attempt EXCEPT ![i].at = "creating"]

\* Start Analysis.  Its button is never disabled.
handleAnalyze(i) ==
    /\ page = "onboarding" /\ Submittable(i)
    /\ \/ /\ ~needsSocialLogin /\ executeOnboarding(i)
          /\ UNCHANGED popup
       \/ /\ needsSocialLogin /\ (OpenWindow(i) \/ WriteThrows(i))
          /\ UNCHANGED screen
    /\ UNCHANGED <<form, flags, provider, message, credential, created, lost, stranded>>

\* Launch Project.
handleSubmit(i) ==
    /\ page = "create" /\ Submittable(i)
    /\ loading' = TRUE
    /\ \/ /\ ~needsSocialLogin
          /\ attempt' = [attempt EXCEPT ![i].at = "creating"]
          /\ UNCHANGED <<popup, authWaiting, stranded>>
       \/ /\ needsSocialLogin /\ OpenWindow(i)
          /\ authWaiting' = TRUE
          /\ stranded' = (stranded \/ attempt'[i].win = "none")
       \/ /\ needsSocialLogin /\ WriteThrows(i)
          /\ stranded' = TRUE
          /\ UNCHANGED authWaiting
    /\ UNCHANGED <<form, screen, success, error, provider, message, credential, created, lost>>

\* Every loginWindow that refers to the popup finds it closed.
Closed(f) == [i \in Attempts |-> IF f[i].win = "open" THEN [f[i] EXCEPT !.win = "closed"]
                                 ELSE f[i]]

\* A popup that leaves the callback page does not take back the call it made: the API may
\* store the token all the same.
Abandoned ==
    \/ UNCHANGED credential
    \/ popup = "callback" /\ credential' = credential \cup {provider}

\* Create releases its form; the onboarding never held it.
Release ==
    IF page = "create" THEN authWaiting' = FALSE /\ loading' = FALSE
    ELSE UNCHANGED <<authWaiting, loading>>

\* The attempt is over, and closes its popup.
GivenUp(i) ==
    LET over == [attempt EXCEPT ![i].at = "over"]
    IN  /\ IF attempt[i].win = "open"
           THEN popup' = "none" /\ attempt' = Closed(over) /\ Abandoned
           ELSE attempt' = over /\ UNCHANGED <<popup, credential>>
        /\ UNCHANGED provider

\* The provider's URL arrives: the popup goes there, and the opener listens.  Without a
\* popup nothing more happens; without a URL the popup is closed.
AuthUrlLands(i) ==
    /\ attempt[i].at = "url"
    /\ \/ /\ attempt[i].win # "none"
          /\ attempt' = [attempt EXCEPT ![i].at = "listening"]
          /\ IF attempt[i].win = "open"
             THEN popup' = "provider" /\ provider' = attempt[i].needs /\ Abandoned
             ELSE UNCHANGED <<popup, provider, credential>>
          /\ UNCHANGED <<authWaiting, loading>>
       \/ /\ attempt[i].win # "none"
          /\ GivenUp(i) /\ Release
       \/ /\ attempt[i].win = "none"
          /\ attempt' = [attempt EXCEPT ![i].at = "over"]
          /\ UNCHANGED <<popup, provider, credential, authWaiting, loading>>
    /\ UNCHANGED <<form, screen, success, error, message, created, lost, again, stranded>>

\* The URL cannot be had.  Only the onboarding says so.
AuthUrlFails(i) ==
    /\ attempt[i].at = "url"
    /\ GivenUp(i) /\ Release
    /\ error' = (error \/ page = "onboarding")
    /\ UNCHANGED <<form, screen, success, message, created, lost, again, stranded>>

-----------------------------------------------------------------------------
(* The popup.                                                              *)

\* The provider sends the popup to the callback page, with a code or without one.
ProviderReturns ==
    /\ popup = "provider"
    /\ popup' \in {"callback", "failed"}
    /\ UNCHANGED <<form, screen, flags, attempt, provider, message, credential, created, lost, again,
                   stranded>>

\* A bug: the callback page reports a success before the API has the token.
CallbackOptimistic ==
    /\ popup = "callback"
    /\ popup' = "saved"
    /\ UNCHANGED <<form, screen, flags, attempt, provider, message, credential, created, lost, again,
                   stranded>>

\* The API exchanges the code and stores the token of the login the popup shows.
CallbackLands ==
    /\ popup = "callback"
    /\ popup' = "saved" /\ credential' = credential \cup {provider}
    /\ UNCHANGED <<form, screen, flags, attempt, provider, message, created, lost, again, stranded>>

\* The exchange fails, or its answer is lost.  The page says so and stays.
CallbackFails ==
    /\ popup = "callback"
    /\ popup' = "failed"
    /\ Abandoned
    /\ UNCHANGED <<form, screen, flags, attempt, provider, message, created, lost, again, stranded>>

\* Two seconds later the popup tells its opener and closes.
CallbackCloses ==
    /\ popup = "saved"
    /\ popup' = "none" /\ message' = TRUE
    /\ attempt' = Closed(attempt)
    /\ UNCHANGED <<form, screen, flags, provider, credential, created, lost, again, stranded>>

\* The user closes the popup.
ClosePopup ==
    /\ popup # "none"
    /\ popup' = "none"
    /\ attempt' = Closed(attempt) /\ Abandoned
    /\ UNCHANGED <<form, screen, flags, provider, message, created, lost, again, stranded>>

\* OAUTH_SUCCESS arrives: every handler that listens makes its project, whichever login it
\* was of.
MessageLands ==
    /\ message /\ message' = FALSE
    /\ LET heard == {i \in Attempts : attempt[i].at = "listening"}
       IN  /\ attempt' = [i \in Attempts |-> IF i \in heard
                                             THEN [attempt[i] EXCEPT !.at = "creating"]
                                             ELSE attempt[i]]
           /\ IF heard = {} THEN UNCHANGED <<screen, loading, authWaiting>>
              ELSE IF page = "onboarding"
              THEN GoTo("analysing") /\ UNCHANGED <<loading, authWaiting>>
              ELSE /\ loading' = TRUE /\ authWaiting' = FALSE
                   /\ UNCHANGED screen
    /\ UNCHANGED <<form, success, error, popup, provider, credential, created, lost, again,
                   stranded>>

\* checkWindowTimer of the onboarding, every half second: the popup is closed.  The step
\* it looks at is that of the render it was submitted in.
CheckWindow(i) ==
    /\ page = "onboarding" /\ attempt[i].at = "listening" /\ attempt[i].win = "closed"
    /\ attempt' = [attempt EXCEPT ![i].at = "over"]
    /\ error' = TRUE
    /\ UNCHANGED <<form, screen, loading, authWaiting, success, login, created, lost, again,
                   stranded>>

\* That of create.  The authWaiting it looks at is that of the render it was submitted in,
\* which is false: the form is not released.
checkWindowTimer(i) ==
    /\ page = "create" /\ attempt[i].at = "listening" /\ attempt[i].win = "closed"
    /\ attempt' = [attempt EXCEPT ![i].at = "over"]
    /\ stranded' = TRUE
    /\ UNCHANGED <<form, screen, flags, login, created, lost, again>>

-----------------------------------------------------------------------------
(* The project.                                                            *)

\* The API makes the project.  The onboarding stores the mode and sends it along; create
\* tells the sidebar and says so.
Onboarded(i) ==
    /\ page = "onboarding" /\ attempt[i].at = "creating"
    /\ created' = created + 1
    /\ attempt' = [attempt EXCEPT ![i].at = "moding"]
    /\ UNCHANGED <<form, screen, flags, login, lost, again, stranded>>

ProjectCreated(i) ==
    /\ page = "create" /\ attempt[i].at = "creating"
    /\ created' = created + 1
    /\ success' = TRUE
    /\ attempt' = [attempt EXCEPT ![i].at = "timer"]
    /\ UNCHANGED <<form, screen, loading, authWaiting, error, login, lost, again, stranded>>

\* The call fails, before or after the API made the project.
Uncreated(i) ==
    /\ attempt[i].at = "creating"
    /\ attempt' = [attempt EXCEPT ![i].at = "over"]
    /\ \/ UNCHANGED <<created, lost>>
       \/ created' = created + 1 /\ lost' = TRUE

\* A bug: the page goes on showing the analysis.
OnboardingFailsUnseen(i) ==
    /\ page = "onboarding" /\ Uncreated(i)
    /\ error' = TRUE
    /\ UNCHANGED <<form, screen, loading, authWaiting, success, login, again, stranded>>

OnboardingFails(i) ==
    /\ page = "onboarding" /\ Uncreated(i)
    /\ error' = TRUE
    /\ GoTo("details")
    /\ UNCHANGED <<form, loading, authWaiting, success, login, again, stranded>>

CreationFails(i) ==
    /\ page = "create" /\ Uncreated(i)
    /\ loading' = FALSE
    /\ UNCHANGED <<form, screen, authWaiting, success, error, login, again, stranded>>

\* A bug: an error of the mode is taken for one of the creation.
ModeFails(i) ==
    /\ attempt[i].at = "moding"
    /\ attempt' = [attempt EXCEPT ![i].at = "over"]
    /\ error' = TRUE
    /\ GoTo("details")
    /\ UNCHANGED <<form, loading, authWaiting, success, login, created, lost, again, stranded>>

\* The mode is stored, or not: an error of it is logged.
ModeLands(i) ==
    /\ attempt[i].at = "moding"
    /\ attempt' = [attempt EXCEPT ![i].at = "timer"]
    /\ UNCHANGED <<form, screen, flags, login, created, lost, again, stranded>>

\* Six seconds later the review is shown; create goes to the dashboard after 1.5.  An exit
\* animation takes less than half a second and has ended.
TimerFires(i) ==
    /\ attempt[i].at = "timer" /\ onScreen = step
    /\ attempt' = [attempt EXCEPT ![i].at = "over"]
    /\ GoTo(IF page = "onboarding" THEN "done" ELSE "left")
    /\ UNCHANGED <<form, flags, login, created, lost, again, stranded>>

\* The review: Enter Dashboard, or Connect Google when its URL can be had.
LeaveReview ==
    /\ page = "onboarding" /\ onScreen = "done" /\ step = "done"
    /\ GoTo("left")
    /\ UNCHANGED <<form, flags, attempt, login, created, lost, again, stranded>>

-----------------------------------------------------------------------------
FormNext ==
    \/ ExitEnds \/ Back \/ ChangeUrl \/ LeaveReview
    \/ \E g \in Goals : handleGoalSelect(g) \/ selectGoal(g)
    \/ \E c \in Channels : toggleSocial(c)
    \/ \E i \in Attempts : handleAnalyze(i) \/ handleSubmit(i)

PopupNext ==
    \/ ProviderReturns \/ CallbackLands \/ CallbackFails \/ CallbackCloses
    \/ ClosePopup \/ MessageLands

AttemptNext(i) ==
    \/ AuthUrlLands(i) \/ AuthUrlFails(i) \/ CheckWindow(i) \/ checkWindowTimer(i)
    \/ Onboarded(i) \/ ProjectCreated(i) \/ OnboardingFails(i) \/ CreationFails(i)
    \/ ModeLands(i) \/ TimerFires(i)

Next == FormNext \/ PopupNext \/ \E i \in Attempts : AttemptNext(i)

Spec == Init /\ [][Next]_vars

-----------------------------------------------------------------------------
(* One form makes one project, however often the login or the call fails   *)
(* and is tried again, unless the answer of a creation was lost or the     *)
(* user submitted again while an attempt was under way.                    *)
OneProject == ~lost /\ ~again => created <= 1

(* A project that needs a login is made when the API holds a token of it:   *)
(* not when the popup is closed, refused, or fails its callback, and not   *)
(* on the login of the other provider, which an earlier attempt of the     *)
(* form asked for.  OAUTH_SUCCESS does not say whose login it was: when    *)
(* the user submits again under an attempt, or its message, only some      *)
(* login is sure to have been stored.                                      *)
NoProjectWithoutLogin ==
    \A i \in Attempts :
        attempt[i].needs # None /\ attempt[i].at \in {"creating", "moding", "timer"} =>
            IF again THEN credential # {} ELSE attempt[i].needs \in credential

(* The analysis screen, and create's disabled button, have an attempt      *)
(* under way behind them, or a project that was made; excepted is a popup  *)
(* that create lost track of.                                              *)
WaitingHasCause ==
    /\ step = "analysing" => \E i \in Attempts : attempt[i].at \in {"creating", "moding", "timer"}
    /\ loading /\ ~stranded => \E i \in Attempts : UnderWay(i) \/ success
    /\ authWaiting /\ ~stranded => \E i \in Attempts : attempt[i].at \in {"url", "listening"}

(* create/page.tsx says of its window check "Check if user manually closed *)
(* popup" and "If it was still waiting": the check ends the wait of a      *)
(* submission whose popup is closed.  A form that waits for a popup that   *)
(* did open has a handler left that can end the wait.                      *)
ClosedPopupReleases ==
    authWaiting =>
        \E i \in Attempts : \/ attempt[i].at \in {"url", "listening"}
                            \/ attempt[i].at # "idle" /\ attempt[i].win = "none"
=============================================================================
