------------------------------- MODULE PageProofs -------------------------------
(***************************************************************************)
(* Theorems about the pages of Workspace, for any projects, posts, rows    *)
(* and numbers of calls: each page has an inductive invariant of its own,  *)
(* and keeps it while another page is open.                                *)
(***************************************************************************)
EXTENDS Workspace, FiniteSetTheorems, SequenceTheorems, WellFoundedInduction, TLAPS

-----------------------------------------------------------------------------
(* The wizards.                                                            *)

LEMMA WizardBounds == Wizard!WizardAssumption
BY PagesAssumption DEF PagesAssumption

Busy == {"url", "listening", "creating", "moding", "timer"}
Making == {"creating", "moding", "timer"}

\* Some login is stored before a success is reported.
LoginInv ==
    /\ \A i \in Wizard!Attempts :
          /\ attempt[i].at = "idle" => attempt[i].needs = None
          /\ attempt[i].at \in {"url", "listening"} => attempt[i].needs \in Wizard!Logins
          /\ attempt[i].needs # None /\ attempt[i].at \in Making => credential # {}
    /\ popup \in {"provider", "callback", "saved"} => provider \in Wizard!Logins
    /\ popup = "saved" \/ message => credential # {}

\* With one attempt at a time, the popup is that attempt's, and so is its message.
OwnInv ==
    ~again =>
        /\ \A i \in Wizard!Attempts :
              /\ attempt[i].at = "url" => popup \in {"none", "blank"} /\ ~message
              /\ attempt[i].at = "listening" =>
                    /\ popup = "none" \/ provider = attempt[i].needs
                    /\ message => attempt[i].needs \in credential
              /\ attempt[i].needs # None /\ attempt[i].at \in Making =>
                    attempt[i].needs \in credential
        /\ popup # "none" =>
              /\ ~message
              /\ \E i \in Wizard!Attempts :
                    attempt[i].at \in {"url", "listening"} /\ attempt[i].win = "open"
        /\ popup = "saved" => provider \in credential

\* What each of the two forms never does, and what a popup that was blocked leaves behind.
FormInv ==
    /\ page = "onboarding" => ~wizLoading /\ ~authWaiting
    /\ page = "create" =>
          /\ step # "analysing"
          /\ \A i \in Wizard!Attempts :
                /\ attempt[i].at # "moding"
                /\ attempt[i].at = "timer" => success
                /\ attempt[i].at = "url" /\ attempt[i].win = "none" => stranded

\* Every project that was made belongs to an attempt that got beyond making it.
Made == {i \in Wizard!Attempts : attempt[i].at \in {"moding", "timer", "over"}}
CountInv == created <= Cardinality(Made)

\* The page is over: what was made is made, and nothing can be submitted any more.
Finished ==
    /\ \A i \in Wizard!Attempts : attempt[i].at \notin Busy
    /\ step \in {"done", "left"} /\ onScreen \in {"analysing", "done", "left"}
    /\ page = "create" => step = "left" /\ onScreen = "left"

\* With one attempt at a time, the page shows where that one is.
OnceInv ==
    /\ ~again =>
          \A i, j \in Wizard!Attempts : attempt[i].at \in Busy /\ attempt[j].at \in Busy => i = j
    /\ page = "onboarding" =>
          /\ (\E i \in Wizard!Attempts : attempt[i].at # "idle") => step # "goal" /\ onScreen # "goal"
          /\ onScreen # "goal" => step # "goal"
          /\ ~again => \A i \in Wizard!Attempts : attempt[i].at \in Making => step = "analysing"
    /\ ~again /\ ~lost /\ created # 0 =>
          /\ created = 1
          /\ \/ \E i \in Wizard!Attempts : attempt[i].at \in {"moding", "timer"}
             \/ Finished

WizardInv ==
    /\ Wizard!TypeOK /\ LoginInv /\ OwnInv /\ FormInv /\ Wizard!WaitingHasCause
    /\ CountInv /\ OnceInv

\* What the wizard promises.
LEMMA WizardPromises ==
    ASSUME WizardInv
    PROVE  Wizard!NoProjectWithoutLogin /\ Wizard!WaitingHasCause /\ Wizard!OneProject
BY DEF WizardInv, LoginInv, OwnInv, OnceInv, Making, Wizard!NoProjectWithoutLogin, Wizard!OneProject,
       Wizard!TypeOK

\* Attempt j goes on as it was; only its window may have closed.
Goes(j) ==
    /\ attempt'[j].at = attempt[j].at /\ attempt'[j].needs = attempt[j].needs
    /\ attempt'[j].win = "none" <=> attempt[j].win = "none"

\* Attempt i alone moves, to a.
Moves(i, a) ==
    /\ attempt' \in [Wizard!Attempts -> Wizard!Attempt]
    /\ attempt'[i].at = a /\ attempt'[i].needs = attempt[i].needs
    /\ \A j \in Wizard!Attempts : j # i => Goes(j)

LEMMA AttemptTypes ==
    ASSUME Wizard!TypeOK
    PROVE  /\ attempt \in [Wizard!Attempts -> Wizard!Attempt]
           /\ \A i \in Wizard!Attempts :
                 /\ attempt[i] \in Wizard!Attempt
                 /\ attempt[i].at \in {"idle", "over"} \cup Busy /\ attempt[i].needs \in Wizard!Logins \cup {None}
                 /\ attempt[i].win \in {"none", "open", "closed"}
BY DEF Wizard!TypeOK, Wizard!Attempt, Busy

LEMMA MoveAttempt ==
    ASSUME Wizard!TypeOK, NEW i \in Wizard!Attempts, NEW a \in {"idle", "over"} \cup Busy,
           attempt' = [attempt EXCEPT ![i].at = a]
    PROVE  Moves(i, a)
BY AttemptTypes DEF Moves, Goes, Wizard!Attempt, Busy

\* A popup that closes closes for every handler that holds it.
LEMMA ClosedAttempts ==
    ASSUME NEW f \in [Wizard!Attempts -> Wizard!Attempt]
    PROVE  /\ Wizard!Closed(f) \in [Wizard!Attempts -> Wizard!Attempt]
           /\ \A i \in Wizard!Attempts :
                 /\ Wizard!Closed(f)[i].at = f[i].at /\ Wizard!Closed(f)[i].needs = f[i].needs
                 /\ Wizard!Closed(f)[i].win = "none" <=> f[i].win = "none"
<1>1. \A r \in Wizard!Attempt : LET n == [r EXCEPT !.win = "closed"] IN
          n \in Wizard!Attempt /\ n.at = r.at /\ n.needs = r.needs /\ n.win = "closed"
  BY DEF Wizard!Attempt
<1> QED BY <1>1 DEF Wizard!Closed

LEMMA MoveAndClose ==
    ASSUME Wizard!TypeOK, NEW i \in Wizard!Attempts, NEW a \in {"idle", "over"} \cup Busy,
           attempt' = Wizard!Closed([attempt EXCEPT ![i].at = a])
    PROVE  Moves(i, a)
<1> DEFINE f == [attempt EXCEPT ![i].at = a]
<1>1. /\ f \in [Wizard!Attempts -> Wizard!Attempt]
      /\ f[i].at = a /\ f[i].needs = attempt[i].needs
      /\ \A j \in Wizard!Attempts : j # i => f[j] = attempt[j]
  BY AttemptTypes DEF Wizard!Attempt, Busy
<1> HIDE DEF f
<1>2. attempt' = Wizard!Closed(f)
  BY DEF f
<1>3. /\ attempt' \in [Wizard!Attempts -> Wizard!Attempt]
      /\ \A j \in Wizard!Attempts :
            /\ attempt'[j].at = f[j].at /\ attempt'[j].needs = f[j].needs
            /\ attempt'[j].win = "none" <=> f[j].win = "none"
  <2>1. f \in [Wizard!Attempts -> Wizard!Attempt]
    BY <1>1
  <2>2. /\ Wizard!Closed(f) \in [Wizard!Attempts -> Wizard!Attempt]
        /\ \A j \in Wizard!Attempts :
              /\ Wizard!Closed(f)[j].at = f[j].at /\ Wizard!Closed(f)[j].needs = f[j].needs
              /\ Wizard!Closed(f)[j].win = "none" <=> f[j].win = "none"
    BY <2>1, ClosedAttempts, Zenon
  <2> QED BY <1>2, <2>2, Zenon
<1>4. \A j \in Wizard!Attempts : j # i => Goes(j)
  <2> TAKE j \in Wizard!Attempts
  <2>1. j # i => f[j] = attempt[j]
    BY <1>1
  <2> QED BY <1>3, <2>1 DEF Goes
<1> QED BY <1>1, <1>3, <1>4 DEF Moves

\* How the attempts go on in each step of the wizard: all of them as they were, one of them
\* moved, one submitted, or those that listened moved to making their project.
Unmoved ==
    /\ attempt' \in [Wizard!Attempts -> Wizard!Attempt]
    /\ \A j \in Wizard!Attempts : Goes(j)

LEMMA WizardInit ==
    ASSUME Wizard!Init
    PROVE  WizardInv
<1> USE DEF Wizard!Init
<1>1. \A i \in Wizard!Attempts :
         /\ attempt[i] \in Wizard!Attempt
         /\ attempt[i].at = "idle" /\ attempt[i].needs = None /\ attempt[i].win = "none"
  BY DEF Wizard!NoAttempt, Wizard!Attempt
<1>2. Wizard!TypeOK
  <2>1. created \in 0 .. MaxAttempts
    BY WizardBounds DEF Wizard!WizardAssumption
  <2>2. attempt \in [Wizard!Attempts -> Wizard!Attempt]
    BY <1>1
  <2> QED BY <2>1, <2>2 DEF Wizard!TypeOK, Wizard!Steps
<1>3. LoginInv /\ OwnInv /\ FormInv /\ Wizard!WaitingHasCause
  BY <1>1 DEF LoginInv, OwnInv, FormInv, Making, Wizard!WaitingHasCause
<1>4. CountInv
  <2>1. Made = {}
    BY <1>1 DEF Made
  <2> QED BY <2>1, FS_EmptySet DEF CountInv
<1>5. OnceInv
  BY <1>1 DEF OnceInv, Busy, Making
<1> QED BY <1>2, <1>3, <1>4, <1>5 DEF WizardInv

\* What the popup and its message say goes for the next state too.
LoginKept ==
    /\ popup' \in {"provider", "callback", "saved"} => provider' \in Wizard!Logins
    /\ popup' = "saved" \/ message' => credential' # {}

\* A step that leaves the attempts and the project as they were.
LEMMA UnmovedInv ==
    ASSUME WizardInv, Unmoved,
           page' = page, UNCHANGED <<wizLoading, authWaiting, success, created, lost, again,
                   stranded>>,
           step' \in Wizard!Steps, onScreen' \in Wizard!Steps, leftLive' \in BOOLEAN,
           goal' \in Wizard!Goals \cup {None}, url' \in BOOLEAN, channel' \in Channels \cup {None},
           error' \in BOOLEAN, message' \in BOOLEAN,
           popup' \in {"none", "blank", "provider", "callback", "saved", "failed"},
           provider' = provider, credential \subseteq credential',
           credential' \subseteq Wizard!Logins, LoginKept, OwnInv',
           step' = "analysing" => step = "analysing",
           OnceInv'
    PROVE  WizardInv'
<1> USE DEF WizardInv, Unmoved
<1>1. Wizard!TypeOK'
  BY DEF Wizard!TypeOK
<1>2. LoginInv'
  BY DEF LoginInv, LoginKept, Goes
<1>3. FormInv'
  BY DEF FormInv, Goes
<1>4. Wizard!WaitingHasCause'
  BY DEF Wizard!WaitingHasCause, Wizard!UnderWay, Goes
<1>5. CountInv'
  <2>1. Made' = Made
    BY DEF Made, Goes
  <2> QED BY <2>1 DEF CountInv
<1> QED BY <1>1, <1>2, <1>3, <1>4, <1>5

LEMMA ScreenStepInv ==
    ASSUME WizardInv,
           \/ Wizard!ExitEnds \/ Wizard!Back \/ Wizard!LeaveReview
           \/ \E g \in Wizard!Goals : Wizard!handleGoalSelect(g) \/ Wizard!selectGoal(g)
    PROVE  WizardInv'
<1> USE DEF WizardInv, Wizard!ExitEnds, Wizard!Back, Wizard!LeaveReview, Wizard!handleGoalSelect,
            Wizard!selectGoal, Wizard!form, Wizard!screen, Wizard!flags, Wizard!login, Wizard!GoTo
<1>1. /\ UNCHANGED <<page, url, channel, wizLoading, authWaiting, success, error, attempt, popup,
                     provider, message, credential, created, lost, again, stranded>>
      /\ goal' \in Wizard!Goals \cup {None}
      /\ \/ onScreen # step /\ onScreen' = step /\ step' = step /\ leftLive' = leftLive
         \/ page = "create" /\ step = "details" /\ step' = "goal" /\ onScreen' = onScreen
         \/ page = "create" /\ step = "goal" /\ step' = "left" /\ onScreen' = "left"
         \/ page = "onboarding" /\ step = "done" /\ step' = "left" /\ onScreen' = "left"
         \/ page = "onboarding" /\ onScreen = "goal" /\ step' = "details" /\ onScreen' = onScreen
         \/ /\ page = "create" /\ onScreen = "goal" /\ step # "left"
            /\ step' = "details" /\ onScreen' = onScreen
      /\ leftLive' \in {leftLive, Wizard!Enabled, TRUE}
  BY DEF Wizard!TypeOK
<1>2. leftLive' \in BOOLEAN
  BY <1>1 DEF Wizard!TypeOK, Wizard!Enabled
<1>3. OnceInv'
  <2> USE DEF OnceInv, Busy, Making, Finished
  <2>1. CASE onScreen # step /\ onScreen' = step /\ step' = step
    BY <1>1, <2>1 DEF Wizard!TypeOK
  <2>2. CASE page = "create" /\ step = "details" /\ step' = "goal" /\ onScreen' = onScreen
    BY <1>1, <2>2
  <2>3. CASE page = "create" /\ step = "goal" /\ step' = "left" /\ onScreen' = "left"
    BY <1>1, <2>3
  <2>4. CASE page = "onboarding" /\ step = "done" /\ step' = "left" /\ onScreen' = "left"
    BY <1>1, <2>4
  <2>5. CASE page = "onboarding" /\ onScreen = "goal" /\ step' = "details" /\ onScreen' = onScreen
    BY <1>1, <2>5
  <2>6. CASE /\ page = "create" /\ onScreen = "goal" /\ step # "left"
             /\ step' = "details" /\ onScreen' = onScreen
    BY <1>1, <2>6
  <2> QED BY <1>1, <2>1, <2>2, <2>3, <2>4, <2>5, <2>6
<1>4. Unmoved
  BY <1>1, AttemptTypes DEF Unmoved, Goes
<1>5. step' \in Wizard!Steps /\ onScreen' \in Wizard!Steps /\ (step' = "analysing" => step = "analysing")
  BY <1>1 DEF Wizard!TypeOK, Wizard!Steps
<1>6. credential' = credential /\ LoginKept /\ OwnInv'
  BY <1>1 DEF LoginInv, LoginKept, OwnInv
<1> QED BY <1>1, <1>2, <1>3, <1>4, <1>5, <1>6, UnmovedInv DEF Wizard!TypeOK

LEMMA FieldStepInv ==
    ASSUME WizardInv, Wizard!ChangeUrl \/ \E c \in Channels : Wizard!toggleSocial(c)
    PROVE  WizardInv'
<1> USE DEF WizardInv, Wizard!ChangeUrl, Wizard!toggleSocial, Wizard!screen, Wizard!flags,
            Wizard!login
<1>1. /\ UNCHANGED <<page, step, onScreen, leftLive, goal, wizLoading, authWaiting, success, error,
                     attempt, popup, provider, message, credential, created, lost, again,
                     stranded>>
      /\ url' \in BOOLEAN /\ channel' \in Channels \cup {None}
  BY DEF Wizard!TypeOK
<1>2. OnceInv'
  BY <1>1 DEF OnceInv, Finished
<1>3. Unmoved
  BY <1>1, AttemptTypes DEF Unmoved, Goes
<1>4. LoginKept /\ OwnInv'
  BY <1>1 DEF LoginInv, LoginKept, OwnInv
<1> QED BY <1>1, <1>2, <1>3, <1>4, UnmovedInv DEF Wizard!TypeOK

\* The popup on its own: its callback stores the token before it reports a success.
LEMMA PopupStepInv ==
    ASSUME WizardInv,
           \/ Wizard!ProviderReturns \/ Wizard!CallbackLands \/ Wizard!CallbackFails
           \/ Wizard!CallbackCloses \/ Wizard!ClosePopup
    PROVE  WizardInv'
<1> USE DEF WizardInv, Wizard!ProviderReturns, Wizard!CallbackLands, Wizard!CallbackFails,
            Wizard!CallbackCloses, Wizard!ClosePopup, Wizard!form, Wizard!screen, Wizard!flags
<1>1. UNCHANGED <<page, step, onScreen, leftLive, goal, url, channel, wizLoading, authWaiting,
                  success, error, created, lost, again, stranded>>
  OBVIOUS
<1>2. Unmoved
  <2>1. attempt \in [Wizard!Attempts -> Wizard!Attempt]
    BY AttemptTypes
  <2>2. attempt' = attempt \/ attempt' = Wizard!Closed(attempt)
    OBVIOUS
  <2>3. CASE attempt' = attempt
    BY <2>1, <2>3 DEF Unmoved, Goes
  <2>4. CASE attempt' = Wizard!Closed(attempt)
    <3>1. /\ attempt' \in [Wizard!Attempts -> Wizard!Attempt]
          /\ \A j \in Wizard!Attempts :
                /\ attempt'[j].at = attempt[j].at /\ attempt'[j].needs = attempt[j].needs
                /\ attempt'[j].win = "none" <=> attempt[j].win = "none"
      BY <2>1, <2>4, ClosedAttempts, Zenon
    <3> QED BY <3>1 DEF Unmoved, Goes
  <2> QED BY <2>2, <2>3, <2>4
<1>3. /\ message' \in BOOLEAN /\ credential' \subseteq Wizard!Logins
      /\ popup' \in {"none", "blank", "provider", "callback", "saved", "failed"}
      /\ provider' = provider /\ credential \subseteq credential'
      /\ LoginKept
  <2>1. message \in BOOLEAN /\ credential \subseteq Wizard!Logins
    BY DEF Wizard!TypeOK
  <2>2. message' \in BOOLEAN /\ provider' = provider
    BY <2>1
  <2>3. /\ popup' \in {"none", "blank", "provider", "callback", "saved", "failed"}
        /\ popup' \in {"provider", "callback", "saved"} =>
              popup \in {"provider", "callback", "saved"}
    BY DEF Wizard!TypeOK
  <2>4. \/ credential' = credential
        \/ popup = "callback" /\ credential' = credential \cup {provider}
    BY DEF Wizard!Abandoned
  <2>5. credential' \subseteq Wizard!Logins /\ credential \subseteq credential'
    BY <2>1, <2>4 DEF LoginInv
  <2>6. popup' = "saved" \/ message' => credential' # {}
    BY <2>5 DEF LoginInv
  <2> QED BY <2>2, <2>3, <2>5, <2>6 DEF LoginInv, LoginKept
<1>4. OnceInv'
  BY <1>1, <1>2 DEF OnceInv, Finished, Unmoved, Goes
<1>5. /\ step' \in Wizard!Steps /\ onScreen' \in Wizard!Steps /\ leftLive' \in BOOLEAN
      /\ goal' \in Wizard!Goals \cup {None} /\ url' \in BOOLEAN
      /\ channel' \in Channels \cup {None} /\ error' \in BOOLEAN
  BY <1>1 DEF Wizard!TypeOK
<1>6. OwnInv'
  <2> SUFFICES ASSUME ~again
               PROVE  OwnInv'
    BY <1>1 DEF OwnInv
  <2>1. CASE Wizard!ProviderReturns \/ Wizard!CallbackLands \/ Wizard!CallbackFails
    <3>1. /\ attempt' = attempt /\ message' = message /\ provider' = provider
          /\ popup \in {"provider", "callback"} /\ popup' \in {"callback", "failed", "saved"}
          /\ popup' = "saved" => provider \in credential'
      BY <2>1
    <3> HIDE DEF Wizard!ProviderReturns, Wizard!CallbackLands, Wizard!CallbackFails,
                 Wizard!CallbackCloses, Wizard!ClosePopup
    <3> QED BY <1>1, <1>3, <3>1 DEF OwnInv, Making
  <2>2. CASE Wizard!CallbackCloses \/ Wizard!ClosePopup
    <3>1. /\ popup' = "none" /\ provider' = provider
          /\ \/ message' = message
             \/ popup = "saved"
      BY <2>2
    <3> HIDE DEF Wizard!ProviderReturns, Wizard!CallbackLands, Wizard!CallbackFails,
                 Wizard!CallbackCloses, Wizard!ClosePopup
    <3> QED BY <1>1, <1>2, <1>3, <3>1 DEF OwnInv, Making, Unmoved, Goes
  <2> QED BY <2>1, <2>2
<1> QED
  <2> HIDE DEF Wizard!ProviderReturns, Wizard!CallbackLands, Wizard!CallbackFails,
               Wizard!CallbackCloses, Wizard!ClosePopup
  <2> QED BY <1>1, <1>2, <1>3, <1>4, <1>5, <1>6, UnmovedInv

\* An attempt that gets beyond making its project is one more that may have made it.
LEMMA MadeCounts ==
    ASSUME \A j \in Wizard!Attempts : j \in Made => j \in Made'
    PROVE  /\ Cardinality(Made) \in Nat /\ Cardinality(Made') \in Nat
           /\ Cardinality(Made) <= Cardinality(Made')
           /\ Cardinality(Made') <= MaxAttempts
           /\ \A i \in Made' \ Made : Cardinality(Made) + 1 <= Cardinality(Made')
<1>1. MaxAttempts \in Nat /\ Wizard!Attempts = 1 .. MaxAttempts
  BY WizardBounds DEF Wizard!WizardAssumption, Wizard!Attempts
<1>2. IsFiniteSet(Wizard!Attempts) /\ Cardinality(Wizard!Attempts) = MaxAttempts
  BY <1>1, FS_Interval
<1>3. Made \subseteq Made' /\ Made \subseteq Wizard!Attempts /\ Made' \subseteq Wizard!Attempts
  BY DEF Made
<1>4. /\ IsFiniteSet(Made) /\ IsFiniteSet(Made')
      /\ Cardinality(Made) <= Cardinality(Made') /\ Cardinality(Made') <= MaxAttempts
      /\ Cardinality(Made) = Cardinality(Made') => Made = Made'
  BY <1>2, <1>3, FS_Subset
<1>5. Cardinality(Made) \in Nat /\ Cardinality(Made') \in Nat
  BY <1>4, FS_CardinalityType
<1>6. ASSUME NEW i \in Made' \ Made
      PROVE  Cardinality(Made) + 1 <= Cardinality(Made')
  <2>1. Made # Made'
    BY <1>6
  <2> QED BY <1>4, <1>5, <2>1
<1> QED BY <1>4, <1>5, <1>6

\* The attempt that moved is made where it was, or is made now.
LEMMA MovesCount ==
    ASSUME WizardInv, NEW i \in Wizard!Attempts, NEW a, Moves(i, a),
           a \in {"moding", "timer", "over"} \/ attempt[i].at \notin {"moding", "timer", "over"},
           \/ created' = created
           \/ /\ created' = created + 1
              /\ a \in {"moding", "timer", "over"}
              /\ attempt[i].at \notin {"moding", "timer", "over"}
    PROVE  created' \in 0 .. MaxAttempts /\ CountInv'
<1>1. \A j \in Wizard!Attempts : j \in Made => j \in Made'
  BY DEF Moves, Goes, Made
<1>2. created \in Nat /\ created <= Cardinality(Made) /\ MaxAttempts \in Nat
  BY WizardBounds DEF WizardInv, CountInv, Wizard!TypeOK, Wizard!WizardAssumption
<1>3. CASE created' = created
  BY <1>1, <1>2, <1>3, MadeCounts DEF CountInv
<1>4. CASE /\ created' = created + 1
           /\ a \in {"moding", "timer", "over"}
           /\ attempt[i].at \notin {"moding", "timer", "over"}
  <2>1. i \in Made' \ Made
    BY <1>4 DEF Moves, Made
  <2>2. created' <= Cardinality(Made') /\ Cardinality(Made') <= MaxAttempts
        /\ Cardinality(Made') \in Nat
    BY <1>1, <1>2, <1>4, <2>1, MadeCounts
  <2>3. created' \in Nat
    BY <1>2, <1>4
  <2> QED BY <1>2, <2>2, <2>3 DEF CountInv
<1> QED BY <1>3, <1>4

\* The provider's URL arrives, or cannot be had.
LEMMA AuthUrlInv ==
    ASSUME WizardInv, NEW i \in Wizard!Attempts,
           Wizard!AuthUrlLands(i) \/ Wizard!AuthUrlFails(i)
    PROVE  WizardInv'
<1> USE DEF Wizard!AuthUrlLands, Wizard!AuthUrlFails, Wizard!form, Wizard!screen, Wizard!Release,
            Wizard!GivenUp
<1>0. Wizard!TypeOK
  BY DEF WizardInv
<1>1. /\ UNCHANGED <<page, step, onScreen, leftLive, goal, url, channel, success, message,
                     created, lost, again, stranded>>
      /\ attempt[i].at = "url"
      /\ error' \in {error, TRUE}
  BY <1>0 DEF Wizard!TypeOK
<1>10. /\ \/ credential' = credential
          \/ popup = "callback" /\ credential' = credential \cup {provider}
       /\ \/ /\ popup' = "provider" /\ provider' = attempt[i].needs
             /\ attempt' = [attempt EXCEPT ![i].at = "listening"] /\ attempt[i].win = "open"
          \/ popup' = "none" /\ provider' = provider
          \/ popup' = popup /\ provider' = provider /\ attempt[i].win # "open"
  BY DEF Wizard!Abandoned
<1>2. \/ Moves(i, "listening") /\ UNCHANGED <<authWaiting, wizLoading>>
      \/ Moves(i, "over") /\ page = "create" /\ wizLoading' = FALSE /\ authWaiting' = FALSE
      \/ Moves(i, "over") /\ page # "create" /\ UNCHANGED <<authWaiting, wizLoading>>
      \/ Moves(i, "over") /\ attempt[i].win = "none" /\ UNCHANGED <<authWaiting, wizLoading>>
  <2>1. \A a \in {"listening", "over"} :
           \/ attempt' = [attempt EXCEPT ![i].at = a]
           \/ attempt' = Wizard!Closed([attempt EXCEPT ![i].at = a])
           => Moves(i, a)
    BY <1>0, MoveAttempt, MoveAndClose DEF Busy
  <2> QED BY <2>1
<1>3. PICK a \in {"listening", "over"} : Moves(i, a)
  BY <1>2
<1> HIDE DEF Wizard!AuthUrlLands, Wizard!AuthUrlFails, Wizard!Release, Wizard!GivenUp
<1> USE DEF WizardInv, Moves, Goes
<1>4. created' \in 0 .. MaxAttempts /\ CountInv'
  BY <1>1, <1>3, MovesCount
<1>5. Wizard!TypeOK'
  <2>1. wizLoading' \in BOOLEAN /\ authWaiting' \in BOOLEAN
    BY <1>2 DEF Wizard!TypeOK
  <2>2. popup' \in {"none", "blank", "provider", "callback", "saved", "failed"}
    BY <1>10 DEF Wizard!TypeOK
  <2>3. error' \in BOOLEAN
    BY <1>1 DEF Wizard!TypeOK
  <2>4. provider' \in Wizard!Logins \cup {None} /\ credential' \subseteq Wizard!Logins
    BY <1>1, <1>10 DEF Wizard!TypeOK, LoginInv
  <2> QED BY <1>1, <1>3, <1>4, <2>1, <2>2, <2>3, <2>4 DEF Wizard!TypeOK
<1>6. LoginInv'
  <2>1. credential \subseteq credential'
    BY <1>10
  <2>2. popup' \in {"provider", "callback", "saved"} => provider' \in Wizard!Logins
    BY <1>1, <1>10 DEF LoginInv
  <2> QED BY <1>1, <1>3, <1>10, <2>1, <2>2 DEF LoginInv, Making
<1>11. OwnInv'
  <2> SUFFICES ASSUME ~again
               PROVE  OwnInv'
    BY <1>1 DEF OwnInv
  <2>1. \A j \in Wizard!Attempts : j # i => attempt[j].at \notin Busy /\ attempt'[j].at \notin Busy
    BY <1>1, <1>3 DEF OnceInv, Busy
  <2>2. ~message' /\ popup \in {"none", "blank"} /\ credential' = credential
    BY <1>1, <1>10 DEF OwnInv
  <2>3. CASE /\ popup' = "provider" /\ provider' = attempt[i].needs
             /\ attempt' = [attempt EXCEPT ![i].at = "listening"] /\ attempt[i].win = "open"
    <3>1. /\ attempt'[i].at = "listening" /\ attempt'[i].needs = attempt[i].needs
          /\ attempt'[i].win = "open"
      BY <1>0, <2>3, AttemptTypes DEF Wizard!Attempt
    <3> QED BY <2>1, <2>2, <2>3, <3>1 DEF OwnInv, Busy, Making
  <2>4. CASE popup' = "none"
    BY <1>3, <2>1, <2>2, <2>4 DEF OwnInv, Busy, Making
  <2>5. CASE popup' = popup /\ attempt[i].win # "open"
    <3>1. popup = "none"
      BY <2>1, <2>5 DEF OwnInv, Busy
    <3> QED BY <2>4, <2>5, <3>1
  <2> QED BY <1>10, <2>3, <2>4, <2>5
<1>7. FormInv'
  BY <1>1, <1>2, <1>3 DEF FormInv
<1>8. Wizard!WaitingHasCause'
  <2> USE DEF Wizard!WaitingHasCause, Wizard!UnderWay, FormInv
  <2>1. CASE Moves(i, "listening") /\ UNCHANGED <<authWaiting, wizLoading>>
    <3>1. step' = "analysing" =>
             \E j \in Wizard!Attempts : attempt'[j].at \in {"creating", "moding", "timer"}
      BY <1>1, <2>1
    <3>2. attempt'[i].at = "listening"
      BY <2>1
    <3> QED BY <1>1, <3>1, <3>2
  <2>2. CASE Moves(i, "over")
    <3>1. step' = "analysing" =>
             \E j \in Wizard!Attempts : attempt'[j].at \in {"creating", "moding", "timer"}
      BY <1>1, <2>2
    <3>2. /\ wizLoading' => stranded' /\ wizLoading
          /\ authWaiting' => stranded' /\ authWaiting
      BY <1>1, <1>2, <2>2 DEF Wizard!TypeOK
    <3> QED BY <3>1, <3>2
  <2> QED BY <1>2, <2>1, <2>2
<1>9. OnceInv'
  BY <1>1, <1>2, <1>3 DEF OnceInv, Busy, Making, Finished
<1> QED BY <1>4, <1>5, <1>6, <1>7, <1>8, <1>9, <1>11

\* A step that moves one attempt that was submitted before.
LEMMA MovedInv ==
    ASSUME WizardInv, NEW i \in Wizard!Attempts, NEW a \in {"over"} \cup Busy, Moves(i, a),
           attempt[i].at \in Busy,
           UNCHANGED <<page, goal, url, channel, popup, provider, message, credential, again>>,
           a \notin {"url", "listening"}, ~again => popup = "none",
           step' \in Wizard!Steps, onScreen' \in Wizard!Steps, leftLive' \in BOOLEAN,
           wizLoading' \in BOOLEAN, authWaiting' \in BOOLEAN, success' \in BOOLEAN,
           error' \in BOOLEAN, lost' \in BOOLEAN, stranded' \in BOOLEAN,
           created' \in 0 .. MaxAttempts, CountInv',
           a \in Making => attempt[i].at \in Making,
           FormInv', Wizard!WaitingHasCause', OnceInv'
    PROVE  WizardInv'
<1>1. Wizard!TypeOK'
  BY DEF WizardInv, Wizard!TypeOK, Moves
<1>2. LoginInv'
  BY DEF WizardInv, LoginInv, Making, Busy, Moves, Goes
<1>3. OwnInv'
  BY DEF WizardInv, OwnInv, Making, Busy, Moves, Goes
<1> QED BY <1>1, <1>2, <1>3 DEF WizardInv

\* When no attempt has the popup, it is closed.
LEMMA PopupGone ==
    ASSUME WizardInv, ~again, NEW i \in Wizard!Attempts, attempt[i].at \in Busy,
           attempt[i].at \in {"url", "listening"} => attempt[i].win # "open"
    PROVE  popup = "none"
BY DEF WizardInv, OwnInv, OnceInv, Busy

LEMMA TimersInv ==
    ASSUME WizardInv, NEW i \in Wizard!Attempts,
           Wizard!CheckWindow(i) \/ Wizard!checkWindowTimer(i)
    PROVE  WizardInv'
<1> USE DEF Wizard!CheckWindow, Wizard!checkWindowTimer, Wizard!form, Wizard!screen,
            Wizard!flags, Wizard!login
<1>1. /\ UNCHANGED <<page, step, onScreen, leftLive, goal, url, channel, wizLoading, authWaiting,
                     success, popup, provider, message, credential, created, lost, again>>
      /\ attempt[i].at = "listening" /\ attempt[i].win # "open"
      /\ error' \in {error, TRUE} /\ stranded' \in {stranded, TRUE}
      /\ page = "create" => stranded' = TRUE
  BY DEF WizardInv, Wizard!TypeOK
<1>2. Moves(i, "over")
  BY MoveAttempt DEF WizardInv
<1> HIDE DEF Wizard!CheckWindow, Wizard!checkWindowTimer
<1>3. created' \in 0 .. MaxAttempts /\ CountInv'
  BY <1>1, <1>2, MovesCount
<1>4. FormInv'
  BY <1>1, <1>2 DEF WizardInv, FormInv, Moves, Goes
<1>5. Wizard!WaitingHasCause'
  BY <1>1, <1>2
     DEF WizardInv, Wizard!WaitingHasCause, Wizard!UnderWay, FormInv, Moves, Goes, Wizard!TypeOK
<1>6. OnceInv'
  BY <1>1, <1>2 DEF WizardInv, OnceInv, Busy, Making, Finished, Moves, Goes
<1>7. error' \in BOOLEAN /\ stranded' \in BOOLEAN
  BY <1>1 DEF WizardInv, Wizard!TypeOK
<1>8. /\ step' \in Wizard!Steps /\ onScreen' \in Wizard!Steps /\ leftLive' \in BOOLEAN
      /\ wizLoading' \in BOOLEAN /\ authWaiting' \in BOOLEAN /\ success' \in BOOLEAN
      /\ lost' \in BOOLEAN
  BY <1>1 DEF WizardInv, Wizard!TypeOK
<1>20. ~again => popup = "none"
  BY <1>1, PopupGone DEF Busy
<1> QED BY <1>1, <1>2, <1>3, <1>4, <1>5, <1>6, <1>7, <1>8, <1>20,
          MovedInv
   DEF Busy, Making

\* The API makes the project.
LEMMA CreatedInv ==
    ASSUME WizardInv, NEW i \in Wizard!Attempts,
           Wizard!Onboarded(i) \/ Wizard!ProjectCreated(i)
    PROVE  WizardInv'
<1> USE DEF Wizard!Onboarded, Wizard!ProjectCreated, Wizard!form, Wizard!screen,
            Wizard!flags, Wizard!login
<1>1. /\ UNCHANGED <<page, step, onScreen, leftLive, goal, url, channel, wizLoading, authWaiting,
                     error, popup, provider, message, credential, lost, again, stranded>>
      /\ attempt[i].at = "creating" /\ created' = created + 1
      /\ success' \in BOOLEAN
  BY DEF WizardInv, Wizard!TypeOK
<1>2. \/ page = "onboarding" /\ Moves(i, "moding") /\ success' = success
      \/ page = "create" /\ Moves(i, "timer") /\ success' = TRUE
  BY MoveAttempt DEF WizardInv, Busy
<1>3. PICK a \in {"moding", "timer"} : Moves(i, a)
  BY <1>2
<1> HIDE DEF Wizard!Onboarded, Wizard!ProjectCreated
<1>4. created' \in 0 .. MaxAttempts /\ CountInv'
  BY <1>1, <1>3, MovesCount
<1>5. FormInv'
  BY <1>1, <1>2 DEF WizardInv, FormInv, Moves, Goes
<1>6. Wizard!WaitingHasCause'
  BY <1>1, <1>2 DEF WizardInv, Wizard!WaitingHasCause, Wizard!UnderWay, Moves, Goes
<1>7. OnceInv'
  <2>1. ~again /\ ~lost => created = 0
    BY <1>1 DEF WizardInv, OnceInv, Busy, Finished
  <2>2. ~again /\ ~lost => created' = 1
    BY <1>1, <2>1
  <2> QED BY <1>1, <1>3, <2>2 DEF WizardInv, OnceInv, Busy, Making, Finished, Moves, Goes
<1>8. /\ step' \in Wizard!Steps /\ onScreen' \in Wizard!Steps /\ leftLive' \in BOOLEAN
      /\ wizLoading' \in BOOLEAN /\ authWaiting' \in BOOLEAN /\ error' \in BOOLEAN
      /\ lost' \in BOOLEAN /\ stranded' \in BOOLEAN
  BY <1>1 DEF WizardInv, Wizard!TypeOK
<1>20. ~again => popup = "none"
  BY <1>1, PopupGone DEF Busy
<1> QED BY <1>1, <1>3, <1>4, <1>5, <1>6, <1>7, <1>8, <1>20,
          MovedInv
   DEF Busy, Making

\* The creation fails, whether or not the project was made.
LEMMA UncreatedInv ==
    ASSUME WizardInv, NEW i \in Wizard!Attempts,
           Wizard!OnboardingFails(i) \/ Wizard!CreationFails(i)
    PROVE  WizardInv'
<1> USE DEF Wizard!OnboardingFails, Wizard!CreationFails, Wizard!Uncreated, Wizard!form,
            Wizard!screen, Wizard!flags, Wizard!login, Wizard!GoTo
<1>1. /\ UNCHANGED <<page, goal, url, channel, authWaiting, success, popup, provider, message,
                     credential, again, stranded>>
      /\ attempt[i].at = "creating"
      /\ \/ created' = created /\ lost' = lost
         \/ created' = created + 1 /\ lost' = TRUE
      /\ error' \in {error, TRUE}
      /\ leftLive' \in {leftLive, Wizard!Enabled, TRUE}
      /\ \/ /\ page = "onboarding" /\ step' = "details" /\ onScreen' = onScreen
            /\ wizLoading' = wizLoading
         \/ page = "create" /\ wizLoading' = FALSE /\ UNCHANGED <<step, onScreen>>
  <2>1. CASE Wizard!OnboardingFails(i)
    BY <2>1
  <2>2. CASE Wizard!CreationFails(i)
    BY <2>2
  <2> QED BY <2>1, <2>2
<1>2. Moves(i, "over")
  BY MoveAttempt DEF WizardInv
<1> HIDE DEF Wizard!OnboardingFails, Wizard!CreationFails, Wizard!Uncreated
<1>3. created' \in 0 .. MaxAttempts /\ CountInv'
  BY <1>1, <1>2, MovesCount
<1>4. FormInv'
  BY <1>1, <1>2 DEF WizardInv, FormInv, Moves, Goes
<1>5. Wizard!WaitingHasCause'
  BY <1>1, <1>2
     DEF WizardInv, Wizard!WaitingHasCause, Wizard!UnderWay, FormInv, Moves, Goes
<1>6. OnceInv'
  <2>1. ~again /\ ~lost => created = 0
    BY <1>1 DEF WizardInv, OnceInv, Busy, Finished
  <2> QED BY <1>1, <1>2, <2>1 DEF WizardInv, OnceInv, Busy, Making, Finished, Moves, Goes
<1>7. /\ step' \in Wizard!Steps /\ onScreen' \in Wizard!Steps
      /\ wizLoading' \in BOOLEAN /\ authWaiting' \in BOOLEAN /\ success' \in BOOLEAN
      /\ error' \in BOOLEAN /\ stranded' \in BOOLEAN /\ lost' \in BOOLEAN
  BY <1>1 DEF WizardInv, Wizard!TypeOK, Wizard!Steps
<1>8. leftLive' \in BOOLEAN
  BY <1>1 DEF WizardInv, Wizard!TypeOK, Wizard!Enabled
<1>20. ~again => popup = "none"
  BY <1>1, PopupGone DEF Busy
<1> QED BY <1>1, <1>2, <1>3, <1>4, <1>5, <1>6, <1>7, <1>8, <1>20,
          MovedInv
   DEF Busy, Making

\* The mode is stored, and the timer after it fires.
LEMMA FinishInv ==
    ASSUME WizardInv, NEW i \in Wizard!Attempts,
           Wizard!ModeLands(i) \/ Wizard!TimerFires(i)
    PROVE  WizardInv'
<1> USE DEF Wizard!ModeLands, Wizard!TimerFires, Wizard!form, Wizard!screen, Wizard!flags,
            Wizard!login, Wizard!GoTo
<1>1. /\ UNCHANGED <<page, goal, url, channel, wizLoading, authWaiting, success, error, popup,
                     provider, message, credential, created, lost, again, stranded>>
      /\ leftLive' \in {leftLive, Wizard!Enabled, TRUE}
  BY DEF WizardInv, Wizard!TypeOK
<1>2. \/ /\ attempt[i].at = "moding" /\ Moves(i, "timer") /\ UNCHANGED <<step, onScreen>>
      \/ /\ attempt[i].at = "timer" /\ Moves(i, "over") /\ onScreen = step
         /\ \/ page = "onboarding" /\ step' = "done" /\ onScreen' = onScreen
            \/ page = "create" /\ step' = "left" /\ onScreen' = "left"
  BY MoveAttempt DEF WizardInv, Wizard!TypeOK, Busy
<1>3. PICK a \in {"timer", "over"} : Moves(i, a) /\ attempt[i].at \in {"moding", "timer"}
  BY <1>2
<1> HIDE DEF Wizard!ModeLands, Wizard!TimerFires, Wizard!GoTo
<1>4. created' \in 0 .. MaxAttempts /\ CountInv'
  BY <1>1, <1>3, MovesCount
<1>5. FormInv'
  BY <1>1, <1>2 DEF WizardInv, FormInv, Moves, Goes
<1>6. Wizard!WaitingHasCause'
  BY <1>1, <1>2 DEF WizardInv, Wizard!WaitingHasCause, Wizard!UnderWay, FormInv, Moves, Goes
<1>7. OnceInv'
  <2>1. CASE attempt[i].at = "moding" /\ Moves(i, "timer") /\ UNCHANGED <<step, onScreen>>
    BY <1>1, <2>1 DEF WizardInv, OnceInv, Busy, Making, Finished, Moves, Goes
  <2>2. CASE attempt[i].at = "timer" /\ Moves(i, "over")
    BY <1>1, <1>2, <2>2 DEF WizardInv, OnceInv, Busy, Making, Finished, Moves, Goes
  <2> QED BY <1>2, <2>1, <2>2
<1>8. step' \in Wizard!Steps /\ onScreen' \in Wizard!Steps
  BY <1>1, <1>2 DEF WizardInv, Wizard!TypeOK, Wizard!Steps
<1>9. leftLive' \in BOOLEAN
  BY <1>1 DEF WizardInv, Wizard!TypeOK, Wizard!Enabled
<1>10. /\ wizLoading' \in BOOLEAN /\ authWaiting' \in BOOLEAN /\ success' \in BOOLEAN
       /\ error' \in BOOLEAN /\ stranded' \in BOOLEAN /\ lost' \in BOOLEAN
  BY <1>1 DEF WizardInv, Wizard!TypeOK
<1>20. ~again => popup = "none"
  BY <1>1, <1>3, PopupGone DEF Busy
<1> QED BY <1>1, <1>3, <1>4, <1>5, <1>6, <1>7, <1>8, <1>9, <1>10, <1>20,
          MovedInv
   DEF Busy, Making

\* Attempt i is submitted, and gets to a.
Submits(i, a, n) ==
    /\ attempt' \in [Wizard!Attempts -> Wizard!Attempt]
    /\ attempt'[i].at = a /\ attempt'[i].needs = n
    /\ \A j \in Wizard!Attempts : j # i => Goes(j)

LEMMA WindowSubmits ==
    ASSUME WizardInv, NEW i \in Wizard!Attempts, Wizard!OpenWindow(i) \/ Wizard!WriteThrows(i)
    PROVE  /\ popup' \in {"none", "blank", "provider", "callback", "saved", "failed"}
           /\ popup' \in {popup, "none", "blank"}
           /\ Wizard!OpenWindow(i) => Submits(i, "url", Wizard!neededLogin)
           /\ Wizard!WriteThrows(i) => Submits(i, "over", Wizard!neededLogin)
<1>1. /\ popup' \in {"none", "blank", "provider", "callback", "saved", "failed"}
      /\ popup' \in {popup, "none", "blank"}
  BY DEF WizardInv, Wizard!TypeOK, Wizard!OpenWindow, Wizard!WriteThrows
<1>2. \A a \in {"url", "over"}, w \in {"open", "none"} :
         attempt' = [attempt EXCEPT ![i] = [at |-> a, needs |-> Wizard!neededLogin,
                                         win |-> w]]
         => Submits(i, a, Wizard!neededLogin)
  BY AttemptTypes
     DEF WizardInv, Submits, Goes, Wizard!Attempt, Wizard!neededLogin, Wizard!Logins
<1>3. Wizard!OpenWindow(i) => Submits(i, "url", Wizard!neededLogin)
  BY <1>2 DEF Wizard!OpenWindow
<1>4. Wizard!WriteThrows(i) => Submits(i, "over", Wizard!neededLogin)
  BY <1>2 DEF Wizard!WriteThrows
<1> QED BY <1>1, <1>3, <1>4

\* When there is no window yet, it is opened blank, or blocked.
LEMMA WindowOpens ==
    ASSUME WizardInv, NEW i \in Wizard!Attempts, popup = "none",
           Wizard!OpenWindow(i) \/ Wizard!WriteThrows(i)
    PROVE  \/ popup' = "none"
           \/ popup' = "blank" /\ attempt'[i].at = "url" /\ attempt'[i].win = "open"
BY AttemptTypes DEF WizardInv, Wizard!OpenWindow, Wizard!WriteThrows

LEMMA SubmitWizardInv ==
    ASSUME WizardInv, NEW i \in Wizard!Attempts,
           Wizard!handleAnalyze(i) \/ Wizard!handleSubmit(i)
    PROVE  WizardInv'
<1>1. /\ UNCHANGED <<page, goal, url, channel, onScreen, success, error, provider, message,
                     credential, created, lost>>
      /\ onScreen = "details" /\ attempt[i].at = "idle"
      /\ leftLive' \in {leftLive, Wizard!Enabled, TRUE}
      /\ again' = (again \/ message \/ \E j \in Wizard!Attempts : Wizard!UnderWay(j))
  BY DEF Wizard!handleAnalyze, Wizard!handleSubmit, Wizard!Submittable, Wizard!executeOnboarding,
         Wizard!GoTo, Wizard!form, Wizard!screen, Wizard!flags
<1>2. /\ popup' \in {"none", "blank", "provider", "callback", "saved", "failed"}
      /\ popup' \in {popup, "none", "blank"}
  BY WindowSubmits
     DEF Wizard!handleAnalyze, Wizard!handleSubmit, WizardInv, Wizard!TypeOK
<1>3. attempt' = [attempt EXCEPT ![i].at = "creating"] => Submits(i, "creating", None)
  <2>1. attempt' = [attempt EXCEPT ![i].at = "creating"] => Moves(i, "creating")
    BY MoveAttempt DEF WizardInv, Busy
  <2>2. attempt[i].needs = None
    BY <1>1, AttemptTypes DEF WizardInv, LoginInv
  <2> QED BY <2>1, <2>2 DEF Moves, Submits

\* The two forms: what they do with their screen, their button and the window.
<1> DEFINE Analyzes ==
              /\ page = "onboarding" /\ UNCHANGED <<wizLoading, authWaiting, stranded>>
              /\ \/ Submits(i, "creating", None) /\ step' = "analysing"
                 \/ Submits(i, "url", Wizard!neededLogin) /\ step' = step
                 \/ Submits(i, "over", Wizard!neededLogin) /\ step' = step
           Launches ==
              /\ page = "create" /\ wizLoading' = TRUE /\ step' = step
              /\ \/ Submits(i, "creating", None) /\ UNCHANGED <<authWaiting, stranded>>
                 \/ /\ Submits(i, "url", Wizard!neededLogin) /\ authWaiting' = TRUE
                    /\ stranded' = (stranded \/ attempt'[i].win = "none")
                 \/ Submits(i, "over", Wizard!neededLogin) /\ authWaiting' = authWaiting /\ stranded' = TRUE
<1>4. Analyzes \/ Launches
  <2>1. CASE Wizard!handleAnalyze(i)
    BY <1>3, <2>1, WindowSubmits
       DEF Wizard!handleAnalyze, Wizard!executeOnboarding, Wizard!GoTo, Wizard!flags, Wizard!screen
  <2>2. CASE Wizard!handleSubmit(i)
    BY <1>3, <2>2, WindowSubmits DEF Wizard!handleSubmit, Wizard!screen
  <2> QED BY <2>1, <2>2
<1>5. PICK a \in {"url", "creating", "over"}, n \in Wizard!Logins \cup {None} :
         /\ Submits(i, a, n) /\ (a = "creating" => n = None)
         /\ a = "url" => n \in Wizard!Logins
  BY <1>4 DEF Wizard!neededLogin, Wizard!Logins
<1>6. CountInv' /\ created' \in 0 .. MaxAttempts
  <2>1. \A j \in Wizard!Attempts : j \in Made => j \in Made'
    BY <1>1, <1>5 DEF Made, Submits, Goes
  <2> QED BY <1>1, <2>1, MadeCounts DEF WizardInv, CountInv, Wizard!TypeOK
<1>7. again' \in BOOLEAN /\ (again => again') /\ (~again' => ~message)
      /\ (~again' => \A j \in Wizard!Attempts : attempt[j].at \notin Busy)
  BY <1>1, AttemptTypes DEF WizardInv, Wizard!TypeOK, Wizard!UnderWay, Busy
<1>8. Wizard!TypeOK'
  <2>1. /\ step' \in Wizard!Steps /\ wizLoading' \in BOOLEAN /\ authWaiting' \in BOOLEAN
        /\ stranded' \in BOOLEAN
    BY <1>4 DEF WizardInv, Wizard!TypeOK, Wizard!Steps
  <2>2. leftLive' \in BOOLEAN
    BY <1>1 DEF WizardInv, Wizard!TypeOK, Wizard!Enabled
  <2> HIDE DEF Analyzes, Launches
  <2> QED BY <1>1, <1>2, <1>5, <1>6, <1>7, <2>1, <2>2 DEF WizardInv, Wizard!TypeOK, Submits
<1>9. LoginInv'
  <2>1. popup' \in {"provider", "callback", "saved"} =>
            popup \in {"provider", "callback", "saved"}
    BY <1>2
  <2> QED BY <1>1, <1>2, <1>5, <2>1 DEF WizardInv, LoginInv, Making, Submits, Goes
<1>13. OwnInv'
  <2> SUFFICES ASSUME ~again'
               PROVE  OwnInv'
    BY DEF OwnInv
  <2>1. /\ \A j \in Wizard!Attempts : attempt[j].at \notin Busy
        /\ popup = "none" /\ ~message'
    BY <1>1, <1>7 DEF WizardInv, OwnInv, Busy
  <2>2. \A j \in Wizard!Attempts : j # i => attempt'[j].at \notin Busy
    BY <1>5, <2>1 DEF Submits, Goes
  <2>3. \/ popup' = "none"
        \/ popup' = "blank" /\ attempt'[i].at = "url" /\ attempt'[i].win = "open"
    BY <2>1, WindowOpens DEF Wizard!handleAnalyze, Wizard!handleSubmit
  <2> QED BY <1>5, <2>1, <2>2, <2>3 DEF OwnInv, Busy, Making, Submits
<1>10. FormInv'
  <2>1. CASE Analyzes
    BY <1>1, <2>1 DEF WizardInv, FormInv
  <2>2. CASE Launches
    <3>1. page' = "create" /\ step' # "analysing"
      BY <1>1, <2>2 DEF WizardInv, FormInv
    <3>2. \A j \in Wizard!Attempts : j # i =>
             /\ attempt'[j].at # "moding"
             /\ attempt'[j].at = "timer" => success'
             /\ attempt'[j].at = "url" /\ attempt'[j].win = "none" => stranded'
      <4>1. (stranded => stranded') /\ success' = success
        <5>1. success' = success
          BY <1>1
        <5>2. \/ stranded' = stranded \/ stranded' = TRUE
              \/ stranded' = (stranded \/ attempt'[i].win = "none")
          BY <2>2, Zenon
        <5>3. stranded \in BOOLEAN
          BY DEF WizardInv, Wizard!TypeOK
        <5>4. CASE stranded = TRUE
          <6>1. stranded' = TRUE
            BY <5>2, <5>4
          <6> QED BY <5>1, <6>1
        <5>5. CASE stranded = FALSE
          BY <5>1, <5>5
        <5> QED BY <5>3, <5>4, <5>5
      <4>2. \A j \in Wizard!Attempts : j # i => Goes(j)
        BY <1>5 DEF Submits
      <4> HIDE DEF Analyzes, Launches
      <4> QED BY <2>2, <3>1, <4>1, <4>2, <1>1 DEF WizardInv, FormInv, Goes
    <3>3. attempt'[i].at \notin {"moding", "timer"}
      BY <1>5 DEF Submits
    <3>4. attempt'[i].at = "url" /\ attempt'[i].win = "none" => stranded'
      BY <2>2 DEF Submits
    <3> HIDE DEF Analyzes, Launches
    <3> QED BY <3>1, <3>2, <3>3, <3>4 DEF FormInv
  <2> QED BY <1>4, <2>1, <2>2
<1>11. Wizard!WaitingHasCause'
  <2>1. CASE Analyzes
    BY <1>1, <2>1
       DEF WizardInv, FormInv, Wizard!WaitingHasCause, Wizard!UnderWay, Submits, Goes
  <2>2. CASE Launches
    BY <1>1, <2>2
       DEF WizardInv, FormInv, Wizard!WaitingHasCause, Wizard!UnderWay, Submits, Goes,
           Wizard!TypeOK
  <2> QED BY <1>4, <2>1, <2>2
<1>12. OnceInv'
  <2>1. ~again' /\ ~lost => created = 0
    BY <1>1, <1>7 DEF WizardInv, OnceInv, Busy, Finished
  <2>2. ~again' => \A j \in Wizard!Attempts : j # i => attempt'[j].at \notin Busy
    BY <1>5, <1>7 DEF Submits, Goes
  <2>3. page = "onboarding" => /\ step \notin {"goal"} /\ onScreen # "goal" /\ step' # "goal"
                               /\ attempt'[i].at = "creating" => step' = "analysing"
    BY <1>1, <1>4 DEF WizardInv, OnceInv, Submits
  <2>4. attempt'[i].at \in {"url", "creating", "over"}
    BY <1>5 DEF Submits
  <2> HIDE DEF Analyzes, Launches
  <2>5. page' = "onboarding" /\ ~again' =>
           \A j \in Wizard!Attempts : attempt'[j].at \in Making => step' = "analysing"
    BY <1>1, <2>2, <2>3, <2>4 DEF Making, Busy
  <2> QED BY <1>1, <2>1, <2>2, <2>3, <2>5 DEF OnceInv
<1> QED BY <1>6, <1>8, <1>9, <1>10, <1>11, <1>12, <1>13 DEF WizardInv

\* OAUTH_SUCCESS arrives.
LEMMA MessageInv ==
    ASSUME WizardInv, Wizard!MessageLands
    PROVE  WizardInv'
<1> DEFINE heard == {i \in Wizard!Attempts : attempt[i].at = "listening"}
<1>1. /\ UNCHANGED <<page, goal, url, channel, success, error, popup, provider, credential, created,
                     lost, again, stranded>>
      /\ message' = FALSE /\ message = TRUE /\ credential # {}
      /\ attempt' = [i \in Wizard!Attempts |-> IF i \in heard
                                               THEN [attempt[i] EXCEPT !.at = "creating"]
                                               ELSE attempt[i]]
      /\ \/ heard = {} /\ UNCHANGED <<step, onScreen, leftLive, wizLoading, authWaiting>>
         \/ /\ heard # {} /\ page = "onboarding" /\ step' = "analysing" /\ onScreen' = onScreen
            /\ leftLive' \in {Wizard!Enabled, TRUE} /\ UNCHANGED <<wizLoading, authWaiting>>
         \/ /\ heard # {} /\ page = "create" /\ wizLoading' = TRUE /\ authWaiting' = FALSE
            /\ UNCHANGED <<step, onScreen, leftLive>>
  BY DEF WizardInv, LoginInv, Wizard!TypeOK, Wizard!MessageLands, Wizard!form, Wizard!screen,
         Wizard!GoTo
<1>2. /\ attempt' \in [Wizard!Attempts -> Wizard!Attempt]
      /\ \A i \in Wizard!Attempts :
            /\ attempt'[i].needs = attempt[i].needs
            /\ attempt'[i].win = attempt[i].win
            /\ attempt[i].at = "listening" => attempt'[i].at = "creating"
            /\ attempt[i].at # "listening" => attempt'[i].at = attempt[i].at
  <2>1. \A r \in Wizard!Attempt : LET n == [r EXCEPT !.at = "creating"] IN
            n \in Wizard!Attempt /\ n.at = "creating" /\ n.needs = r.needs /\ n.win = r.win
    BY DEF Wizard!Attempt
  <2> QED BY <1>1, <2>1, AttemptTypes DEF WizardInv
<1>3. CASE heard = {}
  <2>1. Unmoved
    BY <1>2, <1>3 DEF Unmoved, Goes
  <2>2. OnceInv'
    BY <1>1, <1>3, <2>1 DEF WizardInv, OnceInv, Finished, Unmoved, Goes
  <2>3. /\ UNCHANGED <<step, onScreen, leftLive, wizLoading, authWaiting>>
        /\ LoginKept
    BY <1>1, <1>3 DEF WizardInv, LoginInv, LoginKept
  <2>4. OwnInv'
    BY <1>1, <2>1 DEF WizardInv, OwnInv, Making, Unmoved, Goes
  <2> HIDE DEF heard
  <2> QED BY <1>1, <2>1, <2>2, <2>3, <2>4, UnmovedInv DEF WizardInv, Wizard!TypeOK
<1>4. CASE heard # {}
  <2>1. PICK h \in Wizard!Attempts : attempt[h].at = "listening"
    BY <1>4
  <2>2. Wizard!TypeOK'
    <3>1. leftLive' \in BOOLEAN /\ step' \in Wizard!Steps
      BY <1>1 DEF WizardInv, Wizard!TypeOK, Wizard!Enabled, Wizard!Steps
    <3>2. wizLoading' \in BOOLEAN /\ authWaiting' \in BOOLEAN /\ onScreen' \in Wizard!Steps
      BY <1>1 DEF WizardInv, Wizard!TypeOK
    <3> QED BY <1>1, <1>2, <3>1, <3>2 DEF WizardInv, Wizard!TypeOK
  <2>3. LoginInv'
    BY <1>1, <1>2 DEF WizardInv, LoginInv
  <2>4. FormInv'
    <3>1. CASE page = "onboarding"
      <4>1. page' = "onboarding" /\ wizLoading' = wizLoading /\ authWaiting' = authWaiting
        BY <1>1, <1>4, <3>1
      <4> HIDE DEF heard
      <4> QED BY <3>1, <4>1 DEF WizardInv, FormInv
    <3>2. CASE page = "create"
      <4>1. page' = "create" /\ step' = step /\ UNCHANGED <<success, stranded>>
        BY <1>1, <1>4, <3>2
      <4> HIDE DEF heard
      <4> QED BY <1>2, <3>2, <4>1 DEF WizardInv, FormInv, Wizard!TypeOK
    <3> QED BY <3>1, <3>2 DEF WizardInv, Wizard!TypeOK
  <2>5. Wizard!WaitingHasCause'
    <3>1. attempt'[h].at = "creating"
      BY <1>2, <2>1
    <3>2. ~authWaiting'
      BY <1>1, <1>4 DEF WizardInv, FormInv
    <3> QED BY <2>1, <3>1, <3>2 DEF Wizard!WaitingHasCause, Wizard!UnderWay
  <2>6. CountInv'
    <3>1. Made' = Made
      BY <1>2 DEF Made
    <3> QED BY <1>1, <3>1 DEF WizardInv, CountInv
  <2>7. OnceInv'
    <3>1. ~again /\ ~lost => created = 0
      BY <2>1 DEF WizardInv, OnceInv, Busy, Finished
    <3>2. page = "onboarding" => step' = "analysing" /\ onScreen # "goal" /\ onScreen' = onScreen
      BY <1>1, <1>4, <2>1 DEF WizardInv, OnceInv
    <3>3. \A i \in Wizard!Attempts : attempt'[i].at \in Busy => attempt[i].at \in Busy
      BY <1>2 DEF Busy
    <3> QED BY <1>1, <3>1, <3>2, <3>3 DEF WizardInv, OnceInv
  <2>8. OwnInv'
    <3> SUFFICES ASSUME ~again
                 PROVE  OwnInv'
      BY <1>1 DEF OwnInv
    <3>1. popup' = "none"
      BY <1>1 DEF WizardInv, OwnInv
    <3>2. \A i \in Wizard!Attempts :
             /\ attempt'[i].at # "url" \/ attempt[i].at = "url"
             /\ attempt'[i].at # "listening"
             /\ attempt'[i].at \in Making =>
                   attempt[i].at = "listening" \/ attempt[i].at \in Making
      BY <1>2 DEF Making
    <3> HIDE DEF heard
    <3> QED BY <1>1, <1>2, <3>1, <3>2 DEF WizardInv, OwnInv
  <2> QED BY <2>2, <2>3, <2>4, <2>5, <2>6, <2>7, <2>8 DEF WizardInv
<1> QED BY <1>3, <1>4

LEMMA WizardStepInv ==
    ASSUME WizardInv, Wizard!Next
    PROVE  WizardInv'
BY ScreenStepInv, FieldStepInv, PopupStepInv, AuthUrlInv, TimersInv, CreatedInv, UncreatedInv,
   FinishInv, SubmitWizardInv, MessageInv
   DEF Wizard!Next, Wizard!FormNext, Wizard!PopupNext, Wizard!AttemptNext

LEMMA WizardStays ==
    ASSUME WizardInv, UNCHANGED WizardVars
    PROVE  WizardInv'
<1> USE DEF WizardInv, WizardVars
<1>1. Wizard!TypeOK' /\ LoginInv' /\ OwnInv' /\ FormInv'
  BY DEF Wizard!TypeOK, LoginInv, OwnInv, FormInv
<1>2. Wizard!WaitingHasCause' /\ OnceInv'
  BY DEF Wizard!WaitingHasCause, Wizard!UnderWay, OnceInv, Finished
<1>3. CountInv'
  BY DEF CountInv, Made
<1> QED BY <1>1, <1>2, <1>3

\* While another page is open nothing of the wizard moves, and the open page does not change.
LEMMA WizardKept ==
    ASSUME route = "wizard" => WizardInv, [Next]_vars
    PROVE  (route = "wizard" => WizardInv)'
<1> SUFFICES ASSUME route' = "wizard"
             PROVE  WizardInv'
  OBVIOUS
<1>1. CASE UNCHANGED vars
  BY <1>1, WizardStays DEF vars
<1>2. CASE WizardStep
  BY <1>2, WizardStepInv DEF WizardStep
<1> QED BY <1>1, <1>2
   DEF Next, CalendarStep, ProjectScreensStep, IntegrationsStep, BillingScreenStep, AnalyzerStep,
       TasksStep, ModeStep, SyncedStep, SeoStep, AiStep

(* A project that needs a login is made when the API holds a token of that *)
(* login, however often the popup is closed, refused or fails its          *)
(* callback; with submissions of onboarding/page.tsx or                    *)
(* projects/create/page.tsx under way together, whose handlers hear every  *)
(* OAUTH_SUCCESS, when it holds a token of one of them.                    *)
THEOREM NoProjectWithoutLoginHolds == Spec => []NoProjectWithoutLogin
<1>1. Init => (route = "wizard" => WizardInv)
  BY WizardInit DEF Init
<1>2. (route = "wizard" => WizardInv) /\ [Next]_vars => (route = "wizard" => WizardInv)'
  BY WizardKept
<1>3. (route = "wizard" => WizardInv) => NoProjectWithoutLogin
  BY WizardPromises DEF NoProjectWithoutLogin
<1> QED BY <1>1, <1>2, <1>3, PTL DEF Spec
-----------------------------------------------------------------------------
(* The content calendar.                                                   *)

LEMMA CalendarBounds == Calendar!CalendarAssumption
BY PagesAssumption DEF PagesAssumption

Live(p) == p \notin {Calendar!NoPost, Calendar!Deleted}
Seen(p) == p # Calendar!NoPost
Loading(l) == calLoad[l].at # "idle"

\* The rows a save may have left, each at its place in the dialog.
RowsLeft == UNION {[S -> Contents] : S \in SUBSET (1 .. MaxDrafts)}

CalTypes ==
    /\ Calendar!TypeOK
    /\ drafts \in Seq(Calendar!ScheduledDraft)
    /\ save \in [todo : RowsLeft, project : Projects \cup {None},
                 editing : Posts \cup {None}, date : Calendar!Dates]
    /\ \A l \in Calendar!Causes : calLoad[l].at = "calendar" => calLoad[l].of \in Projects

\* A post the page knows of is one the API made, of the same project; the dialog is never
\* open behind the spinner.
KnownInv ==
    /\ \A t \in Posts : Seen(shown[t]) =>
          /\ server[t] # Calendar!NoPost
          /\ Live(server[t]) => server[t].home = shown[t].home
    /\ editing # None => Calendar!Open /\ server[editing] # Calendar!NoPost
    /\ save.editing # None => server[save.editing] # Calendar!NoPost
    /\ Calendar!Open => ~calLoading

\* One save at a time: it sends its rows, and then loads the page again.
SaveInv ==
    /\ Calendar!SpinnerHasCause
    /\ DOMAIN save.todo # {} => calSaving /\ ~Loading("save") /\ save.project \in Projects
    /\ Loading("save") => calSaving

\* No post but e has content c, and none but e is shown with it.
Fresh(srv, shw, c, e) ==
    \A u \in Posts \ {e} :
        /\ Live(srv[u]) => srv[u].content # c
        /\ Seen(shw[u]) => shw[u].content # c

\* What is in the dialog, on its way to the API, held by it or shown is one post's alone.
FreshInv ==
    /\ \A t \in Posts : Live(server[t]) => Fresh(server, shown, server[t].content, t)
    /\ \A t \in Posts : Seen(shown[t]) => Fresh(server, shown, shown[t].content, t)
    /\ \A i \in DOMAIN save.todo :
          /\ Fresh(server, shown, save.todo[i], save.editing)
          /\ \A j \in DOMAIN save.todo : save.todo[i] = save.todo[j] => i = j
    /\ DOMAIN save.todo = {} =>
          \A i \in DOMAIN drafts : drafts[i].content # None =>
             /\ Fresh(server, shown, drafts[i].content, editing)
             /\ \A j \in DOMAIN drafts : drafts[i].content = drafts[j].content => i = j

\* Undisturbed loads follow each other, and each is of the project that is shown or of the
\* one just selected.
LoadInv ==
    /\ \A l, m \in Calendar!Causes : Loading(l) /\ Loading(m) => l = m
    /\ calSaved = calProject
    /\ calProject = None => calChosen = None /\ calLoading
    /\ calChosen = calProject \/ calLoad["select"].at = "projects"
    /\ Loading("select") => calLoading /\ calProject # None /\ calChosen # None
    /\ \A l \in Calendar!Causes :
          /\ calLoad[l].at = "projects" =>
                calLoad[l].target \in IF l = "select" THEN {calChosen} ELSE {None, calProject}
          /\ calLoad[l].at = "calendar" => calLoad[l].of = calProject
    /\ ~calLoading => \A t \in Posts : Seen(shown[t]) => shown[t].home = calProject

\* Undisturbed posts are proper ones, and so is what is composed and sent.
ProperInv ==
    /\ \A t \in Posts : Live(server[t]) => Calendar!Proper(server[t])
    /\ \A t \in Posts : Seen(shown[t]) => Calendar!Proper(shown[t])
    /\ Calendar!Open =>
          /\ \A i \in DOMAIN drafts : drafts[i].platform = Calendar!getProjectPlatform(calProject)
          /\ editing # None /\ Live(server[editing]) => server[editing].home = calProject
    /\ DOMAIN save.todo # {} =>
          /\ PlatformOf[save.project] = "facebook" =>
                \A i \in DOMAIN save.todo : save.todo[i] \notin PhotoStories
          /\ save.editing # None /\ Live(server[save.editing]) =>
                server[save.editing].home = save.project

CalBase ==
    /\ CalTypes /\ KnownInv /\ SaveInv
    /\ ~cut => FreshInv
    /\ ~disturbed => LoadInv /\ ProperInv

LEMMA PostFacts ==
    ASSUME CalTypes
    PROVE  /\ \A p \in Calendar!Post : p # Calendar!NoPost /\ p # Calendar!Deleted
           /\ \A t \in Posts :
                 /\ Live(server[t]) => server[t] \in Calendar!Post
                 /\ Seen(shown[t]) => shown[t] \in Calendar!Post
<1>1. \A p \in Calendar!Post : p # Calendar!NoPost /\ p # Calendar!Deleted
  BY DEF Calendar!Post, Calendar!NoPost, Calendar!Deleted, Calendar!Statuses
<1> QED BY <1>1 DEF CalTypes, Calendar!TypeOK, Live, Seen

\* A load that moves, moves alone.
LEMMA LoadMoves ==
    ASSUME CalTypes, NEW l \in Calendar!Causes, NEW r \in Calendar!Loads,
           calLoad' = [calLoad EXCEPT ![l] = r]
    PROVE  /\ calLoad' \in [Calendar!Causes -> Calendar!Loads] /\ calLoad'[l] = r
           /\ \A m \in Calendar!Causes : m # l => calLoad'[m] = calLoad[m]
BY DEF CalTypes, Calendar!TypeOK

LEMMA LoadFacts ==
    ASSUME CalTypes
    PROVE  \A l \in Calendar!Causes :
              /\ calLoad[l] \in Calendar!Loads
              /\ calLoad[l].at \in {"idle", "projects", "calendar"}
              /\ calLoad[l].target \in Projects \cup {None}
              /\ calLoad[l].of \in Projects \cup {None}
BY DEF CalTypes, Calendar!TypeOK, Calendar!Loads

\* Nothing is under way exactly when no load is.
LEMMA QuietLoads ==
    Calendar!InFlight = {} <=> \A l \in Calendar!Causes : ~Loading(l)
BY DEF Calendar!InFlight, Loading

LEMMA CalBaseInit ==
    ASSUME Calendar!Init
    PROVE  CalBase
<1> USE CalendarBounds DEF Calendar!CalendarAssumption
<1>1. /\ calLoad \in [Calendar!Causes -> Calendar!Loads]
      /\ calLoad["poll"].at = "projects" /\ calLoad["poll"].target = None
      /\ \A l \in Calendar!Causes : l # "poll" => calLoad[l].at = "idle"
  BY DEF Calendar!Init, Calendar!NoLoad, Calendar!Loads, Calendar!Causes
<1>2. \A t \in Posts :
         /\ ~Seen(shown[t])
         /\ Live(server[t]) => server[t] \in Calendar!Post /\ Calendar!Proper(server[t])
  BY DEF Calendar!Init, Seen, Live
<1>3. /\ drafts \in Seq(Calendar!ScheduledDraft) /\ Len(drafts) = 1
      /\ \A i \in DOMAIN drafts : drafts[i] \in Calendar!ScheduledDraft /\ drafts[i].content = None
  BY DEF Calendar!Init, Calendar!Blank, Calendar!ScheduledDraft, Calendar!Platforms
<1>4. /\ save \in [todo : RowsLeft, project : Projects \cup {None},
                   editing : Posts \cup {None}, date : Calendar!Dates]
      /\ DOMAIN save.todo = {} /\ save.editing = None
  <2>1. <<>> \in RowsLeft /\ DOMAIN << >> = {}
    <3>1. << >> = [i \in {} |-> None]
      OBVIOUS
    <3>2. [i \in {} |-> None] \in [{} -> Contents]
      OBVIOUS
    <3> QED BY <3>1, <3>2 DEF RowsLeft
  <2>2. 1 \in Calendar!Dates
    BY DEF Calendar!Dates
  <2> QED BY <2>1, <2>2 DEF Calendar!Init, Calendar!NoSave
<1>5. CalTypes
  <2>1. Calendar!TypeOK
    <3>1. server \in [Posts -> Calendar!Post \cup {Calendar!NoPost, Calendar!Deleted}]
      BY DEF Calendar!Init
    <3>2. /\ now \in Calendar!Dates /\ begun \in 0 .. MaxBegun /\ Len(drafts) \in 1 .. MaxDrafts
      BY <1>3 DEF Calendar!Init, Calendar!Dates
    <3>3. /\ save.project \in Projects \cup {None} /\ save.editing \in Posts \cup {None}
          /\ save.date \in Calendar!Dates /\ DOMAIN save.todo \subseteq 1 .. MaxDrafts
          /\ \A i \in DOMAIN save.todo : save.todo[i] \in Contents
      BY <1>4
    <3> QED BY <1>1, <1>3, <3>1, <3>2, <3>3 DEF Calendar!Init, Calendar!TypeOK
  <2> QED BY <1>1, <1>3, <1>4, <2>1 DEF CalTypes, Calendar!Causes
<1>6. KnownInv /\ SaveInv
  <2>1. "poll" \in Calendar!InFlight
    BY <1>1 DEF Calendar!InFlight, Calendar!Causes
  <2>2. ~Loading("save")
    BY <1>1 DEF Loading, Calendar!Causes
  <2> QED BY <1>2, <1>4, <2>1, <2>2
          DEF Calendar!Init, KnownInv, SaveInv, Calendar!SpinnerHasCause, Calendar!Open
<1>7. FreshInv
  <2>1. \A t \in Posts : Live(server[t]) => Fresh(server, shown, server[t].content, t)
    BY <1>2 DEF Calendar!Init, Live, Fresh
  <2> QED BY <1>2, <1>3, <1>4, <2>1 DEF FreshInv
<1>8. LoadInv
  BY <1>1, <1>2 DEF Calendar!Init, LoadInv, Loading, Calendar!Causes
<1>9. ProperInv
  BY <1>2, <1>4 DEF Calendar!Init, ProperInv, Calendar!Open
<1> QED BY <1>5, <1>6, <1>7, <1>8, <1>9 DEF CalBase
-----------------------------------------------------------------------------
\* Parts of the invariant that a step leaves alone.
LEMMA KnownKept ==
    ASSUME KnownInv, UNCHANGED <<server, shown, editing, save, selectedDate>>,
           calLoading' => calLoading \/ ~Calendar!Open
    PROVE  KnownInv'
BY DEF KnownInv, Seen, Live, Calendar!Open

LEMMA FreshKept ==
    ASSUME ~cut => FreshInv, UNCHANGED <<server, shown, editing, drafts, save, cut>>
    PROVE  ~cut' => FreshInv'
BY DEF FreshInv, Fresh, Seen, Live

LEMMA ProperKept ==
    ASSUME ProperInv, UNCHANGED <<server, shown, editing, drafts, save, selectedDate, calProject>>
    PROVE  ProperInv'
BY DEF ProperInv, Seen, Live, Calendar!Open

LEMMA LoadKept ==
    ASSUME ~disturbed => LoadInv, ~disturbed' => ~disturbed,
           UNCHANGED <<calLoad, calSaved, calProject, calChosen, calLoading, shown>>
    PROVE  ~disturbed' => LoadInv'
BY DEF LoadInv, Loading, Seen

\* A call of fetchData, up to its first await.
LEMMA FetchLoads ==
    ASSUME CalBase, NEW l \in Calendar!Causes, NEW target \in Projects \cup {None},
           calLoad' = [calLoad EXCEPT ![l] = [at |-> "projects", target |-> target, of |-> None]],
           ~Loading(l), UNCHANGED <<calProject, calSaved, shown>>,
           ~disturbed' => ~disturbed /\ Calendar!InFlight = {},
           \/ l # "select" /\ UNCHANGED <<calChosen, calLoading>>
              /\ (~disturbed' => target \in {None, calProject})
           \/ l = "select" /\ calChosen' = target /\ calLoading' = TRUE /\ target # None
              /\ calProject # None
    PROVE  /\ calLoad' \in [Calendar!Causes -> Calendar!Loads]
           /\ \A m \in Calendar!Causes : calLoad'[m].at = "calendar" => calLoad'[m].of \in Projects
           /\ calLoad'[l].at = "projects"
           /\ \A m \in Calendar!Causes : m # l => calLoad'[m] = calLoad[m]
           /\ ~disturbed' => LoadInv'
<1> DEFINE r == [at |-> "projects", target |-> target, of |-> None]
<1>1. r \in Calendar!Loads
  BY DEF Calendar!Loads
<1>2. /\ calLoad' \in [Calendar!Causes -> Calendar!Loads]
      /\ calLoad'[l] = r
      /\ \A m \in Calendar!Causes : m # l => calLoad'[m] = calLoad[m]
  BY <1>1, LoadMoves DEF CalBase
<1>3. \A m \in Calendar!Causes : calLoad'[m].at = "calendar" => calLoad'[m].of \in Projects
  BY <1>2 DEF CalBase, CalTypes
<1>4. ASSUME ~disturbed' PROVE LoadInv'
  <2>1. LoadInv /\ \A m \in Calendar!Causes : calLoad[m].at = "idle"
    BY <1>4, QuietLoads DEF CalBase, Loading
  <2>2. /\ calLoad'[l].at = "projects" /\ calLoad'[l].target = target
        /\ \A m \in Calendar!Causes : m # l => calLoad'[m].at = "idle"
    BY <1>2, <2>1
  <2>3. "select" \in Calendar!Causes
    BY DEF Calendar!Causes
  <2>4. CASE l # "select"
    BY <1>4, <2>1, <2>2, <2>3, <2>4 DEF LoadInv, Loading, Seen
  <2>5. CASE l = "select"
    BY <1>4, <2>1, <2>2, <2>3, <2>5 DEF LoadInv, Loading, Seen
  <2> QED BY <2>4, <2>5
<1> QED BY <1>2, <1>3, <1>4

\* The poll, a selection, the timer of a due post.
LEMMA CalFetchInv ==
    ASSUME CalBase,
           \/ Calendar!Poll \/ Calendar!DueTimerFires
           \/ \E p \in Projects : Calendar!SelectProject(p)
    PROVE  CalBase'
<1> USE DEF Calendar!Poll, Calendar!DueTimerFires, Calendar!SelectProject, Calendar!FetchData,
            Calendar!Astray,
            Calendar!source, Calendar!dialog, Calendar!Begin
<1>1. /\ UNCHANGED <<server, now, calProject, calSaved, shown, selectedDate, editing, drafts,
                     calSaving, save, cut>>
      /\ begun' \in {begun, begun + 1} /\ (begun' = begun \/ begun < MaxBegun)
      /\ dueTimer' \in {dueTimer, None}
      /\ calLoading' => calLoading \/ ~Calendar!Open
      /\ calLoading => calLoading'
  <2>1. calLoading \in BOOLEAN
    BY DEF CalBase, CalTypes, Calendar!TypeOK
  <2> QED BY <2>1
<1>2. ~disturbed' => ~disturbed /\ Calendar!InFlight = {}
  BY Zenon
<1>3. PICK l \in {"poll", "select", "due"}, target \in Projects \cup {None} :
         /\ calLoad' = [calLoad EXCEPT ![l] = [at |-> "projects", target |-> target, of |-> None]]
         /\ ~Loading(l)
         /\ \/ l # "select" /\ UNCHANGED <<calChosen, calLoading>>
               /\ (~disturbed' => target \in {None, calProject})
            \/ l = "select" /\ calChosen' = target /\ calLoading' = TRUE /\ target # None
               /\ calProject # None
  <2>1. CASE Calendar!Poll
    BY <2>1 DEF Loading
  <2>2. CASE Calendar!DueTimerFires
    BY <2>2 DEF Loading, CalBase, CalTypes, Calendar!TypeOK
  <2>3. CASE \E p \in Projects : Calendar!SelectProject(p)
    <3>1. PICK p \in Projects : Calendar!SelectProject(p)
      BY <2>3
    <3>2. /\ calLoad' = [calLoad EXCEPT !["select"] = [at |-> "projects", target |-> p,
            of |-> None]]
          /\ ~Loading("select") /\ calChosen' = p /\ calLoading' = TRUE
          /\ calProject # None
      BY <3>1 DEF Loading
    <3>3. p # None
      BY CalendarBounds DEF Calendar!CalendarAssumption
    <3> QED BY <3>2, <3>3
  <2> QED BY <2>1, <2>2, <2>3
<1>4. /\ calLoading' \in BOOLEAN /\ calChosen' \in Projects \cup {None}
      /\ {disturbed', unsettled', strayed'} \subseteq BOOLEAN
  BY <1>3 DEF CalBase, CalTypes, Calendar!TypeOK
<1> HIDE DEF Calendar!Poll, Calendar!DueTimerFires, Calendar!SelectProject, Calendar!FetchData,
             Calendar!Astray
<1>5. l \in Calendar!Causes
  BY DEF Calendar!Causes
<1>6. /\ calLoad' \in [Calendar!Causes -> Calendar!Loads]
      /\ \A m \in Calendar!Causes : calLoad'[m].at = "calendar" => calLoad'[m].of \in Projects
      /\ calLoad'[l].at = "projects"
      /\ \A m \in Calendar!Causes : m # l => calLoad'[m] = calLoad[m]
      /\ ~disturbed' => LoadInv'
  BY <1>1, <1>3, <1>5, <1>2, FetchLoads
<1>7. CalTypes'
  <2>1. begun' \in 0 .. MaxBegun
    BY <1>1, CalendarBounds DEF CalBase, CalTypes, Calendar!TypeOK, Calendar!CalendarAssumption
  <2>2. Calendar!TypeOK'
    BY <1>1, <1>4, <1>6, <2>1 DEF CalBase, CalTypes, Calendar!TypeOK
  <2> QED BY <1>1, <1>6, <2>2 DEF CalBase, CalTypes
<1>8. KnownInv'
  BY <1>1, KnownKept DEF CalBase
<1>9. SaveInv'
  <2>1. Calendar!InFlight' # {}
    BY <1>5, <1>6 DEF Calendar!InFlight
  <2>2. Loading("save")' <=> Loading("save")
    BY <1>6 DEF Loading, Calendar!Causes
  <2> QED BY <1>1, <2>1, <2>2 DEF CalBase, SaveInv, Calendar!SpinnerHasCause, Loading
<1>10. ~cut' => FreshInv'
  BY <1>1, FreshKept DEF CalBase
<1>11. ~disturbed' => ProperInv'
  BY <1>1, <1>2, ProperKept DEF CalBase
<1> QED BY <1>6, <1>7, <1>8, <1>9, <1>10, <1>11 DEF CalBase

\* The projects arrive, and one of them is selected.
LEMMA ProjectsLandInv ==
    ASSUME CalBase, NEW l \in Calendar!Causes, Calendar!ProjectsLand(l)
    PROVE  CalBase'
<1> DEFINE p == Calendar!Select(calLoad[l].target)
           r == [calLoad[l] EXCEPT !.at = "calendar", !.of = p]
<1>1. p \in Projects
  BY LoadFacts, CalendarBounds
     DEF CalBase, CalTypes, Calendar!TypeOK, Calendar!Select, Calendar!CalendarAssumption
<1> HIDE DEF p
<1>2. /\ calLoad[l].at = "projects"
      /\ calProject' = p /\ calSaved' = p
      /\ calLoad' = [calLoad EXCEPT ![l] = r]
      /\ calChosen' = IF calChosen = None THEN p ELSE calChosen
      /\ UNCHANGED <<server, now, shown, calLoading, dueTimer, selectedDate, editing, drafts,
                     calSaving, save, begun, disturbed, unsettled, strayed, cut>>
  BY DEF p, CalBase, CalTypes, Calendar!TypeOK, Calendar!ProjectsLand, Calendar!source,
     Calendar!dialog, Calendar!doubts
<1>3. r \in Calendar!Loads /\ r.at = "calendar" /\ r.of = p
  BY <1>1, LoadFacts DEF CalBase, Calendar!Loads
<1> HIDE DEF r
<1>4. /\ calLoad' \in [Calendar!Causes -> Calendar!Loads] /\ calLoad'[l] = r
      /\ \A m \in Calendar!Causes : m # l => calLoad'[m] = calLoad[m]
  BY <1>2, <1>3, LoadMoves DEF CalBase
<1>5. CalTypes'
  <2>1. calChosen' \in Projects \cup {None}
    BY <1>1, <1>2 DEF CalBase, CalTypes, Calendar!TypeOK
  <2>2. Calendar!TypeOK'
    BY <1>1, <1>2, <1>4, <2>1 DEF CalBase, CalTypes, Calendar!TypeOK
  <2> QED BY <1>1, <1>2, <1>3, <1>4, <2>2 DEF CalBase, CalTypes
<1>6. KnownInv'
  BY <1>2, KnownKept DEF CalBase
<1>7. SaveInv'
  <2>1. Calendar!InFlight' # {}
    BY <1>3, <1>4 DEF Calendar!InFlight
  <2>2. Loading("save")' <=> Loading("save")
    BY <1>2, <1>3, <1>4 DEF Loading, Calendar!Causes
  <2> QED BY <1>2, <2>1, <2>2 DEF CalBase, SaveInv, Calendar!SpinnerHasCause, Loading
<1>8. ~cut' => FreshInv'
  BY <1>2, FreshKept DEF CalBase
<1>9. ASSUME ~disturbed' PROVE LoadInv' /\ ProperInv'
  <2>1. LoadInv /\ ProperInv
    BY <1>2, <1>9 DEF CalBase
  <2>2. \A m \in Calendar!Causes : m # l => calLoad[m].at = "idle" /\ calLoad'[m].at = "idle"
    BY <1>2, <1>4, <2>1 DEF LoadInv, Loading
  <2>3. "select" \in Calendar!Causes
    BY DEF Calendar!Causes
  \* A selection has its project loaded; whatever else loads, loads the one it finds.
  <2>4. /\ l = "select" => p = calChosen /\ calChosen # None /\ calLoading /\ calProject # None
        /\ l # "select" => calChosen = calProject /\ (calProject # None => p = calProject)
    <3>1. CASE l = "select"
      BY <1>2, <2>1, <2>3, <3>1 DEF p, LoadInv, Loading, Calendar!Select
    <3>2. CASE l # "select"
      <4>1. calChosen = calProject
        BY <2>1, <2>2, <2>3, <3>2 DEF LoadInv
      <4>2. calSaved = calProject /\ calLoad[l].target \in {None, calProject}
        BY <1>2, <2>1, <3>2 DEF LoadInv
      <4> QED BY <3>2, <4>1, <4>2 DEF p, Calendar!Select
    <3> QED BY <3>1, <3>2
  <2>5. p # None
    BY <1>1, CalendarBounds DEF Calendar!CalendarAssumption
  <2>6. calChosen' = p
    BY <1>2, <2>4, <2>5, <2>1 DEF LoadInv
  <2>7. calProject' = calProject \/ calLoading
    BY <1>2, <2>4, <2>1 DEF LoadInv
  <2>8. LoadInv'
    <3>1. \A m \in Calendar!Causes : Loading(m)' => m = l
      BY <2>2 DEF Loading
    <3>2. \A m \in Calendar!Causes :
             /\ calLoad'[m].at # "projects"
             /\ calLoad'[m].at = "calendar" => calLoad'[m].of = p
      BY <1>3, <1>4, <2>2
    <3>3. Loading("select")' => calLoading
      BY <2>3, <2>4, <3>1
    <3>4. ~calLoading => \A t \in Posts : Seen(shown'[t]) => shown'[t].home = p
      BY <1>2, <2>1, <2>7 DEF LoadInv, Seen
    <3> QED BY <1>2, <2>5, <2>6, <3>1, <3>2, <3>3, <3>4 DEF LoadInv
  <2>9. ProperInv'
    <3>1. Calendar!Open => calProject' = calProject
      BY <2>7 DEF CalBase, KnownInv
    <3> QED BY <1>2, <2>1, <3>1 DEF ProperInv, Seen, Live, Calendar!Open
  <2> QED BY <2>8, <2>9
<1> QED BY <1>5, <1>6, <1>7, <1>8, <1>9 DEF CalBase

\* Another tab selects a project.
LEMMA OtherTabInv ==
    ASSUME CalBase, NEW p \in Projects, Calendar!OtherTabSelects(p)
    PROVE  CalBase'
<1>1. /\ UNCHANGED <<server, now, calProject, shown, calLoading, calLoad, dueTimer, selectedDate,
                     editing, drafts, calSaving, save, calChosen, cut>>
      /\ calSaved' = p /\ disturbed' = TRUE /\ unsettled' = TRUE /\ strayed' = TRUE
      /\ begun < MaxBegun /\ begun' = begun + 1
  BY DEF Calendar!OtherTabSelects, Calendar!source, Calendar!dialog, Calendar!Begin
<1>2. begun' \in 0 .. MaxBegun
  BY <1>1, CalendarBounds DEF CalBase, CalTypes, Calendar!TypeOK, Calendar!CalendarAssumption
<1>3. CalTypes'
  <2>1. Calendar!TypeOK'
    BY <1>1, <1>2 DEF CalBase, CalTypes, Calendar!TypeOK
  <2> QED BY <1>1, <2>1 DEF CalBase, CalTypes
<1>4. KnownInv' /\ (~cut' => FreshInv')
  BY <1>1, KnownKept, FreshKept DEF CalBase
<1>5. SaveInv'
  BY <1>1 DEF CalBase, SaveInv, Calendar!SpinnerHasCause, Calendar!InFlight, Loading
<1> QED BY <1>1, <1>3, <1>4, <1>5 DEF CalBase

\* A load ends, well or not: its spinner and its save end with it.
LEMMA LoadEndsFacts ==
    ASSUME CalBase, NEW l \in Calendar!Causes, Calendar!LoadEnds(l)
    PROVE  /\ calLoad' \in [Calendar!Causes -> Calendar!Loads] /\ calLoad'[l].at = "idle"
           /\ \A m \in Calendar!Causes : m # l => calLoad'[m] = calLoad[m]
           /\ \A m \in Calendar!Causes : calLoad'[m].at = "calendar" => calLoad'[m].of \in Projects
           /\ calLoading' = FALSE /\ calSaving' \in BOOLEAN
           /\ calSaving' <=> calSaving /\ l # "save"
<1>1. Calendar!NoLoad \in Calendar!Loads /\ Calendar!NoLoad.at = "idle"
  BY DEF Calendar!NoLoad, Calendar!Loads
<1>2. /\ calLoad' = [calLoad EXCEPT ![l] = Calendar!NoLoad] /\ calLoading' = FALSE
      /\ calSaving' = (calSaving /\ l # "save")
  BY DEF Calendar!LoadEnds
<1>3. /\ calLoad' \in [Calendar!Causes -> Calendar!Loads] /\ calLoad'[l] = Calendar!NoLoad
      /\ \A m \in Calendar!Causes : m # l => calLoad'[m] = calLoad[m]
  BY <1>1, <1>2, LoadMoves DEF CalBase
<1>4. \A m \in Calendar!Causes : calLoad'[m].at = "calendar" => calLoad'[m].of \in Projects
  BY <1>1, <1>3 DEF CalBase, CalTypes
<1>5. calSaving' \in BOOLEAN /\ (calSaving' <=> calSaving /\ l # "save")
  BY <1>2
<1> QED BY <1>1, <1>2, <1>3, <1>4, <1>5

LEMMA EndedSaveInv ==
    ASSUME CalBase, NEW l \in Calendar!Causes, Calendar!LoadEnds(l), calLoad[l].at # "idle",
           save' = save
    PROVE  SaveInv'
<1>1. /\ calLoad'[l].at = "idle" /\ calLoading' = FALSE
      /\ \A m \in Calendar!Causes : m # l => calLoad'[m] = calLoad[m]
      /\ calSaving' <=> calSaving /\ l # "save"
  BY LoadEndsFacts
<1>2. "save" \in Calendar!Causes
  BY DEF Calendar!Causes
<1>3. CASE l = "save"
  BY <1>1, <1>3 DEF CalBase, SaveInv, Calendar!SpinnerHasCause, Loading
<1>4. CASE l # "save"
  BY <1>1, <1>2, <1>4 DEF CalBase, SaveInv, Calendar!SpinnerHasCause, Loading
<1> QED BY <1>3, <1>4

LEMMA LoadFailsInv ==
    ASSUME CalBase, NEW l \in Calendar!Causes, Calendar!LoadFails(l)
    PROVE  CalBase'
<1>1. /\ UNCHANGED <<server, now, calProject, calSaved, shown, dueTimer, selectedDate, editing,
                     drafts, save, begun, calChosen, cut>>
      /\ disturbed' = TRUE /\ Calendar!LoadEnds(l) /\ calLoad[l].at # "idle"
      /\ {unsettled', strayed'} \subseteq BOOLEAN
  BY DEF Calendar!LoadFails, Calendar!source
<1>2. CalTypes'
  <2>1. Calendar!TypeOK'
    BY <1>1, LoadEndsFacts DEF CalBase, CalTypes, Calendar!TypeOK
  <2> QED BY <1>1, <2>1, LoadEndsFacts DEF CalBase, CalTypes
<1>3. KnownInv' /\ (~cut' => FreshInv')
  BY <1>1, LoadEndsFacts, KnownKept, FreshKept DEF CalBase
<1>4. SaveInv'
  BY <1>1, EndedSaveInv
<1> QED BY <1>1, <1>2, <1>3, <1>4 DEF CalBase

LEMMA CalendarLandsInv ==
    ASSUME CalBase, NEW l \in Calendar!Causes, Calendar!CalendarLands(l)
    PROVE  CalBase'
<1> DEFINE p == calLoad[l].of
<1>1. /\ UNCHANGED <<server, now, calProject, calSaved, dueTimer, selectedDate, editing,
                     drafts, save, begun, calChosen, disturbed, unsettled, strayed, cut>>
      /\ shown' = Calendar!Listed(p) /\ Calendar!LoadEnds(l) /\ calLoad[l].at = "calendar"
  BY DEF Calendar!CalendarLands, Calendar!source, Calendar!history, Calendar!doubts
<1>2. p \in Projects
  BY <1>1 DEF CalBase, CalTypes
<1> HIDE DEF p
<1>3. /\ shown' \in [Posts -> Calendar!Post \cup {Calendar!NoPost}]
      /\ \A t \in Posts : Seen(shown'[t]) => Live(server[t]) /\ shown'[t] = server[t] /\ server[t].home = p
  BY <1>1, PostFacts DEF CalBase, Calendar!Listed, Seen, Live
<1>4. CalTypes'
  <2>1. Calendar!TypeOK'
    BY <1>1, <1>3, LoadEndsFacts DEF CalBase, CalTypes, Calendar!TypeOK
  <2> QED BY <1>1, <2>1, LoadEndsFacts DEF CalBase, CalTypes
<1>5. KnownInv'
  <2>1. calLoading' = FALSE
    BY <1>1, LoadEndsFacts
  <2> QED BY <1>1, <1>3, <2>1 DEF CalBase, KnownInv, Live, Calendar!Open
<1>6. SaveInv'
  BY <1>1, EndedSaveInv
<1>7. ASSUME ~cut' PROVE FreshInv'
  <2>1. FreshInv
    BY <1>1, <1>7 DEF CalBase
  <2>2. \A c, e : Fresh(server, shown, c, e) => Fresh(server', shown', c, e)
    BY <1>1, <1>3 DEF Fresh, Live
  <2>3. \A t \in Posts : Live(server'[t]) => Fresh(server', shown', server'[t].content, t)
    BY <1>1, <2>1, <2>2 DEF FreshInv, Live
  <2>4. \A t \in Posts : Seen(shown'[t]) => Fresh(server', shown', shown'[t].content, t)
    BY <1>3, <2>1, <2>2 DEF FreshInv
  <2>5. \A i \in DOMAIN save'.todo :
           /\ Fresh(server', shown', save'.todo[i], save'.editing)
           /\ \A j \in DOMAIN save'.todo : save'.todo[i] = save'.todo[j] => i = j
    BY <1>1, <2>1, <2>2 DEF FreshInv
  <2>6. DOMAIN save'.todo = {} =>
          \A i \in DOMAIN drafts' : drafts'[i].content # None =>
             /\ Fresh(server', shown', drafts'[i].content, editing')
             /\ \A j \in DOMAIN drafts' : drafts'[i].content = drafts'[j].content => i = j
    BY <1>1, <2>1, <2>2 DEF FreshInv
  <2> QED BY <2>3, <2>4, <2>5, <2>6 DEF FreshInv
<1>8. ASSUME ~disturbed' PROVE LoadInv' /\ ProperInv'
  <2>1. LoadInv /\ ProperInv
    BY <1>1, <1>8 DEF CalBase
  <2>2. p = calProject /\ calProject # None
    BY <1>1, <1>2, <2>1, CalendarBounds DEF p, LoadInv, Calendar!CalendarAssumption
  <2>3. \A m \in Calendar!Causes : calLoad'[m].at = "idle"
    <3>1. calLoad'[l].at = "idle" /\ \A m \in Calendar!Causes : m # l => calLoad'[m] = calLoad[m]
      BY <1>1, LoadEndsFacts
    <3>2. \A m \in Calendar!Causes : m # l => calLoad[m].at = "idle"
      BY <1>1, <2>1 DEF LoadInv, Loading
    <3> QED BY <3>1, <3>2
  <2>4. "select" \in Calendar!Causes
    BY DEF Calendar!Causes
  <2>5. calChosen = calProject
    <3>1. calLoad["select"].at # "projects"
      BY <1>1, <2>1, <2>4 DEF LoadInv, Loading
    <3> QED BY <2>1, <3>1 DEF LoadInv
  <2>6. LoadInv'
    BY <1>1, <1>3, <2>1, <2>2, <2>3, <2>4, <2>5 DEF LoadInv, Loading
  <2>7. ProperInv'
    BY <1>1, <1>3, <2>1 DEF ProperInv, Live, Calendar!Open
  <2> QED BY <2>6, <2>7
<1> QED BY <1>4, <1>5, <1>6, <1>7, <1>8 DEF CalBase

\* A row leaves the dialog, and those after it move up.
LEMMA RowRemoved ==
    ASSUME NEW S, NEW s \in Seq(S), NEW i \in 1 .. Len(s)
    PROVE  LET r == SubSeq(s, 1, i - 1) \o SubSeq(s, i + 1, Len(s))
           IN  /\ r \in Seq(S) /\ Len(r) = Len(s) - 1
               /\ \A j \in 1 .. Len(r) : r[j] = s[IF j < i THEN j ELSE j + 1]
<1> DEFINE a == SubSeq(s, 1, i - 1)
           b == SubSeq(s, i + 1, Len(s))
<1>1. a \in Seq(S) /\ Len(a) = i - 1 /\ \A j \in 1 .. i - 1 : a[j] = s[j]
  OBVIOUS
<1>2. b \in Seq(S) /\ Len(b) = Len(s) - i /\ \A j \in 1 .. Len(s) - i : b[j] = s[i + j]
  OBVIOUS
<1> HIDE DEF a, b
<1>3. a \o b \in Seq(S) /\ Len(a \o b) = Len(s) - 1
  <2>1. a \o b \in Seq(S) /\ Len(a \o b) = Len(a) + Len(b)
    BY <1>1, <1>2, ConcatProperties
  <2>2. Len(s) \in Nat
    OBVIOUS
  <2> QED BY <1>1, <1>2, <2>1, <2>2
<1>4. \A j \in 1 .. Len(s) - 1 : (a \o b)[j] = s[IF j < i THEN j ELSE j + 1]
  <2> TAKE j \in 1 .. Len(s) - 1
  <2>1. (a \o b)[j] = IF j <= Len(a) THEN a[j] ELSE b[j - Len(a)]
    BY <1>1, <1>2
  <2> QED BY <1>1, <1>2, <2>1
<1> QED BY <1>3, <1>4 DEF a, b

\* What the user does in the dialog disturbs neither the posts nor the loads.
LEMMA DialogInv ==
    ASSUME CalBase,
           UNCHANGED <<server, now, calProject, calSaved, shown, calLoading, calLoad, dueTimer,
                       calSaving, save, calChosen, disturbed, unsettled, strayed, cut>>,
           begun' \in 0 .. MaxBegun, selectedDate' \in Calendar!Dates \cup {0},
           editing' \in Posts \cup {None},
           drafts' \in Seq(Calendar!ScheduledDraft), Len(drafts') \in 1 .. MaxDrafts,
           editing' # None => selectedDate' # 0 /\ server[editing'] # Calendar!NoPost,
           selectedDate' # 0 => ~calLoading,
           ~cut /\ DOMAIN save.todo = {} =>
              \A i \in DOMAIN drafts' : drafts'[i].content # None =>
                 /\ Fresh(server, shown, drafts'[i].content, editing')
                 /\ \A j \in DOMAIN drafts' : drafts'[i].content = drafts'[j].content => i = j,
           ~disturbed /\ selectedDate' # 0 =>
              /\ \A i \in DOMAIN drafts' :
                    drafts'[i].platform = Calendar!getProjectPlatform(calProject)
              /\ editing' # None /\ Live(server[editing']) => server[editing'].home = calProject
    PROVE  CalBase'
<1>1. CalTypes'
  <2>1. \A i \in DOMAIN drafts' : drafts'[i] \in Calendar!ScheduledDraft
    OBVIOUS
  <2>2. Calendar!TypeOK'
    BY <2>1 DEF CalBase, CalTypes, Calendar!TypeOK
  <2> QED BY <2>2 DEF CalBase, CalTypes
<1>2. KnownInv'
  BY DEF CalBase, KnownInv, Calendar!Open
<1>3. SaveInv'
  BY DEF CalBase, SaveInv, Calendar!SpinnerHasCause, Calendar!InFlight, Loading
<1>4. ~cut' => FreshInv'
  BY DEF CalBase, FreshInv
<1>5. ~disturbed' => LoadInv'
  BY LoadKept DEF CalBase
<1>6. ~disturbed' => ProperInv'
  BY DEF CalBase, ProperInv, Calendar!Open
<1> QED BY <1>1, <1>2, <1>3, <1>4, <1>5, <1>6 DEF CalBase

LEMMA BlankRow ==
    ASSUME NEW w \in {"instagram", "facebook", "other"}
    PROVE  /\ Calendar!Blank(w) \in Calendar!ScheduledDraft
           /\ Calendar!Blank(w).content = None /\ Calendar!Blank(w).platform = w
           /\ <<Calendar!Blank(w)>> \in Seq(Calendar!ScheduledDraft)
           /\ Len(<<Calendar!Blank(w)>>) = 1
BY DEF Calendar!Blank, Calendar!ScheduledDraft, Calendar!Platforms

LEMMA PlatformFacts ==
    ASSUME CalTypes
    PROVE  Calendar!getProjectPlatform(calProject) \in {"instagram", "facebook", "other"}
BY CalendarBounds
   DEF CalTypes, Calendar!TypeOK, Calendar!getProjectPlatform, Calendar!CalendarAssumption

LEMMA OpenCloseInv ==
    ASSUME CalBase,
           \/ \E date \in Calendar!Dates : Calendar!openScheduler(date)
           \/ Calendar!CloseDialog
    PROVE  CalBase'
<1>1. /\ UNCHANGED <<server, now, calProject, calSaved, shown, calLoading, calLoad, dueTimer,
                     calSaving, save, calChosen, disturbed, unsettled, strayed, cut>>
      /\ begun' = begun \/ (begun < MaxBegun /\ begun' = begun + 1)
      /\ selectedDate' \in Calendar!Dates \cup {0} /\ editing' = None /\ ~calLoading
  BY DEF Calendar!openScheduler, Calendar!CloseDialog, Calendar!source, Calendar!view,
         Calendar!history, Calendar!doubts, Calendar!Begin, Calendar!Schedulable
<1>2. PICK w \in {"instagram", "facebook", "other"} :
         /\ drafts' = <<Calendar!Blank(w)>>
         /\ selectedDate' # 0 => w = Calendar!getProjectPlatform(calProject)
  BY PlatformFacts DEF Calendar!openScheduler, Calendar!CloseDialog, CalBase
<1>3. begun' \in 0 .. MaxBegun
  BY <1>1, CalendarBounds DEF CalBase, CalTypes, Calendar!TypeOK, Calendar!CalendarAssumption
<1>4. /\ drafts' \in Seq(Calendar!ScheduledDraft) /\ Len(drafts') \in 1 .. MaxDrafts
      /\ \A i \in DOMAIN drafts' : drafts'[i].content = None /\ drafts'[i].platform = w
  BY <1>2, BlankRow, CalendarBounds DEF Calendar!CalendarAssumption
<1> QED BY <1>1, <1>2, <1>3, <1>4, DialogInv

LEMMA EditInv ==
    ASSUME CalBase, NEW t \in Posts, Calendar!openEditTask(t)
    PROVE  CalBase'
<1>1. /\ UNCHANGED <<server, now, calProject, calSaved, shown, calLoading, calLoad, dueTimer,
                     calSaving, save, calChosen, disturbed, unsettled, strayed, cut>>
      /\ begun < MaxBegun /\ begun' = begun + 1
      /\ editing' = t /\ selectedDate' = shown[t].due
      /\ drafts' = <<[content |-> shown[t].content,
                      platform |-> Calendar!getProjectPlatform(calProject)]>>
      /\ ~calLoading /\ Seen(shown[t])
  BY DEF Calendar!openEditTask, Calendar!source, Calendar!view, Calendar!history,
         Calendar!doubts, Calendar!Begin,
         Calendar!Buttons, Seen
<1>2. shown[t].due \in Calendar!Dates /\ shown[t].content \in Contents
  BY <1>1, PostFacts DEF CalBase, Calendar!Post
<1>3. begun' \in 0 .. MaxBegun /\ selectedDate' # 0
  BY <1>1, <1>2, CalendarBounds
     DEF CalBase, CalTypes, Calendar!TypeOK, Calendar!CalendarAssumption, Calendar!Dates
<1>4. /\ drafts' \in Seq(Calendar!ScheduledDraft) /\ Len(drafts') \in 1 .. MaxDrafts
      /\ \A i \in DOMAIN drafts' :
            /\ i = 1 /\ drafts'[i].content = shown[t].content
            /\ drafts'[i].platform = Calendar!getProjectPlatform(calProject)
  <2>1. [content |-> shown[t].content, platform |-> Calendar!getProjectPlatform(calProject)]
        \in Calendar!ScheduledDraft
    BY <1>2, PlatformFacts DEF CalBase, Calendar!ScheduledDraft, Calendar!Platforms
  <2> QED BY <1>1, <2>1, CalendarBounds DEF Calendar!CalendarAssumption
<1>5. /\ server[t] # Calendar!NoPost
      /\ ~cut => Fresh(server, shown, shown[t].content, t)
      /\ ~disturbed /\ Live(server[t]) => server[t].home = calProject
  BY <1>1 DEF CalBase, KnownInv, FreshInv, LoadInv
<1> QED BY <1>1, <1>2, <1>3, <1>4, <1>5, DialogInv

LEMMA RowsInv ==
    ASSUME CalBase,
           \/ Calendar!addDraftRow
           \/ \E i \in DOMAIN drafts :
                 Calendar!removeDraftRow(i) \/ \E c \in Contents : Calendar!updateDraft(i, c)
    PROVE  CalBase'
<1>1. /\ UNCHANGED <<server, now, calProject, calSaved, shown, calLoading, calLoad, dueTimer,
                     calSaving, save, calChosen, disturbed, unsettled, strayed, cut, begun,
                     selectedDate, editing>>
      /\ Calendar!Open
  BY DEF Calendar!addDraftRow, Calendar!removeDraftRow, Calendar!updateDraft, Calendar!source,
         Calendar!view, Calendar!history, Calendar!doubts, Calendar!RowControls
<1>2. /\ drafts \in Seq(Calendar!ScheduledDraft) /\ Len(drafts) \in 1 .. MaxDrafts
      /\ DOMAIN drafts = 1 .. Len(drafts)
      /\ \A j \in 1 .. Len(drafts) : drafts[j] \in Calendar!ScheduledDraft
  BY DEF CalBase, CalTypes, Calendar!TypeOK
<1>3. /\ begun \in 0 .. MaxBegun /\ selectedDate \in Calendar!Dates \cup {0}
      /\ editing \in Posts \cup {None}
      /\ editing # None => selectedDate # 0 /\ server[editing] # Calendar!NoPost
      /\ selectedDate # 0 => ~calLoading
  BY DEF CalBase, CalTypes, Calendar!TypeOK, KnownInv, Calendar!Open
<1> DEFINE Alone(ds) == \A i \in DOMAIN ds : ds[i].content # None =>
                           /\ Fresh(server, shown, ds[i].content, editing)
                           /\ \A j \in DOMAIN ds : ds[i].content = ds[j].content => i = j
           Fit(ds) == \A i \in DOMAIN ds : ds[i].platform = Calendar!getProjectPlatform(calProject)
<1>4. /\ ~cut /\ DOMAIN save.todo = {} => Alone(drafts)
      /\ ~disturbed => Fit(drafts) /\ (editing # None /\ Live(server[editing]) =>
                                          server[editing].home = calProject)
  BY <1>1 DEF CalBase, FreshInv, ProperInv
<1> SUFFICES /\ drafts' \in Seq(Calendar!ScheduledDraft) /\ Len(drafts') \in 1 .. MaxDrafts
             /\ Alone(drafts) => Alone(drafts')
             /\ Fit(drafts) => Fit(drafts')
  <2>1. ~cut /\ DOMAIN save.todo = {} => Alone(drafts')
    BY <1>4
  <2>2. ~disturbed => Fit(drafts')
    BY <1>4
  <2> QED BY <1>1, <1>3, <1>4, <2>1, <2>2, DialogInv
<1>5. CASE Calendar!addDraftRow
  <2> DEFINE w == Calendar!getProjectPlatform(calProject)
  <2>1. w \in {"instagram", "facebook", "other"}
    BY PlatformFacts DEF CalBase
  <2>2. drafts' = Append(drafts, Calendar!Blank(w)) /\ Len(drafts) < MaxDrafts
    BY <1>5 DEF Calendar!addDraftRow
  <2>3. /\ Calendar!Blank(w) \in Calendar!ScheduledDraft
        /\ Calendar!Blank(w).content = None /\ Calendar!Blank(w).platform = w
    BY <2>1, BlankRow
  <2> HIDE DEF w
  <2>4. /\ drafts' \in Seq(Calendar!ScheduledDraft) /\ Len(drafts') = Len(drafts) + 1
        /\ DOMAIN drafts' = 1 .. Len(drafts) + 1
        /\ \A j \in 1 .. Len(drafts) : drafts'[j] = drafts[j]
        /\ drafts'[Len(drafts) + 1] = Calendar!Blank(w)
    BY <1>2, <2>2, <2>3
  <2>5. Len(drafts') \in 1 .. MaxDrafts
    BY <1>2, <2>2, <2>4, CalendarBounds DEF Calendar!CalendarAssumption
  <2>6. \A j \in DOMAIN drafts' : \/ j \in DOMAIN drafts /\ drafts'[j] = drafts[j]
                                  \/ drafts'[j] = Calendar!Blank(w)
    BY <1>2, <2>4
  <2>7. Alone(drafts) => Alone(drafts')
    BY <2>3, <2>6
  <2>8. Fit(drafts) => Fit(drafts')
    BY <2>3, <2>6 DEF w
  <2> QED BY <2>4, <2>5, <2>7, <2>8
<1>6. ASSUME NEW i \in DOMAIN drafts, Calendar!removeDraftRow(i)
      PROVE  /\ drafts' \in Seq(Calendar!ScheduledDraft) /\ Len(drafts') \in 1 .. MaxDrafts
             /\ Alone(drafts) => Alone(drafts')
             /\ Fit(drafts) => Fit(drafts')
  <2>1. /\ drafts' = SubSeq(drafts, 1, i - 1) \o SubSeq(drafts, i + 1, Len(drafts))
        /\ Len(drafts) > 1
    BY <1>6 DEF Calendar!removeDraftRow, Calendar!RowControls
  <2>2. /\ drafts' \in Seq(Calendar!ScheduledDraft) /\ Len(drafts') = Len(drafts) - 1
        /\ \A j \in 1 .. Len(drafts') : drafts'[j] = drafts[IF j < i THEN j ELSE j + 1]
    <3>1. i \in 1 .. Len(drafts)
      BY <1>2
    <3> DEFINE r == SubSeq(drafts, 1, i - 1) \o SubSeq(drafts, i + 1, Len(drafts))
    <3>2. /\ r \in Seq(Calendar!ScheduledDraft) /\ Len(r) = Len(drafts) - 1
          /\ \A j \in 1 .. Len(r) : r[j] = drafts[IF j < i THEN j ELSE j + 1]
      BY <1>2, <3>1, RowRemoved
    <3>3. drafts' = r
      BY <2>1
    <3> HIDE DEF r
    <3> QED BY <3>2, <3>3
  <2>3. Len(drafts') \in 1 .. MaxDrafts /\ DOMAIN drafts' = 1 .. Len(drafts) - 1
    BY <1>2, <2>1, <2>2, CalendarBounds DEF Calendar!CalendarAssumption
  <2> DEFINE o(j) == IF j < i THEN j ELSE j + 1
  <2>4. \A j \in DOMAIN drafts' : o(j) \in DOMAIN drafts /\ drafts'[j] = drafts[o(j)]
    BY <1>2, <2>2, <2>3
  <2>5. \A j, k \in DOMAIN drafts' : o(j) = o(k) => j = k
    BY <1>2, <2>3
  <2> HIDE DEF o
  <2>6. Alone(drafts) => Alone(drafts')
    BY <2>4, <2>5
  <2>7. Fit(drafts) => Fit(drafts')
    BY <2>4
  <2> QED BY <2>2, <2>3, <2>6, <2>7
<1>7. ASSUME NEW i \in DOMAIN drafts, NEW c \in Contents, Calendar!updateDraft(i, c)
      PROVE  /\ drafts' \in Seq(Calendar!ScheduledDraft) /\ Len(drafts') \in 1 .. MaxDrafts
             /\ Alone(drafts) => Alone(drafts')
             /\ Fit(drafts) => Fit(drafts')
  <2>1. drafts' = [drafts EXCEPT ![i].content = c] /\ c \notin Calendar!InUse
    BY <1>7 DEF Calendar!updateDraft
  <2>2. \A d \in Calendar!ScheduledDraft : LET e == [d EXCEPT !.content = c] IN
           e \in Calendar!ScheduledDraft /\ e.content = c /\ e.platform = d.platform
    BY DEF Calendar!ScheduledDraft
  <2>3. /\ drafts' \in Seq(Calendar!ScheduledDraft) /\ Len(drafts') = Len(drafts)
        /\ DOMAIN drafts' = DOMAIN drafts
        /\ drafts'[i].content = c /\ drafts'[i].platform = drafts[i].platform
        /\ \A j \in DOMAIN drafts : j # i => drafts'[j] = drafts[j]
    BY <1>2, <2>1, <2>2
  <2>4. /\ \A j \in DOMAIN drafts : drafts[j].content # c
        /\ Fresh(server, shown, c, editing)
    BY <2>1 DEF Calendar!InUse, Fresh, Live, Seen
  <2>5. Alone(drafts) => Alone(drafts')
    BY <2>3, <2>4
  <2>6. Fit(drafts) => Fit(drafts')
    BY <2>3
  <2> QED BY <1>2, <2>3, <2>5, <2>6
<1> QED BY <1>5, <1>6, <1>7

\* Schedule Content: the rows that are filled in are on their way.
LEMMA SubmitRowsInv ==
    ASSUME CalBase, Calendar!saveScheduledContent
    PROVE  CalBase'
<1> DEFINE valid == Calendar!ValidDrafts
<1>1. /\ UNCHANGED <<server, now, calProject, calSaved, shown, calLoading, calLoad, dueTimer,
                     selectedDate, editing, drafts, begun, calChosen,
                     disturbed, unsettled, strayed, cut>>
      /\ calProject \in Projects /\ selectedDate \in Calendar!Dates /\ Calendar!Open
      /\ calSaving = FALSE /\ calSaving' = TRUE
      /\ save' = [todo |-> [i \in valid |-> drafts[i].content],
                  project |-> calProject, editing |-> editing, date |-> selectedDate]
      /\ valid # {}
      /\ \A i \in valid : drafts[i].platform = "facebook" => drafts[i].content \notin PhotoStories
  BY DEF Calendar!saveScheduledContent, Calendar!Sendable, Calendar!source, Calendar!view,
         Calendar!history, Calendar!doubts, CalBase, CalTypes, Calendar!TypeOK, Calendar!Open
<1>2. /\ valid \subseteq DOMAIN drafts /\ valid \subseteq 1 .. MaxDrafts
      /\ \A i \in valid : drafts[i].content \in Contents /\ drafts[i].content # None
  <2>1. /\ drafts \in Seq(Calendar!ScheduledDraft) /\ Len(drafts) \in 1 .. MaxDrafts
        /\ \A j \in DOMAIN drafts : drafts[j] \in Calendar!ScheduledDraft
    BY DEF CalBase, CalTypes, Calendar!TypeOK
  <2>2. valid \subseteq DOMAIN drafts /\ \A i \in valid : drafts[i].content # None
    BY DEF Calendar!ValidDrafts
  <2>3. \A i \in valid : drafts[i].content \in Contents
    BY <2>1, <2>2 DEF Calendar!ScheduledDraft
  <2>4. DOMAIN drafts \subseteq 1 .. MaxDrafts
    BY <2>1, CalendarBounds DEF Calendar!CalendarAssumption
  <2> QED BY <2>2, <2>3, <2>4
<1> HIDE DEF valid
<1>3. /\ save'.todo \in [valid -> Contents] /\ save'.todo \in RowsLeft
      /\ save'.project = calProject /\ save'.editing = editing /\ save'.date = selectedDate
      /\ DOMAIN save'.todo = valid /\ \A i \in valid : save'.todo[i] = drafts[i].content
  <2>1. [i \in valid |-> drafts[i].content] \in [valid -> Contents]
    BY <1>2
  <2> QED BY <1>1, <1>2, <2>1 DEF RowsLeft
<1>4. /\ editing \in Posts \cup {None}
      /\ save' \in [todo : RowsLeft, project : Projects \cup {None},
                    editing : Posts \cup {None}, date : Calendar!Dates]
  <2>1. editing \in Posts \cup {None}
    BY DEF CalBase, CalTypes, Calendar!TypeOK
  <2>2. [i \in valid |-> drafts[i].content] \in RowsLeft
    BY <1>1, <1>3
  <2> QED BY <1>1, <2>1, <2>2
<1>5. CalTypes'
  <2>1. \A i \in DOMAIN save'.todo : save'.todo[i] \in Contents
    BY <1>2, <1>3
  <2>2. Calendar!TypeOK'
    BY <1>1, <1>2, <1>3, <1>4, <2>1 DEF CalBase, CalTypes, Calendar!TypeOK
  <2> QED BY <1>1, <1>4, <2>2 DEF CalBase, CalTypes
<1>6. KnownInv'
  BY <1>1, <1>3 DEF CalBase, KnownInv, Calendar!Open
<1>7. DOMAIN save.todo = {} /\ ~Loading("save")
  BY <1>1 DEF CalBase, SaveInv
<1>8. SaveInv'
  BY <1>1, <1>3, <1>7 DEF CalBase, SaveInv, Calendar!SpinnerHasCause, Calendar!InFlight, Loading
<1>9. ~cut' => FreshInv'
  BY <1>1, <1>2, <1>3, <1>7 DEF CalBase, FreshInv
<1>10. ~disturbed' => LoadInv'
  BY <1>1, LoadKept DEF CalBase
<1>11. ASSUME ~disturbed' PROVE ProperInv'
  <2>1. ProperInv
    BY <1>1, <1>11 DEF CalBase
  <2>2. \A i \in valid : drafts[i].platform = PlatformOf[calProject]
    BY <1>1, <1>2, <2>1, CalendarBounds
       DEF ProperInv, Calendar!getProjectPlatform, Calendar!CalendarAssumption
  <2>3. PlatformOf[save'.project] = "facebook" =>
           \A i \in DOMAIN save'.todo : save'.todo[i] \notin PhotoStories
    BY <1>1, <1>3, <2>2
  <2>4. save'.editing # None /\ Live(server'[save'.editing]) =>
           server'[save'.editing].home = save'.project
    BY <1>1, <1>3, <2>1 DEF ProperInv
  <2> QED BY <1>1, <2>1, <2>3, <2>4 DEF ProperInv, Calendar!Open
<1> QED BY <1>5, <1>6, <1>8, <1>9, <1>10, <1>11 DEF CalBase

\* The API takes, deletes or publishes post t, which is v from then on.
Becomes(t, v) ==
    /\ v \in Calendar!Post \cup {Calendar!Deleted}
    /\ server' = [server EXCEPT ![t] = v]
    /\ Live(v) => \/ server[t] = Calendar!NoPost
                  \/ Live(server[t]) /\ v.home = server[t].home
    /\ ~cut /\ Live(v) => Fresh(server, shown, v.content, t)
    /\ ~disturbed /\ Live(v) => Calendar!Proper(v)

LEMMA BecomesFacts ==
    ASSUME CalBase, NEW t \in Posts, NEW v, Becomes(t, v), shown' = shown
    PROVE  /\ server' \in [Posts -> Calendar!Post \cup {Calendar!NoPost, Calendar!Deleted}]
           /\ \A u \in Posts : server[u] # Calendar!NoPost =>
                 /\ server'[u] # Calendar!NoPost
                 /\ Live(server'[u]) => Live(server[u]) /\ server'[u].home = server[u].home
           /\ ~cut =>
                 /\ \A u \in Posts :
                       /\ Live(server'[u]) => Fresh(server', shown', server'[u].content, u)
                       /\ Seen(shown'[u]) => Fresh(server', shown', shown'[u].content, u)
                 /\ \A c, e : Fresh(server, shown, c, e) /\ (e # t /\ Live(v) => v.content # c)
                       => Fresh(server', shown', c, e)
           /\ ~disturbed =>
                 /\ \A u \in Posts : Live(server'[u]) => Calendar!Proper(server'[u])
                 /\ \A u \in Posts : Seen(shown'[u]) => Calendar!Proper(shown'[u])
<1>1. /\ server' \in [Posts -> Calendar!Post \cup {Calendar!NoPost, Calendar!Deleted}]
      /\ server'[t] = v /\ \A u \in Posts : u # t => server'[u] = server[u]
  BY DEF CalBase, CalTypes, Calendar!TypeOK, Becomes
<1>2. v # Calendar!NoPost
  BY PostFacts DEF CalBase, Becomes, Calendar!Deleted, Calendar!NoPost
<1>3. \A u \in Posts : server[u] # Calendar!NoPost =>
         /\ server'[u] # Calendar!NoPost
         /\ Live(server'[u]) => Live(server[u]) /\ server'[u].home = server[u].home
  BY <1>1, <1>2 DEF Becomes
<1>4. ASSUME ~cut
      PROVE  /\ \A u \in Posts :
                   /\ Live(server'[u]) => Fresh(server', shown', server'[u].content, u)
                   /\ Seen(shown'[u]) => Fresh(server', shown', shown'[u].content, u)
             /\ \A c, e : Fresh(server, shown, c, e) /\ (e # t /\ Live(v) => v.content # c)
                   => Fresh(server', shown', c, e)
  <2>1. FreshInv
    BY <1>4 DEF CalBase
  <2>2. \A c, e : Fresh(server, shown, c, e) /\ (e # t /\ Live(v) => v.content # c)
           => Fresh(server', shown', c, e)
    BY <1>1 DEF Fresh
  <2>3. Live(v) => Fresh(server, shown, v.content, t)
    BY <1>4 DEF Becomes
  <2>4. ASSUME NEW u \in Posts, Live(server'[u])
        PROVE  Fresh(server', shown', server'[u].content, u)
    <3>1. CASE u = t
      BY <1>1, <2>2, <2>3, <2>4, <3>1
    <3>2. CASE u # t
      <4>1. server'[u] = server[u]
        BY <1>1, <3>2
      <4>2. Live(v) => v.content # server[u].content
        BY <2>3, <2>4, <3>2, <4>1 DEF Fresh
      <4>3. Fresh(server, shown, server[u].content, u)
        BY <2>1, <2>4, <4>1 DEF FreshInv
      <4> QED BY <2>2, <4>1, <4>2, <4>3
    <3> QED BY <3>1, <3>2
  <2>5. ASSUME NEW u \in Posts, Seen(shown'[u])
        PROVE  Fresh(server', shown', shown'[u].content, u)
    <3>1. Fresh(server, shown, shown[u].content, u)
      BY <2>1, <2>5 DEF FreshInv
    <3>2. u # t /\ Live(v) => v.content # shown[u].content
      BY <2>3, <2>5 DEF Fresh
    <3> QED BY <2>2, <3>1, <3>2
  <2> QED BY <2>2, <2>4, <2>5
<1>5. ~disturbed =>
         /\ \A u \in Posts : Live(server'[u]) => Calendar!Proper(server'[u])
         /\ \A u \in Posts : Seen(shown'[u]) => Calendar!Proper(shown'[u])
  BY <1>1 DEF CalBase, ProperInv, Becomes
<1> QED BY <1>1, <1>3, <1>4, <1>5

\* A post becomes another one, but of its own, or shown, content, or goes.
LEMMA BecomesInv ==
    ASSUME CalBase, NEW t \in Posts, NEW v, Becomes(t, v),
           Live(v) => \/ Live(server[t]) /\ v.content = server[t].content
                      \/ Seen(shown[t]) /\ v.content = shown[t].content,
           UNCHANGED <<calProject, shown, calLoading, selectedDate, editing, drafts, save, cut>>,
           ~disturbed' => ~disturbed
    PROVE  KnownInv' /\ (~cut' => FreshInv') /\ (~disturbed' => ProperInv')
<1>1. KnownInv'
  <2>1. \A u \in Posts : Seen(shown[u]) => server[u] # Calendar!NoPost
    BY DEF CalBase, KnownInv
  <2>2. editing \in Posts \cup {None} /\ save.editing \in Posts \cup {None}
    BY DEF CalBase, CalTypes, Calendar!TypeOK
  <2> QED BY <2>1, <2>2, BecomesFacts DEF CalBase, KnownInv, Calendar!Open
<1>2. ASSUME ~cut' PROVE FreshInv'
  <2>1. FreshInv
    BY <1>2 DEF CalBase
  <2>2. \A c, e : Fresh(server, shown, c, e) => (e # t /\ Live(v) => v.content # c)
    BY DEF Fresh
  <2>3. \A c, e : Fresh(server, shown, c, e) => Fresh(server', shown', c, e)
    BY <1>2, <2>2, BecomesFacts
  <2>4. \A u \in Posts :
           /\ Live(server'[u]) => Fresh(server', shown', server'[u].content, u)
           /\ Seen(shown'[u]) => Fresh(server', shown', shown'[u].content, u)
    BY <1>2, BecomesFacts
  <2> QED BY <2>1, <2>3, <2>4 DEF FreshInv
<1>3. ASSUME ~disturbed' PROVE ProperInv'
  <2>1. ProperInv
    BY <1>3 DEF CalBase
  <2>2. \A u \in {editing, save.editing} \ {None} :
           u \in Posts /\ server[u] # Calendar!NoPost
    BY DEF CalBase, CalTypes, Calendar!TypeOK, KnownInv
  <2>3. \A u \in {editing, save.editing} \ {None} :
           Live(server'[u]) => Live(server[u]) /\ server'[u].home = server[u].home
    BY <2>2, BecomesFacts
  <2> QED BY <1>3, <2>1, <2>3, BecomesFacts DEF ProperInv, Calendar!Open
<1> QED BY <1>1, <1>2, <1>3

\* The clock ticks, and the publisher comes by.
LEMMA TickInv ==
    ASSUME CalBase, Calendar!Tick
    PROVE  CalBase'
<1>1. /\ UNCHANGED <<server, calProject, calSaved, shown, calLoading, calLoad, selectedDate,
                     editing, drafts, calSaving, save, begun, calChosen,
                     disturbed, unsettled, strayed, cut>>
      /\ now' = now + 1 /\ now < LastDate /\ dueTimer' \in {dueTimer, calProject}
  BY DEF Calendar!Tick, Calendar!dialog, Calendar!history, Calendar!doubts
<1>2. now' \in Calendar!Dates
  BY <1>1, CalendarBounds
     DEF CalBase, CalTypes, Calendar!TypeOK, Calendar!Dates, Calendar!CalendarAssumption
<1>3. CalTypes'
  <2>1. Calendar!TypeOK'
    BY <1>1, <1>2 DEF CalBase, CalTypes, Calendar!TypeOK
  <2> QED BY <1>1, <2>1 DEF CalBase, CalTypes
<1>4. KnownInv' /\ (~cut' => FreshInv')
  BY <1>1, KnownKept, FreshKept DEF CalBase
<1>5. SaveInv'
  BY <1>1 DEF CalBase, SaveInv, Calendar!SpinnerHasCause, Calendar!InFlight, Loading
<1>6. ~disturbed' => LoadInv' /\ ProperInv'
  BY <1>1, LoadKept, ProperKept DEF CalBase
<1> QED BY <1>3, <1>4, <1>5, <1>6 DEF CalBase

LEMMA PublishInv ==
    ASSUME CalBase, NEW t \in Posts, Calendar!Publish(t)
    PROVE  CalBase'
<1>1. /\ UNCHANGED <<now, calProject, calSaved, shown, calLoading, calLoad, dueTimer,
                     selectedDate, editing, drafts, calSaving, save, begun, calChosen,
                     disturbed, unsettled, strayed,
                     cut>>
      /\ server[t].status = "scheduled"
  BY DEF Calendar!Publish, Calendar!view, Calendar!dialog, Calendar!history, Calendar!doubts
<1>2. PICK s \in {"published", "failed"} : server' = [server EXCEPT ![t].status = s]
  BY DEF Calendar!Publish
<1>3. server[t] \in Calendar!Post /\ Live(server[t])
  <2>1. server[t] \in Calendar!Post \cup {Calendar!NoPost, Calendar!Deleted}
    BY DEF CalBase, CalTypes, Calendar!TypeOK
  <2>2. server[t] # Calendar!NoPost /\ server[t] # Calendar!Deleted
    BY <1>1 DEF Calendar!NoPost, Calendar!Deleted
  <2> QED BY <2>1, <2>2 DEF Live
<1> DEFINE v == [server[t] EXCEPT !.status = s]
<1>4. /\ v \in Calendar!Post /\ server' = [server EXCEPT ![t] = v]
      /\ v.home = server[t].home /\ v.content = server[t].content
      /\ v.platform = server[t].platform
  <2>1. \A p \in Calendar!Post : LET q == [p EXCEPT !.status = s] IN
           /\ q \in Calendar!Post /\ q.home = p.home /\ q.content = p.content
           /\ q.platform = p.platform
    BY DEF Calendar!Post, Calendar!Statuses
  <2> QED BY <1>2, <1>3, <2>1
<1> HIDE DEF v
<1>5. Becomes(t, v)
  <2>1. ~cut => Fresh(server, shown, v.content, t)
    BY <1>3, <1>4 DEF CalBase, FreshInv
  <2>2. ~disturbed => Calendar!Proper(v)
    BY <1>3, <1>4 DEF CalBase, ProperInv, Calendar!Proper
  <2> QED BY <1>3, <1>4, <2>1, <2>2 DEF Becomes
<1>6. KnownInv' /\ (~cut' => FreshInv') /\ (~disturbed' => ProperInv')
  BY <1>1, <1>3, <1>4, <1>5, BecomesInv
<1>7. CalTypes'
  <2>1. Calendar!TypeOK'
    BY <1>1, <1>5, BecomesFacts DEF CalBase, CalTypes, Calendar!TypeOK
  <2> QED BY <1>1, <2>1 DEF CalBase, CalTypes
<1>8. SaveInv' /\ (~disturbed' => LoadInv')
  BY <1>1, LoadKept DEF CalBase, SaveInv, Calendar!SpinnerHasCause, Calendar!InFlight, Loading
<1> QED BY <1>6, <1>7, <1>8 DEF CalBase

\* Delete and Retry: the post changes, and the page loads again.
LEMMA ActInv ==
    ASSUME CalBase, NEW t \in Posts, Calendar!deleteTask(t) \/ Calendar!retryTask(t)
    PROVE  CalBase'
<1>1. /\ UNCHANGED <<now, calProject, calSaved, shown, calLoading, dueTimer, selectedDate,
                     editing, drafts, calSaving, save, calChosen, cut>>
      /\ begun < MaxBegun /\ begun' = begun + 1 /\ Seen(shown[t])
      /\ Calendar!FetchData("act", None)
  BY DEF Calendar!deleteTask, Calendar!retryTask, Calendar!dialog, Calendar!Begin,
         Calendar!Buttons, Seen
<1>2. shown[t] \in Calendar!Post /\ server[t] # Calendar!NoPost
  BY <1>1, PostFacts DEF CalBase, KnownInv
<1>3. PICK v : /\ Becomes(t, v)
               /\ Live(v) => v.content = shown[t].content
  <2>1. CASE Calendar!deleteTask(t)
    <3>1. Becomes(t, Calendar!Deleted) /\ ~Live(Calendar!Deleted)
      BY <2>1 DEF Calendar!deleteTask, Becomes, Live
    <3> QED BY <3>1
  <2>2. CASE Calendar!retryTask(t)
    <3>1. server[t] \in Calendar!Post /\ Live(server[t])
      BY <1>2, <2>2 DEF Calendar!retryTask, CalBase, CalTypes, Calendar!TypeOK, Live
    <3>2. now + 1 \in Calendar!Dates
      BY <2>2, CalendarBounds
         DEF Calendar!retryTask, CalBase, CalTypes, Calendar!TypeOK, Calendar!Dates,
             Calendar!CalendarAssumption
    <3>3. shown[t].platform \in Calendar!Platforms /\ shown[t].content \in Contents
      BY <1>2 DEF Calendar!Post
    <3> DEFINE a == [server[t] EXCEPT !.status = "scheduled"]
               b == [a EXCEPT !.due = now + 1]
               c == [b EXCEPT !.platform = shown[t].platform]
               v == [c EXCEPT !.content = shown[t].content]
    <3>4. /\ v \in Calendar!Post
          /\ v.home = server[t].home /\ v.platform = shown[t].platform
          /\ v.content = shown[t].content
      <4>1. a \in Calendar!Post /\ a.home = server[t].home
        BY <3>1 DEF Calendar!Post, Calendar!Statuses
      <4> HIDE DEF a
      <4>2. b \in Calendar!Post /\ b.home = server[t].home
        BY <3>2, <4>1 DEF Calendar!Post
      <4> HIDE DEF b
      <4>3. c \in Calendar!Post /\ c.home = server[t].home /\ c.platform = shown[t].platform
        BY <3>3, <4>2 DEF Calendar!Post
      <4> HIDE DEF c
      <4> QED BY <3>3, <4>3 DEF Calendar!Post
    <3>6. server' = [server EXCEPT ![t] = v]
      <4>1. server' = [server EXCEPT ![t].status = "scheduled", ![t].due = now + 1,
                         ![t].platform = shown[t].platform, ![t].content = shown[t].content]
        BY <2>2 DEF Calendar!retryTask
      <4>2. DOMAIN server = Posts
        BY DEF CalBase, CalTypes, Calendar!TypeOK
      <4> QED BY <4>1, <4>2
    <3> HIDE DEF v
    <3>8. ~cut => Fresh(server, shown, v.content, t)
      BY <1>1, <3>4 DEF CalBase, FreshInv
    <3>9. ~disturbed => Calendar!Proper(v)
      <4>1. server[t].home = shown[t].home
        BY <1>1, <3>1 DEF CalBase, KnownInv
      <4> QED BY <1>1, <3>4, <4>1 DEF CalBase, ProperInv, Calendar!Proper
    <3>10. Becomes(t, v)
      BY <3>1, <3>4, <3>6, <3>4, <3>8, <3>9 DEF Becomes
    <3> QED BY <3>4, <3>10
  <2> QED BY <2>1, <2>2
<1>4. /\ ~Loading("act") /\ "act" \in Calendar!Causes
      /\ calLoad' = [calLoad EXCEPT !["act"] = [at |-> "projects", target |-> None, of |-> None]]
      /\ {disturbed', unsettled', strayed'} \subseteq BOOLEAN
  BY <1>1 DEF Calendar!FetchData, Loading, Calendar!Causes
<1>5. ~disturbed' => ~disturbed /\ Calendar!InFlight = {}
  BY <1>1, Zenon DEF Calendar!FetchData, Calendar!Astray
<1>6. /\ calLoad' \in [Calendar!Causes -> Calendar!Loads]
      /\ \A m \in Calendar!Causes : calLoad'[m].at = "calendar" => calLoad'[m].of \in Projects
      /\ calLoad'["act"].at = "projects"
      /\ \A m \in Calendar!Causes : m # "act" => calLoad'[m] = calLoad[m]
      /\ ~disturbed' => LoadInv'
  BY <1>1, <1>4, <1>5, FetchLoads
<1>7. CalTypes'
  <2>1. begun' \in 0 .. MaxBegun
    BY <1>1, CalendarBounds DEF CalBase, CalTypes, Calendar!TypeOK, Calendar!CalendarAssumption
  <2>2. server' \in [Posts -> Calendar!Post \cup {Calendar!NoPost, Calendar!Deleted}]
    BY <1>1, <1>3, BecomesFacts
  <2>3. Calendar!TypeOK'
    BY <1>1, <1>4, <1>6, <2>1, <2>2 DEF CalBase, CalTypes, Calendar!TypeOK
  <2> QED BY <1>1, <1>6, <2>3 DEF CalBase, CalTypes
<1>8. KnownInv' /\ (~cut' => FreshInv') /\ (~disturbed' => ProperInv')
  BY <1>1, <1>3, <1>5, BecomesInv
<1>9. SaveInv'
  <2>1. Calendar!InFlight' # {}
    BY <1>4, <1>6 DEF Calendar!InFlight
  <2>2. Loading("save")' <=> Loading("save")
    BY <1>6 DEF Loading, Calendar!Causes
  <2> QED BY <1>1, <2>1, <2>2 DEF CalBase, SaveInv, Calendar!SpinnerHasCause, Loading
<1> QED BY <1>6, <1>7, <1>8, <1>9 DEF CalBase

\* A set of numbers that is not empty has a least one.
LEMMA FirstOf ==
    ASSUME NEW S, S \subseteq Nat, S # {}
    PROVE  \E i \in S : \A j \in S : i <= j
<1> DEFINE less == OpToRel(<, Nat)
<1>1. IsWellFoundedOn(less, Nat)
  BY NatLessThanWellFounded
<1>2. \A i, j \in Nat : <<i, j>> \in less <=> i < j
  BY DEF OpToRel
<1> HIDE DEF less
<1>3. \E i \in S : \A j \in S : <<j, i>> \notin less
  BY <1>1, WFMin
<1>4. PICK i \in S : \A j \in S : <<j, i>> \notin less
  BY <1>3
<1>5. \A j \in S : i <= j
  <2> TAKE j \in S
  <2>1. ~(j < i)
    BY <1>2, <1>4
  <2>2. i \in Nat /\ j \in Nat
    OBVIOUS
  <2> QED BY <2>1, <2>2
<1> QED BY <1>5

LEMMA SendingRow ==
    ASSUME CalBase, DOMAIN save.todo # {}
    PROVE  /\ Calendar!Sending \in DOMAIN save.todo
           /\ save.todo[Calendar!Sending] \in Contents
           /\ save.editing \in Posts \cup {None} /\ save.date \in Calendar!Dates
           /\ save.project \in Projects
<1>1. DOMAIN save.todo \subseteq Nat
  BY CalendarBounds DEF CalBase, CalTypes, Calendar!TypeOK, Calendar!CalendarAssumption
<1>2. \E i \in DOMAIN save.todo : \A j \in DOMAIN save.todo : i <= j
  BY <1>1, FirstOf
<1>3. Calendar!Sending \in DOMAIN save.todo
  BY <1>2, Zenon DEF Calendar!Sending
<1> QED BY <1>3 DEF CalBase, CalTypes, Calendar!TypeOK, SaveInv

\* What the API takes is a proper post, with the content of the row.
LEMMA RowTakenFacts ==
    ASSUME CalBase, DOMAIN save.todo # {}, Calendar!RowTaken
    PROVE  \E t \in Posts : \E v :
              /\ Becomes(t, v) /\ v.content = save.todo[Calendar!Sending]
              /\ \/ save.editing = None /\ server[t] = Calendar!NoPost
                 \/ save.editing = t
<1> DEFINE c == save.todo[Calendar!Sending]
           posted == Calendar!Sent(c)
           where == Calendar!getProjectPlatform(save.project)
<1>1. /\ c \in Contents /\ save.editing \in Posts \cup {None} /\ save.date \in Calendar!Dates
      /\ save.project \in Projects /\ Calendar!Sending \in DOMAIN save.todo
  BY SendingRow
<1>2. where = PlatformOf[save.project] /\ where \in Calendar!Platforms
  BY <1>1, CalendarBounds
     DEF Calendar!getProjectPlatform, Calendar!CalendarAssumption, Calendar!Platforms
<1>3. ~cut => Fresh(server, shown, c, save.editing)
  BY <1>1 DEF CalBase, FreshInv
<1>4. ~disturbed => (PlatformOf[save.project] = "facebook" => c \notin PhotoStories)
  BY <1>1 DEF CalBase, ProperInv
<1>5. /\ posted \in Calendar!Post /\ posted.home = save.project /\ posted.platform = where
      /\ posted.content = c
  BY <1>1, <1>2 DEF Calendar!Sent, Calendar!Post, Calendar!Statuses
<1> HIDE DEF c, where, posted
<1>6. CASE save.editing = None
  <2>1. PICK t \in Posts : server[t] = Calendar!NoPost /\ server' = [server EXCEPT ![t] = posted]
    BY <1>6 DEF Calendar!RowTaken, posted, c
  <2>2. ~cut => Fresh(server, shown, c, t)
    <3>1. None \notin Posts
      BY CalendarBounds DEF Calendar!CalendarAssumption
    <3> QED BY <1>3, <1>6, <3>1 DEF Fresh
  <2>3. ~disturbed => Calendar!Proper(posted)
    BY <1>2, <1>4, <1>5 DEF Calendar!Proper
  <2>4. Becomes(t, posted)
    BY <1>5, <2>1, <2>2, <2>3 DEF Becomes
  <2> QED BY <1>5, <1>6, <2>1, <2>4 DEF c
<1>7. CASE save.editing # None
  <2> DEFINE t == save.editing
             v == [posted EXCEPT !.home = server[t].home]
  <2>1. t \in Posts /\ server[t] # Calendar!Deleted /\ server' = [server EXCEPT ![t] = v]
    BY <1>1, <1>7 DEF Calendar!RowTaken, posted, c
  <2>2. server[t] # Calendar!NoPost
    BY <1>7 DEF CalBase, KnownInv
  <2>3. Live(server[t]) /\ server[t].home \in Projects
    <3>1. Live(server[t])
      BY <2>1, <2>2 DEF Live
    <3> QED BY <2>1, <3>1, PostFacts DEF CalBase, Calendar!Post
  <2>4. /\ v \in Calendar!Post /\ v.home = server[t].home /\ v.platform = where
        /\ v.content = c
    BY <1>5, <2>3 DEF Calendar!Post
  <2>5. ~disturbed => server[t].home = save.project
    BY <1>1, <1>7, <2>3 DEF CalBase, ProperInv
  <2> HIDE DEF v
  <2>6. ~disturbed => Calendar!Proper(v)
    BY <1>2, <1>4, <2>4, <2>5 DEF Calendar!Proper
  <2>7. Becomes(t, v)
    BY <1>3, <2>1, <2>3, <2>4, <2>6 DEF Becomes
  <2> QED BY <2>1, <2>4, <2>7 DEF c
<1> QED BY <1>6, <1>7

\* After a row the rest is sent, if there is any; else the dialog has closed.
LEMMA RowKeeps ==
    ASSUME CalBase, DOMAIN save.todo # {}, Calendar!RowTaken,
           UNCHANGED <<calProject, shown, calLoading>>, ~disturbed' => ~disturbed,
           ~cut' => ~cut,
           save' \in [todo : RowsLeft, project : Projects \cup {None},
                      editing : Posts \cup {None}, date : Calendar!Dates],
           DOMAIN save'.todo \subseteq DOMAIN save.todo \ {Calendar!Sending},
           \A i \in DOMAIN save'.todo : save'.todo[i] = save.todo[i],
           DOMAIN save'.todo # {} => UNCHANGED <<save.project, save.editing, drafts, editing>>,
           save'.editing \in {save.editing, None},
           \/ UNCHANGED <<selectedDate, editing, drafts>>
           \/ Calendar!SaveCloses,
           ~cut' /\ DOMAIN save'.todo = {} => Calendar!SaveCloses
    PROVE  KnownInv' /\ (~cut' => FreshInv') /\ (~disturbed' => ProperInv')
<1>1. PICK t \in Posts : \E v :
         /\ Becomes(t, v) /\ v.content = save.todo[Calendar!Sending]
         /\ \/ save.editing = None /\ server[t] = Calendar!NoPost
            \/ save.editing = t
  BY RowTakenFacts
<1>2. PICK v :
         /\ Becomes(t, v) /\ v.content = save.todo[Calendar!Sending]
         /\ \/ save.editing = None /\ server[t] = Calendar!NoPost
            \/ save.editing = t
  BY <1>1
<1>3. Calendar!SaveCloses =>
         /\ selectedDate' = 0 /\ editing' = None
         /\ \A i \in DOMAIN drafts' : drafts'[i].content = None
  BY BlankRow DEF Calendar!SaveCloses
<1>4. editing \in Posts \cup {None} /\ save.editing \in Posts \cup {None}
  BY DEF CalBase, CalTypes, Calendar!TypeOK
<1>5. KnownInv'
  <2>1. \A u \in Posts : Seen(shown[u]) => server[u] # Calendar!NoPost
    BY DEF CalBase, KnownInv
  <2> QED BY <1>2, <1>3, <1>4, <2>1, BecomesFacts DEF CalBase, KnownInv, Calendar!Open
<1>6. ASSUME ~cut' PROVE FreshInv'
  <2>1. FreshInv
    BY <1>6 DEF CalBase
  <2>2. \A c, e : Fresh(server, shown, c, e) /\ (e # t /\ Live(v) => v.content # c)
           => Fresh(server', shown', c, e)
    BY <1>2, <1>6, BecomesFacts
  <2>3. \A u \in Posts :
           /\ Live(server'[u]) => Fresh(server', shown', server'[u].content, u)
           /\ Seen(shown'[u]) => Fresh(server', shown', shown'[u].content, u)
    BY <1>2, <1>6, BecomesFacts
  <2>4. \A i \in DOMAIN save'.todo :
           /\ Fresh(server', shown', save'.todo[i], save'.editing)
           /\ \A j \in DOMAIN save'.todo : save'.todo[i] = save'.todo[j] => i = j
    <3> TAKE i \in DOMAIN save'.todo
    <3>1. /\ i \in DOMAIN save.todo /\ save'.todo[i] = save.todo[i] /\ save'.editing = save.editing
          /\ i # Calendar!Sending /\ Calendar!Sending \in DOMAIN save.todo
      BY SendingRow
    <3>2. Fresh(server, shown, save.todo[i], save.editing)
      BY <2>1, <3>1 DEF FreshInv
    <3>3. v.content # save.todo[i]
      BY <1>2, <2>1, <3>1 DEF FreshInv
    <3>4. Fresh(server', shown', save.todo[i], save.editing)
      BY <2>2, <3>2, <3>3
    <3>5. \A j \in DOMAIN save'.todo : save'.todo[i] = save'.todo[j] => i = j
      BY <2>1, <3>1 DEF FreshInv
    <3> QED BY <3>1, <3>4, <3>5
  <2>5. DOMAIN save'.todo = {} => \A i \in DOMAIN drafts' : drafts'[i].content = None
    BY <1>3, <1>6
  <2> QED BY <2>3, <2>4, <2>5 DEF FreshInv
<1>7. ASSUME ~disturbed' PROVE ProperInv'
  <2>1. ProperInv
    BY <1>7 DEF CalBase
  <2>2. \A u \in {editing, save.editing} \ {None} :
           u \in Posts /\ server[u] # Calendar!NoPost
    BY <1>4 DEF CalBase, KnownInv
  <2>3. \A u \in {editing, save.editing} \ {None} :
           Live(server'[u]) => Live(server[u]) /\ server'[u].home = server[u].home
    BY <1>2, <2>2, BecomesFacts
  <2>4. /\ \A u \in Posts : Live(server'[u]) => Calendar!Proper(server'[u])
        /\ \A u \in Posts : Seen(shown'[u]) => Calendar!Proper(shown'[u])
    BY <1>2, <1>7, BecomesFacts
  <2>5. selectedDate' # 0 =>
           /\ \A i \in DOMAIN drafts' :
                 drafts'[i].platform = Calendar!getProjectPlatform(calProject')
           /\ editing' # None /\ Live(server'[editing']) => server'[editing'].home = calProject'
    BY <1>3, <2>1, <2>3 DEF ProperInv, Calendar!Open
  <2>6. DOMAIN save'.todo # {} =>
          /\ PlatformOf[save'.project] = "facebook" =>
                \A i \in DOMAIN save'.todo : save'.todo[i] \notin PhotoStories
          /\ save'.editing # None /\ Live(server'[save'.editing]) =>
                server'[save'.editing].home = save'.project
    BY <2>1, <2>3 DEF ProperInv
  <2> QED BY <2>4, <2>5, <2>6 DEF ProperInv, Calendar!Open
<1> QED BY <1>5, <1>6, <1>7

LEMMA NothingLeft ==
    /\ Calendar!NoSave.todo \in RowsLeft /\ DOMAIN Calendar!NoSave.todo = {}
    /\ Calendar!NoSave.editing = None /\ Calendar!NoSave.project = None
    /\ Calendar!NoSave.date \in Calendar!Dates
    /\ Calendar!NoSave \in [todo : RowsLeft, project : Projects \cup {None},
                            editing : Posts \cup {None}, date : Calendar!Dates]
<1>1. << >> \in RowsLeft /\ DOMAIN << >> = {}
  <2>1. << >> = [i \in {} |-> None]
    OBVIOUS
  <2>2. [i \in {} |-> None] \in [{} -> Contents]
    OBVIOUS
  <2> QED BY <2>1, <2>2 DEF RowsLeft
<1>2. 1 \in Calendar!Dates
  BY CalendarBounds DEF Calendar!CalendarAssumption, Calendar!Dates
<1> QED BY <1>1, <1>2 DEF Calendar!NoSave

\* The types of what a row changes.
LEMMA RowTypes ==
    ASSUME CalBase,
           UNCHANGED <<now, calProject, calSaved, shown, calLoading, dueTimer, begun, calChosen>>,
           server' \in [Posts -> Calendar!Post \cup {Calendar!NoPost, Calendar!Deleted}],
           calLoad' \in [Calendar!Causes -> Calendar!Loads],
           \A m \in Calendar!Causes : calLoad'[m].at = "calendar" => calLoad'[m].of \in Projects,
           save' \in [todo : RowsLeft, project : Projects \cup {None},
                      editing : Posts \cup {None}, date : Calendar!Dates],
           \/ UNCHANGED <<selectedDate, editing, drafts>>
           \/ Calendar!SaveCloses,
           calSaving' \in BOOLEAN, {disturbed', unsettled', strayed'} \subseteq BOOLEAN, cut' \in BOOLEAN
    PROVE  CalTypes'
<1>1. /\ selectedDate' \in Calendar!Dates \cup {0} /\ editing' \in Posts \cup {None}
      /\ drafts' \in Seq(Calendar!ScheduledDraft) /\ Len(drafts') \in 1 .. MaxDrafts
  <2>1. CASE UNCHANGED <<selectedDate, editing, drafts>>
    BY <2>1 DEF CalBase, CalTypes, Calendar!TypeOK
  <2>2. CASE Calendar!SaveCloses
    BY <2>2, BlankRow, CalendarBounds DEF Calendar!SaveCloses, Calendar!CalendarAssumption
  <2> QED BY <2>1, <2>2
<1>2. \A i \in DOMAIN drafts' : drafts'[i] \in Calendar!ScheduledDraft
  BY <1>1
<1>3. /\ save'.project \in Projects \cup {None} /\ save'.editing \in Posts \cup {None}
      /\ save'.date \in Calendar!Dates /\ DOMAIN save'.todo \subseteq 1 .. MaxDrafts
      /\ \A i \in DOMAIN save'.todo : save'.todo[i] \in Contents
  <2>1. save'.todo \in RowsLeft
    OBVIOUS
  <2>2. DOMAIN save'.todo \subseteq 1 .. MaxDrafts /\ \A i \in DOMAIN save'.todo : save'.todo[i] \in Contents
    BY <2>1 DEF RowsLeft
  <2> QED BY <2>2
<1>4. Calendar!TypeOK'
  BY <1>1, <1>2, <1>3 DEF CalBase, CalTypes, Calendar!TypeOK
<1> QED BY <1>1, <1>4 DEF CalTypes

LEMMA RowFailsInv ==
    ASSUME CalBase, Calendar!RowFails
    PROVE  CalBase'
<1>1. /\ UNCHANGED <<now, calProject, calSaved, shown, calLoading, calLoad, dueTimer, begun,
                     selectedDate, editing, drafts, calChosen, disturbed, unsettled, strayed>>
      /\ save' = Calendar!NoSave /\ calSaving' = FALSE /\ cut' = TRUE
      /\ DOMAIN save.todo # {}
      /\ Calendar!RowTaken \/ server' = server
  BY DEF Calendar!RowFails, Calendar!view, Calendar!doubts
<1>2. server' \in [Posts -> Calendar!Post \cup {Calendar!NoPost, Calendar!Deleted}]
  <2>1. CASE Calendar!RowTaken
    <3>1. PICK t \in Posts : \E v : Becomes(t, v)
      BY <1>1, <2>1, RowTakenFacts
    <3>2. PICK v : Becomes(t, v)
      BY <3>1
    <3> QED BY <1>1, <3>2, BecomesFacts
  <2>2. CASE server' = server
    BY <2>2 DEF CalBase, CalTypes, Calendar!TypeOK
  <2> QED BY <1>1, <2>1, <2>2
<1>3. CalTypes'
  <2>1. /\ calLoad' \in [Calendar!Causes -> Calendar!Loads]
        /\ \A m \in Calendar!Causes : calLoad'[m].at = "calendar" => calLoad'[m].of \in Projects
        /\ {disturbed', unsettled', strayed'} \subseteq BOOLEAN
    BY <1>1 DEF CalBase, CalTypes, Calendar!TypeOK
  <2> QED BY <1>1, <1>2, <2>1, NothingLeft, RowTypes
<1>4. KnownInv' /\ (~disturbed' => ProperInv')
  <2>1. CASE Calendar!RowTaken
    BY <1>1, <2>1, NothingLeft, RowKeeps
  <2>2. CASE server' = server
    <3>1. KnownInv'
      BY <1>1, <2>2, NothingLeft DEF CalBase, KnownInv, Calendar!Open
    <3>2. ~disturbed' => ProperInv'
      BY <1>1, <2>2, NothingLeft DEF CalBase, ProperInv, Calendar!Open
    <3> QED BY <3>1, <3>2
  <2> QED BY <1>1, <2>1, <2>2
<1>5. SaveInv'
  <2>1. ~Loading("save")
    BY <1>1 DEF CalBase, SaveInv
  <2> QED BY <1>1, <2>1, NothingLeft
          DEF CalBase, SaveInv, Calendar!SpinnerHasCause, Calendar!InFlight, Loading
<1>6. ~disturbed' => LoadInv'
  BY <1>1, LoadKept DEF CalBase
<1> QED BY <1>1, <1>3, <1>4, <1>5, <1>6 DEF CalBase

LEMMA RowSavedInv ==
    ASSUME CalBase, Calendar!RowSaved
    PROVE  CalBase'
<1>1. /\ UNCHANGED <<begun, now, calProject, calSaved, shown, calLoading, dueTimer, calChosen>>
      /\ DOMAIN save.todo # {} /\ Calendar!RowTaken
  BY DEF Calendar!RowSaved
<1>2. server' \in [Posts -> Calendar!Post \cup {Calendar!NoPost, Calendar!Deleted}]
  <2>1. PICK t \in Posts : \E v : Becomes(t, v)
    BY <1>1, RowTakenFacts
  <2>2. PICK v : Becomes(t, v)
    BY <2>1
  <2> QED BY <1>1, <2>2, BecomesFacts
<1>3. calSaving /\ ~Loading("save") /\ "save" \in Calendar!Causes
  BY <1>1 DEF CalBase, SaveInv, Calendar!Causes
<1>4. /\ calLoad \in [Calendar!Causes -> Calendar!Loads]
      /\ \A m \in Calendar!Causes : calLoad[m].at = "calendar" => calLoad[m].of \in Projects
      /\ {disturbed, unsettled, strayed} \subseteq BOOLEAN /\ cut \in BOOLEAN /\ calSaving \in BOOLEAN
  BY DEF CalBase, CalTypes, Calendar!TypeOK

\* The next row is sent.
<1>5. CASE /\ save' = [save EXCEPT !.todo = [i \in Calendar!Waiting |-> save.todo[i]]]
           /\ Calendar!Waiting # {}
           /\ UNCHANGED <<calLoad, selectedDate, editing, drafts, calSaving, disturbed,
                         unsettled, strayed, cut>>
  <2> DEFINE left == [i \in Calendar!Waiting |-> save.todo[i]]
  <2>1. /\ DOMAIN left = DOMAIN save.todo \ {Calendar!Sending}
        /\ \A i \in DOMAIN left : left[i] = save.todo[i]
        /\ left \in RowsLeft
    <3>1. Calendar!Waiting = DOMAIN save.todo \ {Calendar!Sending}
      BY DEF Calendar!Waiting
    <3>2. save.todo \in RowsLeft
      BY DEF CalBase, CalTypes
    <3>3. Calendar!Waiting \in SUBSET (1 .. MaxDrafts) /\ left \in [Calendar!Waiting -> Contents]
      BY <3>1, <3>2 DEF RowsLeft
    <3> QED BY <3>1, <3>3 DEF RowsLeft
  <2> HIDE DEF left
  <2>2. save' = [save EXCEPT !.todo = left] /\ DOMAIN left # {}
    BY <1>5 DEF left
  <2>3. /\ save' \in [todo : RowsLeft, project : Projects \cup {None},
                      editing : Posts \cup {None}, date : Calendar!Dates]
        /\ save'.todo = left /\ save'.project = save.project /\ save'.editing = save.editing
    BY <2>1, <2>2 DEF CalBase, CalTypes
  <2>4. CalTypes'
    BY <1>1, <1>2, <1>4, <1>5, <2>3, RowTypes
  <2>5. KnownInv' /\ (~cut' => FreshInv') /\ (~disturbed' => ProperInv')
    BY <1>1, <1>5, <2>1, <2>2, <2>3, RowKeeps
  <2>6. SaveInv'
    BY <1>1, <1>5, <2>2, <2>3
       DEF CalBase, SaveInv, Calendar!SpinnerHasCause, Calendar!InFlight, Loading
  <2>7. ~disturbed' => LoadInv'
    BY <1>1, <1>5, LoadKept DEF CalBase
  <2> QED BY <2>4, <2>5, <2>6, <2>7 DEF CalBase

\* The date of the next one has passed.
<1>6. CASE /\ save' = Calendar!NoSave /\ calSaving' = FALSE /\ cut' = TRUE
           /\ UNCHANGED <<calLoad, selectedDate, editing, drafts, disturbed, unsettled, strayed>>
  <2>1. CalTypes'
    BY <1>1, <1>2, <1>4, <1>6, NothingLeft, RowTypes
  <2>2. KnownInv' /\ (~disturbed' => ProperInv')
    BY <1>1, <1>6, NothingLeft, RowKeeps
  <2>3. SaveInv'
    BY <1>1, <1>3, <1>6, NothingLeft
       DEF CalBase, SaveInv, Calendar!SpinnerHasCause, Calendar!InFlight, Loading
  <2>4. ~disturbed' => LoadInv'
    BY <1>1, <1>6, LoadKept DEF CalBase
  <2> QED BY <1>6, <2>1, <2>2, <2>3, <2>4 DEF CalBase

\* That was the last.
<1>7. CASE /\ save' = Calendar!NoSave /\ Calendar!SaveCloses
           /\ Calendar!FetchData("save", None)
           /\ UNCHANGED <<calSaving, cut>>
  <2>1. /\ calLoad' = [calLoad EXCEPT !["save"] = [at |-> "projects", target |-> None, of |-> None]]
        /\ {disturbed', unsettled', strayed'} \subseteq BOOLEAN
    BY <1>7 DEF Calendar!FetchData
  <2>2. ~disturbed' => ~disturbed /\ Calendar!InFlight = {}
    BY <1>7, Zenon DEF Calendar!FetchData, Calendar!Astray
  <2>3. /\ calLoad' \in [Calendar!Causes -> Calendar!Loads]
        /\ \A m \in Calendar!Causes : calLoad'[m].at = "calendar" => calLoad'[m].of \in Projects
        /\ calLoad'["save"].at = "projects"
        /\ ~disturbed' => LoadInv'
    BY <1>1, <1>3, <2>1, <2>2, FetchLoads
  <2>4. CalTypes'
    BY <1>1, <1>2, <1>4, <1>7, <2>1, <2>3, NothingLeft, RowTypes
  <2>5. KnownInv' /\ (~cut' => FreshInv') /\ (~disturbed' => ProperInv')
    BY <1>1, <1>7, <2>2, NothingLeft, RowKeeps
  <2>6. SaveInv'
    <3>1. Calendar!InFlight' # {} /\ Loading("save")'
      BY <1>3, <2>3 DEF Calendar!InFlight, Loading
    <3> QED BY <1>3, <1>7, <3>1, NothingLeft DEF SaveInv, Calendar!SpinnerHasCause, Loading
  <2> QED BY <2>3, <2>4, <2>5, <2>6 DEF CalBase
<1> QED BY <1>5, <1>6, <1>7 DEF Calendar!RowSaved, Calendar!doubts

LEMMA CalBaseStep ==
    ASSUME CalBase, Calendar!Next
    PROVE  CalBase'
BY CalFetchInv, ProjectsLandInv, OtherTabInv, LoadFailsInv, CalendarLandsInv, OpenCloseInv, EditInv,
   RowsInv, SubmitRowsInv, TickInv, PublishInv, ActInv, RowFailsInv, RowSavedInv
   DEF Calendar!Next, Calendar!LoadNext, Calendar!DialogNext, Calendar!LoadAnswers,
       Calendar!SaveAnswers

LEMMA CalBaseStays ==
    ASSUME CalBase, UNCHANGED CalendarVars
    PROVE  CalBase'
<1> USE DEF CalBase, CalendarVars
<1>1. CalTypes'
  <2>1. Calendar!TypeOK'
    BY DEF CalTypes, Calendar!TypeOK
  <2> QED BY <2>1 DEF CalTypes
<1>2. KnownInv' /\ SaveInv'
  BY KnownKept DEF SaveInv, Calendar!SpinnerHasCause, Calendar!InFlight, Loading
<1>3. (~cut' => FreshInv') /\ (~disturbed' => LoadInv' /\ ProperInv')
  BY FreshKept, LoadKept, ProperKept
<1> QED BY <1>1, <1>2, <1>3

\* What is promised of a page at rest.

\* Since a load last began alone: it is the only one, and of the project that is shown.
SettledInv ==
    /\ \A l, m \in Calendar!Causes : Loading(l) /\ Loading(m) => l = m
    /\ \A l \in Calendar!Causes :
          calLoad[l].at = "calendar" => calLoad[l].of = calProject /\ calSaved = calProject
    /\ (\A l \in Calendar!Causes : ~Loading(l)) =>
          /\ calSaved = calProject
          /\ \A t \in Posts : Seen(shown[t]) => shown[t].home = calProject

\* Since a selection last began alone: it is under way, or its project is the page's.
ChoiceInv ==
    /\ \A l, m \in Calendar!Causes : Loading(l) /\ Loading(m) => l = m
    /\ IF calLoad["select"].at = "projects"
       THEN calLoad["select"].target = calChosen /\ calChosen # None
       ELSE calChosen = calProject /\ calSaved = calProject
    /\ \A l \in Calendar!Causes : l # "select" /\ calLoad[l].at = "projects" =>
          calLoad[l].target \in {None, calProject}

QuietInv == (~unsettled => SettledInv) /\ (~strayed => ChoiceInv)

CalInv == CalBase /\ QuietInv

\* What the calendar promises.
LEMMA CalPromises ==
    ASSUME CalInv
    PROVE  /\ Calendar!TypeOK /\ Calendar!SpinnerHasCause /\ Calendar!QuietPageIsConsistent
           /\ Calendar!PostedOnce /\ Calendar!PlatformIsProjects
<1>1. Calendar!TypeOK /\ Calendar!SpinnerHasCause
  BY DEF CalInv, CalBase, CalTypes, SaveInv
<1>2. Calendar!QuietPageIsConsistent
  <2> SUFFICES ASSUME Calendar!InFlight = {}
               PROVE  /\ ~unsettled =>
                            /\ calProject = calSaved
                            /\ \A t \in Posts :
                                  shown[t] = Calendar!NoPost \/ shown[t].home = calProject
                      /\ ~strayed => calProject = calChosen
    BY DEF Calendar!QuietPageIsConsistent
  <2>1. calLoad["select"].at = "idle" /\ \A l \in Calendar!Causes : ~Loading(l)
    BY QuietLoads DEF Calendar!InFlight, Calendar!Causes
  <2> QED BY <2>1 DEF CalInv, QuietInv, SettledInv, ChoiceInv, Seen
<1>3. Calendar!PostedOnce
  <2> SUFFICES ASSUME NEW t \in Posts, NEW u \in Posts, t # u, ~cut, Live(server[t]),
          Live(server[u])
               PROVE  server[t].content # server[u].content
    BY DEF Calendar!PostedOnce, Live
  <2> QED BY DEF CalInv, CalBase, FreshInv, Fresh
<1>4. Calendar!PlatformIsProjects
  BY DEF CalInv, CalBase, ProperInv, Calendar!PlatformIsProjects, Live
<1> QED BY <1>1, <1>2, <1>3, <1>4

LEMMA CalInit ==
    ASSUME Calendar!Init
    PROVE  CalInv
<1>1. /\ calLoad["poll"].at = "projects" /\ calLoad["poll"].target = None
      /\ \A l \in Calendar!Causes : l # "poll" => calLoad[l].at = "idle"
      /\ "poll" \in Calendar!Causes /\ "select" \in Calendar!Causes
  BY DEF Calendar!Init, Calendar!NoLoad, Calendar!Causes
<1>2. SettledInv /\ ChoiceInv
  BY <1>1 DEF SettledInv, ChoiceInv, Loading, Calendar!Init
<1> QED BY <1>2, CalBaseInit DEF CalInv, QuietInv

LEMMA QuietKept ==
    ASSUME QuietInv,
           UNCHANGED <<calLoad, calSaved, calProject, calChosen, shown, unsettled, strayed>>
    PROVE  QuietInv'
BY DEF QuietInv, SettledInv, ChoiceInv, Loading, Seen

\* A load begins: alone, it wipes the slate clean.
LEMMA FetchQuiet ==
    ASSUME CalBase, QuietInv, NEW l \in Calendar!Causes, NEW target \in Projects \cup {None},
           Calendar!FetchData(l, target), UNCHANGED <<calProject, calSaved, shown>>,
           l # "select" => calChosen' = calChosen,
           l = "select" => calChosen' = target /\ target # None
    PROVE  QuietInv'
<1> DEFINE r == [at |-> "projects", target |-> target, of |-> None]
<1>1. r \in Calendar!Loads /\ r.at = "projects" /\ r.target = target
  BY DEF Calendar!Loads
<1>2. calLoad' = [calLoad EXCEPT ![l] = r] /\ (unsettled' <=> Calendar!InFlight # {})
  BY DEF Calendar!FetchData
<1> HIDE DEF r
<1>3. calLoad'[l] = r /\ \A m \in Calendar!Causes : m # l => calLoad'[m] = calLoad[m]
  BY <1>1, <1>2, LoadMoves DEF CalBase
<1>4. ASSUME Calendar!InFlight = {}
      PROVE  /\ Loading(l)' /\ calLoad'[l].at = "projects" /\ calLoad'[l].target = target
             /\ \A m \in Calendar!Causes : m # l => calLoad'[m].at = "idle"
  BY <1>1, <1>3, <1>4, QuietLoads DEF Loading
<1>5. "select" \in Calendar!Causes
  BY DEF Calendar!Causes
<1>6. ASSUME ~unsettled' PROVE SettledInv'
  BY <1>2, <1>4, <1>6 DEF SettledInv, Loading
<1>7. ASSUME ~strayed' PROVE ChoiceInv'
  <2>1. Calendar!InFlight = {} /\ (l # "select" => ~strayed /\ target \in {None, calProject})
    BY <1>7, Zenon DEF Calendar!FetchData, Calendar!Astray
  <2>2. CASE l = "select"
    BY <1>4, <2>1, <2>2 DEF ChoiceInv, Loading
  <2>3. CASE l # "select"
    <3>1. calLoad["select"].at = "idle"
      BY <1>5, <2>1, QuietLoads DEF Loading
    <3>2. calChosen' = calProject' /\ calSaved' = calProject'
      BY <2>1, <2>3, <3>1 DEF QuietInv, ChoiceInv
    <3> QED BY <1>4, <1>5, <2>1, <2>3, <3>2 DEF ChoiceInv, Loading
  <2> QED BY <2>2, <2>3
<1> QED BY <1>6, <1>7 DEF QuietInv

LEMMA ProjectsLandQuiet ==
    ASSUME CalBase, QuietInv, NEW l \in Calendar!Causes, Calendar!ProjectsLand(l)
    PROVE  QuietInv'
<1> DEFINE p == Calendar!Select(calLoad[l].target)
           r == [calLoad[l] EXCEPT !.at = "calendar", !.of = p]
<1>1. p \in Projects /\ p # None
  BY LoadFacts, CalendarBounds
     DEF CalBase, CalTypes, Calendar!TypeOK, Calendar!Select, Calendar!CalendarAssumption
<1>2. /\ calLoad[l].at = "projects"
      /\ calProject' = p /\ calSaved' = p
      /\ calLoad' = [calLoad EXCEPT ![l] = r]
      /\ calChosen' = IF calChosen = None THEN p ELSE calChosen
      /\ UNCHANGED <<shown, unsettled, strayed>>
  BY DEF CalBase, CalTypes, Calendar!TypeOK, Calendar!ProjectsLand, Calendar!doubts
<1>3. r \in Calendar!Loads /\ r.at = "calendar" /\ r.of = p
  BY <1>1, LoadFacts DEF CalBase, Calendar!Loads
<1>4. p = IF calLoad[l].target # None THEN calLoad[l].target
          ELSE IF calSaved # None THEN calSaved ELSE LastListed
  BY DEF Calendar!Select
<1> HIDE DEF p, r
<1>5. calLoad'[l] = r /\ \A m \in Calendar!Causes : m # l => calLoad'[m] = calLoad[m]
  BY <1>2, <1>3, LoadMoves DEF CalBase
<1>6. ASSUME ~unsettled' PROVE SettledInv'
  <2>1. SettledInv
    BY <1>2, <1>6 DEF QuietInv
  <2>2. \A m \in Calendar!Causes : m # l => calLoad'[m].at = "idle"
    BY <1>2, <1>5, <2>1 DEF SettledInv, Loading
  <2>3. \A m, n \in Calendar!Causes : Loading(m)' /\ Loading(n)' => m = n
    BY <2>2 DEF Loading
  <2>4. Loading(l)'
    BY <1>3, <1>5 DEF Loading
  <2> QED BY <1>2, <1>3, <1>5, <2>2, <2>3, <2>4 DEF SettledInv
<1>7. ASSUME ~strayed' PROVE ChoiceInv'
  <2>1. ChoiceInv /\ "select" \in Calendar!Causes
    BY <1>2, <1>7 DEF QuietInv, Calendar!Causes
  <2>2. \A m \in Calendar!Causes : m # l => calLoad[m].at = "idle" /\ calLoad'[m].at = "idle"
    BY <1>2, <1>5, <2>1 DEF ChoiceInv, Loading
  <2>3. calChosen' = p
    <3>1. CASE l = "select"
      BY <1>2, <1>4, <2>1, <3>1 DEF ChoiceInv
    <3>2. CASE l # "select"
      <4>1. /\ calChosen = calProject /\ calSaved = calProject
            /\ calLoad[l].target \in {None, calProject}
        BY <1>2, <2>1, <2>2, <3>2 DEF ChoiceInv
      <4> QED BY <1>2, <1>4, <4>1
    <3> QED BY <3>1, <3>2
  <2>4. \A m, n \in Calendar!Causes : Loading(m)' /\ Loading(n)' => m = n
    BY <2>2 DEF Loading
  <2>5. \A m \in Calendar!Causes : calLoad'[m].at # "projects"
    BY <1>3, <1>5, <2>2
  <2> QED BY <1>2, <2>1, <2>3, <2>4, <2>5 DEF ChoiceInv
<1> QED BY <1>6, <1>7 DEF QuietInv

\* A load ends with its answers.
LEMMA CalendarLandsQuiet ==
    ASSUME CalBase, QuietInv, NEW l \in Calendar!Causes, Calendar!CalendarLands(l)
    PROVE  QuietInv'
<1>1. /\ calLoad[l].at = "calendar" /\ shown' = Calendar!Listed(calLoad[l].of)
      /\ UNCHANGED <<calProject, calSaved, calChosen, unsettled, strayed>>
      /\ calLoad'[l].at = "idle"
      /\ \A m \in Calendar!Causes : m # l => calLoad'[m] = calLoad[m]
  BY LoadEndsFacts DEF Calendar!CalendarLands, Calendar!history, Calendar!doubts
<1>2. ASSUME ~unsettled' PROVE SettledInv'
  <2>1. SettledInv
    BY <1>1, <1>2 DEF QuietInv
  <2>2. /\ \A m \in Calendar!Causes : calLoad'[m].at = "idle"
        /\ calLoad[l].of = calProject /\ calSaved = calProject
    BY <1>1, <2>1 DEF SettledInv, Loading
  <2>3. \A t \in Posts : Seen(shown'[t]) => shown'[t].home = calProject
    BY <1>1, <2>2 DEF Calendar!Listed, Seen
  <2> QED BY <1>1, <2>2, <2>3 DEF SettledInv, Loading
<1>3. ASSUME ~strayed' PROVE ChoiceInv'
  <2>1. ChoiceInv /\ "select" \in Calendar!Causes
    BY <1>1, <1>3 DEF QuietInv, Calendar!Causes
  <2> QED BY <1>1, <2>1 DEF ChoiceInv, Loading
<1> QED BY <1>2, <1>3 DEF QuietInv

\* A load fails: only a selection that does leaves another project than the chosen one.
LEMMA LoadFailsQuiet ==
    ASSUME CalBase, QuietInv, NEW l \in Calendar!Causes, Calendar!LoadFails(l)
    PROVE  QuietInv'
<1>1. /\ UNCHANGED <<calProject, calSaved, calChosen, shown>>
      /\ unsettled' /\ (~strayed' => ~strayed /\ l # "select")
      /\ calLoad'[l].at = "idle"
      /\ \A m \in Calendar!Causes : m # l => calLoad'[m] = calLoad[m]
  BY LoadEndsFacts DEF Calendar!LoadFails
<1>2. ASSUME ~strayed' PROVE ChoiceInv'
  <2>1. ChoiceInv /\ "select" \in Calendar!Causes
    BY <1>1, <1>2 DEF QuietInv, Calendar!Causes
  <2> QED BY <1>1, <1>2, <2>1 DEF ChoiceInv, Loading
<1> QED BY <1>1, <1>2 DEF QuietInv

LEMMA QuietStep ==
    ASSUME CalBase, QuietInv, Calendar!Next
    PROVE  QuietInv'
<1> USE DEF Calendar!source, Calendar!view, Calendar!dialog, Calendar!history, Calendar!doubts
<1>1. CASE \E l \in Calendar!Causes : Calendar!LoadAnswers(l)
  BY <1>1, ProjectsLandQuiet, CalendarLandsQuiet, LoadFailsQuiet DEF Calendar!LoadAnswers
<1>2. ASSUME NEW l \in {"poll", "save", "act"}, Calendar!FetchData(l, None),
             UNCHANGED <<calProject, calSaved, calChosen, shown>>
      PROVE  QuietInv'
  BY <1>2, FetchQuiet DEF Calendar!Causes
<1>3. CASE Calendar!Poll
  BY <1>2, <1>3 DEF Calendar!Poll
<1>4. CASE Calendar!DueTimerFires
  <2>1. dueTimer \in Projects \cup {None} /\ "due" \in Calendar!Causes
    BY DEF CalBase, CalTypes, Calendar!TypeOK, Calendar!Causes
  <2> QED BY <1>4, <2>1, FetchQuiet DEF Calendar!DueTimerFires
<1>5. ASSUME NEW p \in Projects, Calendar!SelectProject(p)
      PROVE  QuietInv'
  <2>1. p # None /\ "select" \in Calendar!Causes
    BY CalendarBounds DEF Calendar!CalendarAssumption, Calendar!Causes
  <2> QED BY <1>5, <2>1, FetchQuiet DEF Calendar!SelectProject
<1>6. CASE \E p \in Projects : Calendar!OtherTabSelects(p)
  BY <1>6 DEF Calendar!OtherTabSelects, QuietInv
<1>7. CASE Calendar!DialogNext
  BY <1>7, QuietKept
     DEF Calendar!DialogNext, Calendar!openScheduler, Calendar!openEditTask,
         Calendar!CloseDialog, Calendar!addDraftRow, Calendar!removeDraftRow,
         Calendar!updateDraft, Calendar!saveScheduledContent
<1>8. CASE Calendar!RowSaved
  <2>1. CASE UNCHANGED <<calLoad, unsettled, strayed>>
    BY <1>8, <2>1, QuietKept DEF Calendar!RowSaved
  <2>2. CASE Calendar!FetchData("save", None)
    BY <1>2, <1>8, <2>2 DEF Calendar!RowSaved
  <2> QED BY <1>8, <2>1, <2>2 DEF Calendar!RowSaved
<1>9. CASE Calendar!RowFails
  BY <1>9, QuietKept DEF Calendar!RowFails
<1>10. ASSUME NEW t \in Posts, Calendar!deleteTask(t) \/ Calendar!retryTask(t)
       PROVE  QuietInv'
  BY <1>2, <1>10 DEF Calendar!deleteTask, Calendar!retryTask
<1>11. CASE Calendar!Tick \/ \E t \in Posts : Calendar!Publish(t)
  BY <1>11, QuietKept DEF Calendar!Tick, Calendar!Publish
<1> QED BY <1>1, <1>3, <1>4, <1>5, <1>6, <1>7, <1>8, <1>9, <1>10, <1>11
   DEF Calendar!Next, Calendar!LoadNext, Calendar!SaveAnswers

LEMMA CalStepInv ==
    ASSUME CalInv, Calendar!Next
    PROVE  CalInv'
BY CalBaseStep, QuietStep DEF CalInv

LEMMA CalStays ==
    ASSUME CalInv, UNCHANGED CalendarVars
    PROVE  CalInv'
BY CalBaseStays, QuietKept DEF CalInv, CalendarVars

LEMMA CalKept ==
    ASSUME route = "calendar" => CalInv, [Next]_vars
    PROVE  (route = "calendar" => CalInv)'
<1> SUFFICES ASSUME route' = "calendar"
             PROVE  CalInv'
  OBVIOUS
<1>1. CASE UNCHANGED vars
  BY <1>1, CalStays DEF vars
<1>2. CASE CalendarStep
  BY <1>2, CalStepInv DEF CalendarStep
<1> QED BY <1>1, <1>2
   DEF Next, WizardStep, ProjectScreensStep, IntegrationsStep, BillingScreenStep, AnalyzerStep,
       TasksStep, ModeStep, SyncedStep, SeoStep, AiStep

(* No post is on a platform its project is not on, and no photo story on   *)
(* Facebook, unless loads of system/calendar/page.tsx overlapped, one      *)
(* failed, or another tab selected a project: with any projects, posts,    *)
(* rows of the dialog and dates.                                           *)
THEOREM PlatformIsProjectsHolds == Spec => []PlatformIsProjects
<1>1. Init => (route = "calendar" => CalInv)
  BY CalInit DEF Init
<1>2. (route = "calendar" => CalInv) /\ [Next]_vars => (route = "calendar" => CalInv)'
  BY CalKept
<1>3. (route = "calendar" => CalInv) => PlatformIsProjects
  BY CalPromises DEF PlatformIsProjects
<1> QED BY <1>1, <1>2, <1>3, PTL DEF Spec
-----------------------------------------------------------------------------
(* The list of projects and the settings.                                  *)

LEMMA ListBounds == ProjectScreens!ListAssumption
BY PagesAssumption DEF PagesAssumption

\* A finite set of numbers that is not empty has a greatest one: of the subsets that had
\* none, take a smallest, and leave an element out.
LEMMA LastOf ==
    ASSUME NEW S, S \subseteq Nat, IsFiniteSet(S), S # {}
    PROVE  \E i \in S : \A j \in S : j <= i
<1> DEFINE Endless == {T \in SUBSET S : T # {} /\ ~\E i \in T : \A j \in T : j <= i}
<1> DEFINE Sizes == {Cardinality(T) : T \in Endless}
<1> SUFFICES ASSUME Endless # {} PROVE FALSE
  OBVIOUS
<1>1. \A T \in Endless : IsFiniteSet(T) /\ Cardinality(T) \in Nat
  BY FS_Subset, FS_CardinalityType
<1>2. Sizes \subseteq Nat /\ Sizes # {}
  BY <1>1
<1>3. PICK n \in Sizes : \A m \in Sizes : n <= m
  <2> HIDE DEF Sizes
  <2> QED BY <1>2, FirstOf
<1>4. PICK T \in Endless : n = Cardinality(T)
  BY <1>3
<1>5. PICK x \in T : TRUE
  OBVIOUS
<1> DEFINE U == T \ {x}
<1>6. Cardinality(U) = Cardinality(T) - 1
  BY <1>1, FS_RemoveElement
<1>7. U # {}
  <2> SUFFICES ASSUME U = {} PROVE FALSE
    OBVIOUS
  <2>1. T = {x}
    OBVIOUS
  <2>2. x \in Nat /\ x <= x
    OBVIOUS
  <2> QED BY <2>1, <2>2
<1>8. U \notin Endless
  <2> SUFFICES ASSUME U \in Endless PROVE FALSE
    OBVIOUS
  <2>1. Cardinality(U) \in Sizes
    OBVIOUS
  <2>2. Cardinality(T) \in Nat /\ Cardinality(T) <= Cardinality(U)
    BY <1>1, <1>3, <1>4, <2>1
  <2> HIDE DEF U, Sizes, Endless
  <2> QED BY <1>6, <2>2
<1>9. PICK m \in U : \A j \in U : j <= m
  BY <1>7, <1>8
<1>10. x \in Nat /\ m \in Nat /\ m \in T
  OBVIOUS
<1>11. CASE x <= m
  BY <1>9, <1>10, <1>11
<1>12. CASE m <= x
  <2>1. \A j \in T : j <= x
    <3> TAKE j \in T
    <3>1. j = x \/ j <= m
      BY <1>9
    <3>2. j \in Nat
      OBVIOUS
    <3> QED BY <1>10, <1>12, <3>1, <3>2
  <2> QED BY <2>1
<1> QED BY <1>10, <1>11, <1>12

\* The settings have a form exactly when they have a project, and the page is open.
OpenInv ==
    /\ setProject # None => formData \in ProjectScreens!Form /\ screen = "settings" /\ ~opening
    /\ setSaving => setProject # None /\ sent \in ProjectScreens!Form
    /\ ProjectScreens!ProjectSpinnerHasCause
    /\ opening => screen = "settings"
    /\ setProject # None /\ ~replaced => setProject = asked

\* The form differs from the project only where the user touched it, or where it was not read.
Changed(part, v) == part \in touched \/ (part = "facebook" /\ v = EmptyField)

UndoInv ==
    setProject # None /\ ~stale /\ held[setProject] # ProjectScreens!Gone =>
       \A part \in ProjectScreens!Parts :
          /\ formData[part] # held[setProject][part] => Changed(part, formData[part])
          /\ setSaving /\ sent[part] # held[setProject][part] => Changed(part, sent[part])

\* What the list shows, or is about to show, is what there is.
Fetches(k) == fetch[k].at # "idle"
ListInv ==
    screen = "list" /\ ~uneven =>
       /\ \A k, m \in ProjectScreens!Keys : Fetches(k) /\ Fetches(m) => k = m
       /\ \A k \in ProjectScreens!Keys : fetch[k].at = "answered" => fetch[k].ids = ProjectScreens!Existing
       /\ ProjectScreens!Fetching = {} => cards = ProjectScreens!Existing

ScreensInv == ProjectScreens!ProjectTypeOK /\ OpenInv /\ UndoInv /\ ListInv

\* What is no form.
LEMMA FormFacts ==
    /\ ProjectScreens!Gone \notin ProjectScreens!Form
    /\ ProjectScreens!NoForm \notin ProjectScreens!Form
<1>1. \A f \in ProjectScreens!Form : DOMAIN f = ProjectScreens!Parts
  BY DEF ProjectScreens!Form
<1>2. "facebook" \in ProjectScreens!Parts
  BY DEF ProjectScreens!Parts
<1>3. DOMAIN ProjectScreens!Gone = {"gone"} /\ DOMAIN ProjectScreens!NoForm = {"empty"}
  BY DEF ProjectScreens!Gone, ProjectScreens!NoForm
<1> QED BY <1>1, <1>2, <1>3

LEMMA ScreensPromises ==
    ASSUME ScreensInv
    PROVE  /\ ProjectScreens!ProjectTypeOK /\ ProjectScreens!ListIsCurrent
           /\ ProjectScreens!SettingsUndoNothing /\ ProjectScreens!ProjectSpinnerHasCause
<1>1. ProjectScreens!ProjectTypeOK /\ ProjectScreens!ProjectSpinnerHasCause
  BY DEF ScreensInv, OpenInv
<1>2. ProjectScreens!ListIsCurrent
  BY DEF ScreensInv, ListInv, ProjectScreens!ListIsCurrent
<1>3. ProjectScreens!SettingsUndoNothing
  BY DEF ScreensInv, OpenInv, UndoInv, Changed, ProjectScreens!SettingsUndoNothing
<1> QED BY <1>1, <1>2, <1>3

LEMMA ScreensInit == ProjectScreens!ProjectInit => ScreensInv
<1> SUFFICES ASSUME ProjectScreens!ProjectInit PROVE ScreensInv
  OBVIOUS
<1>1. None \in ProjectScreens!Keys /\ Projects \subseteq ProjectScreens!Keys
  BY DEF ProjectScreens!Keys
<1>2. /\ fetch \in [ProjectScreens!Keys -> [at : {"idle", "sent", "answered"},
        ids : SUBSET Projects]]
      /\ \A k \in ProjectScreens!Keys : fetch[k].at = IF k = None THEN "sent" ELSE "idle"
  BY DEF ProjectScreens!ProjectInit, ProjectScreens!Idle
<1>3. ProjectScreens!ProjectTypeOK
  <2>1. held \in [Projects -> ProjectScreens!Form \cup {ProjectScreens!Gone}]
    BY DEF ProjectScreens!ProjectInit
  <2>2. opened \in 0 .. MaxOpened
    BY ListBounds DEF ProjectScreens!ProjectInit, ProjectScreens!ListAssumption
  <2> QED BY <1>1, <1>2, <2>1, <2>2 DEF ProjectScreens!ProjectInit, ProjectScreens!ProjectTypeOK
<1>4. None \in ProjectScreens!Fetching
  BY <1>1, <1>2 DEF ProjectScreens!Fetching
<1>5. OpenInv
  BY <1>4 DEF OpenInv, ProjectScreens!ProjectInit, ProjectScreens!ProjectSpinnerHasCause
<1>6. UndoInv
  BY DEF UndoInv, Changed, ProjectScreens!ProjectInit
<1>7. ListInv
  BY <1>2, <1>4 DEF ListInv, Fetches, ProjectScreens!ProjectInit
<1> QED BY <1>3, <1>5, <1>6, <1>7 DEF ScreensInv

\* The settings stay as they are while the list moves.
LEMMA SettingsStay ==
    ASSUME ScreensInv, UNCHANGED <<asked, setProject, formData, opening, setSaving, sent, touched,
                                   replaced, screen>>,
           held' = held \/ held' \in [Projects -> ProjectScreens!Form \cup {ProjectScreens!Gone}],
           setProject # None /\ held'[setProject] # held[setProject] => stale',
           stale => stale',
           screen = "list" /\ listing' => ProjectScreens!Fetching' # {}
    PROVE  OpenInv' /\ UndoInv'
<1>1. OpenInv'
  BY DEF ScreensInv, OpenInv, ProjectScreens!ProjectSpinnerHasCause
<1>2. UndoInv'
  BY DEF ScreensInv, UndoInv, Changed
<1> QED BY <1>1, <1>2

LEMMA ListCallsInv ==
    ASSUME ScreensInv, NEW k \in ProjectScreens!Keys,
           \/ ProjectScreens!ListProjects(k) \/ ProjectScreens!ListLands(k)
           \/ ProjectScreens!ListFails(k)
    PROVE  ScreensInv'
<1>1. /\ UNCHANGED <<held, screen, deleting, asked, setProject, formData, opening, setSaving,
                     setSaved, sent, stale, touched, replaced, opened>>
      /\ fetch' = [fetch EXCEPT ![k] = fetch'[k]] /\ fetch[k].at # "idle"
      /\ uneven => uneven'
  BY DEF ProjectScreens!ListProjects, ProjectScreens!ListLands, ProjectScreens!ListFails,
         ProjectScreens!settingsVars
<1>2. fetch \in [ProjectScreens!Keys -> [at : {"idle", "sent", "answered"}, ids : SUBSET Projects]]
  BY DEF ScreensInv, ProjectScreens!ProjectTypeOK
<1>3. CASE ProjectScreens!ListProjects(k)
  <2>1. /\ fetch'[k] = [at |-> "answered", ids |-> ProjectScreens!Existing]
        /\ \A m \in ProjectScreens!Keys : m # k => fetch'[m] = fetch[m]
        /\ UNCHANGED <<cards, listing, uneven>>
    BY <1>1, <1>2, <1>3 DEF ProjectScreens!ListProjects
  <2>2. ProjectScreens!Existing' = ProjectScreens!Existing /\ ProjectScreens!Existing \subseteq Projects
    BY <1>1 DEF ProjectScreens!Existing
  <2>3. ProjectScreens!Fetching' = ProjectScreens!Fetching
    BY <1>1, <2>1 DEF ProjectScreens!Fetching
  <2>4. fetch' \in [ProjectScreens!Keys -> [at : {"idle", "sent", "answered"},
          ids : SUBSET Projects]]
    BY <1>1, <1>2, <2>1, <2>2
  <2>5. ProjectScreens!ProjectTypeOK'
    BY <1>1, <2>1, <2>4 DEF ScreensInv, ProjectScreens!ProjectTypeOK
  <2>6. OpenInv' /\ UndoInv'
    <3>1. screen = "list" /\ listing' => ProjectScreens!Fetching' # {}
      BY <2>1, <2>3 DEF ScreensInv, OpenInv, ProjectScreens!ProjectSpinnerHasCause
    <3> QED BY <1>1, <3>1, SettingsStay
  <2>7. ListInv'
    BY <1>1, <2>1, <2>2, <2>3 DEF ScreensInv, ListInv, Fetches
  <2> QED BY <2>5, <2>6, <2>7 DEF ScreensInv
<1>4. CASE ProjectScreens!ListLands(k) \/ ProjectScreens!ListFails(k)
  <2>1. /\ fetch'[k] = ProjectScreens!Idle /\ listing' = FALSE
        /\ \A m \in ProjectScreens!Keys : m # k => fetch'[m] = fetch[m]
        /\ \/ uneven'
           \/ uneven' = uneven /\ cards' = fetch[k].ids /\ fetch[k].at = "answered"
        /\ cards' = fetch[k].ids \/ cards' = {}
        /\ uneven' = uneven \/ uneven' = TRUE
    BY <1>1, <1>2, <1>4 DEF ProjectScreens!ListLands, ProjectScreens!ListFails
  <2>2. ProjectScreens!Existing' = ProjectScreens!Existing
    BY <1>1 DEF ProjectScreens!Existing
  <2>3. fetch' \in [ProjectScreens!Keys -> [at : {"idle", "sent", "answered"},
          ids : SUBSET Projects]]
    BY <1>1, <1>2, <2>1 DEF ProjectScreens!Idle
  <2>4. ProjectScreens!ProjectTypeOK'
    <3>1. cards' \subseteq Projects
      BY <1>2, <2>1
    <3> QED BY <1>1, <2>1, <2>3, <3>1 DEF ScreensInv, ProjectScreens!ProjectTypeOK
  <2>5. OpenInv' /\ UndoInv'
    BY <1>1, <2>1, SettingsStay
  <2>6. ListInv'
    <3> SUFFICES ASSUME screen = "list", ~uneven' PROVE
           /\ \A j, m \in ProjectScreens!Keys : Fetches(j)' /\ Fetches(m)' => j = m
           /\ \A j \in ProjectScreens!Keys :
                 fetch'[j].at = "answered" => fetch'[j].ids = ProjectScreens!Existing'
           /\ ProjectScreens!Fetching' = {} => cards' = ProjectScreens!Existing'
      BY <1>1 DEF ListInv
    <3>1. /\ cards' = ProjectScreens!Existing
          /\ \A m \in ProjectScreens!Keys : fetch[m].at # "idle" => m = k
      BY <1>1, <2>1 DEF ScreensInv, ListInv, Fetches
    <3>2. \A m \in ProjectScreens!Keys : fetch'[m].at = "idle"
      BY <2>1, <3>1 DEF ProjectScreens!Idle
    <3> QED BY <2>2, <3>1, <3>2 DEF Fetches
  <2> QED BY <2>4, <2>5, <2>6 DEF ScreensInv
<1> QED BY <1>3, <1>4

LEMMA HandleDeleteInv ==
    ASSUME ScreensInv, NEW p \in Projects, ProjectScreens!handleDelete(p)
    PROVE  ScreensInv'
<1>1. /\ UNCHANGED <<held, screen, cards, listing, fetch, uneven, asked, setProject, formData,
                     opening, setSaving, setSaved, sent, stale, touched, replaced, opened>>
      /\ deleting' = deleting \cup {p}
  BY DEF ProjectScreens!handleDelete, ProjectScreens!settingsVars
<1>2. ProjectScreens!ProjectTypeOK'
  BY <1>1 DEF ScreensInv, ProjectScreens!ProjectTypeOK
<1>3. ProjectScreens!Fetching' = ProjectScreens!Fetching /\ ProjectScreens!Existing' = ProjectScreens!Existing
  BY <1>1 DEF ProjectScreens!Fetching, ProjectScreens!Existing
<1>4. OpenInv' /\ UndoInv'
  <2>1. screen = "list" /\ listing' => ProjectScreens!Fetching' # {}
    BY <1>1, <1>3 DEF ScreensInv, OpenInv, ProjectScreens!ProjectSpinnerHasCause
  <2> QED BY <1>1, <2>1, SettingsStay
<1>5. ListInv'
  BY <1>1, <1>3 DEF ScreensInv, ListInv, Fetches
<1> QED BY <1>2, <1>4, <1>5 DEF ScreensInv

\* Somebody writes project p, or deletes it: the settings notice, and so does the list.
LEMMA WrittenInv ==
    ASSUME ScreensInv, NEW p \in Projects, held[p] # ProjectScreens!Gone,
           NEW f \in ProjectScreens!Form \cup {ProjectScreens!Gone},
           held' = [held EXCEPT ![p] = f],
           stale' = (stale \/ setProject = p),
           UNCHANGED <<screen, cards, asked, setProject, formData, opening, setSaving, setSaved,
                       sent, touched, replaced, opened>>,
           deleting' \subseteq Projects, uneven' \in BOOLEAN, listing' \in BOOLEAN
    PROVE  /\ UNCHANGED fetch /\ UNCHANGED listing => OpenInv' /\ UndoInv'
           /\ ProjectScreens!Fetching' # {} => OpenInv' /\ UndoInv'
           /\ UNCHANGED fetch => ProjectScreens!ProjectTypeOK'
           /\ /\ UNCHANGED fetch
              /\ uneven' \/ (f # ProjectScreens!Gone /\ uneven' = uneven)
              => ListInv'
<1>1. held \in [Projects -> ProjectScreens!Form \cup {ProjectScreens!Gone}]
  BY DEF ScreensInv, ProjectScreens!ProjectTypeOK
<1>2. /\ held' \in [Projects -> ProjectScreens!Form \cup {ProjectScreens!Gone}]
      /\ \A q \in Projects : q # p => held'[q] = held[q]
      /\ held'[p] = f
  BY <1>1
<1>3. stale \in BOOLEAN /\ setProject \in Projects \cup {None}
  BY DEF ScreensInv, ProjectScreens!ProjectTypeOK, ProjectScreens!Keys
<1>4. ASSUME screen = "list" /\ listing' => ProjectScreens!Fetching' # {}
      PROVE  OpenInv' /\ UndoInv'
  <2>1. setProject # None /\ held'[setProject] # held[setProject] => stale'
    BY <1>2, <1>3
  <2>2. stale => stale'
    OBVIOUS
  <2> QED BY <1>2, <1>4, <2>1, <2>2, SettingsStay
<1>5. UNCHANGED fetch => ProjectScreens!Fetching' = ProjectScreens!Fetching
  BY DEF ProjectScreens!Fetching
<1>6. UNCHANGED fetch /\ UNCHANGED listing => OpenInv' /\ UndoInv'
  <2> SUFFICES ASSUME UNCHANGED fetch, UNCHANGED listing PROVE OpenInv' /\ UndoInv'
    OBVIOUS
  <2>1. screen = "list" /\ listing' => ProjectScreens!Fetching' # {}
    BY <1>5 DEF ScreensInv, OpenInv, ProjectScreens!ProjectSpinnerHasCause
  <2> QED BY <1>4, <2>1
<1>7. UNCHANGED fetch => ProjectScreens!ProjectTypeOK'
  <2>1. stale' \in BOOLEAN
    BY <1>3
  <2> QED BY <1>2, <2>1 DEF ScreensInv, ProjectScreens!ProjectTypeOK
<1>8. ASSUME UNCHANGED fetch, uneven' \/ (f # ProjectScreens!Gone /\ uneven' = uneven)
      PROVE  ListInv'
  <2>1. CASE uneven'
    BY <2>1 DEF ListInv
  <2>2. CASE f # ProjectScreens!Gone /\ uneven' = uneven
    <3>1. ProjectScreens!Existing' = ProjectScreens!Existing
      BY <1>2, <2>2 DEF ProjectScreens!Existing
    <3> QED BY <1>5, <1>8, <2>2, <3>1 DEF ScreensInv, ListInv, Fetches
  <2> QED BY <1>8, <2>1, <2>2
<1> QED BY <1>4, <1>6, <1>7, <1>8

LEMMA OtherWritesInv ==
    ASSUME ScreensInv, NEW p \in Projects, NEW f \in ProjectScreens!Form \cup {ProjectScreens!Gone},
           ProjectScreens!OtherWrites(p, f)
    PROVE  ScreensInv'
<1>1. /\ held[p] # ProjectScreens!Gone /\ held' = [held EXCEPT ![p] = f]
      /\ stale' = (stale \/ setProject = p) /\ uneven' = (uneven \/ f = ProjectScreens!Gone)
      /\ UNCHANGED <<screen, cards, asked, setProject, formData, opening, setSaving, setSaved,
                     sent, touched, replaced, opened>>
      /\ UNCHANGED <<listing, fetch, deleting>>
  BY DEF ProjectScreens!OtherWrites
<1>2. deleting' \subseteq Projects /\ uneven' \in BOOLEAN /\ listing' \in BOOLEAN /\ uneven \in BOOLEAN
  BY <1>1 DEF ScreensInv, ProjectScreens!ProjectTypeOK
<1>3. /\ UNCHANGED fetch /\ UNCHANGED listing
      /\ uneven' \/ (f # ProjectScreens!Gone /\ uneven' = uneven)
  <2>1. CASE f = ProjectScreens!Gone
    <3>1. uneven'
      BY <1>1, <2>1, Zenon
    <3> QED BY <1>1, <3>1
  <2>2. CASE f # ProjectScreens!Gone
    BY <1>1, <1>2, <2>2
  <2> QED BY <2>1, <2>2
<1>4. OpenInv' /\ UndoInv' /\ ProjectScreens!ProjectTypeOK' /\ ListInv'
  BY <1>1, <1>2, <1>3, WrittenInv
<1> QED BY <1>4 DEF ScreensInv

LEMMA DeleteFailsInv ==
    ASSUME ScreensInv, NEW p \in Projects, ProjectScreens!DeleteFails(p)
    PROVE  ScreensInv'
<1>1. /\ deleting' = deleting \ {p} /\ held' \in {held, [held EXCEPT ![p] = ProjectScreens!Gone]}
      /\ uneven' = (uneven \/ held' # held)
      /\ stale' = (stale \/ (setProject = p /\ held' # held))
      /\ UNCHANGED <<screen, cards, asked, setProject, formData, opening, setSaving, setSaved,
                     sent, touched, replaced, opened>>
      /\ UNCHANGED <<listing, fetch>>
  BY DEF ProjectScreens!DeleteFails
<1>2. /\ deleting' \subseteq Projects /\ uneven' \in BOOLEAN /\ listing' \in BOOLEAN
      /\ uneven \in BOOLEAN /\ stale \in BOOLEAN
      /\ held \in [Projects -> ProjectScreens!Form \cup {ProjectScreens!Gone}]
  BY <1>1 DEF ScreensInv, ProjectScreens!ProjectTypeOK
<1>3. CASE held' = held
  <2>1. uneven' = uneven /\ stale' = stale
    BY <1>1, <1>2, <1>3
  <2>2. ProjectScreens!ProjectTypeOK'
    BY <1>1, <1>2, <1>3, <2>1 DEF ScreensInv, ProjectScreens!ProjectTypeOK
  <2>3. ProjectScreens!Fetching' = ProjectScreens!Fetching /\ ProjectScreens!Existing' = ProjectScreens!Existing
    BY <1>1, <1>3 DEF ProjectScreens!Fetching, ProjectScreens!Existing
  <2>4. OpenInv' /\ UndoInv'
    <3>1. screen = "list" /\ listing' => ProjectScreens!Fetching' # {}
      BY <1>1, <2>3 DEF ScreensInv, OpenInv, ProjectScreens!ProjectSpinnerHasCause
    <3> QED BY <1>1, <1>3, <2>1, <3>1, SettingsStay
  <2>5. ListInv'
    BY <1>1, <2>1, <2>3 DEF ScreensInv, ListInv, Fetches
  <2> QED BY <2>2, <2>4, <2>5 DEF ScreensInv
<1>4. CASE held' # held
  <2>1. held' = [held EXCEPT ![p] = ProjectScreens!Gone] /\ held[p] # ProjectScreens!Gone
    BY <1>1, <1>2, <1>4
  <2>2. stale' = (stale \/ setProject = p) /\ uneven'
    BY <1>1, <1>2, <1>4
  <2>3. UNCHANGED fetch /\ UNCHANGED listing
    BY <1>1
  <2>4. ProjectScreens!Gone \in ProjectScreens!Form \cup {ProjectScreens!Gone}
    OBVIOUS
  <2>5. OpenInv' /\ UndoInv' /\ ProjectScreens!ProjectTypeOK' /\ ListInv'
    BY <1>1, <1>2, <2>1, <2>2, <2>3, <2>4, WrittenInv, Zenon
  <2> QED BY <2>5 DEF ScreensInv
<1> QED BY <1>3, <1>4

LEMMA DeleteLandsInv ==
    ASSUME ScreensInv, NEW p \in Projects, ProjectScreens!DeleteLands(p)
    PROVE  ScreensInv'
<1>1. /\ deleting' = deleting \ {p} /\ held' = [held EXCEPT ![p] = ProjectScreens!Gone]
      /\ held[p] # ProjectScreens!Gone
      /\ stale' = (stale \/ setProject = p)
      /\ UNCHANGED <<screen, cards, asked, setProject, formData, opening, setSaving, setSaved,
                     sent, touched, replaced, opened>>
  BY DEF ProjectScreens!DeleteLands
<1>2. /\ deleting' \subseteq Projects /\ uneven \in BOOLEAN /\ listing \in BOOLEAN
      /\ fetch \in [ProjectScreens!Keys -> [at : {"idle", "sent", "answered"},
              ids : SUBSET Projects]]
      /\ p \in ProjectScreens!Keys
  BY <1>1 DEF ScreensInv, ProjectScreens!ProjectTypeOK, ProjectScreens!Keys
<1>3. CASE screen # "list"
  <2>1. UNCHANGED <<listing, fetch, uneven>>
    BY <1>3 DEF ProjectScreens!DeleteLands
  <2>2. OpenInv' /\ UndoInv' /\ ProjectScreens!ProjectTypeOK'
    BY <1>1, <1>2, <2>1, WrittenInv
  <2>3. ListInv'
    BY <1>1, <1>3 DEF ListInv
  <2> QED BY <2>2, <2>3 DEF ScreensInv
<1>4. CASE screen = "list"
  <2>1. /\ fetch' = [fetch EXCEPT ![p] = [ProjectScreens!Idle EXCEPT !.at = "sent"]]
        /\ listing' = TRUE /\ uneven' = (uneven \/ ProjectScreens!Fetching # {})
    BY <1>4 DEF ProjectScreens!DeleteLands, ProjectScreens!fetchProjects
  <2>2. /\ fetch'[p] = [at |-> "sent", ids |-> {}]
        /\ \A m \in ProjectScreens!Keys : m # p => fetch'[m] = fetch[m]
        /\ fetch' \in [ProjectScreens!Keys -> [at : {"idle", "sent", "answered"},
                ids : SUBSET Projects]]
    BY <1>2, <2>1 DEF ProjectScreens!Idle
  <2>3. p \in ProjectScreens!Fetching'
    BY <1>2, <2>2 DEF ProjectScreens!Fetching
  <2>4. uneven' \in BOOLEAN
    BY <1>2, <2>1
  <2>5. OpenInv' /\ UndoInv'
    BY <1>1, <1>2, <2>1, <2>3, <2>4, WrittenInv
  <2>6. ProjectScreens!ProjectTypeOK'
    <3>1. /\ held' \in [Projects -> ProjectScreens!Form \cup {ProjectScreens!Gone}]
          /\ stale' \in BOOLEAN
      BY <1>1 DEF ScreensInv, ProjectScreens!ProjectTypeOK
    <3> QED BY <1>1, <1>2, <2>1, <2>2, <2>4, <3>1 DEF ScreensInv, ProjectScreens!ProjectTypeOK
  <2>7. ListInv'
    <3> SUFFICES ASSUME ~uneven' PROVE ListInv'
      BY DEF ListInv
    <3>1. ProjectScreens!Fetching = {}
      BY <2>1
    <3>2. \A m \in ProjectScreens!Keys : m # p => fetch'[m].at = "idle"
      BY <2>2, <3>1 DEF ProjectScreens!Fetching
    <3> QED BY <2>2, <2>3, <3>2 DEF ListInv, Fetches
  <2> QED BY <2>5, <2>6, <2>7 DEF ScreensInv
<1> QED BY <1>3, <1>4

LEMMA OpensInv ==
    ASSUME ScreensInv, NEW p \in Projects,
           ProjectScreens!OpenCard(p) \/ ProjectScreens!OpenSettings(p)
    PROVE  ScreensInv'
<1>1. /\ screen = "list" /\ screen' \in {"left", "settings"} /\ cards' = {}
      /\ fetch' = [k \in ProjectScreens!Keys |-> ProjectScreens!Idle]
      /\ UNCHANGED <<held, listing, deleting, uneven, setProject, formData, setSaving, setSaved,
                     sent, stale, touched, replaced>>
      /\ \/ UNCHANGED <<asked, opening, opened>>
         \/ /\ asked' = p /\ opening' = TRUE /\ opened' = opened + 1 /\ opened < MaxOpened
            /\ screen' = "settings"
  BY DEF ProjectScreens!OpenCard, ProjectScreens!OpenSettings, ProjectScreens!settingsVars
<1>2. setProject = None /\ ~setSaving /\ opening = FALSE
  BY <1>1 DEF ScreensInv, OpenInv, ProjectScreens!ProjectTypeOK
<1>3. ProjectScreens!ProjectTypeOK'
  <2>1. fetch' \in [ProjectScreens!Keys -> [at : {"idle", "sent", "answered"},
          ids : SUBSET Projects]]
    BY <1>1 DEF ProjectScreens!Idle
  <2>2. opened' \in 0 .. MaxOpened
    BY <1>1, ListBounds
       DEF ScreensInv, ProjectScreens!ProjectTypeOK, ProjectScreens!ListAssumption
  <2>3. asked' \in ProjectScreens!Keys /\ opening' \in BOOLEAN
    BY <1>1 DEF ScreensInv, ProjectScreens!ProjectTypeOK, ProjectScreens!Keys
  <2> QED BY <1>1, <2>1, <2>2, <2>3 DEF ScreensInv, ProjectScreens!ProjectTypeOK
<1>4. OpenInv'
  BY <1>1, <1>2 DEF ScreensInv, OpenInv, ProjectScreens!ProjectSpinnerHasCause
<1>5. UndoInv'
  BY <1>1, <1>2 DEF UndoInv, Changed
<1>6. ListInv'
  BY <1>1 DEF ListInv
<1> QED BY <1>3, <1>4, <1>5, <1>6 DEF ScreensInv

\* The settings fill with the project asked for, or with the last one of the list.
LEMMA LoadProjectInv ==
    ASSUME ScreensInv, ProjectScreens!loadProject
    PROVE  ScreensInv'
<1> DEFINE E == ProjectScreens!Existing
<1>1. /\ opening /\ opening' = FALSE /\ stale' = FALSE /\ replaced' = (setProject' # asked)
      /\ setProject' = IF asked \in E THEN asked
                       ELSE IF E = {} THEN None
                       ELSE CHOOSE p \in E : \A q \in E : q <= p
      /\ formData' = IF setProject' = None THEN ProjectScreens!NoForm
                     ELSE [held[setProject'] EXCEPT !["facebook"] = EmptyField]
      /\ UNCHANGED <<held, screen, cards, listing, fetch, deleting, uneven, asked, setSaving,
                     setSaved, sent, touched, opened>>
  BY DEF ProjectScreens!loadProject, ProjectScreens!listVars
<1>2. screen = "settings" /\ setProject = None /\ ~setSaving
  BY <1>1 DEF ScreensInv, OpenInv
<1>3. E \subseteq Projects /\ \A p \in E : held[p] \in ProjectScreens!Form
  BY DEF ProjectScreens!Existing, ScreensInv, ProjectScreens!ProjectTypeOK
<1>4. setProject' \in E \/ setProject' = None
  <2>1. CASE asked \in E
    BY <1>1, <2>1
  <2>2. CASE asked \notin E /\ E # {}
    <3> HIDE DEF E
    <3>1. E \subseteq Nat /\ IsFiniteSet(E)
      <4>1. E \in SUBSET Projects /\ Projects \subseteq Nat /\ IsFiniteSet(Projects)
        BY <1>3, ListBounds
           DEF ProjectScreens!ListAssumption, ProjectScreens!IsFiniteSet, IsFiniteSet
      <4> QED BY <4>1, FS_Subset
    <3>2. \E p \in E : \A q \in E : q <= p
      BY <2>2, <3>1, LastOf
    <3>3. (CHOOSE p \in E : \A q \in E : q <= p) \in E
      BY <3>2
    <3> QED BY <1>1, <2>2, <3>3
  <2>3. CASE asked \notin E /\ E = {}
    BY <1>1, <2>3
  <2> QED BY <2>1, <2>2, <2>3
<1> HIDE DEF E
<1>5. \/ /\ setProject' \in E /\ formData' \in ProjectScreens!Form
         /\ \A part \in ProjectScreens!Parts :
               formData'[part] = IF part = "facebook" THEN EmptyField ELSE held[setProject'][part]
      \/ setProject' = None /\ formData' = ProjectScreens!NoForm
  <2>1. None \notin E
    BY <1>3, ListBounds DEF ProjectScreens!ListAssumption
  <2>2. CASE setProject' \in E
    <3>1. formData' = [held[setProject'] EXCEPT !["facebook"] = EmptyField] /\ EmptyField \in Values
      BY <1>1, <2>1, <2>2, ListBounds DEF ProjectScreens!ListAssumption
    <3>2. held[setProject'] \in ProjectScreens!Form
      BY <1>3, <2>2
    <3> QED BY <2>2, <3>1, <3>2 DEF ProjectScreens!Form
  <2> QED BY <1>1, <1>4, <2>1, <2>2
<1>6. ProjectScreens!ProjectTypeOK'
  <2>1. setProject' \in ProjectScreens!Keys
    BY <1>3, <1>4 DEF ProjectScreens!Keys
  <2>2. formData' \in ProjectScreens!Form \cup {ProjectScreens!NoForm}
    BY <1>3, <1>5
  <2> QED BY <1>1, <2>1, <2>2 DEF ScreensInv, ProjectScreens!ProjectTypeOK
<1>7. OpenInv'
  <2>1. setProject' # None => formData' \in ProjectScreens!Form
    BY <1>3, <1>5
  <2>2. setProject' # None /\ ~replaced' => setProject' = asked'
    BY <1>1
  <2> QED BY <1>1, <1>2, <2>1, <2>2 DEF ScreensInv, OpenInv, ProjectScreens!ProjectSpinnerHasCause
<1>8. UndoInv'
  BY <1>1, <1>2, <1>5 DEF UndoInv, Changed
<1>9. ListInv'
  BY <1>1, <1>2 DEF ListInv
<1> QED BY <1>6, <1>7, <1>8, <1>9 DEF ScreensInv

\* What a step of the settings leaves alone.
ListStays == UNCHANGED <<screen, cards, listing, fetch, deleting, uneven, asked, opening, opened>>

LEMMA ListTypesStay ==
    ASSUME ScreensInv, ListStays, screen = "settings",
           held' \in [Projects -> ProjectScreens!Form \cup {ProjectScreens!Gone}],
           setProject' \in ProjectScreens!Keys,
           formData' \in ProjectScreens!Form \cup {ProjectScreens!NoForm},
           sent' \in ProjectScreens!Form \cup {ProjectScreens!NoForm},
           setSaving' \in BOOLEAN, setSaved' \in BOOLEAN, stale' \in BOOLEAN,
           replaced' \in BOOLEAN, touched' \subseteq ProjectScreens!Parts
    PROVE  ProjectScreens!ProjectTypeOK' /\ ListInv'
<1>1. ProjectScreens!ProjectTypeOK'
  BY DEF ListStays, ScreensInv, ProjectScreens!ProjectTypeOK
<1>2. ListInv'
  BY DEF ListStays, ListInv
<1> QED BY <1>1, <1>2

LEMMA SettingsTypes ==
    ASSUME ScreensInv
    PROVE  /\ held \in [Projects -> ProjectScreens!Form \cup {ProjectScreens!Gone}]
           /\ setProject \in ProjectScreens!Keys
           /\ setProject # None => setProject \in Projects
           /\ formData \in ProjectScreens!Form \cup {ProjectScreens!NoForm}
           /\ sent \in ProjectScreens!Form \cup {ProjectScreens!NoForm}
           /\ setSaving \in BOOLEAN /\ setSaved \in BOOLEAN /\ stale \in BOOLEAN
           /\ replaced \in BOOLEAN /\ touched \subseteq ProjectScreens!Parts /\ opening \in BOOLEAN
BY DEF ScreensInv, ProjectScreens!ProjectTypeOK, ProjectScreens!Keys

LEMMA FormStepsInv ==
    ASSUME ScreensInv,
           \/ ProjectScreens!handleSave
           \/ \E part \in ProjectScreens!Parts, v \in Values : ProjectScreens!setFormData(part, v)
    PROVE  ScreensInv'
<1>1. /\ ListStays /\ screen = "settings" /\ setProject # None
      /\ UNCHANGED <<held, setProject, stale, replaced>>
  BY DEF ProjectScreens!handleSave, ProjectScreens!setFormData, ProjectScreens!listVars, ListStays
<1>2. formData \in ProjectScreens!Form /\ ProjectScreens!NoForm \notin ProjectScreens!Form
  BY <1>1, FormFacts DEF ScreensInv, OpenInv
<1>3. CASE ProjectScreens!handleSave
  <2>1. /\ setSaving' = TRUE /\ setSaved' = FALSE /\ sent' = formData /\ UNCHANGED <<formData,
          touched>>
    BY <1>3 DEF ProjectScreens!handleSave
  <2>2. ProjectScreens!ProjectTypeOK' /\ ListInv'
    BY <1>1, <2>1, SettingsTypes, ListTypesStay
  <2>3. OpenInv'
    BY <1>1, <1>2, <2>1 DEF ListStays, ScreensInv, OpenInv, ProjectScreens!ProjectSpinnerHasCause
  <2>4. UndoInv'
    BY <1>1, <2>1 DEF ScreensInv, UndoInv, Changed
  <2> QED BY <2>2, <2>3, <2>4 DEF ScreensInv
<1>4. ASSUME NEW part \in ProjectScreens!Parts, NEW v \in Values,
        ProjectScreens!setFormData(part, v)
      PROVE  ScreensInv'
  <2>1. /\ formData' = [formData EXCEPT ![part] = v] /\ touched' = touched \cup {part}
        /\ UNCHANGED <<setSaving, setSaved, sent>>
    BY <1>4 DEF ProjectScreens!setFormData
  <2>2. /\ formData' \in ProjectScreens!Form
        /\ \A q \in ProjectScreens!Parts : q # part => formData'[q] = formData[q]
    BY <1>2, <2>1 DEF ProjectScreens!Form
  <2>3. ProjectScreens!ProjectTypeOK' /\ ListInv'
    <3>1. touched' \subseteq ProjectScreens!Parts
      BY <2>1, SettingsTypes
    <3> QED BY <1>1, <2>1, <2>2, <3>1, SettingsTypes, ListTypesStay
  <2>4. OpenInv'
    BY <1>1, <2>1, <2>2 DEF ListStays, ScreensInv, OpenInv, ProjectScreens!ProjectSpinnerHasCause
  <2>5. UndoInv'
    BY <1>1, <2>1, <2>2 DEF ScreensInv, UndoInv, Changed
  <2> QED BY <2>3, <2>4, <2>5 DEF ScreensInv
<1> QED BY <1>3, <1>4

\* A save that ends: if it was written, the project is what was sent.
LEMMA SaveEndsInv ==
    ASSUME ScreensInv, ProjectScreens!SaveLands \/ ProjectScreens!SaveFails
    PROVE  ScreensInv'
<1>1. /\ setSaving /\ setSaving' = FALSE /\ sent' = ProjectScreens!NoForm
      /\ ListStays /\ UNCHANGED <<setProject, formData, replaced>>
  BY DEF ProjectScreens!SaveLands, ProjectScreens!SaveFails, ProjectScreens!listVars, ListStays
<1>2. /\ setProject \in Projects /\ sent \in ProjectScreens!Form /\ screen = "settings" /\ setProject # None
  BY <1>1, SettingsTypes DEF ScreensInv, OpenInv
<1>3. CASE ProjectScreens!SaveLands
  <2>1. /\ held' = [held EXCEPT ![setProject] = sent] /\ setSaved' = TRUE /\ stale' = FALSE
        /\ touched' = {q \in ProjectScreens!Parts : formData[q] # sent[q]}
    BY <1>3 DEF ProjectScreens!SaveLands
  <2>2. held' \in [Projects -> ProjectScreens!Form \cup {ProjectScreens!Gone}] /\ held'[setProject] = sent
    BY <1>2, <2>1, SettingsTypes
  <2>3. ProjectScreens!ProjectTypeOK' /\ ListInv'
    BY <1>1, <1>2, <2>1, <2>2, SettingsTypes, ListTypesStay
  <2>4. OpenInv'
    BY <1>1, <1>2 DEF ListStays, ScreensInv, OpenInv, ProjectScreens!ProjectSpinnerHasCause
  <2>5. UndoInv'
    BY <1>1, <2>1, <2>2 DEF UndoInv, Changed
  <2> QED BY <2>3, <2>4, <2>5 DEF ScreensInv
<1>4. CASE ProjectScreens!SaveFails
  <2>1. /\ held' = held \/ held' = [held EXCEPT ![setProject] = sent]
        /\ stale' = (stale \/ held' # held) /\ UNCHANGED <<setSaved, touched>>
    BY <1>4 DEF ProjectScreens!SaveFails
  <2>2. held' \in [Projects -> ProjectScreens!Form \cup {ProjectScreens!Gone}]
    BY <1>2, <2>1, SettingsTypes
  <2>3. ProjectScreens!ProjectTypeOK' /\ ListInv'
    BY <1>1, <1>2, <2>1, <2>2, SettingsTypes, ListTypesStay
  <2>4. OpenInv'
    BY <1>1, <1>2 DEF ListStays, ScreensInv, OpenInv, ProjectScreens!ProjectSpinnerHasCause
  <2>5. UndoInv'
    <3> SUFFICES ASSUME ~stale' PROVE UndoInv'
      BY DEF UndoInv, Changed
    <3>1. held' = held /\ ~stale
      BY <2>1
    <3> QED BY <1>1, <2>1, <3>1 DEF ScreensInv, UndoInv, Changed
  <2> QED BY <2>3, <2>4, <2>5 DEF ScreensInv
<1> QED BY <1>3, <1>4

LEMMA LoadFadesInv ==
    ASSUME ScreensInv, ProjectScreens!LoadFails \/ ProjectScreens!SavedFades
    PROVE  ScreensInv'
<1>1. /\ UNCHANGED <<held, screen, cards, listing, fetch, deleting, uneven, asked, setProject,
                     formData, setSaving, sent, stale, touched, replaced, opened>>
      /\ opening' = FALSE \/ opening' = opening
      /\ setSaved' = FALSE \/ setSaved' = setSaved
  BY DEF ProjectScreens!LoadFails, ProjectScreens!SavedFades, ProjectScreens!listVars
<1>2. ProjectScreens!ProjectTypeOK'
  BY <1>1 DEF ScreensInv, ProjectScreens!ProjectTypeOK
<1>3. OpenInv' /\ UndoInv' /\ ListInv'
  <2>1. ProjectScreens!Fetching' = ProjectScreens!Fetching /\ ProjectScreens!Existing' = ProjectScreens!Existing
    BY <1>1 DEF ProjectScreens!Fetching, ProjectScreens!Existing
  <2>2. OpenInv'
    BY <1>1, <2>1 DEF ScreensInv, OpenInv, ProjectScreens!ProjectSpinnerHasCause
  <2>3. UndoInv'
    BY <1>1 DEF ScreensInv, UndoInv, Changed
  <2>4. ListInv'
    BY <1>1, <2>1 DEF ScreensInv, ListInv, Fetches
  <2> QED BY <2>2, <2>3, <2>4
<1> QED BY <1>2, <1>3 DEF ScreensInv

\* Deleted here: back to a list that reads itself.
LEMMA DeleteHereInv ==
    ASSUME ScreensInv, ProjectScreens!DeleteHere
    PROVE  ScreensInv'
<1>1. /\ setProject # None /\ held' = [held EXCEPT ![setProject] = ProjectScreens!Gone]
      /\ screen' = "list" /\ listing' = TRUE /\ cards' = {} /\ uneven' = FALSE
      /\ fetch' = [k \in ProjectScreens!Keys |->
                     IF k = None THEN [ProjectScreens!Idle EXCEPT !.at = "sent"]
                     ELSE ProjectScreens!Idle]
      /\ asked' = None /\ setProject' = None /\ formData' = ProjectScreens!NoForm
      /\ opening' = FALSE /\ setSaving' = FALSE /\ setSaved' = FALSE
      /\ sent' = ProjectScreens!NoForm /\ stale' = FALSE /\ touched' = {} /\ replaced' = FALSE
      /\ UNCHANGED <<deleting, opened>>
  BY DEF ProjectScreens!DeleteHere, ProjectScreens!ClosedSettings
<1>2. /\ fetch' \in [ProjectScreens!Keys -> [at : {"idle", "sent", "answered"},
        ids : SUBSET Projects]]
      /\ \A k \in ProjectScreens!Keys : fetch'[k].at = IF k = None THEN "sent" ELSE "idle"
      /\ None \in ProjectScreens!Keys
  BY <1>1 DEF ProjectScreens!Idle, ProjectScreens!Keys
<1>3. ProjectScreens!ProjectTypeOK'
  <2>1. held' \in [Projects -> ProjectScreens!Form \cup {ProjectScreens!Gone}]
    BY <1>1, SettingsTypes
  <2> QED BY <1>1, <1>2, <2>1 DEF ScreensInv, ProjectScreens!ProjectTypeOK
<1>4. None \in ProjectScreens!Fetching'
  BY <1>2 DEF ProjectScreens!Fetching
<1>5. OpenInv'
  BY <1>1, <1>4 DEF OpenInv, ProjectScreens!ProjectSpinnerHasCause
<1>6. UndoInv'
  BY <1>1 DEF UndoInv, Changed
<1>7. ListInv'
  BY <1>2, <1>4 DEF ListInv, Fetches
<1> QED BY <1>3, <1>5, <1>6, <1>7 DEF ScreensInv

LEMMA ScreensStepInv == ScreensInv /\ ProjectScreens!ProjectNext => ScreensInv'
<1> SUFFICES ASSUME ScreensInv, ProjectScreens!ProjectNext PROVE ScreensInv'
  OBVIOUS
<1>1. ASSUME NEW k \in ProjectScreens!Keys,
             \/ ProjectScreens!ListProjects(k) \/ ProjectScreens!ListLands(k)
             \/ ProjectScreens!ListFails(k)
      PROVE  ScreensInv'
  BY <1>1, ListCallsInv
<1>2. ASSUME NEW p \in Projects,
             \/ ProjectScreens!handleDelete(p) \/ ProjectScreens!DeleteLands(p)
             \/ ProjectScreens!DeleteFails(p)
             \/ ProjectScreens!OpenCard(p) \/ ProjectScreens!OpenSettings(p)
             \/ \E f \in ProjectScreens!Form \cup {ProjectScreens!Gone} : ProjectScreens!OtherWrites(p, f)
      PROVE  ScreensInv'
  BY <1>2, HandleDeleteInv, DeleteLandsInv, DeleteFailsInv, OpensInv, OtherWritesInv
<1>3. ASSUME \/ ProjectScreens!handleSave
             \/ \E part \in ProjectScreens!Parts, v \in Values : ProjectScreens!setFormData(part, v)
      PROVE  ScreensInv'
  BY <1>3, FormStepsInv
<1>4. ASSUME \/ ProjectScreens!loadProject \/ ProjectScreens!LoadFails \/ ProjectScreens!SaveLands
             \/ ProjectScreens!SaveFails \/ ProjectScreens!SavedFades \/ ProjectScreens!DeleteHere
      PROVE  ScreensInv'
  BY <1>4, LoadProjectInv, LoadFadesInv, SaveEndsInv, DeleteHereInv
<1> QED BY <1>1, <1>2, <1>3, <1>4 DEF ProjectScreens!ProjectNext

LEMMA ScreensStays == ScreensInv /\ UNCHANGED ProjectScreensVars => ScreensInv'
BY DEF ProjectScreensVars, ScreensInv, OpenInv, UndoInv, Changed, ListInv, Fetches,
       ProjectScreens!ProjectTypeOK, ProjectScreens!ProjectSpinnerHasCause,
       ProjectScreens!Fetching, ProjectScreens!Existing

LEMMA ScreensKept ==
    ASSUME route = "projects" => ScreensInv, [Next]_vars
    PROVE  (route = "projects" => ScreensInv)'
<1> SUFFICES ASSUME route' = "projects"
             PROVE  ScreensInv'
  OBVIOUS
<1>1. CASE UNCHANGED vars
  BY <1>1, ScreensStays DEF vars
<1>2. CASE ProjectScreensStep
  BY <1>2, ScreensStepInv DEF ProjectScreensStep
<1> QED BY <1>1, <1>2
   DEF Next, CalendarStep, WizardStep, IntegrationsStep, BillingScreenStep, AnalyzerStep,
       TasksStep, ModeStep, SyncedStep, SeoStep, AiStep

(* A save of the settings (projects/settings/page.tsx) is of the project   *)
(* they were opened for, if that one was listed, and changes nothing of it *)
(* but what the user changed, unless someone else wrote it since it was    *)
(* read: with any projects and any forms, whatever deletions are under way.*)
THEOREM SettingsUndoNothingHolds == Spec => []SettingsUndoNothing
<1>1. Init => (route = "projects" => ScreensInv)
  BY ScreensInit DEF Init
<1>2. (route = "projects" => ScreensInv) /\ [Next]_vars => (route = "projects" => ScreensInv)'
  BY ScreensKept
<1>3. (route = "projects" => ScreensInv) => SettingsUndoNothing
  BY ScreensPromises DEF SettingsUndoNothing
<1> QED BY <1>1, <1>2, <1>3, PTL DEF Spec
=============================================================================
