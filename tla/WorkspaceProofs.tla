---------------------------- MODULE WorkspaceProofs ----------------------------
(***************************************************************************)
(* The other pages of Workspace, and what holds of all of them.            *)
(***************************************************************************)
EXTENDS PageProofs

-----------------------------------------------------------------------------
(* The integrations.                                                       *)

LEMMA ReadingBounds == Integrations!ReadingAssumption
BY PagesAssumption DEF PagesAssumption

\* Without a history that says otherwise one reading is under way, and its answer is what
\* there is.
CardsInv ==
    ~unsure =>
       /\ \A r, s \in Integrations!Slots :
             reading[r].at # "idle" /\ reading[s].at # "idle" => r = s
       /\ \A s \in Integrations!Slots : reading[s].at = "answered" => reading[s].creds = creds
       /\ Integrations!CardsAreCurrent

ConnectedInv ==
    Integrations!IntegrationTypeOK /\ CardsInv /\ Integrations!IntegrationSpinnerHasCause

LEMMA ConnectedInit == Integrations!IntegrationInit => ConnectedInv
<1> SUFFICES ASSUME Integrations!IntegrationInit PROVE ConnectedInv
  OBVIOUS
<1>1. 1 \in Integrations!Slots
  BY ReadingBounds DEF Integrations!ReadingAssumption, Integrations!Slots
<1>2. /\ reading \in [Integrations!Slots -> [at : {"idle", "sent", "answered"},
        creds : SUBSET Providers]]
      /\ \A s \in Integrations!Slots : reading[s].at = IF s = 1 THEN "sent" ELSE "idle"
  BY DEF Integrations!IntegrationInit, Integrations!Idle
<1>3. Integrations!IntegrationTypeOK
  <2>1. 0 \in 0 .. MaxReading
    BY ReadingBounds DEF Integrations!ReadingAssumption
  <2> QED BY <1>2, <2>1 DEF Integrations!IntegrationInit, Integrations!IntegrationTypeOK
<1>4. 1 \in Integrations!Reading
  BY <1>1, <1>2 DEF Integrations!Reading
<1> QED BY <1>1, <1>2, <1>3, <1>4
        DEF ConnectedInv, CardsInv, Integrations!CardsAreCurrent,
            Integrations!IntegrationSpinnerHasCause, Integrations!Slots

\* A slot of the readings changes.
LEMMA ReadingMoves ==
    ASSUME ConnectedInv, NEW s \in Integrations!Slots,
           NEW r \in [at : {"idle", "sent", "answered"}, creds : SUBSET Providers],
           reading' = [reading EXCEPT ![s] = r]
    PROVE  /\ reading' \in [Integrations!Slots ->
                              [at : {"idle", "sent", "answered"}, creds : SUBSET Providers]]
           /\ reading'[s] = r
           /\ \A q \in Integrations!Slots : q # s => reading'[q] = reading[q]
           /\ \A q \in Integrations!Slots : q \in Integrations!Reading' <=> reading'[q].at # "idle"
           /\ \A q \in Integrations!Slots : q \in Integrations!Reading <=> reading[q].at # "idle"
BY DEF ConnectedInv, Integrations!IntegrationTypeOK, Integrations!Reading

LEMMA ReadingStepInv ==
    ASSUME ConnectedInv, NEW s \in Integrations!Slots,
           \/ Integrations!GetIntegrations(s) \/ Integrations!IntegrationsLand(s)
           \/ Integrations!IntegrationsFail(s)
    PROVE  ConnectedInv'
<1> DEFINE r == reading'[s]
<1>1. UNCHANGED <<creds, calls, gone>> /\ s \in Integrations!Reading
  BY DEF Integrations!GetIntegrations, Integrations!IntegrationsLand, Integrations!IntegrationsFail,
         Integrations!Reading
<1>2. /\ creds \subseteq Providers /\ status \in (SUBSET Providers) \cup {Unknown}
      /\ reading \in [Integrations!Slots -> [at : {"idle", "sent", "answered"},
              creds : SUBSET Providers]]
      /\ calls \in [Providers -> 0 .. MaxReading]
      /\ iLoading \in BOOLEAN /\ gone \in BOOLEAN /\ unsure \in BOOLEAN
  BY DEF ConnectedInv, Integrations!IntegrationTypeOK
<1>3. CASE Integrations!GetIntegrations(s)
  <2>1. /\ reading[s].at = "sent" /\ UNCHANGED <<status, iLoading, unsure>>
        /\ reading' = [reading EXCEPT ![s] = [at |-> "answered", creds |-> creds]]
    BY <1>3 DEF Integrations!GetIntegrations
  <2>2. [at |-> "answered", creds |-> creds]
           \in [at : {"idle", "sent", "answered"}, creds : SUBSET Providers]
    BY <1>2
  <2>3. /\ reading' \in [Integrations!Slots ->
                              [at : {"idle", "sent", "answered"}, creds : SUBSET Providers]]
        /\ reading'[s] = [at |-> "answered", creds |-> creds]
        /\ \A q \in Integrations!Slots : q # s => reading'[q] = reading[q]
        /\ s \in Integrations!Reading'
    BY <2>1, <2>2, ReadingMoves
  <2> QED BY <1>1, <1>2, <2>1, <2>3
          DEF ConnectedInv, Integrations!IntegrationTypeOK, CardsInv,
              Integrations!CardsAreCurrent, Integrations!IntegrationSpinnerHasCause
<1>4. CASE Integrations!IntegrationsLand(s) \/ Integrations!IntegrationsFail(s)
  <2>1. /\ reading' = [reading EXCEPT ![s] = Integrations!Idle] /\ iLoading' = FALSE
        /\ unsure' \in BOOLEAN
        /\ \/ status' = reading[s].creds /\ unsure' = unsure /\ reading[s].at = "answered"
           \/ status' = status /\ unsure' = TRUE
    BY <1>2, <1>4 DEF Integrations!IntegrationsLand, Integrations!IntegrationsFail
  <2>2. Integrations!Idle \in [at : {"idle", "sent", "answered"}, creds : SUBSET Providers]
        /\ Integrations!Idle.at = "idle"
    BY DEF Integrations!Idle
  <2>3. /\ reading' \in [Integrations!Slots ->
                              [at : {"idle", "sent", "answered"}, creds : SUBSET Providers]]
        /\ reading'[s] = Integrations!Idle
        /\ \A q \in Integrations!Slots : q # s => reading'[q] = reading[q]
    BY <2>1, <2>2, ReadingMoves
  <2>4. Integrations!IntegrationTypeOK'
    BY <1>1, <1>2, <2>1, <2>3 DEF Integrations!IntegrationTypeOK
  <2>5. CardsInv'
    <3> SUFFICES ASSUME ~unsure' PROVE CardsInv'
      BY DEF CardsInv
    <3>1. /\ status' = creds
          /\ \A q \in Integrations!Slots : reading[q].at # "idle" => q = s
      BY <1>1, <2>1 DEF ConnectedInv, CardsInv, Integrations!Reading
    <3>2. \A q \in Integrations!Slots : reading'[q].at = "idle"
      BY <2>2, <2>3, <3>1
    <3> QED BY <1>1, <3>1, <3>2 DEF CardsInv, Integrations!CardsAreCurrent
  <2> QED BY <2>1, <2>4, <2>5 DEF ConnectedInv, Integrations!IntegrationSpinnerHasCause
<1> QED BY <1>3, <1>4

LEMMA CardStepInv ==
    ASSUME ConnectedInv, NEW p \in Providers,
           \/ Integrations!handleDisconnect(p) \/ Integrations!handleConnection(p)
           \/ Integrations!DisconnectFails(p) \/ Integrations!OtherTab(p)
    PROVE  ConnectedInv'
<1>1. /\ UNCHANGED <<status, iLoading, reading>>
      /\ creds' = creds \/ (creds' \in {creds \ {p}, creds \cup {p}} /\ unsure')
      /\ gone' \in {gone, TRUE}
      /\ unsure' \in BOOLEAN /\ (unsure => unsure')
      /\ \/ calls' = calls
         \/ calls' = [calls EXCEPT ![p] = @ + 1] /\ calls[p] < MaxReading
         \/ calls' = [calls EXCEPT ![p] = @ - 1] /\ calls[p] > 0
  <2>0. unsure \in BOOLEAN
    BY DEF ConnectedInv, Integrations!IntegrationTypeOK
  <2>1. CASE Integrations!handleDisconnect(p)
    BY <2>0, <2>1 DEF Integrations!handleDisconnect
  <2>2. CASE Integrations!handleConnection(p)
    BY <2>0, <2>2 DEF Integrations!handleConnection
  <2>3. CASE Integrations!DisconnectFails(p)
    <3>1. /\ calls[p] > 0 /\ calls' = [calls EXCEPT ![p] = @ - 1]
          /\ creds' \in {creds, creds \ {p}} /\ unsure' = (unsure \/ creds' # creds)
          /\ UNCHANGED <<status, iLoading, reading, gone>>
      BY <2>3 DEF Integrations!DisconnectFails
    <3>2. CASE creds' = creds
      BY <2>0, <3>1, <3>2
    <3>3. CASE creds' # creds
      BY <2>0, <3>1, <3>3
    <3> QED BY <3>2, <3>3
  <2>4. CASE Integrations!OtherTab(p)
    BY <2>0, <2>4 DEF Integrations!OtherTab
  <2> QED BY <2>1, <2>2, <2>3, <2>4
<1>2. /\ creds \subseteq Providers /\ calls \in [Providers -> 0 .. MaxReading] /\ gone \in BOOLEAN
  BY DEF ConnectedInv, Integrations!IntegrationTypeOK
<1>3. calls' \in [Providers -> 0 .. MaxReading]
  <2>1. MaxReading \in Nat /\ calls[p] \in 0 .. MaxReading
    BY <1>2, ReadingBounds DEF Integrations!ReadingAssumption
  <2>2. calls[p] < MaxReading => calls[p] + 1 \in 0 .. MaxReading
    BY <2>1
  <2>3. calls[p] > 0 => calls[p] - 1 \in 0 .. MaxReading
    BY <2>1
  <2> QED BY <1>1, <1>2, <2>2, <2>3
<1>4. Integrations!IntegrationTypeOK'
  BY <1>1, <1>2, <1>3 DEF ConnectedInv, Integrations!IntegrationTypeOK
<1>5. Integrations!Reading' = Integrations!Reading
  BY <1>1 DEF Integrations!Reading
<1>6. CardsInv'
  BY <1>1, <1>5 DEF ConnectedInv, CardsInv, Integrations!CardsAreCurrent
<1> QED BY <1>1, <1>4, <1>5, <1>6 DEF ConnectedInv, Integrations!IntegrationSpinnerHasCause

LEMMA DisconnectedInv ==
    ASSUME ConnectedInv, NEW p \in Providers, Integrations!Disconnected(p)
    PROVE  ConnectedInv'
<1> DEFINE Sent == [Integrations!Idle EXCEPT !.at = "sent"]
<1>1. PICK s \in Integrations!Slots \ Integrations!Reading :
         reading' = [reading EXCEPT ![s] = Sent]
  BY DEF Integrations!Disconnected, Integrations!fetchIntegrations
<1>2. /\ calls[p] > 0 /\ calls' = [calls EXCEPT ![p] = @ - 1] /\ creds' = creds \ {p}
      /\ unsure' = (unsure \/ Integrations!Reading # {}) /\ UNCHANGED <<status, iLoading, gone>>
  BY DEF Integrations!Disconnected
<1>3. Sent \in [at : {"idle", "sent", "answered"}, creds : SUBSET Providers] /\ Sent.at = "sent"
  BY DEF Integrations!Idle
<1> HIDE DEF Sent
<1>4. /\ reading' \in [Integrations!Slots ->
                              [at : {"idle", "sent", "answered"}, creds : SUBSET Providers]]
      /\ reading'[s] = Sent
      /\ \A q \in Integrations!Slots : q # s => reading'[q] = reading[q]
      /\ s \in Integrations!Reading'
  BY <1>1, <1>3, ReadingMoves
<1>5. calls' \in [Providers -> 0 .. MaxReading] /\ unsure' \in BOOLEAN
  <2>1. MaxReading \in Nat /\ calls \in [Providers -> 0 .. MaxReading] /\ unsure \in BOOLEAN
    BY ReadingBounds DEF Integrations!ReadingAssumption, ConnectedInv,
       Integrations!IntegrationTypeOK
  <2>2. calls[p] - 1 \in 0 .. MaxReading
    BY <1>2, <2>1
  <2> QED BY <1>2, <2>1, <2>2
<1>6. Integrations!IntegrationTypeOK'
  BY <1>2, <1>4, <1>5 DEF ConnectedInv, Integrations!IntegrationTypeOK
<1>7. CardsInv'
  <2> SUFFICES ASSUME ~unsure' PROVE CardsInv'
    BY DEF CardsInv
  <2>1. Integrations!Reading = {}
    BY <1>2
  <2>2. \A q \in Integrations!Slots : q # s => reading'[q].at = "idle"
    BY <1>4, <2>1 DEF Integrations!Reading
  <2> QED BY <1>3, <1>4, <2>2 DEF CardsInv, Integrations!CardsAreCurrent
<1> QED BY <1>4, <1>6, <1>7 DEF ConnectedInv, Integrations!IntegrationSpinnerHasCause

LEMMA ConnectedStepInv == ConnectedInv /\ Integrations!IntegrationNext => ConnectedInv'
BY ReadingStepInv, CardStepInv, DisconnectedInv DEF Integrations!IntegrationNext

LEMMA ConnectedStays == ConnectedInv /\ UNCHANGED IntegrationsVars => ConnectedInv'
BY DEF IntegrationsVars, ConnectedInv, CardsInv, Integrations!IntegrationTypeOK,
       Integrations!CardsAreCurrent, Integrations!IntegrationSpinnerHasCause, Integrations!Reading

LEMMA ConnectedPromises ==
    ConnectedInv => /\ Integrations!IntegrationTypeOK /\ Integrations!CardsAreCurrent
                    /\ Integrations!IntegrationSpinnerHasCause
BY DEF ConnectedInv, CardsInv, Integrations!CardsAreCurrent
-----------------------------------------------------------------------------
(* The billing page.                                                       *)

LEMMA PressedBounds == BillingScreen!PressedAssumption
BY PagesAssumption DEF PagesAssumption

\* What the buttons were pressed for: the copy has not changed since.
PressInv ==
    at = "called" =>
       /\ doing \in BillingScreen!Handlers
       /\ doing \in {"trial", "subscribe"} => copy \in {"free", "canceled", "trialing"}
       /\ doing = "cancel" => copy \in {"active", "trialing"}

\* Whoever is on trial has used the trial; a copy that is not stale is the account's status.
AccountInv ==
    /\ account.status = "trialing" => account.used
    /\ ~copyStale /\ copy # "none" => copy = account.status

OfferInv ==
    BillingScreen!BillingTypeOK /\ PressInv /\ AccountInv /\ BillingScreen!BillingSpinnerHasCause

LEMMA OfferInit == BillingScreen!BillingInit => OfferInv
<1>1. 0 \in 0 .. MaxPressed
  BY PressedBounds DEF BillingScreen!PressedAssumption
<1> QED BY <1>1 DEF BillingScreen!BillingInit, OfferInv, BillingScreen!BillingTypeOK, PressInv,
                    AccountInv, BillingScreen!BillingSpinnerHasCause, BillingScreen!Statuses

LEMMA TakenFacts ==
    ASSUME OfferInv, NEW h, BillingScreen!Taken(h)
    PROVE  /\ account' \in [status : BillingScreen!Statuses, used : BOOLEAN]
           /\ account'.status = "trialing" => account'.used
<1>1. account \in [status : BillingScreen!Statuses, used : BOOLEAN]
      /\ (account.status = "trialing" => account.used)
  BY DEF OfferInv, BillingScreen!BillingTypeOK, AccountInv
<1>2. CASE BillingScreen!StartTrial
  BY <1>2 DEF BillingScreen!StartTrial, BillingScreen!Statuses
<1>3. CASE BillingScreen!Subscribe
  BY <1>1, <1>3 DEF BillingScreen!Subscribe, BillingScreen!Statuses
<1>4. CASE BillingScreen!Cancel
  BY <1>1, <1>4 DEF BillingScreen!Cancel, BillingScreen!Statuses
<1> QED BY <1>2, <1>3, <1>4 DEF BillingScreen!Taken

LEMMA OfferStepInv == OfferInv /\ BillingScreen!BillingNext => OfferInv'
<1> SUFFICES ASSUME OfferInv, BillingScreen!BillingNext PROVE OfferInv'
  OBVIOUS
<1>1. /\ account \in [status : BillingScreen!Statuses, used : BOOLEAN]
      /\ copy \in BillingScreen!Statuses \cup {"none"}
      /\ hasPlans \in BOOLEAN /\ billLoading \in BOOLEAN /\ billBusy \in BOOLEAN /\ copyStale \in BOOLEAN
      /\ cycle \in {"monthly", "yearly"} /\ doing \in BillingScreen!Handlers \cup {"open",
              "nothing"}
      /\ at \in {"idle", "called", "refreshing"} /\ pressed \in 0 .. MaxPressed
      /\ (account.status = "trialing" => account.used)
      /\ (~copyStale /\ copy # "none" => copy = account.status)
      /\ (billLoading => at = "refreshing") /\ (billBusy => at # "idle")
  BY DEF OfferInv, BillingScreen!BillingTypeOK, AccountInv, BillingScreen!BillingSpinnerHasCause
<1>2. CASE BillingScreen!setCycle
  BY <1>1, <1>2 DEF BillingScreen!setCycle, OfferInv, BillingScreen!BillingTypeOK, PressInv,
                    AccountInv, BillingScreen!BillingSpinnerHasCause
<1>3. ASSUME NEW h \in BillingScreen!Handlers, BillingScreen!Press(h),
             h \in {"trial", "subscribe"} => copy \in {"free", "canceled", "trialing"},
             h = "cancel" => copy \in {"active", "trialing"}, BillingScreen!Visible
      PROVE  OfferInv'
  <2>1. /\ pressed' = pressed + 1 /\ pressed < MaxPressed /\ billBusy' = TRUE /\ doing' = h
        /\ at' = "called" /\ UNCHANGED <<account, copy, hasPlans, billLoading, cycle, copyStale>>
        /\ ~billLoading
    BY <1>3 DEF BillingScreen!Press, BillingScreen!Visible
  <2>2. pressed' \in 0 .. MaxPressed
    BY <1>1, <2>1, PressedBounds DEF BillingScreen!PressedAssumption
  <2> QED BY <1>1, <1>3, <2>1, <2>2
          DEF OfferInv, BillingScreen!BillingTypeOK, PressInv, AccountInv,
              BillingScreen!BillingSpinnerHasCause
<1>4. CASE \/ BillingScreen!handleStartTrial \/ BillingScreen!handleSubscribe
           \/ BillingScreen!handleCancel
  BY <1>3, <1>4 DEF BillingScreen!handleStartTrial, BillingScreen!handleSubscribe,
       BillingScreen!handleCancel, BillingScreen!UpgradeCard, BillingScreen!ManageCard,
       BillingScreen!Handlers
<1>5. CASE \/ BillingScreen!CallSucceeds \/ BillingScreen!CallFails
           \/ \E h \in BillingScreen!Handlers : BillingScreen!OtherActs(h)
  <2>1. /\ account' \in [status : BillingScreen!Statuses, used : BOOLEAN]
        /\ account'.status = "trialing" => account'.used
    BY <1>1, <1>5, TakenFacts
       DEF BillingScreen!CallSucceeds, BillingScreen!CallFails, BillingScreen!OtherActs
  <2>2. /\ UNCHANGED <<copy, hasPlans, cycle, pressed>>
        /\ copyStale' \in BOOLEAN
        /\ ~copyStale' => ~copyStale /\ account' = account
    <3>1. CASE BillingScreen!CallSucceeds \/ BillingScreen!CallFails
      <4>1. /\ copyStale' = (copyStale \/ account' # account)
            /\ UNCHANGED <<copy, hasPlans, cycle, pressed>>
        BY <3>1 DEF BillingScreen!CallSucceeds, BillingScreen!CallFails
      <4> QED BY <1>1, <4>1
    <3>2. CASE \E h \in BillingScreen!Handlers : BillingScreen!OtherActs(h)
      BY <3>2 DEF BillingScreen!OtherActs
    <3> QED BY <1>5, <3>1, <3>2
  <2>3. \/ /\ at = "called" /\ at' = "refreshing" /\ billLoading' = TRUE
           /\ UNCHANGED <<billBusy, doing>>
        \/ /\ at = "called" /\ at' = "idle" /\ doing' = "nothing" /\ billBusy' = FALSE
           /\ UNCHANGED billLoading
        \/ UNCHANGED <<billLoading, billBusy, doing, at>>
    BY <1>5 DEF BillingScreen!CallSucceeds, BillingScreen!CallFails, BillingScreen!OtherActs
  <2>4. BillingScreen!BillingTypeOK'
    BY <1>1, <2>1, <2>2, <2>3 DEF BillingScreen!BillingTypeOK
  <2>5. PressInv'
    BY <2>2, <2>3 DEF OfferInv, PressInv
  <2>6. AccountInv'
    BY <1>1, <2>1, <2>2 DEF AccountInv
  <2>7. BillingScreen!BillingSpinnerHasCause'
    BY <1>1, <2>3 DEF BillingScreen!BillingSpinnerHasCause
  <2> QED BY <2>4, <2>5, <2>6, <2>7 DEF OfferInv
<1>6. CASE BillingScreen!RefreshLands \/ BillingScreen!RefreshFails
  BY <1>1, <1>6 DEF BillingScreen!RefreshLands, BillingScreen!RefreshFails, OfferInv,
       BillingScreen!BillingTypeOK, PressInv, AccountInv, BillingScreen!BillingSpinnerHasCause
<1> QED BY <1>2, <1>4, <1>5, <1>6 DEF BillingScreen!BillingNext

LEMMA OfferStays == OfferInv /\ UNCHANGED BillingScreenVars => OfferInv'
BY DEF BillingScreenVars, OfferInv, PressInv, AccountInv, BillingScreen!BillingTypeOK,
       BillingScreen!BillingSpinnerHasCause

LEMMA OfferPromises ==
    OfferInv => /\ BillingScreen!BillingTypeOK /\ BillingScreen!OffersFitAccount
                /\ BillingScreen!BillingSpinnerHasCause
<1> SUFFICES ASSUME OfferInv PROVE BillingScreen!OffersFitAccount
  BY DEF OfferInv
<1>1. /\ copy \in BillingScreen!Statuses \cup {"none"}
      /\ account \in [status : BillingScreen!Statuses, used : BOOLEAN]
  BY DEF OfferInv, BillingScreen!BillingTypeOK
<1>2. ASSUME at = "called", ~copyStale
      PROVE  /\ doing \in {"trial", "subscribe"} => account.status # "active"
             /\ doing = "cancel" => account.status \in {"active", "trialing"}
  BY <1>2 DEF OfferInv, PressInv, AccountInv
<1>3. ASSUME BillingScreen!Visible, ~copyStale
      PROVE  /\ BillingScreen!Badge.Free \/ BillingScreen!Badge.Canceled
                  <=> account.status \in {"free", "canceled"}
             /\ BillingScreen!Badge.Trialing => account.status = "trialing" /\ account.used
  <2>1. copy = account.status /\ (account.status = "trialing" => account.used)
    BY <1>3 DEF OfferInv, AccountInv, BillingScreen!Visible
  <2>2. /\ BillingScreen!Badge.Free <=> copy = "free"
        /\ BillingScreen!Badge.Canceled <=> copy = "canceled"
        /\ BillingScreen!Badge.Trialing <=> copy = "trialing"
    BY DEF BillingScreen!Badge
  <2> QED BY <2>1, <2>2
<1> QED BY <1>2, <1>3 DEF BillingScreen!OffersFitAccount

-----------------------------------------------------------------------------
(* The mode of the dashboard.                                              *)

LEMMA ModeBounds == Mode!ModeAssumption
BY PagesAssumption DEF PagesAssumption

\* What a load has begun with, and what a choice has left behind, one at a time.
LoadedInv ==
    ~mixed =>
       /\ \A i, j \in Mode!Choices : patch[i].at = "sent" /\ patch[j].at = "sent" => i = j
       /\ me.at # "over" =>
             /\ \A i \in Mode!Choices : patch[i].at # "sent"
             /\ mode = mounted /\ mode = Mode!ModeOf(cookie)
             /\ me.at = "answered" => me.mode = stored
       /\ me.at = "over" =>
             \A i \in Mode!Choices :
                patch[i].at = "sent" => mode = patch[i].mode /\ cookie = mode
       /\ Mode!ModeFollowsRow

ModeInv == Mode!ModeTypeOK /\ LoadedInv

LEMMA ModeInit == Mode!ModeInit => ModeInv
<1> SUFFICES ASSUME Mode!ModeInit PROVE ModeInv
  OBVIOUS
<1>1. Mode!ModeOf(cookie) \in Mode!Modes
  BY DEF Mode!ModeOf, Mode!Modes
<1>2. 0 \in 0 .. MaxChosen /\ 1 \in 1 .. MaxPageLoads
  BY ModeBounds DEF Mode!ModeAssumption
<1>3. patch \in [Mode!Choices -> [at : {"idle", "sent", "over"}, mode : Mode!Modes]]
  BY DEF Mode!ModeInit, Mode!Modes
<1>4. Mode!ModeTypeOK
  BY <1>1, <1>2, <1>3 DEF Mode!ModeInit, Mode!ModeTypeOK, Mode!Groups, Mode!navGroups
<1>5. LoadedInv
  BY DEF Mode!ModeInit, LoadedInv, Mode!ModeFollowsRow
<1> QED BY <1>4, <1>5 DEF ModeInv

LEMMA ModeTypes ==
    ASSUME ModeInv
    PROVE  /\ stored \in Mode!Modes /\ cookie \in Mode!Modes \cup {None}
           /\ mode \in Mode!Modes /\ mounted \in Mode!Modes /\ ready \in BOOLEAN /\ mixed \in BOOLEAN
           /\ openGroups \subseteq Mode!Groups
           /\ me \in [at : {"sent", "answered", "over"}, mode : Mode!Modes]
           /\ patch \in [Mode!Choices -> [at : {"idle", "sent", "over"}, mode : Mode!Modes]]
           /\ modeChosen \in 0 .. MaxChosen /\ loads \in 1 .. MaxPageLoads
           /\ \A i \in Mode!Choices : i \in Mode!Patching <=> patch[i].at = "sent"
           /\ \A v : Mode!ModeOf(v) \in Mode!Modes /\ (v \in Mode!Modes => Mode!ModeOf(v) = v)
BY DEF ModeInv, Mode!ModeTypeOK, Mode!Patching, Mode!ModeOf, Mode!Modes

LEMMA LoadModeInv == ASSUME ModeInv, Mode!Load PROVE ModeInv'
<1>1. /\ loads < MaxPageLoads /\ loads' = loads + 1
      /\ mode' = Mode!ModeOf(cookie) /\ mounted' = Mode!ModeOf(cookie) /\ ready' = FALSE
      /\ me' = [at |-> "sent", mode |-> Mode!ModeOf(cookie)] /\ openGroups' = {"SEO", "Social"}
      /\ mixed' = (Mode!Patching # {}) /\ UNCHANGED <<stored, cookie, patch, modeChosen>>
  BY DEF Mode!Load
<1>2. Mode!ModeTypeOK'
  <2>1. loads' \in 1 .. MaxPageLoads
    BY <1>1, ModeTypes, ModeBounds DEF Mode!ModeAssumption
  <2>2. openGroups' \subseteq Mode!Groups
    BY <1>1 DEF Mode!Groups, Mode!navGroups
  <2>3. me' \in [at : {"sent", "answered", "over"}, mode : Mode!Modes]
    BY <1>1, ModeTypes
  <2> QED BY <1>1, <2>1, <2>2, <2>3, ModeTypes DEF Mode!ModeTypeOK
<1>3. LoadedInv'
  <2> SUFFICES ASSUME ~mixed' PROVE LoadedInv'
    BY DEF LoadedInv
  <2>1. \A i \in Mode!Choices : patch'[i].at # "sent"
    BY <1>1, ModeTypes
  <2>2. Mode!ModeOf(cookie)' = Mode!ModeOf(cookie)
    BY <1>1 DEF Mode!ModeOf
  <2> QED BY <1>1, <2>1, <2>2 DEF LoadedInv, Mode!ModeFollowsRow
<1> QED BY <1>2, <1>3 DEF ModeInv

LEMMA SetModeInv == ASSUME ModeInv, NEW next \in Mode!Modes, Mode!setMode(next) PROVE ModeInv'
<1> DEFINE sending == [at |-> "sent", mode |-> next]
<1>1. /\ modeChosen < MaxChosen /\ cookie' = next /\ mode' = next /\ modeChosen' = modeChosen + 1
      /\ patch' = [patch EXCEPT ![modeChosen + 1] = sending]
      /\ mixed' = (mixed \/ Mode!Patching # {} \/ me.at # "over")
      /\ UNCHANGED <<stored, ready, mounted, me, openGroups, loads>>
  BY DEF Mode!setMode, Mode!writeCookieMode
<1>2. modeChosen + 1 \in Mode!Choices /\ modeChosen' \in 0 .. MaxChosen
  BY <1>1, ModeTypes, ModeBounds DEF Mode!ModeAssumption, Mode!Choices
<1>3. /\ patch' \in [Mode!Choices -> [at : {"idle", "sent", "over"}, mode : Mode!Modes]]
      /\ patch'[modeChosen + 1] = sending
      /\ \A i \in Mode!Choices : i # modeChosen + 1 => patch'[i] = patch[i]
  BY <1>1, <1>2, ModeTypes
<1>4. mixed' \in BOOLEAN
  BY <1>1, ModeTypes
<1>5. Mode!ModeTypeOK'
  BY <1>1, <1>2, <1>3, <1>4, ModeTypes DEF Mode!ModeTypeOK
<1>6. LoadedInv'
  <2> SUFFICES ASSUME ~mixed' PROVE LoadedInv'
    BY DEF LoadedInv
  <2>1. me.at = "over" /\ \A i \in Mode!Choices : patch[i].at # "sent"
    BY <1>1, ModeTypes
  <2>2. \A i \in Mode!Choices : patch'[i].at = "sent" <=> i = modeChosen + 1
    BY <1>3, <2>1
  <2>3. modeChosen + 1 \in Mode!Patching'
    BY <1>2, <2>2 DEF Mode!Patching
  <2> QED BY <1>1, <1>3, <2>1, <2>2, <2>3 DEF LoadedInv, Mode!ModeFollowsRow
<1> QED BY <1>5, <1>6 DEF ModeInv

LEMMA PatchEndsInv ==
    ASSUME ModeInv, NEW i \in Mode!Choices, Mode!PatchTaken(i) \/ Mode!PatchLost(i)
    PROVE  ModeInv'
<1>1. /\ patch[i].at = "sent" /\ patch' = [patch EXCEPT ![i].at = "over"]
      /\ UNCHANGED <<cookie, mode, ready, mounted, me, openGroups, modeChosen, loads>>
      /\ \/ stored' = patch[i].mode /\ mixed' = mixed
         \/ stored' = stored /\ mixed' = TRUE
  BY ModeTypes DEF Mode!PatchTaken, Mode!PatchLost, Mode!provider
<1>2. /\ patch' \in [Mode!Choices -> [at : {"idle", "sent", "over"}, mode : Mode!Modes]]
      /\ patch'[i].at = "over"
      /\ \A j \in Mode!Choices : j # i => patch'[j] = patch[j]
  BY <1>1, ModeTypes
<1>3. Mode!ModeTypeOK'
  BY <1>1, <1>2, ModeTypes DEF Mode!ModeTypeOK
<1>4. LoadedInv'
  <2> SUFFICES ASSUME ~mixed' PROVE LoadedInv'
    BY DEF LoadedInv
  <2>1. /\ stored' = mode /\ cookie = mode /\ me.at = "over"
        /\ \A j \in Mode!Choices : patch[j].at = "sent" => j = i
    BY <1>1 DEF ModeInv, LoadedInv
  <2>2. \A j \in Mode!Choices : patch'[j].at # "sent"
    BY <1>2, <2>1
  <2> QED BY <1>1, <2>1, <2>2 DEF LoadedInv, Mode!ModeFollowsRow
<1> QED BY <1>3, <1>4 DEF ModeInv

LEMMA MeStepInv ==
    ASSUME ModeInv, Mode!MeAnswered \/ Mode!MeLands \/ Mode!MeFails
    PROVE  ModeInv'
<1>1. UNCHANGED <<stored, mounted, openGroups, patch, modeChosen, loads>> /\ me.at # "over"
  BY DEF Mode!MeAnswered, Mode!MeLands, Mode!MeFails
<1>2. Mode!Patching' = Mode!Patching
  BY <1>1 DEF Mode!Patching
<1>3. CASE Mode!MeAnswered
  <2>1. me' = [at |-> "answered", mode |-> stored] /\ UNCHANGED <<cookie, mode, ready, mixed>>
    BY <1>3 DEF Mode!MeAnswered
  <2>2. Mode!ModeTypeOK'
    BY <1>1, <2>1, ModeTypes DEF Mode!ModeTypeOK
  <2>3. LoadedInv'
    BY <1>1, <2>1 DEF ModeInv, LoadedInv, Mode!ModeFollowsRow, Mode!ModeOf
  <2> QED BY <2>2, <2>3 DEF ModeInv
<1>4. CASE Mode!MeLands
  <2>1. /\ me.at = "answered" /\ me' = [me EXCEPT !.at = "over"] /\ ready' = TRUE /\ mixed' = mixed
        /\ \/ me.mode # mounted /\ cookie' = me.mode /\ mode' = me.mode
           \/ me.mode = mounted /\ UNCHANGED <<cookie, mode>>
    BY <1>4 DEF Mode!MeLands, Mode!writeCookieMode
  <2>2. me'.at = "over" /\ me' \in [at : {"sent", "answered", "over"}, mode : Mode!Modes]
    BY <2>1, ModeTypes
  <2>3. Mode!ModeTypeOK'
    BY <1>1, <2>1, <2>2, ModeTypes DEF Mode!ModeTypeOK
  <2>4. LoadedInv'
    <3> SUFFICES ASSUME ~mixed' PROVE LoadedInv'
      BY DEF LoadedInv
    <3>1. /\ me.mode = stored /\ mode = mounted /\ mode = Mode!ModeOf(cookie)
          /\ \A i \in Mode!Choices : patch[i].at # "sent"
      BY <1>1, <2>1 DEF ModeInv, LoadedInv
    <3>2. mode' = stored /\ (cookie' = stored \/ (cookie' = None /\ mode' = "combined"))
      <4>1. CASE me.mode # mounted
        BY <2>1, <3>1, <4>1
      <4>2. CASE me.mode = mounted /\ cookie \in Mode!Modes
        BY <2>1, <3>1, <4>2 DEF Mode!ModeOf
      <4>3. CASE me.mode = mounted /\ cookie \notin Mode!Modes
        <5>1. cookie = None
          BY <4>3, ModeTypes
        <5>2. mode = "combined"
          BY <3>1, <4>3 DEF Mode!ModeOf
        <5> QED BY <2>1, <3>1, <4>3, <5>1, <5>2
      <4> QED BY <4>1, <4>2, <4>3
    <3> QED BY <1>1, <2>2, <3>1, <3>2 DEF LoadedInv, Mode!ModeFollowsRow
  <2> QED BY <2>3, <2>4 DEF ModeInv
<1>5. CASE Mode!MeFails
  <2>1. /\ me' = [me EXCEPT !.at = "over"] /\ ready' = TRUE /\ mixed' = TRUE
        /\ UNCHANGED <<cookie, mode>>
    BY <1>5 DEF Mode!MeFails
  <2>2. Mode!ModeTypeOK'
    BY <1>1, <2>1, ModeTypes DEF Mode!ModeTypeOK
  <2> QED BY <2>1, <2>2 DEF ModeInv, LoadedInv
<1> QED BY <1>3, <1>4, <1>5

LEMMA ToggleGroupInv ==
    ASSUME ModeInv, NEW g \in Mode!Groups, Mode!toggleGroup(g)
    PROVE  ModeInv'
<1>1. /\ openGroups' \subseteq openGroups \cup {g}
      /\ UNCHANGED <<stored, cookie, mode, ready, mounted, me, patch, modeChosen, loads, mixed>>
  BY DEF Mode!toggleGroup, Mode!provider
<1>2. Mode!ModeTypeOK'
  BY <1>1, ModeTypes DEF Mode!ModeTypeOK
<1>3. LoadedInv'
  BY <1>1 DEF ModeInv, LoadedInv, Mode!ModeFollowsRow, Mode!ModeOf, Mode!Patching
<1> QED BY <1>2, <1>3 DEF ModeInv

LEMMA ModeStepInv == ModeInv /\ Mode!ModeNext => ModeInv'
BY LoadModeInv, SetModeInv, PatchEndsInv, MeStepInv, ToggleGroupInv DEF Mode!ModeNext

LEMMA ModeStays == ModeInv /\ UNCHANGED ModeVars => ModeInv'
BY DEF ModeVars, ModeInv, LoadedInv, Mode!ModeTypeOK, Mode!ModeFollowsRow, Mode!ModeOf,
   Mode!Patching

LEMMA ModePromises == ModeInv => Mode!ModeTypeOK /\ Mode!ModeFollowsRow
BY DEF ModeInv, LoadedInv, Mode!ModeFollowsRow
-----------------------------------------------------------------------------
(* The action center.                                                      *)

LEMMA TaskBounds ==
    /\ Projects \subseteq Nat /\ IsFiniteSet(Projects) /\ Projects # {}
    /\ None \notin Projects /\ None \notin TaskIds
    /\ MaxCalls \in Nat /\ MaxTyped \in Nat /\ MaxClicks \in Nat
BY PagesAssumption DEF PagesAssumption, Tasks!TaskAssumption, Tasks!IsFiniteSet, IsFiniteSet

\* The toggles of a task under way; an even number of them leaves its card as the API has it.
PendingOf(f, t) == {c \in Tasks!Calls : f[c] # Tasks!NoToggle /\ f[c].id = t}
Even(S) == Cardinality(S) % 2 = 0
Shown(a, p, t) == IF a[t].home = p THEN Tasks!CardOf(a[t]) ELSE "absent"
CardFor(a, p, f, t) ==
    IF Even(PendingOf(f, t)) THEN Shown(a, p, t) ELSE Tasks!Flip(Shown(a, p, t))

LEMMA ParityFlips ==
    ASSUME NEW S, IsFiniteSet(S), NEW c
    PROVE  /\ c \notin S => (Even(S \cup {c}) <=> ~Even(S))
           /\ c \in S => (Even(S \ {c}) <=> ~Even(S))
<1>1. Cardinality(S) \in Nat
  BY FS_CardinalityType
<1>2. \A n \in Nat : (n + 1) % 2 = 0 <=> ~(n % 2 = 0)
  OBVIOUS
<1>3. c \notin S => (Even(S \cup {c}) <=> ~Even(S))
  <2>1. c \notin S => Cardinality(S \cup {c}) = Cardinality(S) + 1
    BY FS_AddElement
  <2> QED BY <1>1, <1>2, <2>1 DEF Even
<1>4. c \in S => (Even(S \ {c}) <=> ~Even(S))
  <2> SUFFICES ASSUME c \in S PROVE Even(S \ {c}) <=> ~Even(S)
    OBVIOUS
  <2>1. Cardinality(S \ {c}) = Cardinality(S) - 1 /\ Cardinality(S \ {c}) \in Nat
    BY FS_RemoveElement, FS_CardinalityType
  <2> DEFINE n == Cardinality(S \ {c})
  <2>2. n \in Nat /\ Cardinality(S) = n + 1
    BY <1>1, <2>1
  <2> HIDE DEF n
  <2>3. (n + 1) % 2 = 0 <=> ~(n % 2 = 0)
    BY <1>2, <2>2
  <2>4. Even(S) <=> ~(n % 2 = 0)
    BY <2>2, <2>3 DEF Even
  <2>5. Even(S \ {c}) <=> n % 2 = 0
    BY DEF Even, n
  <2> QED BY <2>4, <2>5
<1> QED BY <1>3, <1>4

LEMMA PendingFinite == \A f, t : IsFiniteSet(PendingOf(f, t))
<1> TAKE f, t
<1>1. IsFiniteSet(Tasks!Calls)
  BY TaskBounds, FS_Interval DEF Tasks!Calls
<1>2. PendingOf(f, t) \in SUBSET Tasks!Calls
  BY DEF PendingOf
<1> QED BY <1>1, <1>2, FS_Subset

\* What is under way is about tasks there are.
ClickInv ==
    /\ taskBusy <=> taskLoad.at # "idle"
    /\ taskLoad.at \in {"tasks", "answered"} => taskLoad.of = taskProject /\ taskProject # None
    /\ \A t \in TaskIds : taskLoad.answer[t] # "absent" => api[t] # Tasks!NoTask
    /\ taskProject = None => taskLoad.at = "projects" \/ muddled
    /\ \A t \in TaskIds : tasks[t] # "absent" => api[t] # Tasks!NoTask
    /\ \A c \in Tasks!Calls :
          toggles[c] # Tasks!NoToggle =>
             /\ toggles[c].id \in TaskIds /\ toggles[c].prev[toggles[c].id] # "absent"
             /\ \A t \in TaskIds : toggles[c].prev[t] # "absent" => api[t] # Tasks!NoTask
    /\ \A c \in Tasks!Creating : creates[c].of \in Projects
    /\ creating => Tasks!Creating # {}

\* The cards are those of the API, flipped by the toggles it has not taken yet.
CardsFollow ==
    ~muddled /\ taskLoad.at = "idle" =>
       \A t \in TaskIds :
          /\ PendingOf(toggles, t) # {} => api[t].home = taskProject
          /\ tasks[t] = CardFor(api, taskProject, toggles, t)

\* A title in the input, or on its way, is no task's yet.
TitleInv ==
    /\ \A t \in TaskIds : api[t] # Tasks!NoTask => api[t].title <= typed
    /\ \A c \in Tasks!Calls : creates[c].title <= typed
    /\ ~twice =>
          /\ Tasks!OneTaskPerTitle
          /\ \A c \in Tasks!Creating, t \in TaskIds :
                api[t] # Tasks!NoTask => api[t].title # creates[c].title
          /\ \A c, d \in Tasks!Creating : c # d => creates[c].title # creates[d].title
          /\ newTitle # 0 => \A t \in TaskIds : api[t] # Tasks!NoTask => api[t].title # newTitle

TaskInv == Tasks!ActionTypeOK /\ ClickInv /\ CardsFollow /\ TitleInv

LEMMA NoTaskFacts == Tasks!NoTask \notin Tasks!Task /\ Tasks!NoTask.home = None
<1>1. \A t \in Tasks!Task : t.home \in Projects
  BY DEF Tasks!Task
<1> QED BY <1>1, TaskBounds DEF Tasks!NoTask

LEMMA TaskTypes ==
    ASSUME TaskInv
    PROVE  /\ api \in [TaskIds -> Tasks!Task \cup {Tasks!NoTask}]
           /\ taskProject \in Projects \cup {None} /\ tasks \in [TaskIds -> Tasks!Card]
           /\ typed \in 0 .. MaxTyped /\ newTitle \in 0 .. typed
           /\ taskBusy \in BOOLEAN /\ creating \in BOOLEAN /\ muddled \in BOOLEAN /\ twice \in BOOLEAN
           /\ taskLoad \in Tasks!Load
           /\ toggles \in [Tasks!Calls -> Tasks!Toggle]
           /\ creates \in [Tasks!Calls -> [title : 0 .. MaxTyped, of : Projects \cup {None}]]
           /\ clicks \in 0 .. MaxClicks
BY DEF TaskInv, Tasks!ActionTypeOK

\* What a load, a toggle and a list of cards are made of.
LEMMA TaskRecords ==
    /\ Tasks!NoTasks \in [TaskIds -> Tasks!Card] /\ \A t \in TaskIds : Tasks!NoTasks[t] = "absent"
    /\ Tasks!NoLoad \in Tasks!Load /\ Tasks!NoLoad.at = "idle"
    /\ Tasks!NoLoad.answer = Tasks!NoTasks
    /\ \A l \in Tasks!Load :
          /\ l.at \in {"idle", "projects", "tasks", "answered"}
          /\ l.target \in Projects \cup {None} /\ l.of \in Projects \cup {None}
          /\ l.answer \in [TaskIds -> Tasks!Card]
    /\ Tasks!NoToggle \in Tasks!Toggle /\ Tasks!NoToggle.id = None
    /\ \A g \in Tasks!Toggle :
          /\ g.id \in TaskIds \cup {None} /\ g.prev \in [TaskIds -> Tasks!Card]
          /\ g.of \in Projects \cup {None} /\ g.found \in {"done", "pending", None}
    /\ \A p : Tasks!Listed(p) \in [TaskIds -> Tasks!Card]
<1>1. Tasks!NoTasks \in [TaskIds -> Tasks!Card] /\ \A t \in TaskIds : Tasks!NoTasks[t] = "absent"
  BY DEF Tasks!NoTasks, Tasks!Card
<1> QED BY <1>1 DEF Tasks!NoLoad, Tasks!Load, Tasks!NoToggle, Tasks!Toggle, Tasks!Listed,
               Tasks!Card, Tasks!CardOf

LEMMA TaskPromises ==
    ASSUME TaskInv
    PROVE  /\ Tasks!ActionTypeOK /\ Tasks!TasksAreCurrent /\ Tasks!OneTaskPerTitle
           /\ Tasks!ActionSpinnerHasCause
<1>1. Tasks!ActionTypeOK /\ Tasks!ActionSpinnerHasCause
  BY DEF TaskInv, ClickInv, Tasks!ActionSpinnerHasCause
<1>2. Tasks!OneTaskPerTitle
  BY DEF TaskInv, TitleInv, Tasks!OneTaskPerTitle
<1>3. Tasks!TasksAreCurrent
  <2> SUFFICES ASSUME taskLoad.at = "idle", Tasks!Toggling \cup Tasks!Creating = {}, ~muddled
               PROVE  /\ tasks = Tasks!Listed(taskProject)
                      /\ Tasks!Progress.done = Cardinality({t \in TaskIds :
                               api[t].home = taskProject /\ api[t].done})
    BY DEF Tasks!TasksAreCurrent, Tasks!Cardinality, Cardinality
  <2>1. \A t \in TaskIds : PendingOf(toggles, t) = {}
    BY DEF Tasks!Toggling, PendingOf
  <2>2. Even({})
    BY FS_EmptySet DEF Even
  <2>3. \A t \in TaskIds : tasks[t] = Shown(api, taskProject, t)
    BY <2>1, <2>2 DEF TaskInv, CardsFollow, CardFor
  <2>4. taskProject \in Projects
    BY TaskTypes DEF TaskInv, ClickInv
  <2>5. tasks = Tasks!Listed(taskProject)
    BY <2>3, TaskTypes DEF Tasks!Listed, Shown
  <2>6. Tasks!filteredTasks("done") = {t \in TaskIds : api[t].home = taskProject /\ api[t].done}
    <3>1. \A t \in TaskIds : api[t].home = taskProject => api[t].done \in BOOLEAN
      BY <2>4, TaskTypes, NoTaskFacts, TaskBounds DEF Tasks!Task
    <3>2. \A t \in TaskIds : tasks[t] = "done" <=> api[t].home = taskProject /\ api[t].done
      BY <2>3, <3>1 DEF Shown, Tasks!CardOf
    <3>3. Tasks!filteredTasks("done") = {t \in TaskIds : tasks[t] = "done"}
      BY DEF Tasks!filteredTasks
    <3> QED BY <3>2, <3>3
  <2>7. Tasks!Progress.done = Cardinality(Tasks!filteredTasks("done"))
    BY DEF Tasks!Progress, Tasks!Cardinality, Cardinality
  <2> QED BY <2>5, <2>6, <2>7
<1> QED BY <1>1, <1>2, <1>3

LEMMA TaskInit == Tasks!ActionInit => TaskInv
<1> SUFFICES ASSUME Tasks!ActionInit PROVE TaskInv
  OBVIOUS
<1>1. /\ api \in [TaskIds -> {Tasks!NoTask} \cup {t \in Tasks!Task : t.title < 0}]
      /\ \A t, u \in TaskIds : t # u /\ api[t] # Tasks!NoTask /\ api[u] # Tasks!NoTask
                                  => api[t].title # api[u].title
      /\ taskProject = None /\ tasks = Tasks!NoTasks
      /\ newTitle = 0 /\ typed = 0 /\ taskBusy = TRUE /\ creating = FALSE
      /\ taskLoad = [Tasks!NoLoad EXCEPT !.at = "projects"]
      /\ toggles = [c \in Tasks!Calls |-> Tasks!NoToggle]
      /\ creates = [c \in Tasks!Calls |-> Tasks!NoCreate]
      /\ clicks = 0 /\ muddled = FALSE /\ twice = FALSE
  BY DEF Tasks!ActionInit
<1>2. /\ taskLoad \in Tasks!Load
      /\ taskLoad.at = "projects" /\ taskLoad.answer = Tasks!NoTasks
  BY <1>1, TaskRecords DEF Tasks!NoLoad, Tasks!Load
<1>3. toggles \in [Tasks!Calls -> Tasks!Toggle]
  BY <1>1, TaskRecords
<1>4. /\ creates \in [Tasks!Calls -> [title : 0 .. MaxTyped, of : Projects \cup {None}]]
      /\ \A c \in Tasks!Calls : creates[c].title = 0
  BY <1>1, TaskBounds DEF Tasks!NoCreate
<1>5. /\ api \in [TaskIds -> Tasks!Task \cup {Tasks!NoTask}]
      /\ \A t \in TaskIds : api[t] # Tasks!NoTask => api[t].title < 0 /\ api[t].title \in Int
  BY <1>1, TaskBounds DEF Tasks!Task
<1>6. Tasks!ActionTypeOK
  <2>1. typed \in 0 .. MaxTyped /\ newTitle \in 0 .. typed /\ clicks \in 0 .. MaxClicks
    BY <1>1, TaskBounds
  <2>2. tasks \in [TaskIds -> Tasks!Card]
    BY <1>1, TaskRecords
  <2> QED BY <1>1, <1>2, <1>3, <1>4, <1>5, <2>1, <2>2 DEF Tasks!ActionTypeOK
<1>7. ClickInv
  <2>1. Tasks!Creating = {}
    BY <1>1 DEF Tasks!Creating
  <2> QED BY <1>1, <1>2, <2>1, TaskRecords DEF ClickInv
<1>8. CardsFollow
  BY <1>2 DEF CardsFollow
<1>9. TitleInv
  <2>1. Tasks!Creating = {}
    BY <1>1 DEF Tasks!Creating
  <2> QED BY <1>1, <1>4, <1>5, <2>1 DEF TitleInv, Tasks!OneTaskPerTitle
<1> QED BY <1>6, <1>7, <1>8, <1>9 DEF TaskInv

LEMMA TaskStays == TaskInv /\ UNCHANGED TasksVars => TaskInv'
BY DEF TasksVars, TaskInv, ClickInv, CardsFollow, TitleInv, Tasks!ActionTypeOK,
       Tasks!OneTaskPerTitle, Tasks!Creating

\* A step of fetchData.
LEMMA TaskLoadInv ==
    ASSUME TaskInv,
           \/ Tasks!TaskProjectsLand \/ Tasks!GetTasks \/ Tasks!TasksLand \/ Tasks!TasksFail
           \/ \E p \in Projects : Tasks!selectProject(p)
    PROVE  TaskInv'
<1>1. UNCHANGED <<api, newTitle, creating, typed, toggles, creates, twice>>
  BY DEF Tasks!TaskProjectsLand, Tasks!GetTasks, Tasks!TasksLand, Tasks!TasksFail,
     Tasks!selectProject, Tasks!callVars, Tasks!taskPageVars
<1>2. TitleInv'
  BY <1>1 DEF TaskInv, TitleInv, Tasks!OneTaskPerTitle, Tasks!Creating
<1>3. Tasks!Creating' = Tasks!Creating /\ Tasks!Toggling' = Tasks!Toggling
  BY <1>1 DEF Tasks!Creating, Tasks!Toggling
<1>4. CASE Tasks!TaskProjectsLand
  <2>1. /\ taskLoad.at = "projects"
        /\ taskProject' = IF taskLoad.target # None THEN taskLoad.target
                          ELSE CHOOSE p \in Projects : \A q \in Projects : q <= p
        /\ taskLoad' = [taskLoad EXCEPT !.at = "tasks", !.of = taskProject']
        /\ UNCHANGED <<tasks, taskBusy, clicks, muddled>>
    BY <1>4 DEF Tasks!TaskProjectsLand
  <2>2. taskProject' \in Projects
    <3>1. CASE taskLoad.target # None
      BY <2>1, <3>1, TaskTypes, TaskRecords
    <3>2. CASE taskLoad.target = None
      <4>1. \E p \in Projects : \A q \in Projects : q <= p
        BY TaskBounds, LastOf
      <4> QED BY <2>1, <3>2, <4>1
    <3> QED BY <3>1, <3>2
  <2>3. /\ taskLoad' \in Tasks!Load
        /\ taskLoad'.at = "tasks" /\ taskLoad'.of = taskProject'
        /\ taskLoad'.answer = taskLoad.answer
    BY <2>1, <2>2, TaskTypes DEF Tasks!Load
  <2>4. Tasks!ActionTypeOK'
    BY <1>1, <2>1, <2>2, <2>3, TaskTypes DEF Tasks!ActionTypeOK
  <2>5. ClickInv'
    BY <1>1, <1>3, <2>1, <2>2, <2>3, TaskBounds DEF TaskInv, ClickInv
  <2>6. CardsFollow'
    BY <2>3 DEF CardsFollow
  <2> QED BY <1>2, <2>4, <2>5, <2>6 DEF TaskInv
<1>8. CASE Tasks!GetTasks
  <2>1. /\ taskLoad.at = "tasks"
        /\ taskLoad' = [taskLoad EXCEPT !.at = "answered", !.answer = Tasks!Listed(taskLoad.of)]
        /\ UNCHANGED <<taskProject, tasks, taskBusy, clicks, muddled>>
    BY <1>8 DEF Tasks!GetTasks, Tasks!taskPageVars
  <2>2. /\ taskLoad' \in Tasks!Load
        /\ taskLoad'.at = "answered" /\ taskLoad'.of = taskLoad.of
        /\ taskLoad'.answer = Tasks!Listed(taskLoad.of)
    BY <2>1, TaskTypes, TaskRecords DEF Tasks!Load
  <2>3. Tasks!ActionTypeOK'
    BY <1>1, <2>1, <2>2, TaskTypes DEF Tasks!ActionTypeOK
  <2>4. ClickInv'
    <3>1. taskLoad.of # None
      BY <2>1 DEF TaskInv, ClickInv
    <3>2. \A t \in TaskIds : taskLoad'.answer[t] # "absent" => api[t] # Tasks!NoTask
      BY <2>2, <3>1, NoTaskFacts DEF Tasks!Listed
    <3> QED BY <1>1, <1>3, <2>1, <2>2, <3>2 DEF TaskInv, ClickInv
  <2>5. CardsFollow'
    BY <2>2 DEF CardsFollow
  <2> QED BY <1>2, <2>3, <2>4, <2>5 DEF TaskInv
<1>5. CASE Tasks!TasksLand
  <2>1. /\ taskLoad.at = "answered" /\ tasks' = taskLoad.answer
        /\ taskLoad' = Tasks!NoLoad /\ taskBusy' = FALSE
        /\ muddled' = (\/ Tasks!Toggling \cup Tasks!Creating # {}
                       \/ taskLoad.answer # Tasks!Listed(taskLoad.of))
        /\ UNCHANGED <<taskProject, clicks>>
    BY <1>5 DEF Tasks!TasksLand
  <2>2. taskLoad' \in Tasks!Load /\ taskLoad'.at = "idle"
    BY <2>1, TaskRecords
  <2>3. /\ tasks' \in [TaskIds -> Tasks!Card]
        /\ ~muddled' => \A t \in TaskIds : tasks'[t] = Shown(api, taskProject, t)
    <3>1. taskLoad.of = taskProject
      BY <2>1 DEF TaskInv, ClickInv
    <3>2. ~muddled' => tasks' = Tasks!Listed(taskProject)
      BY <2>1, <3>1
    <3> QED BY <2>1, <3>2, TaskTypes, TaskRecords DEF Tasks!Listed, Shown
  <2>5. muddled' \in BOOLEAN
    BY <2>1
  <2>6. Tasks!ActionTypeOK'
    BY <1>1, <2>1, <2>2, <2>3, <2>5, TaskTypes DEF Tasks!ActionTypeOK
  <2>7. ClickInv'
    <3>1. \A t \in TaskIds : /\ tasks'[t] # "absent" => api[t] # Tasks!NoTask
                             /\ taskLoad'.answer[t] = "absent"
      BY <2>1, TaskRecords DEF TaskInv, ClickInv
    <3>2. taskProject # None
      BY <2>1 DEF TaskInv, ClickInv
    <3> QED BY <1>1, <1>3, <2>1, <2>2, <3>1, <3>2 DEF TaskInv, ClickInv
  <2>8. CardsFollow'
    <3> SUFFICES ASSUME ~muddled' PROVE CardsFollow'
      BY DEF CardsFollow
    <3>1. Tasks!Toggling = {}
      BY <2>1
    <3>2. \A t \in TaskIds : PendingOf(toggles', t) = {}
      BY <1>1, <3>1 DEF Tasks!Toggling, PendingOf
    <3>3. Even({})
      BY FS_EmptySet DEF Even
    <3>4. \A t \in TaskIds : tasks'[t] = CardFor(api', taskProject', toggles', t)
      BY <1>1, <2>1, <2>3, <3>2, <3>3 DEF CardFor
    <3> QED BY <3>2, <3>4 DEF CardsFollow
  <2> QED BY <1>2, <2>6, <2>7, <2>8 DEF TaskInv
<1>6. CASE Tasks!TasksFail
  <2>1. /\ taskLoad' = Tasks!NoLoad /\ taskBusy' = FALSE /\ muddled' = TRUE
        /\ UNCHANGED <<taskProject, tasks, clicks>>
    BY <1>6 DEF Tasks!TasksFail
  <2>2. /\ taskLoad' \in Tasks!Load /\ taskLoad'.at = "idle"
        /\ \A t \in TaskIds : taskLoad'.answer[t] = "absent"
    BY <2>1, TaskRecords
  <2>3. Tasks!ActionTypeOK'
    BY <1>1, <2>1, <2>2, TaskTypes DEF Tasks!ActionTypeOK
  <2>4. ClickInv' /\ CardsFollow'
    BY <1>1, <1>3, <2>1, <2>2 DEF TaskInv, ClickInv, CardsFollow
  <2> QED BY <1>2, <2>3, <2>4 DEF TaskInv
<1>7. ASSUME NEW p \in Projects, Tasks!selectProject(p) PROVE TaskInv'
  <2>1. /\ clicks < MaxClicks /\ clicks' = clicks + 1 /\ taskBusy' = TRUE
        /\ taskLoad' = [Tasks!NoLoad EXCEPT !.at = "projects", !.target = p]
        /\ UNCHANGED <<taskProject, tasks, muddled>>
    BY <1>7 DEF Tasks!selectProject, Tasks!Click
  <2>2. /\ taskLoad' \in Tasks!Load /\ taskLoad'.at = "projects"
        /\ \A t \in TaskIds : taskLoad'.answer[t] = "absent"
    BY <2>1, TaskRecords DEF Tasks!NoLoad, Tasks!Load
  <2>3. clicks' \in 0 .. MaxClicks
    BY <2>1, TaskTypes, TaskBounds
  <2>4. Tasks!ActionTypeOK'
    BY <1>1, <2>1, <2>2, <2>3, TaskTypes DEF Tasks!ActionTypeOK
  <2>5. ClickInv' /\ CardsFollow'
    BY <1>1, <1>3, <2>1, <2>2 DEF TaskInv, ClickInv, CardsFollow
  <2> QED BY <1>2, <2>4, <2>5 DEF TaskInv
<1> QED BY <1>4, <1>5, <1>6, <1>7, <1>8

\* A toggle changes no title, what was there stays, and it flips the task if that is as the
\* API found it.
LEMMA FlippedKeeps ==
    ASSUME TaskInv, NEW c \in Tasks!Toggling, NEW t \in TaskIds, t = toggles[c].id,
           Tasks!ToggleTask(c)
    PROVE  /\ api' \in [TaskIds -> Tasks!Task \cup {Tasks!NoTask}]
           /\ \A u \in TaskIds :
                 /\ api'[u] # Tasks!NoTask <=> api[u] # Tasks!NoTask
                 /\ api[u] # Tasks!NoTask => api'[u].title = api[u].title
                 /\ api'[u].home = api[u].home
                 /\ u # t => api'[u] = api[u]
           /\ api[t] \in Tasks!Task
           /\ Tasks!CardOf(api[t]) = toggles[c].found => api'[t].done = ~api[t].done
<1> DEFINE b == Tasks!Flip(toggles[c].found) = "done"
           turned == [api[t] EXCEPT !.done = b]
<1>1. c \in Tasks!Calls /\ toggles[c] # Tasks!NoToggle
  BY DEF Tasks!Toggling
<1>2. api[t] \in Tasks!Task /\ api' = [api EXCEPT ![t] = turned]
  <2>1. toggles[c].prev[t] # "absent" /\ api[t] # Tasks!NoTask
    BY <1>1 DEF TaskInv, ClickInv
  <2> QED BY <2>1, TaskTypes DEF Tasks!ToggleTask
<1>3. Tasks!CardOf(api[t]) = toggles[c].found => b = ~api[t].done
  <2>1. api[t].done \in BOOLEAN
    BY <1>2 DEF Tasks!Task
  <2> QED BY <2>1 DEF Tasks!CardOf, Tasks!Flip
<1>4. b \in BOOLEAN
  OBVIOUS
<1> HIDE DEF b
<1>5. turned \in Tasks!Task /\ turned.title = api[t].title /\ turned.home = api[t].home
      /\ turned.done = b
  BY <1>2, <1>4 DEF Tasks!Task
<1> HIDE DEF turned
<1>6. api'[t] = turned /\ \A u \in TaskIds : u # t => api'[u] = api[u]
  BY <1>2, TaskTypes
<1>7. api' \in [TaskIds -> Tasks!Task \cup {Tasks!NoTask}]
  BY <1>2, <1>5, TaskTypes
<1>8. turned # Tasks!NoTask /\ api[t] # Tasks!NoTask
  BY <1>2, <1>5, NoTaskFacts
<1> QED BY <1>2, <1>3, <1>5, <1>6, <1>7, <1>8

\* So the titles are as they were, as long as nothing is typed or created.
LEMMA TitlesKept ==
    ASSUME TaskInv, \A u \in TaskIds : /\ api'[u] # Tasks!NoTask <=> api[u] # Tasks!NoTask
                                       /\ api[u] # Tasks!NoTask => api'[u].title = api[u].title,
           UNCHANGED <<newTitle, typed, creates, twice>>
    PROVE  TitleInv'
<1>1. Tasks!Creating' = Tasks!Creating
  BY DEF Tasks!Creating
<1>2. Tasks!OneTaskPerTitle => Tasks!OneTaskPerTitle'
  BY DEF Tasks!OneTaskPerTitle
<1> QED BY <1>1, <1>2 DEF TaskInv, TitleInv

\* The slot of a toggle is taken or freed.
LEMMA PendingTaken ==
    ASSUME TaskInv, NEW c \in Tasks!Calls, NEW t \in TaskIds, NEW g, g.id = t,
           toggles[c] = Tasks!NoToggle, toggles' = [toggles EXCEPT ![c] = g]
    PROVE  /\ \A u \in TaskIds : u # t => PendingOf(toggles', u) = PendingOf(toggles, u)
           /\ PendingOf(toggles', t) = PendingOf(toggles, t) \cup {c}
           /\ c \notin PendingOf(toggles, t)
<1>1. toggles'[c] = g /\ \A d \in Tasks!Calls : d # c => toggles'[d] = toggles[d]
  BY TaskTypes
<1>2. Tasks!NoToggle.id = None /\ None \notin TaskIds
  BY TaskBounds DEF Tasks!NoToggle
<1> QED BY <1>1, <1>2 DEF PendingOf

LEMMA PendingFreed ==
    ASSUME TaskInv, NEW c \in Tasks!Calls, NEW t \in TaskIds, toggles[c].id = t,
           toggles[c] # Tasks!NoToggle, toggles' = [toggles EXCEPT ![c] = Tasks!NoToggle]
    PROVE  /\ \A u \in TaskIds : u # t => PendingOf(toggles', u) = PendingOf(toggles, u)
           /\ PendingOf(toggles', t) = PendingOf(toggles, t) \ {c}
           /\ c \in PendingOf(toggles, t)
<1>1. toggles'[c] = Tasks!NoToggle /\ \A d \in Tasks!Calls : d # c => toggles'[d] = toggles[d]
  BY TaskTypes
<1> QED BY <1>1 DEF PendingOf

\* What a card is flipped to, and that flipping it twice is nothing.
LEMMA CardFacts ==
    /\ \A x : Tasks!Flip(x) # "absent"
    /\ \A x \in Tasks!Card : Tasks!Flip(x) \in Tasks!Card
    /\ \A x \in Tasks!Card : x # "absent" => Tasks!Flip(Tasks!Flip(x)) = x
    /\ \A a, p, t : Shown(a, p, t) \in Tasks!Card
    /\ \A a, p, t : a[t].home = p => Shown(a, p, t) # "absent"
    /\ \A a, p, t : Shown(a, p, t) # "absent" => a[t].home = p
BY DEF Tasks!Flip, Tasks!Card, Shown, Tasks!CardOf

LEMMA ToggleClickInv ==
    ASSUME TaskInv, NEW c \in Tasks!Calls, NEW t \in TaskIds, Tasks!handleToggleTask(c, t)
    PROVE  TaskInv'
<1> DEFINE g == [id |-> t, prev |-> tasks, of |-> taskProject, found |-> None]
           card == Tasks!Flip(tasks[t])
<1>1. /\ ~taskBusy /\ clicks < MaxClicks /\ clicks' = clicks + 1 /\ toggles[c] = Tasks!NoToggle
      /\ tasks[t] # "absent"
      /\ toggles' = [toggles EXCEPT ![c] = g] /\ tasks' = [tasks EXCEPT ![t] = card]
      /\ UNCHANGED <<api, taskProject, newTitle, taskBusy, creating, typed, taskLoad, creates,
                     muddled, twice>>
  BY DEF Tasks!handleToggleTask, Tasks!Click, Tasks!filteredTasks
<1>2. /\ g \in Tasks!Toggle
      /\ g.id = t /\ g.prev = tasks /\ card \in Tasks!Card /\ card # "absent"
  BY TaskTypes, CardFacts DEF Tasks!Toggle
<1> HIDE DEF g, card
<1>3. /\ toggles'[c] = g /\ \A d \in Tasks!Calls : d # c => toggles'[d] = toggles[d]
      /\ tasks'[t] = card /\ \A u \in TaskIds : u # t => tasks'[u] = tasks[u]
  BY <1>1, TaskTypes
<1>4. Tasks!ActionTypeOK'
  <2>1. clicks' \in 0 .. MaxClicks
    BY <1>1, TaskTypes, TaskBounds
  <2>2. tasks' \in [TaskIds -> Tasks!Card]
    BY <1>1, <1>2, TaskTypes
  <2>3. toggles' \in [Tasks!Calls -> Tasks!Toggle]
    BY <1>1, <1>2, TaskTypes
  <2> QED BY <1>1, <2>1, <2>2, <2>3, TaskTypes DEF Tasks!ActionTypeOK
<1>5. ClickInv'
  <2>1. Tasks!Creating' = Tasks!Creating
    BY <1>1 DEF Tasks!Creating
  <2>2. \A u \in TaskIds : tasks[u] # "absent" => api[u] # Tasks!NoTask
    BY DEF TaskInv, ClickInv
  <2> QED BY <1>1, <1>2, <1>3, <2>1, <2>2 DEF TaskInv, ClickInv
<1>6. CardsFollow'
  <2> SUFFICES ASSUME ~muddled, taskLoad.at = "idle",
                      NEW u \in TaskIds
               PROVE  /\ PendingOf(toggles', u) # {} => api[u].home = taskProject
                      /\ tasks'[u] = CardFor(api, taskProject, toggles', u)
    BY <1>1 DEF CardsFollow
  <2>1. /\ PendingOf(toggles, u) # {} => api[u].home = taskProject
        /\ tasks[u] = CardFor(api, taskProject, toggles, u)
    BY DEF TaskInv, CardsFollow
  <2>2. CASE u # t
    <3>1. PendingOf(toggles', u) = PendingOf(toggles, u)
      BY <1>1, <1>2, <2>2, PendingTaken
    <3> QED BY <1>3, <2>1, <2>2, <3>1 DEF CardFor
  <2>3. CASE u = t
    <3>1. /\ PendingOf(toggles', u) = PendingOf(toggles, u) \cup {c}
          /\ c \notin PendingOf(toggles, u)
      BY <1>1, <1>2, <2>3, PendingTaken
    <3>2. Even(PendingOf(toggles', u)) <=> ~Even(PendingOf(toggles, u))
      BY <3>1, ParityFlips, PendingFinite
    <3>3. api[u].home = taskProject
      <4>1. CASE PendingOf(toggles, u) = {}
        <5>1. Even({})
          BY FS_EmptySet DEF Even
        <5>2. tasks[u] = Shown(api, taskProject, u)
          BY <2>1, <4>1, <5>1 DEF CardFor
        <5> QED BY <1>1, <2>3, <5>2, CardFacts
      <4> QED BY <2>1, <4>1
    <3>4. Shown(api, taskProject, u) \in Tasks!Card /\ Shown(api, taskProject, u) # "absent"
      BY <3>3, CardFacts
    <3>5. tasks'[u] = Tasks!Flip(tasks[u])
      BY <1>3, <2>3 DEF card
    <3>6. tasks'[u] = CardFor(api, taskProject, toggles', u)
      BY <2>1, <3>2, <3>4, <3>5, CardFacts DEF CardFor
    <3> QED BY <3>3, <3>6
  <2> QED BY <2>2, <2>3
<1>7. TitleInv'
  BY <1>1, TitlesKept
<1> QED BY <1>4, <1>5, <1>6, <1>7 DEF TaskInv

\* The slot of a toggle that ends.
LEMMA ToggleFreed ==
    ASSUME TaskInv, NEW c \in Tasks!Calls, c \in Tasks!Toggling,
           toggles' = [toggles EXCEPT ![c] = Tasks!NoToggle]
    PROVE  /\ toggles' \in [Tasks!Calls -> Tasks!Toggle]
           /\ toggles'[c] = Tasks!NoToggle
           /\ \A d \in Tasks!Calls : d # c => toggles'[d] = toggles[d]
           /\ toggles[c] # Tasks!NoToggle /\ toggles[c].id \in TaskIds
           /\ toggles[c].prev[toggles[c].id] # "absent"
           /\ toggles[c].prev \in [TaskIds -> Tasks!Card]
           /\ \A t \in TaskIds : toggles[c].prev[t] # "absent" => api[t] # Tasks!NoTask
           /\ \A u \in TaskIds : u # toggles[c].id => PendingOf(toggles', u) = PendingOf(toggles, u)
           /\ PendingOf(toggles, toggles[c].id) # {}
           /\ Even(PendingOf(toggles', toggles[c].id)) <=> ~Even(PendingOf(toggles, toggles[c].id))
<1> DEFINE t == toggles[c].id
<1>1. toggles[c] # Tasks!NoToggle /\ t \in TaskIds /\ toggles[c].prev[t] # "absent"
      /\ \A u \in TaskIds : toggles[c].prev[u] # "absent" => api[u] # Tasks!NoTask
  BY DEF Tasks!Toggling, TaskInv, ClickInv
<1>2. Tasks!NoToggle \in Tasks!Toggle
  BY TaskRecords
<1>3. /\ PendingOf(toggles', t) = PendingOf(toggles, t) \ {c} /\ c \in PendingOf(toggles, t)
      /\ \A u \in TaskIds : u # t => PendingOf(toggles', u) = PendingOf(toggles, u)
  BY <1>1, PendingFreed
<1>4. Even(PendingOf(toggles', t)) <=> ~Even(PendingOf(toggles, t))
  <2> DEFINE S == PendingOf(toggles, t)
  <2>1. IsFiniteSet(S)
    BY PendingFinite
  <2>2. c \in S /\ PendingOf(toggles', t) = S \ {c}
    BY <1>3
  <2> HIDE DEF S
  <2>3. Even(S \ {c}) <=> ~Even(S)
    BY <2>1, <2>2, ParityFlips
  <2> QED BY <2>2, <2>3 DEF S
<1> QED BY <1>1, <1>2, <1>3, <1>4, TaskTypes, TaskRecords

\* The API has found the task of a toggle: it is under way as before.
LEMMA ToggleFindsInv ==
    ASSUME TaskInv, NEW c \in Tasks!Calls, Tasks!ToggleFinds(c)
    PROVE  TaskInv'
<1> DEFINE x == Tasks!CardOf(api[toggles[c].id])
           g == [toggles[c] EXCEPT !.found = x]
<1>1. /\ c \in Tasks!Toggling /\ toggles' = [toggles EXCEPT ![c] = g]
      /\ UNCHANGED <<api, taskProject, tasks, newTitle, taskBusy, creating, typed, taskLoad,
                     creates, clicks, muddled, twice>>
  BY DEF Tasks!ToggleFinds, Tasks!taskPageVars
<1>2. x \in {"done", "pending"}
  BY DEF Tasks!CardOf
<1> HIDE DEF x
<1>3. toggles[c] \in Tasks!Toggle /\ toggles[c] # Tasks!NoToggle /\ toggles[c].id \in TaskIds
  BY <1>1, TaskTypes DEF Tasks!Toggling, TaskInv, ClickInv
<1>4. /\ g \in Tasks!Toggle /\ g.id = toggles[c].id /\ g.prev = toggles[c].prev
      /\ g # Tasks!NoToggle
  <2>1. /\ g \in Tasks!Toggle /\ g.id = toggles[c].id /\ g.prev = toggles[c].prev
    BY <1>2, <1>3 DEF Tasks!Toggle
  <2> QED BY <1>3, <2>1, TaskRecords, TaskBounds
<1> HIDE DEF g
<1>5. /\ toggles' \in [Tasks!Calls -> Tasks!Toggle]
      /\ toggles'[c] = g /\ \A d \in Tasks!Calls : d # c => toggles'[d] = toggles[d]
  BY <1>1, <1>4, TaskTypes
<1>6. Tasks!ActionTypeOK'
  BY <1>1, <1>5, TaskTypes DEF Tasks!ActionTypeOK
<1>7. ClickInv'
  <2>1. Tasks!Creating' = Tasks!Creating
    BY <1>1 DEF Tasks!Creating
  <2> QED BY <1>1, <1>3, <1>4, <1>5, <2>1 DEF TaskInv, ClickInv
<1>8. \A u \in TaskIds : PendingOf(toggles', u) = PendingOf(toggles, u)
  BY <1>3, <1>4, <1>5 DEF PendingOf
<1>9. CardsFollow'
  BY <1>1, <1>8 DEF TaskInv, CardsFollow, CardFor
<1>10. TitleInv'
  BY <1>1, TitlesKept
<1> QED BY <1>6, <1>7, <1>9, <1>10 DEF TaskInv

LEMMA ToggleLandsInv ==
    ASSUME TaskInv, NEW c \in Tasks!Calls, Tasks!ToggleLands(c)
    PROVE  TaskInv'
<1> DEFINE t == toggles[c].id
<1>1. /\ c \in Tasks!Toggling /\ Tasks!ToggleTask(c) /\ t = toggles[c].id
      /\ toggles' = [toggles EXCEPT ![c] = Tasks!NoToggle]
      /\ muddled' = (muddled \/ Tasks!CardOf(api[t]) # toggles[c].found)
      /\ UNCHANGED <<taskProject, tasks, newTitle, taskBusy, creating, typed, taskLoad, creates,
                     clicks, twice>>
  BY DEF Tasks!ToggleLands, Tasks!taskPageVars
<1>2. /\ t \in TaskIds
      /\ toggles' \in [Tasks!Calls -> Tasks!Toggle]
      /\ toggles'[c] = Tasks!NoToggle /\ \A d \in Tasks!Calls : d # c => toggles'[d] = toggles[d]
      /\ \A u \in TaskIds : u # t => PendingOf(toggles', u) = PendingOf(toggles, u)
      /\ PendingOf(toggles, t) # {}
      /\ Even(PendingOf(toggles', t)) <=> ~Even(PendingOf(toggles, t))
  BY <1>1, ToggleFreed
<1> HIDE DEF t
<1>3. /\ api' \in [TaskIds -> Tasks!Task \cup {Tasks!NoTask}]
      /\ \A u \in TaskIds :
            /\ api'[u] # Tasks!NoTask <=> api[u] # Tasks!NoTask
            /\ api[u] # Tasks!NoTask => api'[u].title = api[u].title
            /\ api'[u].home = api[u].home
            /\ u # t => api'[u] = api[u]
      /\ api[t] \in Tasks!Task /\ (~muddled' => api'[t].done = ~api[t].done)
  BY <1>1, <1>2, FlippedKeeps
<1>4. Tasks!ActionTypeOK'
  BY <1>1, <1>2, <1>3, TaskTypes DEF Tasks!ActionTypeOK
<1>5. ClickInv'
  <2>1. Tasks!Creating' = Tasks!Creating
    BY <1>1 DEF Tasks!Creating
  <2>2. muddled => muddled'
    BY <1>1
  <2> QED BY <1>1, <1>2, <1>3, <2>1, <2>2 DEF TaskInv, ClickInv
<1>6. TitleInv'
  BY <1>1, <1>3, TitlesKept
<1>7. CardsFollow'
  <2> SUFFICES ASSUME ~muddled', ~muddled, taskLoad.at = "idle",
                      NEW u \in TaskIds
               PROVE  /\ PendingOf(toggles', u) # {} => api'[u].home = taskProject
                      /\ tasks[u] = CardFor(api', taskProject, toggles', u)
    BY <1>1 DEF CardsFollow
  <2>1. /\ PendingOf(toggles, u) # {} => api[u].home = taskProject
        /\ tasks[u] = CardFor(api, taskProject, toggles, u)
    BY DEF TaskInv, CardsFollow
  <2>2. CASE u # t
    <3>1. PendingOf(toggles', u) = PendingOf(toggles, u) /\ api'[u] = api[u]
      BY <1>2, <1>3, <2>2
    <3> QED BY <2>1, <3>1 DEF CardFor, Shown
  <2>3. CASE u = t
    <3>1. api[u].home = taskProject /\ api'[u].home = taskProject
      BY <1>2, <1>3, <2>1, <2>3
    <3>2. /\ Shown(api', taskProject, u) = Tasks!Flip(Shown(api, taskProject, u))
          /\ Shown(api, taskProject, u) = Tasks!Flip(Shown(api', taskProject, u))
      <4>1. api[u].done \in BOOLEAN /\ api'[u].done = ~api[u].done
        BY <1>3, <2>3 DEF Tasks!Task
      <4>2. /\ Shown(api, taskProject, u) = IF api[u].done THEN "done" ELSE "pending"
            /\ Shown(api', taskProject, u) = IF api'[u].done THEN "done" ELSE "pending"
        BY <3>1 DEF Shown, Tasks!CardOf
      <4> QED BY <4>1, <4>2 DEF Tasks!Flip
    <3>3. tasks[u] = CardFor(api', taskProject, toggles', u)
      BY <1>2, <2>1, <2>3, <3>2 DEF CardFor
    <3> QED BY <3>1, <3>3
  <2> QED BY <2>2, <2>3
<1> QED BY <1>4, <1>5, <1>6, <1>7 DEF TaskInv

LEMMA ToggleFailsInv ==
    ASSUME TaskInv, NEW c \in Tasks!Calls, Tasks!ToggleFails(c)
    PROVE  TaskInv'
<1> DEFINE t == toggles[c].id
           prev == toggles[c].prev
<1>1. /\ c \in Tasks!Toggling /\ (Tasks!ToggleTask(c) \/ api' = api) /\ t = toggles[c].id
      /\ toggles' = [toggles EXCEPT ![c] = Tasks!NoToggle] /\ tasks' = prev
      /\ muddled' = \/ muddled \/ api' # api \/ taskLoad.at # "idle" \/ toggles[c].of # taskProject
                    \/ tasks # [prev EXCEPT ![t] = Tasks!Flip(@)]
      /\ UNCHANGED <<taskProject, newTitle, taskBusy, creating, typed, taskLoad, creates,
                     clicks, twice>>
  BY DEF Tasks!ToggleFails
<1>2. /\ t \in TaskIds
      /\ toggles' \in [Tasks!Calls -> Tasks!Toggle]
      /\ toggles'[c] = Tasks!NoToggle /\ \A d \in Tasks!Calls : d # c => toggles'[d] = toggles[d]
      /\ \A u \in TaskIds : u # t => PendingOf(toggles', u) = PendingOf(toggles, u)
      /\ PendingOf(toggles, t) # {}
      /\ Even(PendingOf(toggles', t)) <=> ~Even(PendingOf(toggles, t))
      /\ prev \in [TaskIds -> Tasks!Card] /\ prev[t] # "absent"
      /\ \A u \in TaskIds : prev[u] # "absent" => api[u] # Tasks!NoTask
  BY <1>1, ToggleFreed
<1> HIDE DEF t, prev
<1>3. /\ api' \in [TaskIds -> Tasks!Task \cup {Tasks!NoTask}]
      /\ \A u \in TaskIds :
            /\ api'[u] # Tasks!NoTask <=> api[u] # Tasks!NoTask
            /\ api[u] # Tasks!NoTask => api'[u].title = api[u].title
  <2>1. CASE Tasks!ToggleTask(c)
    BY <1>1, <1>2, <2>1, FlippedKeeps
  <2>2. CASE api' = api
    BY <2>2, TaskTypes
  <2> QED BY <1>1, <2>1, <2>2
<1>4. muddled' \in BOOLEAN /\ (muddled => muddled')
  BY <1>1
<1>5. Tasks!ActionTypeOK'
  BY <1>1, <1>2, <1>3, <1>4, TaskTypes DEF Tasks!ActionTypeOK
<1>6. ClickInv'
  <2>1. Tasks!Creating' = Tasks!Creating
    BY <1>1 DEF Tasks!Creating
  <2>2. /\ \A u \in TaskIds : tasks'[u] # "absent" => api'[u] # Tasks!NoTask
        /\ \A d \in Tasks!Calls :
              toggles'[d] # Tasks!NoToggle =>
                 /\ toggles'[d].id \in TaskIds /\ toggles'[d].prev[toggles'[d].id] # "absent"
                 /\ \A u \in TaskIds : toggles'[d].prev[u] # "absent" => api'[u] # Tasks!NoTask
    BY <1>1, <1>2, <1>3 DEF TaskInv, ClickInv
  <2>3. \A u \in TaskIds : taskLoad.answer[u] # "absent" => api'[u] # Tasks!NoTask
    BY <1>3 DEF TaskInv, ClickInv
  <2> QED BY <1>1, <1>4, <2>1, <2>2, <2>3 DEF TaskInv, ClickInv
<1>7. TitleInv'
  BY <1>1, <1>3, TitlesKept
<1>8. CardsFollow'
  <2> SUFFICES ASSUME ~muddled', taskLoad.at = "idle",
                      NEW u \in TaskIds
               PROVE  /\ PendingOf(toggles', u) # {} => api'[u].home = taskProject
                      /\ tasks'[u] = CardFor(api', taskProject, toggles', u)
    BY <1>1 DEF CardsFollow
  <2>1. ~muddled /\ api' = api /\ tasks = [prev EXCEPT ![t] = Tasks!Flip(prev[t])]
    BY <1>1
  <2>2. /\ PendingOf(toggles, u) # {} => api[u].home = taskProject
        /\ tasks[u] = CardFor(api, taskProject, toggles, u)
    BY <2>1 DEF TaskInv, CardsFollow
  <2>3. CASE u # t
    <3>1. PendingOf(toggles', u) = PendingOf(toggles, u) /\ tasks'[u] = tasks[u]
      BY <1>1, <1>2, <2>1, <2>3
    <3> QED BY <2>1, <2>2, <3>1
            DEF CardFor
  <2>4. CASE u = t
    <3>1. tasks[u] = Tasks!Flip(prev[u]) /\ tasks'[u] = prev[u]
      BY <1>1, <1>2, <2>1, <2>4
    <3>2. tasks'[u] = Tasks!Flip(tasks[u])
      BY <1>2, <2>4, <3>1, CardFacts
    <3>3. api[u].home = taskProject
      BY <1>2, <2>2, <2>4
    <3>4. Shown(api, taskProject, u) \in Tasks!Card /\ Shown(api, taskProject, u) # "absent"
      BY <3>3, CardFacts
    <3>5. tasks'[u] = CardFor(api, taskProject, toggles', u)
      BY <1>2, <2>2, <2>4, <3>2, <3>4, CardFacts DEF CardFor
    <3> QED BY <2>1, <3>3, <3>5
  <2> QED BY <2>3, <2>4
<1> QED BY <1>5, <1>6, <1>7, <1>8 DEF TaskInv

LEMMA TypeTitleInv == ASSUME TaskInv, Tasks!setNewTaskTitle PROVE TaskInv'
<1>1. /\ typed < MaxTyped /\ typed' = typed + 1 /\ newTitle' = typed + 1
      /\ UNCHANGED <<api, taskProject, tasks, taskBusy, creating, taskLoad, toggles, creates,
                     clicks, muddled, twice>>
  BY DEF Tasks!setNewTaskTitle, Tasks!callVars
<1>2. typed \in Nat /\ typed' \in 0 .. MaxTyped /\ newTitle' \in 0 .. typed'
  BY <1>1, TaskTypes, TaskBounds
<1>3. Tasks!Creating' = Tasks!Creating
  BY <1>1 DEF Tasks!Creating
<1>4. Tasks!ActionTypeOK'
  BY <1>1, <1>2, TaskTypes DEF Tasks!ActionTypeOK
<1>5. ClickInv' /\ CardsFollow'
  BY <1>1, <1>3 DEF TaskInv, ClickInv, CardsFollow
<1>6. TitleInv'
  <2>1. \A t \in TaskIds : api[t] # Tasks!NoTask => api[t].title \in Int /\ api[t].title <= typed
    BY TaskTypes DEF TaskInv, TitleInv, Tasks!Task
  <2>2. \A t \in TaskIds : api[t] # Tasks!NoTask => api[t].title <= typed + 1 /\ api[t].title # typed + 1
    BY <1>2, <2>1
  <2>3. \A c \in Tasks!Calls : creates[c].title <= typed + 1
    <3> TAKE c \in Tasks!Calls
    <3>1. creates[c].title \in 0 .. MaxTyped /\ creates[c].title <= typed
      BY TaskTypes DEF TaskInv, TitleInv
    <3> QED BY <1>2, <3>1
  <2>4. Tasks!OneTaskPerTitle => Tasks!OneTaskPerTitle'
    BY <1>1 DEF Tasks!OneTaskPerTitle
  <2> QED BY <1>1, <1>3, <2>2, <2>3, <2>4 DEF TaskInv, TitleInv
<1> QED BY <1>4, <1>5, <1>6 DEF TaskInv

LEMMA CreateClickInv ==
    ASSUME TaskInv, NEW c \in Tasks!Calls, Tasks!handleCreateTask(c)
    PROVE  TaskInv'
<1> DEFINE g == [title |-> newTitle, of |-> taskProject]
<1>1. /\ newTitle # 0 /\ taskProject # None /\ creates[c] = Tasks!NoCreate /\ creating' = TRUE
      /\ creates' = [creates EXCEPT ![c] = g]
      /\ twice' = (twice \/ \E d \in Tasks!Creating : creates[d].title = newTitle)
      /\ UNCHANGED <<api, taskProject, tasks, newTitle, taskBusy, typed, taskLoad, toggles,
                     clicks, muddled>>
  BY DEF Tasks!handleCreateTask
<1>2. g \in [title : 0 .. MaxTyped, of : Projects \cup {None}] /\ g.title = newTitle
  BY TaskTypes, TaskBounds
<1>3. g # Tasks!NoCreate
  BY <1>1, <1>2 DEF Tasks!NoCreate
<1> HIDE DEF g
<1>4. /\ creates'[c] = g /\ \A d \in Tasks!Calls : d # c => creates'[d] = creates[d]
      /\ creates' \in [Tasks!Calls -> [title : 0 .. MaxTyped, of : Projects \cup {None}]]
  BY <1>1, <1>2, TaskTypes
<1>5. Tasks!Creating' = Tasks!Creating \cup {c} /\ c \notin Tasks!Creating
  BY <1>1, <1>3, <1>4 DEF Tasks!Creating
<1>6. twice' \in BOOLEAN /\ (twice => twice')
  BY <1>1, TaskTypes
<1>7. Tasks!ActionTypeOK'
  BY <1>1, <1>4, <1>6, TaskTypes DEF Tasks!ActionTypeOK
<1>8. ClickInv' /\ CardsFollow'
  <2>1. g.of \in Projects
    BY <1>1, TaskTypes DEF g
  <2>2. \A d \in Tasks!Creating' : creates'[d].of \in Projects
    <3>1. Tasks!Creating \subseteq Tasks!Calls
      BY DEF Tasks!Creating
    <3> QED BY <1>4, <1>5, <2>1, <3>1 DEF TaskInv, ClickInv
  <2> QED BY <1>1, <1>5, <2>2 DEF TaskInv, ClickInv, CardsFollow
<1>9. TitleInv'
  <2>1. \A d \in Tasks!Calls : creates'[d].title <= typed
    BY <1>2, <1>4, TaskTypes DEF TaskInv, TitleInv
  <2>2. ASSUME ~twice'
        PROVE  /\ \A d \in Tasks!Creating', t \in TaskIds :
                     api[t] # Tasks!NoTask => api[t].title # creates'[d].title
               /\ \A d, e \in Tasks!Creating' : d # e => creates'[d].title # creates'[e].title
    <3>1. ~twice /\ \A d \in Tasks!Creating : creates[d].title # newTitle
      BY <1>1, <2>2
    <3>2. Tasks!Creating \subseteq Tasks!Calls
      BY DEF Tasks!Creating
    <3> QED BY <1>1, <1>2, <1>4, <1>5, <3>1, <3>2 DEF TaskInv, TitleInv
  <2>3. ~twice' => Tasks!OneTaskPerTitle'
    BY <1>1, <1>6 DEF TaskInv, TitleInv, Tasks!OneTaskPerTitle
  <2> QED BY <1>1, <1>6, <2>1, <2>2, <2>3 DEF TaskInv, TitleInv
<1> QED BY <1>7, <1>8, <1>9 DEF TaskInv

\* The slot of a creation that ends.
LEMMA CreateFreed ==
    ASSUME TaskInv, NEW c \in Tasks!Calls, Tasks!CreateEnds(c)
    PROVE  /\ creates' \in [Tasks!Calls -> [title : 0 .. MaxTyped, of : Projects \cup {None}]]
           /\ Tasks!Creating' = Tasks!Creating \ {c}
           /\ \A d \in Tasks!Calls : d # c => creates'[d] = creates[d]
           /\ \A d \in Tasks!Calls : creates'[d].title <= typed
           /\ creating' = FALSE
<1>1. creates' = [creates EXCEPT ![c] = Tasks!NoCreate] /\ creating' = FALSE
  BY DEF Tasks!CreateEnds
<1>2. /\ Tasks!NoCreate \in [title : 0 .. MaxTyped, of : Projects \cup {None}]
      /\ Tasks!NoCreate.title = 0
  BY TaskBounds DEF Tasks!NoCreate
<1>3. /\ creates' \in [Tasks!Calls -> [title : 0 .. MaxTyped, of : Projects \cup {None}]]
      /\ creates'[c] = Tasks!NoCreate /\ \A d \in Tasks!Calls : d # c => creates'[d] = creates[d]
  BY <1>1, <1>2, TaskTypes
<1>4. Tasks!Creating' = Tasks!Creating \ {c}
  BY <1>3 DEF Tasks!Creating
<1>5. \A d \in Tasks!Calls : creates'[d].title <= typed
  <2>1. 0 <= typed
    BY TaskTypes
  <2> QED BY <1>2, <1>3, <2>1 DEF TaskInv, TitleInv
<1> QED BY <1>1, <1>3, <1>4, <1>5

\* A task is made of what was sent.
LEMMA MadeTask ==
    ASSUME TaskInv, NEW c \in Tasks!Creating, NEW t \in TaskIds, Tasks!CreateTask(t, creates[c])
    PROVE  /\ api' \in [TaskIds -> Tasks!Task \cup {Tasks!NoTask}]
           /\ api[t] = Tasks!NoTask /\ api'[t] # Tasks!NoTask
           /\ api'[t].home = creates[c].of /\ api'[t].done = FALSE
           /\ api'[t].title = creates[c].title /\ api'[t].title <= typed
           /\ \A u \in TaskIds : u # t => api'[u] = api[u]
<1> DEFINE new == [home |-> creates[c].of, done |-> FALSE, title |-> creates[c].title]
<1>1. api[t] = Tasks!NoTask /\ api' = [api EXCEPT ![t] = new]
  BY DEF Tasks!CreateTask
<1>2. creates[c].title \in 0 .. MaxTyped /\ creates[c].title <= typed
  BY TaskTypes DEF Tasks!Creating, TaskInv, TitleInv
<1>3. creates[c].title \in -MaxTyped .. MaxTyped
  BY <1>2, TaskBounds
<1>4. new \in Tasks!Task /\ new.home = creates[c].of /\ new.done = FALSE /\ new.title = creates[c].title
  BY <1>3 DEF Tasks!Task, TaskInv, ClickInv
<1> HIDE DEF new
<1>5. /\ api'[t] = new /\ \A u \in TaskIds : u # t => api'[u] = api[u]
      /\ api' \in [TaskIds -> Tasks!Task \cup {Tasks!NoTask}]
  BY <1>1, <1>4, TaskTypes
<1>6. new # Tasks!NoTask
  BY <1>4, NoTaskFacts
<1> QED BY <1>1, <1>2, <1>4, <1>5, <1>6

\* The titles on their way, when a creation ends and its title is a task's or nobody's.
LEMMA TitlesAfter ==
    ASSUME TaskInv, NEW c \in Tasks!Calls, Tasks!CreateEnds(c), UNCHANGED typed,
           api' \in [TaskIds -> Tasks!Task \cup {Tasks!NoTask}],
           NEW t \in TaskIds, \A u \in TaskIds : u # t => api'[u] = api[u],
           \/ api'[t] = api[t]
           \/ c \in Tasks!Creating /\ api'[t].title = creates[c].title,
           api'[t] # Tasks!NoTask => api'[t].title <= typed,
           twice \in BOOLEAN, twice => twice',
           ~twice' /\ newTitle' # 0 => newTitle' = newTitle /\ api'[t] = api[t]
    PROVE  TitleInv'
<1>1. /\ Tasks!Creating' = Tasks!Creating \ {c}
      /\ \A d \in Tasks!Calls : d # c => creates'[d] = creates[d]
      /\ \A d \in Tasks!Calls : creates'[d].title <= typed
  BY CreateFreed
<1>2. Tasks!Creating \subseteq Tasks!Calls
  BY DEF Tasks!Creating
<1>3. \A u \in TaskIds : api'[u] # Tasks!NoTask => api'[u].title <= typed
  BY DEF TaskInv, TitleInv
<1>4. ASSUME ~twice'
      PROVE  /\ Tasks!OneTaskPerTitle'
             /\ \A d \in Tasks!Creating', u \in TaskIds :
                   api'[u] # Tasks!NoTask => api'[u].title # creates'[d].title
             /\ \A d, e \in Tasks!Creating' : d # e => creates'[d].title # creates'[e].title
             /\ newTitle' # 0 =>
                   \A u \in TaskIds : api'[u] # Tasks!NoTask => api'[u].title # newTitle'
  <2>1. ~twice
    BY <1>4
  <2>2. /\ \A u, v \in TaskIds : u # v /\ api[u] # Tasks!NoTask /\ api[v] # Tasks!NoTask
                                    => api[u].title # api[v].title
        /\ \A d \in Tasks!Creating, u \in TaskIds :
              api[u] # Tasks!NoTask => api[u].title # creates[d].title
        /\ \A d, e \in Tasks!Creating : d # e => creates[d].title # creates[e].title
        /\ newTitle # 0 => \A u \in TaskIds : api[u] # Tasks!NoTask => api[u].title # newTitle
    BY <2>1 DEF TaskInv, TitleInv, Tasks!OneTaskPerTitle
  <2>3. \A d, e \in Tasks!Creating' : d # e => creates'[d].title # creates'[e].title
    BY <1>1, <1>2, <2>2
  <2>4. \A d \in Tasks!Creating' : d \in Tasks!Creating /\ d # c /\ creates'[d] = creates[d]
    BY <1>1, <1>2
  <2>5. CASE api'[t] = api[t]
    <3>1. \A u \in TaskIds : api'[u] = api[u]
      BY <2>5
    <3> QED BY <1>4, <2>2, <2>3, <2>4, <3>1 DEF Tasks!OneTaskPerTitle
  <2>6. CASE c \in Tasks!Creating /\ api'[t].title = creates[c].title
    <3>1. \A u \in TaskIds : u # t /\ api'[u] # Tasks!NoTask => api'[u].title # api'[t].title
      BY <2>2, <2>6
    <3>2. \A u, v \in TaskIds : u # v /\ api'[u] # Tasks!NoTask /\ api'[v] # Tasks!NoTask
                                    => api'[u].title # api'[v].title
      <4> TAKE u, v \in TaskIds
      <4>1. CASE u = t
        BY <3>1, <4>1
      <4>2. CASE v = t
        BY <3>1, <4>2
      <4>3. CASE u # t /\ v # t
        BY <2>2, <4>3
      <4> QED BY <4>1, <4>2, <4>3
    <3>3. \A d \in Tasks!Creating' : api'[t].title # creates'[d].title
      BY <2>2, <2>4, <2>6
    <3>4. \A d \in Tasks!Creating', u \in TaskIds :
             api'[u] # Tasks!NoTask => api'[u].title # creates'[d].title
      BY <2>2, <2>4, <3>3
    <3>5. newTitle' # 0 =>
             \A u \in TaskIds : api'[u] # Tasks!NoTask => api'[u].title # newTitle'
      BY <1>4, <2>2
    <3> QED BY <2>3, <3>2, <3>4, <3>5 DEF Tasks!OneTaskPerTitle
  <2> QED BY <2>5, <2>6
<1> QED BY <1>1, <1>3, <1>4 DEF TitleInv

LEMMA CreateLandsInv ==
    ASSUME TaskInv, NEW c \in Tasks!Calls, NEW t \in TaskIds, Tasks!CreateLands(c, t)
    PROVE  TaskInv'
<1>1. /\ c \in Tasks!Creating /\ Tasks!CreateTask(t, creates[c]) /\ Tasks!CreateEnds(c)
      /\ tasks' = [tasks EXCEPT ![t] = "pending"] /\ newTitle' = 0
      /\ muddled' = (muddled \/ taskLoad.at # "idle" \/ creates[c].of # taskProject)
      /\ UNCHANGED <<taskProject, taskBusy, typed, taskLoad, toggles, clicks, twice>>
  BY DEF Tasks!CreateLands
<1>2. /\ api' \in [TaskIds -> Tasks!Task \cup {Tasks!NoTask}]
      /\ api[t] = Tasks!NoTask /\ api'[t] # Tasks!NoTask
      /\ api'[t].home = creates[c].of /\ api'[t].done = FALSE
      /\ api'[t].title = creates[c].title /\ api'[t].title <= typed
      /\ \A u \in TaskIds : u # t => api'[u] = api[u]
  BY <1>1, MadeTask
<1>3. /\ creates' \in [Tasks!Calls -> [title : 0 .. MaxTyped, of : Projects \cup {None}]]
      /\ Tasks!Creating' = Tasks!Creating \ {c}
      /\ \A d \in Tasks!Calls : d # c => creates'[d] = creates[d]
      /\ creating' = FALSE
  BY <1>1, CreateFreed
<1>4. /\ tasks' \in [TaskIds -> Tasks!Card] /\ tasks'[t] = "pending"
      /\ \A u \in TaskIds : u # t => tasks'[u] = tasks[u]
  BY <1>1, TaskTypes DEF Tasks!Card
<1>5. muddled' \in BOOLEAN /\ (muddled => muddled')
  BY <1>1, TaskTypes
<1>6. Tasks!ActionTypeOK'
  <2>1. newTitle' \in 0 .. typed'
    BY <1>1, TaskTypes
  <2> QED BY <1>1, <1>2, <1>3, <1>4, <1>5, <2>1, TaskTypes DEF Tasks!ActionTypeOK
<1>7. ClickInv'
  <2>1. \A u \in TaskIds : api[u] # Tasks!NoTask => api'[u] # Tasks!NoTask
    BY <1>2
  <2>2. \A u \in TaskIds : tasks'[u] # "absent" => api'[u] # Tasks!NoTask
    BY <1>2, <1>4, <2>1 DEF TaskInv, ClickInv
  <2>3. \A d \in Tasks!Calls : toggles[d] # Tasks!NoToggle =>
             /\ toggles[d].id \in TaskIds /\ toggles[d].prev[toggles[d].id] # "absent"
             /\ \A u \in TaskIds : toggles[d].prev[u] # "absent" => api'[u] # Tasks!NoTask
    BY <2>1 DEF TaskInv, ClickInv
  <2>4. \A d \in Tasks!Creating' : creates'[d].of \in Projects
    BY <1>3 DEF TaskInv, ClickInv, Tasks!Creating
  <2>5. \A u \in TaskIds : taskLoad.answer[u] # "absent" => api'[u] # Tasks!NoTask
    BY <2>1 DEF TaskInv, ClickInv
  <2> QED BY <1>1, <1>3, <1>5, <2>2, <2>3, <2>4, <2>5 DEF TaskInv, ClickInv
<1>8. CardsFollow'
  <2> SUFFICES ASSUME ~muddled', taskLoad.at = "idle", NEW u \in TaskIds
               PROVE  /\ PendingOf(toggles, u) # {} => api'[u].home = taskProject
                      /\ tasks'[u] = CardFor(api', taskProject, toggles, u)
    BY <1>1 DEF CardsFollow
  <2>1. ~muddled /\ creates[c].of = taskProject
    BY <1>1
  <2>2. /\ PendingOf(toggles, u) # {} => api[u].home = taskProject
        /\ tasks[u] = CardFor(api, taskProject, toggles, u)
    BY <2>1 DEF TaskInv, CardsFollow
  <2>3. CASE u # t
    <3>1. api'[u] = api[u] /\ tasks'[u] = tasks[u]
      BY <1>2, <1>4, <2>3
    <3> QED BY <2>2, <3>1 DEF CardFor, Shown
  <2>4. CASE u = t
    <3>1. taskProject # None
      BY <1>1, <2>1, TaskBounds DEF TaskInv, ClickInv
    <3>2. api[u].home # taskProject
      BY <1>2, <2>4, <3>1, NoTaskFacts
    <3>3. PendingOf(toggles, u) = {}
      BY <2>2, <3>2
    <3>4. Even({})
      BY FS_EmptySet DEF Even
    <3>5. Shown(api', taskProject, u) = "pending"
      BY <1>2, <2>1, <2>4 DEF Shown, Tasks!CardOf
    <3> QED BY <1>4, <2>4, <3>3, <3>4, <3>5 DEF CardFor
  <2> QED BY <2>3, <2>4
<1>9. TitleInv'
  BY <1>1, <1>2, TaskTypes, TitlesAfter
<1> QED BY <1>6, <1>7, <1>8, <1>9 DEF TaskInv

LEMMA CreateFailsInv ==
    ASSUME TaskInv, NEW c \in Tasks!Calls, Tasks!CreateFails(c)
    PROVE  TaskInv'
<1>1. /\ c \in Tasks!Creating /\ Tasks!CreateEnds(c)
      /\ UNCHANGED <<taskProject, tasks, newTitle, taskBusy, typed, taskLoad, toggles, clicks>>
  BY DEF Tasks!CreateFails
<1>2. /\ creates' \in [Tasks!Calls -> [title : 0 .. MaxTyped, of : Projects \cup {None}]]
      /\ Tasks!Creating' = Tasks!Creating \ {c}
      /\ \A d \in Tasks!Calls : d # c => creates'[d] = creates[d]
      /\ \A d \in Tasks!Calls : creates'[d].title <= typed
      /\ creating' = FALSE
  BY <1>1, CreateFreed
<1>3. \A d \in Tasks!Creating' : creates'[d].of \in Projects
  BY <1>2 DEF TaskInv, ClickInv, Tasks!Creating
<1>4. CASE UNCHANGED <<api, twice, muddled>>
  <2>1. Tasks!ActionTypeOK'
    BY <1>1, <1>2, <1>4, TaskTypes DEF Tasks!ActionTypeOK
  <2>2. ClickInv' /\ CardsFollow'
    BY <1>1, <1>2, <1>3, <1>4 DEF TaskInv, ClickInv, CardsFollow
  <2>3. TitleInv'
    <3>1. \A d \in Tasks!Creating' : d \in Tasks!Creating /\ creates'[d] = creates[d]
      BY <1>2 DEF Tasks!Creating
    <3>2. ~twice => Tasks!OneTaskPerTitle'
      BY <1>4 DEF TaskInv, TitleInv, Tasks!OneTaskPerTitle
    <3>3. ~twice =>
            /\ \A d \in Tasks!Creating', u \in TaskIds :
                  api[u] # Tasks!NoTask => api[u].title # creates'[d].title
            /\ \A d, e \in Tasks!Creating' : d # e => creates'[d].title # creates'[e].title
      BY <3>1 DEF TaskInv, TitleInv
    <3> QED BY <1>1, <1>2, <1>4, <3>2, <3>3 DEF TaskInv, TitleInv
  <2> QED BY <2>1, <2>2, <2>3 DEF TaskInv
<1>5. ASSUME NEW t \in TaskIds, Tasks!CreateTask(t, creates[c]), twice', muddled',
             twice' = TRUE, muddled' = TRUE
      PROVE  TaskInv'
  <2>1. /\ api' \in [TaskIds -> Tasks!Task \cup {Tasks!NoTask}]
        /\ api'[t] # Tasks!NoTask /\ api'[t].title <= typed
        /\ \A u \in TaskIds : u # t => api'[u] = api[u]
    BY <1>1, <1>5, MadeTask
  <2>2. Tasks!ActionTypeOK'
    BY <1>1, <1>2, <1>5, <2>1, TaskTypes DEF Tasks!ActionTypeOK
  <2>3. \A u \in TaskIds : api[u] # Tasks!NoTask => api'[u] # Tasks!NoTask
    BY <2>1
  <2>4. /\ \A u \in TaskIds : tasks[u] # "absent" => api'[u] # Tasks!NoTask
        /\ \A d \in Tasks!Calls : toggles[d] # Tasks!NoToggle =>
             /\ toggles[d].id \in TaskIds /\ toggles[d].prev[toggles[d].id] # "absent"
             /\ \A u \in TaskIds : toggles[d].prev[u] # "absent" => api'[u] # Tasks!NoTask
    BY <2>3 DEF TaskInv, ClickInv
  <2>8. \A u \in TaskIds : taskLoad.answer[u] # "absent" => api'[u] # Tasks!NoTask
    BY <2>3 DEF TaskInv, ClickInv
  <2>5. ClickInv'
    BY <1>1, <1>2, <1>3, <1>5, <2>4, <2>8 DEF TaskInv, ClickInv
  <2>6. CardsFollow'
    BY <1>5 DEF CardsFollow
  <2>7. TitleInv'
    <3>1. \A u \in TaskIds : api'[u] # Tasks!NoTask => api'[u].title <= typed
      BY <2>1 DEF TaskInv, TitleInv
    <3> QED BY <1>1, <1>2, <1>5, <3>1 DEF TitleInv
  <2> QED BY <2>2, <2>5, <2>6, <2>7 DEF TaskInv
<1> QED BY <1>4, <1>5 DEF Tasks!CreateFails

LEMMA TaskStepInv == TaskInv /\ Tasks!ActionNext => TaskInv'
<1> SUFFICES ASSUME TaskInv, Tasks!ActionNext PROVE TaskInv'
  OBVIOUS
<1>1. CASE \/ Tasks!TaskProjectsLand \/ Tasks!GetTasks \/ Tasks!TasksLand \/ Tasks!TasksFail
           \/ \E p \in Projects : Tasks!selectProject(p)
  BY <1>1, TaskLoadInv
<1>2. CASE Tasks!setNewTaskTitle
  BY <1>2, TypeTitleInv
<1>3. ASSUME NEW c \in Tasks!Calls,
             \/ Tasks!ToggleFinds(c) \/ Tasks!ToggleLands(c) \/ Tasks!ToggleFails(c)
             \/ Tasks!handleCreateTask(c) \/ Tasks!CreateFails(c)
      PROVE  TaskInv'
  BY <1>3, ToggleFindsInv, ToggleLandsInv, ToggleFailsInv, CreateClickInv, CreateFailsInv
<1>4. ASSUME NEW c \in Tasks!Calls, NEW t \in TaskIds,
             Tasks!handleToggleTask(c, t) \/ Tasks!CreateLands(c, t)
      PROVE  TaskInv'
  BY <1>4, ToggleClickInv, CreateLandsInv
<1> QED BY <1>1, <1>2, <1>3, <1>4 DEF Tasks!ActionNext

-----------------------------------------------------------------------------
(* The profile analyzer.                                                   *)

LEMMA AnalyzerBounds ==
    /\ Projects \subseteq Nat /\ IsFiniteSet(Projects) /\ None \notin Projects
    /\ Rows \subseteq Analyzer!Row /\ MaxSelected \in Nat
BY PagesAssumption DEF PagesAssumption, Analyzer!AnalyzerAssumption, Analyzer!IsFiniteSet,
   IsFiniteSet

OnePerPlatform(M) == \A r, s \in M : r.platform = s.platform => r = s
Landed == {"insights", "refresh", "again"}

\* Loads and syncs are of projects there are, and the tab is of a row that is shown.
AnalyzedInv ==
    /\ anaLoading => Analyzer!InFlight # {}
    /\ syncing <=> sync.at # "idle"
    /\ IF sync.at = "idle" THEN sync.of = None ELSE sync.of \in Projects
    /\ IF anaChosen = None THEN anaProject = None /\ metrics.of = None ELSE anaChosen \in listed
    /\ \A l \in Analyzer!Causes :
          anaLoad[l].at \in Landed => anaLoad[l].of \in Projects /\ anaChosen # None
    /\ OnePerPlatform(metrics.rows)
    /\ metrics.rows # {} => \E r \in metrics.rows : r.platform = platform

\* Since a load of the project chosen last began alone, none but it is under way.
ChosenInv ==
    ~upset =>
       /\ \A l, k \in Analyzer!Causes :
             anaLoad[l].at # "idle" /\ anaLoad[k].at # "idle" => l = k
       /\ Analyzer!InFlight # {} => anaLoading
       /\ \A l \in Analyzer!Causes :
             /\ anaLoad[l].at = "projects" => anaLoad[l].target = anaChosen
             /\ anaLoad[l].at \in Landed => anaLoad[l].of = anaChosen /\ anaProject = anaChosen
       /\ Analyzer!InFlight = {} => anaProject = anaChosen /\ metrics.of = anaChosen

AnalyzerInv == Analyzer!AnalyzerTypeOK /\ AnalyzedInv /\ ChosenInv

LoadRun == [at : Analyzer!Await, target : Projects \cup {None}, of : Projects \cup {None}]

LEMMA AnalyzerTypes ==
    ASSUME AnalyzerInv
    PROVE  /\ listed \subseteq Projects /\ rows \in [Projects -> SUBSET Rows]
           /\ anaProject \in Projects \cup {None} /\ profile \in Projects \cup {None}
           /\ savedId \in Projects \cup {None} /\ anaChosen \in Projects \cup {None}
           /\ metrics \in [of : Projects \cup {None}, rows : SUBSET Rows]
           /\ platform \in {r.platform : r \in Rows} \cup {None}
           /\ savedPlatform \in {r.platform : r \in Rows} \cup {None}
           /\ anaLoading \in BOOLEAN /\ syncing \in BOOLEAN /\ upset \in BOOLEAN
           /\ anaLoad \in [Analyzer!Causes -> LoadRun]
           /\ sync \in [at : {"idle", "refresh", "profile"}, of : Projects \cup {None}]
           /\ selected \in 0 .. MaxSelected
BY DEF AnalyzerInv, Analyzer!AnalyzerTypeOK, LoadRun

LEMMA AnalyzerPromises ==
    ASSUME AnalyzerInv
    PROVE  /\ Analyzer!AnalyzerTypeOK /\ Analyzer!AnalyzerIsConsistent
           /\ Analyzer!AnalyzerSpinnerHasCause
<1>1. Analyzer!AnalyzerTypeOK /\ Analyzer!AnalyzerSpinnerHasCause
  BY DEF AnalyzerInv, AnalyzedInv, Analyzer!AnalyzerSpinnerHasCause
<1>2. Analyzer!AnalyzerIsConsistent
  <2> SUFFICES ASSUME Analyzer!InFlight = {}, ~upset
               PROVE  /\ anaProject = anaChosen /\ metrics.of = anaChosen
                      /\ metrics.rows # {} => /\ Analyzer!AccountOf = anaChosen
                                              /\ Cardinality(Analyzer!ActiveSocial) = 1
                      /\ \A r, s \in Analyzer!Tabs : r # s => r.platform # s.platform
    BY DEF Analyzer!AnalyzerIsConsistent, Analyzer!Cardinality, Cardinality
  <2>1. anaProject = anaChosen /\ metrics.of = anaChosen
    BY DEF AnalyzerInv, ChosenInv
  <2>2. Analyzer!Tabs = metrics.rows
    BY DEF Analyzer!Tabs, AnalyzerInv, AnalyzedInv
  <2>3. \A r, s \in Analyzer!Tabs : r # s => r.platform # s.platform
    BY <2>2 DEF AnalyzerInv, AnalyzedInv, OnePerPlatform
  <2>4. ASSUME metrics.rows # {}
        PROVE  Analyzer!AccountOf = anaChosen /\ Cardinality(Analyzer!ActiveSocial) = 1
    <3>1. PICK r \in metrics.rows : r.platform = platform
      BY <2>4 DEF AnalyzerInv, AnalyzedInv
    <3>2. Analyzer!ActiveSocial = {r}
      BY <2>2, <2>3, <3>1 DEF Analyzer!ActiveSocial
    <3> QED BY <2>1, <3>2, FS_Singleton DEF Analyzer!AccountOf
  <2> QED BY <2>1, <2>3, <2>4
<1> QED BY <1>1, <1>2

LEMMA AnalyzerInit == Analyzer!AnalyzerInit => AnalyzerInv
<1> SUFFICES ASSUME Analyzer!AnalyzerInit PROVE AnalyzerInv
  OBVIOUS
<1>1. /\ listed \in SUBSET Projects /\ rows \in [Projects -> SUBSET Rows]
      /\ anaProject = None /\ metrics = Analyzer!NoMetrics /\ platform = None /\ profile = None
      /\ savedId \in Projects \cup {None} /\ savedPlatform = None
      /\ anaLoading = TRUE /\ syncing = FALSE
      /\ anaLoad = [l \in Analyzer!Causes |-> IF l = "open" THEN [Analyzer!NoLoad EXCEPT !.at = "projects"]
                                                            ELSE Analyzer!NoLoad]
      /\ sync = Analyzer!NoSync /\ selected = 0 /\ anaChosen = None /\ upset = FALSE
  BY DEF Analyzer!AnalyzerInit
<1>2. /\ anaLoad \in [Analyzer!Causes -> LoadRun]
      /\ anaLoad["open"].at = "projects" /\ anaLoad["open"].target = None
      /\ \A l \in Analyzer!Causes : l # "open" => anaLoad[l].at = "idle"
      /\ Analyzer!InFlight = {"open"}
  <2>1. [Analyzer!NoLoad EXCEPT !.at = "projects"] = [at |-> "projects", target |-> None,
          of |-> None]
    BY DEF Analyzer!NoLoad
  <2> QED BY <1>1, <2>1 DEF Analyzer!NoLoad, LoadRun, Analyzer!Await, Analyzer!Causes,
          Analyzer!InFlight
<1>3. metrics.of = None /\ metrics.rows = {} /\ metrics \in [of : Projects \cup {None},
        rows : SUBSET Rows]
  BY <1>1 DEF Analyzer!NoMetrics
<1>4. /\ sync.at = "idle" /\ sync.of = None
      /\ sync \in [at : {"idle", "refresh", "profile"}, of : Projects \cup {None}]
  BY <1>1 DEF Analyzer!NoSync
<1>5. Analyzer!AnalyzerTypeOK
  <2>1. {anaProject, profile, savedId, anaChosen} \subseteq Projects \cup {None}
    BY <1>1
  <2>2. {platform, savedPlatform} \subseteq {r.platform : r \in Rows} \cup {None}
    BY <1>1
  <2>3. selected \in 0 .. MaxSelected
    BY <1>1, AnalyzerBounds
  <2> QED BY <1>1, <1>2, <1>3, <1>4, <2>1, <2>2, <2>3 DEF Analyzer!AnalyzerTypeOK, LoadRun
<1>6. AnalyzedInv
  BY <1>1, <1>2, <1>3, <1>4 DEF AnalyzedInv, Landed, OnePerPlatform
<1>7. ChosenInv
  BY <1>1, <1>2, <1>3, <1>4 DEF ChosenInv, Landed
<1> QED BY <1>5, <1>6, <1>7 DEF AnalyzerInv

LEMMA AnalyzerStays == AnalyzerInv /\ UNCHANGED AnalyzerVars => AnalyzerInv'
BY DEF AnalyzerVars, AnalyzerInv, AnalyzedInv, ChosenInv, Analyzer!AnalyzerTypeOK, Analyzer!InFlight

\* dedupeLatestMetrics leaves one row of a platform.
LEMMA Deduped ==
    ASSUME NEW S \in SUBSET Rows
    PROVE  /\ Analyzer!dedupeLatestMetrics(S) \subseteq Rows
           /\ OnePerPlatform(Analyzer!dedupeLatestMetrics(S))
<1> DEFINE D == Analyzer!dedupeLatestMetrics(S)
<1>1. D \subseteq S
  BY DEF Analyzer!dedupeLatestMetrics
<1>2. ASSUME NEW r \in D, NEW s \in D, r.platform = s.platform, r # s
      PROVE  FALSE
  <2>1. Analyzer!Before(r, s) /\ Analyzer!Before(s, r)
    BY <1>1, <1>2 DEF Analyzer!dedupeLatestMetrics
  <2>2. r \in Analyzer!Row /\ s \in Analyzer!Row
    BY <1>1, AnalyzerBounds
  <2>3. r.simulated \in BOOLEAN /\ s.simulated \in BOOLEAN /\ r.at \in Nat /\ s.at \in Nat
    BY <2>2 DEF Analyzer!Row
  <2> QED BY <2>1, <2>3 DEF Analyzer!Before
<1> QED BY <1>1, <1>2 DEF OnePerPlatform

\* The tab that is opened is of a row.
LEMMA TargetShown ==
    ASSUME NEW M \in SUBSET Rows, OnePerPlatform(M), M # {}
    PROVE  \E r \in M : r.platform = Analyzer!Target(M)
<1>1. CASE \E r \in M : r.platform = savedPlatform
  BY <1>1 DEF Analyzer!Target
<1>2. CASE ~\E r \in M : r.platform = savedPlatform
  <2>1. \A r \in M : /\ r.platform \in {"instagram", "linkedin"} /\ r.simulated \in BOOLEAN
                     /\ r.at \in Nat
    BY AnalyzerBounds DEF Analyzer!Row
  <2>2. PICK r \in M : TRUE
    OBVIOUS
  <2>3. \E q \in M : \A s \in M \ {q} : ~Analyzer!Before(s, q)
    <3>1. CASE \E s \in M : s # r
      <4>1. PICK s \in M : s # r
        BY <3>1
      <4>2. r.platform # s.platform
        BY <4>1 DEF OnePerPlatform
      <4>3. \A q \in M : q = r \/ q = s
        BY <2>1, <4>2 DEF OnePerPlatform
      <4>4. ~Analyzer!Before(s, r) \/ ~Analyzer!Before(r, s)
        BY <2>1 DEF Analyzer!Before
      <4> QED BY <4>3, <4>4
    <3>2. CASE \A s \in M : s = r
      BY <3>2
    <3> QED BY <3>1, <3>2
  <2>4. Analyzer!Target(M) = (CHOOSE q \in M : \A s \in M \ {q} : ~Analyzer!Before(s, q)).platform
    BY <1>2 DEF Analyzer!Target
  <2> QED BY <2>3, <2>4
<1> QED BY <1>1, <1>2

\* What Show leaves on the page.
LEMMA Shows ==
    ASSUME AnalyzerInv, NEW p \in Projects, NEW M \in SUBSET Rows, OnePerPlatform(M),
           Analyzer!Show(p, M)
    PROVE  /\ metrics' \in [of : Projects \cup {None}, rows : SUBSET Rows] /\ metrics'.of = p
           /\ platform' \in {r.platform : r \in Rows} \cup {None}
           /\ savedPlatform' \in {r.platform : r \in Rows} \cup {None}
           /\ OnePerPlatform(metrics'.rows)
           /\ metrics'.rows # {} => \E r \in metrics'.rows : r.platform = platform'
<1>1. metrics' = [of |-> p, rows |-> M]
  BY DEF Analyzer!Show
<1>2. CASE M = {}
  <2>1. platform' = platform /\ savedPlatform' = savedPlatform
    BY <1>2 DEF Analyzer!Show
  <2> QED BY <1>1, <1>2, <2>1, AnalyzerTypes
<1>3. CASE M # {}
  <2>1. platform' = Analyzer!Target(M) /\ savedPlatform' = platform'
    BY <1>3 DEF Analyzer!Show
  <2>2. PICK r \in M : r.platform = Analyzer!Target(M)
    BY <1>3, TargetShown
  <2> QED BY <1>1, <2>1, <2>2
<1> QED BY <1>2, <1>3

LEMMA LoadEnded ==
    ASSUME AnalyzerInv, NEW l \in Analyzer!Causes, Analyzer!LoadEnds(l)
    PROVE  /\ anaLoad' \in [Analyzer!Causes -> LoadRun] /\ anaLoad'[l].at = "idle"
           /\ \A k \in Analyzer!Causes : k # l => anaLoad'[k] = anaLoad[k]
           /\ anaLoading' = FALSE
           /\ anaLoad[l].at # "idle" /\ ~upset => Analyzer!InFlight' = {}
<1>1. anaLoad' = [anaLoad EXCEPT ![l] = Analyzer!NoLoad] /\ anaLoading' = FALSE
  BY DEF Analyzer!LoadEnds
<1>2. Analyzer!NoLoad \in LoadRun /\ Analyzer!NoLoad.at = "idle"
  BY DEF Analyzer!NoLoad, LoadRun, Analyzer!Await
<1>3. /\ anaLoad' \in [Analyzer!Causes -> LoadRun] /\ anaLoad'[l].at = "idle"
      /\ \A k \in Analyzer!Causes : k # l => anaLoad'[k] = anaLoad[k]
  BY <1>1, <1>2, AnalyzerTypes
<1>4. anaLoad[l].at # "idle" /\ ~upset => Analyzer!InFlight' = {}
  BY <1>3 DEF AnalyzerInv, ChosenInv, Analyzer!InFlight
<1> QED BY <1>1, <1>3, <1>4

LEMMA LoadBegun ==
    ASSUME AnalyzerInv, NEW l \in Analyzer!Causes, NEW p \in Projects, Analyzer!fetchData(l, p)
    PROVE  /\ anaLoad' \in [Analyzer!Causes -> LoadRun] /\ anaLoad'[l].at = "projects"
           /\ anaLoad'[l].target = p
           /\ \A k \in Analyzer!Causes : k # l => anaLoad'[k] = anaLoad[k]
           /\ anaLoading' = TRUE
           /\ Analyzer!InFlight' # {}
<1> DEFINE new == [at |-> "projects", target |-> p, of |-> None]
<1>1. anaLoad' = [anaLoad EXCEPT ![l] = new] /\ anaLoading' = TRUE
  BY DEF Analyzer!fetchData
<1>2. new \in LoadRun
  BY DEF LoadRun, Analyzer!Await
<1>3. /\ anaLoad' \in [Analyzer!Causes -> LoadRun] /\ anaLoad'[l] = new
      /\ \A k \in Analyzer!Causes : k # l => anaLoad'[k] = anaLoad[k]
  BY <1>1, <1>2, AnalyzerTypes
<1>4. Analyzer!InFlight' # {}
  BY <1>3 DEF Analyzer!InFlight
<1> QED BY <1>1, <1>3, <1>4

LEMMA Picked ==
    ASSUME AnalyzerInv, listed # {}, NEW target
    PROVE  /\ Analyzer!Pick(target) \in listed
           /\ target \in listed => Analyzer!Pick(target) = target
<1>1. \E p \in listed : \A q \in listed : q <= p
  <2>1. listed \subseteq Nat /\ IsFiniteSet(listed)
    BY AnalyzerTypes, AnalyzerBounds, FS_Subset
  <2> QED BY <2>1, LastOf
<1> QED BY <1>1 DEF Analyzer!Pick

LEMMA SocialRefreshed ==
    ASSUME AnalyzerInv, NEW p \in Projects, Analyzer!refreshSocial(p)
    PROVE  rows' \in [Projects -> SUBSET Rows]
BY AnalyzerTypes DEF Analyzer!refreshSocial

\* A run of fetchData ends.
LEMMA AnalyzerLoadInv ==
    ASSUME AnalyzerInv, NEW l \in Analyzer!Causes,
           \/ Analyzer!ProjectsLand(l) \/ Analyzer!InsightsLand(l)
           \/ Analyzer!syncLiveSocialInsights(l) \/ Analyzer!RefreshedLand(l)
           \/ Analyzer!FetchFails(l)
    PROVE  AnalyzerInv'
<1>0. UNCHANGED <<listed, profile, syncing, sync, selected>>
  BY DEF Analyzer!ProjectsLand, Analyzer!InsightsLand, Analyzer!syncLiveSocialInsights,
         Analyzer!RefreshedLand, Analyzer!FetchFails, Analyzer!memory, Analyzer!shownVars
<1>1. CASE Analyzer!ProjectsLand(l) /\ listed = {}
  <2>1. /\ anaLoad[l].at = "projects" /\ Analyzer!LoadEnds(l)
        /\ UNCHANGED <<rows, anaProject, metrics, platform, savedId, savedPlatform, anaChosen,
                upset>>
    BY <1>1 DEF Analyzer!ProjectsLand
  <2>2. /\ anaLoad' \in [Analyzer!Causes -> LoadRun] /\ anaLoad'[l].at = "idle"
        /\ \A k \in Analyzer!Causes : k # l => anaLoad'[k] = anaLoad[k]
        /\ anaLoading' = FALSE /\ (~upset => Analyzer!InFlight' = {})
    BY <2>1, LoadEnded
  <2>3. anaChosen = None /\ anaProject = None /\ metrics.of = None
    BY <1>1 DEF AnalyzerInv, AnalyzedInv
  <2>4. Analyzer!AnalyzerTypeOK'
    BY <1>0, <2>1, <2>2, AnalyzerTypes DEF AnalyzerInv, Analyzer!AnalyzerTypeOK, LoadRun
  <2>5. AnalyzedInv'
    BY <1>0, <2>1, <2>2 DEF AnalyzerInv, AnalyzedInv, Landed
  <2>6. ChosenInv'
    BY <1>0, <2>1, <2>2, <2>3 DEF AnalyzerInv, ChosenInv, Landed
  <2> QED BY <2>4, <2>5, <2>6 DEF AnalyzerInv
<1>2. CASE Analyzer!ProjectsLand(l) /\ listed # {}
  <2>1. /\ anaLoad[l].at = "projects" /\ savedId' = Analyzer!Pick(anaLoad[l].target)
        /\ anaProject' = savedId'
        /\ anaLoad' = [anaLoad EXCEPT ![l].at = "insights", ![l].of = savedId']
        /\ anaChosen' = IF anaChosen = None THEN savedId' ELSE anaChosen
        /\ UNCHANGED <<rows, metrics, platform, savedPlatform, anaLoading, upset>>
    BY <1>2 DEF Analyzer!ProjectsLand
  <2>2. /\ savedId' \in listed /\ savedId' \in Projects /\ savedId' # None
        /\ anaLoad[l].target \in listed => savedId' = anaLoad[l].target
    BY <1>2, <2>1, Picked, AnalyzerTypes, AnalyzerBounds
  <2>3. /\ anaLoad' \in [Analyzer!Causes -> LoadRun] /\ anaLoad'[l].at = "insights"
        /\ anaLoad'[l].of = savedId'
        /\ \A k \in Analyzer!Causes : k # l => anaLoad'[k] = anaLoad[k]
    <3> DEFINE new == [anaLoad[l] EXCEPT !.at = "insights", !.of = savedId']
    <3>1. anaLoad' = [anaLoad EXCEPT ![l] = new]
      BY <2>1, AnalyzerTypes
    <3>2. new \in LoadRun /\ new.at = "insights" /\ new.of = savedId'
      BY <2>2, AnalyzerTypes DEF LoadRun, Analyzer!Await
    <3> HIDE DEF new
    <3> QED BY <3>1, <3>2, AnalyzerTypes
  <2>4. Analyzer!InFlight' = Analyzer!InFlight /\ l \in Analyzer!InFlight
    BY <2>1, <2>3 DEF Analyzer!InFlight
  <2>5. /\ anaChosen' \in Projects /\ anaChosen' \in listed /\ anaChosen' # None
    BY <2>1, <2>2, AnalyzerTypes DEF AnalyzerInv, AnalyzedInv
  <2>6. Analyzer!AnalyzerTypeOK'
    <3>1. {anaProject, profile, savedId, anaChosen}' \subseteq Projects \cup {None}
      BY <1>0, <2>1, <2>2, <2>5, AnalyzerTypes
    <3> QED BY <1>0, <2>1, <2>3, <3>1, AnalyzerTypes DEF Analyzer!AnalyzerTypeOK, LoadRun
  <2>7. AnalyzedInv'
    BY <1>0, <2>1, <2>2, <2>3, <2>4, <2>5 DEF AnalyzerInv, AnalyzedInv, Landed
  <2>8. ChosenInv'
    <3> SUFFICES ASSUME ~upset PROVE ChosenInv'
      BY <2>1 DEF ChosenInv
    <3>1. anaChosen' = savedId'
      BY <2>1, <2>2 DEF AnalyzerInv, AnalyzedInv, ChosenInv
    <3>2. \A k \in Analyzer!Causes : k # l => anaLoad[k].at = "idle"
      BY <2>1 DEF AnalyzerInv, ChosenInv
    <3>3. Analyzer!InFlight' # {} /\ anaLoading'
      BY <2>1, <2>4 DEF AnalyzerInv, ChosenInv
    <3> QED BY <1>0, <2>1, <2>3, <3>1, <3>2, <3>3 DEF ChosenInv, Landed
  <2> QED BY <2>6, <2>7, <2>8 DEF AnalyzerInv
<1>3. ASSUME NEW M \in SUBSET Rows, OnePerPlatform(M), anaLoad[l].at \in Landed,
             Analyzer!Show(anaLoad[l].of, M), Analyzer!LoadEnds(l),
             UNCHANGED <<rows, anaProject, savedId, anaChosen, upset>>
      PROVE  AnalyzerInv'
  <2> DEFINE p == anaLoad[l].of
  <2>1. p \in Projects /\ anaChosen # None
    BY <1>3 DEF AnalyzerInv, AnalyzedInv
  <2>2. /\ anaLoad' \in [Analyzer!Causes -> LoadRun] /\ anaLoad'[l].at = "idle"
        /\ \A k \in Analyzer!Causes : k # l => anaLoad'[k] = anaLoad[k]
        /\ anaLoading' = FALSE /\ (~upset => Analyzer!InFlight' = {})
    BY <1>3, LoadEnded DEF Landed
  <2>3. /\ metrics' \in [of : Projects \cup {None}, rows : SUBSET Rows] /\ metrics'.of = p
        /\ platform' \in {r.platform : r \in Rows} \cup {None}
        /\ savedPlatform' \in {r.platform : r \in Rows} \cup {None}
        /\ OnePerPlatform(metrics'.rows)
        /\ metrics'.rows # {} => \E r \in metrics'.rows : r.platform = platform'
    BY <1>3, <2>1, Shows
  <2>4. Analyzer!AnalyzerTypeOK'
    <3>1. {platform, savedPlatform}' \subseteq {r.platform : r \in Rows} \cup {None}
      BY <2>3
    <3> QED BY <1>0, <1>3, <2>2, <2>3, <3>1, AnalyzerTypes DEF AnalyzerInv,
            Analyzer!AnalyzerTypeOK, LoadRun
  <2>5. AnalyzedInv'
    BY <1>0, <1>3, <2>1, <2>2, <2>3 DEF AnalyzerInv, AnalyzedInv, Landed
  <2>6. ChosenInv'
    BY <1>0, <1>3, <2>2, <2>3 DEF AnalyzerInv, ChosenInv, Landed
  <2> QED BY <2>4, <2>5, <2>6 DEF AnalyzerInv
<1>4. ASSUME NEW await \in {"refresh", "again"}, anaLoad[l].at \in Landed,
             anaLoad' = [anaLoad EXCEPT ![l].at = await],
             rows' \in [Projects -> SUBSET Rows],
             UNCHANGED <<anaProject, metrics, platform, savedId, savedPlatform, anaLoading,
                         anaChosen, upset>>
      PROVE  AnalyzerInv'
  <2>1. /\ anaLoad' \in [Analyzer!Causes -> LoadRun] /\ anaLoad'[l].at = await
        /\ anaLoad'[l].of = anaLoad[l].of
        /\ \A k \in Analyzer!Causes : k # l => anaLoad'[k] = anaLoad[k]
    <3> DEFINE new == [anaLoad[l] EXCEPT !.at = await]
    <3>1. anaLoad' = [anaLoad EXCEPT ![l] = new]
      BY <1>4, AnalyzerTypes
    <3>2. new \in LoadRun /\ new.at = await /\ new.of = anaLoad[l].of
      BY AnalyzerTypes DEF LoadRun, Analyzer!Await
    <3> HIDE DEF new
    <3> QED BY <3>1, <3>2, AnalyzerTypes
  <2>2. Analyzer!InFlight' = Analyzer!InFlight
    BY <1>4, <2>1 DEF Analyzer!InFlight, Landed
  <2>3. Analyzer!AnalyzerTypeOK'
    BY <1>0, <1>4, <2>1, AnalyzerTypes DEF AnalyzerInv, Analyzer!AnalyzerTypeOK, LoadRun
  <2>4. AnalyzedInv'
    BY <1>0, <1>4, <2>1, <2>2 DEF AnalyzerInv, AnalyzedInv, Landed
  <2>5. ChosenInv'
    BY <1>0, <1>4, <2>1, <2>2 DEF AnalyzerInv, ChosenInv, Landed
  <2> QED BY <2>3, <2>4, <2>5 DEF AnalyzerInv
<1>5. CASE Analyzer!InsightsLand(l)
  <2> DEFINE M == Analyzer!dedupeLatestMetrics(rows[anaLoad[l].of])
  <2>1. anaLoad[l].at = "insights" /\ anaLoad[l].at \in Landed
    BY <1>5 DEF Analyzer!InsightsLand, Landed
  <2>2. rows[anaLoad[l].of] \in SUBSET Rows
    BY <2>1, AnalyzerTypes DEF AnalyzerInv, AnalyzedInv
  <2>3. M \in SUBSET Rows /\ OnePerPlatform(M)
    BY <2>2, Deduped
  <2>4. UNCHANGED <<rows, anaProject, savedId, anaChosen, upset>>
    BY <1>5 DEF Analyzer!InsightsLand
  <2>5. \/ /\ anaLoad' = [anaLoad EXCEPT ![l].at = "refresh"]
           /\ UNCHANGED <<anaLoading, metrics, platform, savedPlatform>>
        \/ Analyzer!Show(anaLoad[l].of, M) /\ Analyzer!LoadEnds(l)
    BY <1>5 DEF Analyzer!InsightsLand
  <2> HIDE DEF M
  <2>6. CASE /\ anaLoad' = [anaLoad EXCEPT ![l].at = "refresh"]
             /\ UNCHANGED <<anaLoading, metrics, platform, savedPlatform>>
    BY <1>4, <2>1, <2>4, <2>6, AnalyzerTypes
  <2>7. CASE Analyzer!Show(anaLoad[l].of, M) /\ Analyzer!LoadEnds(l)
    BY <1>3, <2>1, <2>3, <2>4, <2>7
  <2> QED BY <2>5, <2>6, <2>7
<1>6. CASE Analyzer!RefreshedLand(l)
  <2> DEFINE M == Analyzer!dedupeLatestMetrics(rows[anaLoad[l].of])
  <2>1. anaLoad[l].at \in Landed
    BY <1>6 DEF Analyzer!RefreshedLand, Landed
  <2>2. rows[anaLoad[l].of] \in SUBSET Rows
    BY <2>1, AnalyzerTypes DEF AnalyzerInv, AnalyzedInv
  <2>3. M \in SUBSET Rows /\ OnePerPlatform(M)
    BY <2>2, Deduped
  <2>4. /\ UNCHANGED <<rows, anaProject, savedId, anaChosen, upset>>
        /\ Analyzer!Show(anaLoad[l].of, M) /\ Analyzer!LoadEnds(l)
    BY <1>6 DEF Analyzer!RefreshedLand
  <2> HIDE DEF M
  <2> QED BY <1>3, <2>1, <2>3, <2>4
<1>7. CASE Analyzer!syncLiveSocialInsights(l)
  <2>1. /\ anaLoad[l].at \in Landed /\ Analyzer!refreshSocial(anaLoad[l].of)
        /\ anaLoad' = [anaLoad EXCEPT ![l].at = "again"]
        /\ UNCHANGED <<anaProject, metrics, platform, savedId, savedPlatform, anaLoading,
                       anaChosen, upset>>
    BY <1>7 DEF Analyzer!syncLiveSocialInsights, Analyzer!memory, Analyzer!shownVars, Landed
  <2>2. anaLoad[l].of \in Projects
    BY <2>1 DEF AnalyzerInv, AnalyzedInv
  <2>3. rows' \in [Projects -> SUBSET Rows]
    BY <2>1, <2>2, SocialRefreshed
  <2> QED BY <1>4, <2>1, <2>3
<1>8. CASE Analyzer!FetchFails(l)
  <2>1. /\ anaLoad[l].at # "idle" /\ Analyzer!LoadEnds(l) /\ upset' = TRUE
        /\ UNCHANGED <<rows, anaProject, metrics, platform, savedId, savedPlatform, anaChosen>>
    BY <1>8 DEF Analyzer!FetchFails, Analyzer!memory, Analyzer!shownVars
  <2>2. /\ anaLoad' \in [Analyzer!Causes -> LoadRun] /\ anaLoad'[l].at = "idle"
        /\ \A k \in Analyzer!Causes : k # l => anaLoad'[k] = anaLoad[k]
        /\ anaLoading' = FALSE
    BY <2>1, LoadEnded
  <2>3. Analyzer!AnalyzerTypeOK'
    BY <1>0, <2>1, <2>2, AnalyzerTypes DEF AnalyzerInv, Analyzer!AnalyzerTypeOK, LoadRun
  <2>4. AnalyzedInv' /\ ChosenInv'
    BY <1>0, <2>1, <2>2 DEF AnalyzerInv, AnalyzedInv, ChosenInv, Landed
  <2> QED BY <2>3, <2>4 DEF AnalyzerInv
<1> QED BY <1>1, <1>2, <1>5, <1>6, <1>7, <1>8

\* The user and the sync.
LEMMA AnalyzerActInv ==
    ASSUME AnalyzerInv,
           \/ \E p \in Projects : Analyzer!handleProjectChange(p)
           \/ \E r \in Rows : Analyzer!setActivePlatform(r)
           \/ Analyzer!handleSync \/ Analyzer!SyncRefreshed
    PROVE  AnalyzerInv'
<1>1. ASSUME NEW p \in Projects, Analyzer!handleProjectChange(p) PROVE AnalyzerInv'
  <2>1. /\ ~anaLoading /\ p \in listed /\ selected < MaxSelected /\ selected' = selected + 1
        /\ Analyzer!fetchData("select", p) /\ anaChosen' = p
        /\ upset' = (Analyzer!InFlight # {})
        /\ UNCHANGED <<listed, rows, anaProject, metrics, platform, profile, savedId,
                       savedPlatform, syncing, sync>>
    BY <1>1 DEF Analyzer!handleProjectChange, Analyzer!Begin, Analyzer!memory, Analyzer!shownVars
  <2>2. /\ anaLoad' \in [Analyzer!Causes -> LoadRun] /\ anaLoad'["select"].at = "projects"
        /\ anaLoad'["select"].target = p
        /\ \A k \in Analyzer!Causes : k # "select" => anaLoad'[k] = anaLoad[k]
        /\ anaLoading' = TRUE /\ Analyzer!InFlight' # {}
    BY <2>1, LoadBegun DEF Analyzer!Causes
  <2>3. p # None /\ selected' \in 0 .. MaxSelected /\ upset' \in BOOLEAN
    BY <2>1, AnalyzerTypes, AnalyzerBounds
  <2>4. Analyzer!AnalyzerTypeOK'
    <3>1. {anaProject, profile, savedId, anaChosen}' \subseteq Projects \cup {None}
      BY <2>1, AnalyzerTypes
    <3> QED BY <2>1, <2>2, <2>3, <3>1, AnalyzerTypes DEF AnalyzerInv, Analyzer!AnalyzerTypeOK,
            LoadRun
  <2>5. AnalyzedInv'
    BY <2>1, <2>2, <2>3 DEF AnalyzerInv, AnalyzedInv, Landed
  <2>6. ChosenInv'
    <3> SUFFICES ASSUME ~upset' PROVE ChosenInv'
      BY DEF ChosenInv
    <3>1. Analyzer!InFlight = {}
      BY <2>1
    <3>2. \A k \in Analyzer!Causes : k # "select" => anaLoad'[k].at = "idle"
      BY <2>2, <3>1 DEF Analyzer!InFlight
    <3> QED BY <2>1, <2>2, <3>2 DEF ChosenInv, Landed
  <2> QED BY <2>4, <2>5, <2>6 DEF AnalyzerInv
<1>2. ASSUME NEW r \in Rows, Analyzer!setActivePlatform(r) PROVE AnalyzerInv'
  <2>1. /\ r \in Analyzer!Tabs /\ platform' = r.platform /\ savedPlatform' = r.platform
        /\ UNCHANGED <<listed, rows, anaProject, metrics, profile, savedId, anaLoading, syncing,
                       anaLoad, sync, selected, anaChosen, upset>>
    BY <1>2 DEF Analyzer!setActivePlatform, Analyzer!runs
  <2>2. r \in metrics.rows
    BY <2>1 DEF Analyzer!Tabs
  <2>3. {platform, savedPlatform}' \subseteq {q.platform : q \in Rows} \cup {None}
    BY <2>1
  <2>4. Analyzer!AnalyzerTypeOK'
    BY <2>1, <2>3 DEF AnalyzerInv, Analyzer!AnalyzerTypeOK
  <2>5. AnalyzedInv' /\ ChosenInv'
    BY <2>1, <2>2 DEF AnalyzerInv, AnalyzedInv, ChosenInv, Analyzer!InFlight
  <2> QED BY <2>4, <2>5 DEF AnalyzerInv
<1>3. CASE Analyzer!handleSync
  <2>1. /\ ~anaLoading /\ ~syncing /\ anaProject # None /\ selected < MaxSelected
        /\ selected' = selected + 1 /\ syncing' = TRUE
        /\ sync' = [at |-> "refresh", of |-> anaProject]
        /\ UNCHANGED <<listed, rows, anaProject, metrics, platform, profile, savedId,
                       savedPlatform, anaLoading, anaLoad, anaChosen, upset>>
    BY <1>3 DEF Analyzer!handleSync, Analyzer!SyncOffered, Analyzer!Begin, Analyzer!memory,
                Analyzer!shownVars
  <2>2. /\ anaProject \in Projects /\ selected' \in 0 .. MaxSelected
        /\ sync' \in [at : {"idle", "refresh", "profile"}, of : Projects \cup {None}]
        /\ sync'.at = "refresh" /\ sync'.of = anaProject
    BY <2>1, AnalyzerTypes, AnalyzerBounds
  <2>3. Analyzer!InFlight' = Analyzer!InFlight
    BY <2>1 DEF Analyzer!InFlight
  <2>4. Analyzer!AnalyzerTypeOK'
    BY <2>1, <2>2 DEF AnalyzerInv, Analyzer!AnalyzerTypeOK
  <2>5. AnalyzedInv'
    BY <2>1, <2>2, <2>3 DEF AnalyzerInv, AnalyzedInv
  <2>6. ChosenInv'
    BY <2>1, <2>2, <2>3 DEF AnalyzerInv, ChosenInv
  <2> QED BY <2>4, <2>5, <2>6 DEF AnalyzerInv
<1>4. CASE Analyzer!SyncRefreshed
  <2>1. /\ sync.at = "refresh" /\ Analyzer!refreshSocial(sync.of)
        /\ sync' = [sync EXCEPT !.at = "profile"]
        /\ UNCHANGED <<listed, anaProject, metrics, platform, profile, savedId, savedPlatform,
                       anaLoading, syncing, anaLoad, selected, anaChosen, upset>>
    BY <1>4 DEF Analyzer!SyncRefreshed, Analyzer!memory, Analyzer!shownVars
  <2>2. sync.of \in Projects
    BY <2>1 DEF AnalyzerInv, AnalyzedInv
  <2>3. rows' \in [Projects -> SUBSET Rows]
    BY <2>1, <2>2, SocialRefreshed
  <2>4. /\ sync' \in [at : {"idle", "refresh", "profile"}, of : Projects \cup {None}]
        /\ sync'.at = "profile" /\ sync'.of = sync.of
    BY <2>1, AnalyzerTypes
  <2>5. Analyzer!InFlight' = Analyzer!InFlight
    BY <2>1 DEF Analyzer!InFlight
  <2>6. Analyzer!AnalyzerTypeOK'
    BY <2>1, <2>3, <2>4 DEF AnalyzerInv, Analyzer!AnalyzerTypeOK
  <2>7. AnalyzedInv' /\ ChosenInv'
    BY <2>1, <2>2, <2>4, <2>5 DEF AnalyzerInv, AnalyzedInv, ChosenInv
  <2> QED BY <2>6, <2>7 DEF AnalyzerInv
<1> QED BY <1>1, <1>2, <1>3, <1>4

LEMMA AnalyzerSyncInv ==
    ASSUME AnalyzerInv, Analyzer!SyncDone \/ Analyzer!SyncFails
    PROVE  AnalyzerInv'
<1>1. sync.at # "idle" /\ sync.of \in Projects
  BY DEF Analyzer!SyncDone, Analyzer!SyncFails, AnalyzerInv, AnalyzedInv
<1>2. /\ syncing' = FALSE /\ sync' = Analyzer!NoSync
      /\ UNCHANGED <<listed, anaProject, metrics, platform, savedId, savedPlatform, selected,
                     anaChosen>>
  BY DEF Analyzer!SyncDone, Analyzer!SyncEnds, Analyzer!SyncFails, Analyzer!memory,
         Analyzer!shownVars
<1>3. /\ sync' \in [at : {"idle", "refresh", "profile"}, of : Projects \cup {None}]
      /\ sync'.at = "idle" /\ sync'.of = None
  BY <1>2 DEF Analyzer!NoSync
<1>4. rows' \in [Projects -> SUBSET Rows]
  <2>1. Analyzer!refreshSocial(sync.of) \/ rows' = rows
    BY DEF Analyzer!SyncDone, Analyzer!SyncFails
  <2> QED BY <1>1, <2>1, SocialRefreshed, AnalyzerTypes
<1>5. profile' \in Projects \cup {None}
  <2>1. profile' = profile \/ profile' = sync.of
    BY DEF Analyzer!SyncDone, Analyzer!SyncFails, Analyzer!shownVars
  <2> QED BY <1>1, <2>1, AnalyzerTypes
<1>6. {anaProject, profile, savedId, anaChosen}' \subseteq Projects \cup {None}
  BY <1>2, <1>5, AnalyzerTypes
<1>7. CASE Analyzer!SyncDone
  <2>1. /\ Analyzer!fetchData("sync", sync.of)
        /\ upset' = (Analyzer!InFlight # {} \/ sync.of # anaChosen)
    BY <1>7 DEF Analyzer!SyncDone, Analyzer!SyncEnds
  <2>2. /\ anaLoad' \in [Analyzer!Causes -> LoadRun] /\ anaLoad'["sync"].at = "projects"
        /\ anaLoad'["sync"].target = sync.of
        /\ \A k \in Analyzer!Causes : k # "sync" => anaLoad'[k] = anaLoad[k]
        /\ anaLoading' = TRUE /\ Analyzer!InFlight' # {}
    BY <1>1, <2>1, LoadBegun DEF Analyzer!Causes
  <2>3. upset' \in BOOLEAN
    BY <2>1, AnalyzerTypes
  <2>4. Analyzer!AnalyzerTypeOK'
    BY <1>2, <1>3, <1>4, <1>6, <2>2, <2>3, AnalyzerTypes
       DEF AnalyzerInv, Analyzer!AnalyzerTypeOK, LoadRun
  <2>5. AnalyzedInv'
    BY <1>2, <1>3, <2>2 DEF AnalyzerInv, AnalyzedInv, Landed
  <2>6. ChosenInv'
    <3> SUFFICES ASSUME ~upset' PROVE ChosenInv'
      BY DEF ChosenInv
    <3>1. Analyzer!InFlight = {} /\ sync.of = anaChosen
      BY <2>1
    <3>2. \A k \in Analyzer!Causes : k # "sync" => anaLoad'[k].at = "idle"
      BY <2>2, <3>1 DEF Analyzer!InFlight
    <3> QED BY <1>2, <1>3, <2>2, <3>1, <3>2 DEF ChosenInv, Landed
  <2> QED BY <2>4, <2>5, <2>6 DEF AnalyzerInv
<1>8. CASE Analyzer!SyncFails
  <2>1. UNCHANGED <<anaLoading, anaLoad, upset>>
    BY <1>8 DEF Analyzer!SyncFails
  <2>2. Analyzer!InFlight' = Analyzer!InFlight
    BY <2>1 DEF Analyzer!InFlight
  <2>3. Analyzer!AnalyzerTypeOK'
    BY <1>2, <1>3, <1>4, <1>6, <2>1 DEF AnalyzerInv, Analyzer!AnalyzerTypeOK
  <2>4. AnalyzedInv' /\ ChosenInv'
    BY <1>2, <1>3, <2>1, <2>2 DEF AnalyzerInv, AnalyzedInv, ChosenInv
  <2> QED BY <2>3, <2>4 DEF AnalyzerInv
<1> QED BY <1>7, <1>8

LEMMA AnalyzerStepInv == AnalyzerInv /\ Analyzer!AnalyzerNext => AnalyzerInv'
BY AnalyzerLoadInv, AnalyzerActInv, AnalyzerSyncInv DEF Analyzer!AnalyzerNext

-----------------------------------------------------------------------------
(* The pages that sync.                                                    *)

LEMMA SyncedBounds ==
    /\ Projects \subseteq Nat /\ IsFiniteSet(Projects) /\ Projects # {} /\ None \notin Projects
    /\ FirstRange \in Ranges /\ NetworksOf \in [Projects -> SUBSET Networks]
    /\ MaxFetches \in Nat \ {0} /\ MaxEdition \in Nat \ {0} /\ MaxActs \in Nat
BY PagesAssumption DEF PagesAssumption, Synced!SyncedAssumption, Synced!IsFiniteSet, IsFiniteSet

Current(p, d, e, c) == [of |-> p, days |-> d, edition |-> e[p], connected |-> c]

\* Answers are of projects there are, and the tab of the growth page is of the answer.
SyncsInv ==
    /\ site = None <=> wish = None
    /\ fetching => Synced!Fetching # {}
    /\ siteSyncing => Synced!Syncing # {}
    /\ \A s \in Synced!Syncing : syncs[s].of \in Projects
    /\ \A f \in Synced!Slots :
          /\ fetches[f].at = "data" => fetches[f].answer.of \in Projects
          /\ fetches[f].at = "answered" => fetches[f].answer \in Synced!Answer
    /\ kind = "growth" /\ chart.of # None /\ NetworksOf[chart.of] # {} =>
          network \in NetworksOf[chart.of] /\ network = savedNetwork

\* A fetch that ran alone is for the project and the days that are selected.
AloneInv ==
    ~crossed =>
       /\ \A f, g \in Synced!Fetching : f = g
       /\ \A f \in Synced!Fetching :
             /\ fetches[f].days = days
             /\ fetches[f].at = "projects" =>
                   IF fetches[f].target = None THEN wish = None ELSE fetches[f].target = wish
             /\ fetches[f].at \in {"data", "answered"} =>
                   fetches[f].answer.of = wish /\ site = wish /\ savedSite = wish
             /\ fetches[f].at = "answered" =>
                   fetches[f].answer = Current(site, days, edition, connected)
       /\ Synced!Fetching = {} =>
             /\ site = wish /\ savedSite = site
             /\ chart = Current(site, days, edition, connected)

SyncedInv == Synced!SyncedTypeOK /\ SyncsInv /\ AloneInv

FetchRun ==
    [at : {"idle", "projects", "data", "answered"}, target : Projects \cup {None},
     days : Ranges, answer : Synced!Reply]

LEMMA SyncedTypes ==
    ASSUME SyncedInv
    PROVE  /\ kind \in {"traffic", "ranks", "growth"} /\ edition \in [Projects -> 0 .. MaxEdition]
           /\ connected \in BOOLEAN /\ fetching \in BOOLEAN /\ siteSyncing \in BOOLEAN
           /\ crossed \in BOOLEAN
           /\ savedSite \in Projects \cup {None} /\ site \in Projects \cup {None}
           /\ wish \in Projects \cup {None}
           /\ savedNetwork \in Networks \cup {None} /\ network \in Networks \cup {None}
           /\ days \in Ranges /\ search \in {"", "hit", "miss"}
           /\ chart \in Synced!Answer \cup {Synced!NoAnswer}
           /\ fetches \in [Synced!Slots -> FetchRun]
           /\ syncs \in [Synced!Slots -> [of : Projects \cup {None}, days : Ranges]]
           /\ acts \in 0 .. MaxActs
BY DEF SyncedInv, Synced!SyncedTypeOK, FetchRun

LEMMA SyncedPromises ==
    ASSUME SyncedInv
    PROVE  /\ Synced!SyncedTypeOK /\ Synced!SyncedPageIsConsistent /\ Synced!NetworkIsShown
           /\ Synced!SyncedSpinnerHasCause
<1>1. Synced!SyncedTypeOK /\ Synced!SyncedSpinnerHasCause
  BY DEF SyncedInv, SyncsInv, Synced!SyncedSpinnerHasCause
<1>2. Synced!SyncedPageIsConsistent
  BY DEF SyncedInv, AloneInv, Current, Synced!SyncedPageIsConsistent
<1>3. Synced!NetworkIsShown
  BY DEF SyncedInv, SyncsInv, Synced!NetworkIsShown, Synced!GrowthTabs
<1> QED BY <1>1, <1>2, <1>3

LEMMA NoFetchFacts ==
    /\ Synced!NoFetch \in FetchRun /\ Synced!NoFetch.at = "idle"
    /\ Synced!NoSync \in [of : Projects \cup {None}, days : Ranges] /\ Synced!NoSync.of = None
    /\ Synced!NoAnswer \in Synced!Reply /\ Synced!NoAnswer.of = None
    /\ Synced!Answer \subseteq Synced!Reply
    /\ \A r \in Synced!Answer : r.of \in Projects
<1>1. 0 \in 0 .. MaxEdition
  BY SyncedBounds
<1> QED BY <1>1, SyncedBounds
        DEF Synced!NoFetch, Synced!NoSync, Synced!NoAnswer, FetchRun, Synced!Reply, Synced!Answer

LEMMA SyncedInit == Synced!SyncedInit => SyncedInv
<1> SUFFICES ASSUME Synced!SyncedInit PROVE SyncedInv
  OBVIOUS
<1> DEFINE first == [Synced!NoFetch EXCEPT !.at = "projects"]
<1>1. /\ kind \in {"traffic", "ranks", "growth"} /\ connected \in BOOLEAN
      /\ edition \in [Projects -> 0 .. 1]
      /\ savedSite \in Projects \cup {None} /\ savedNetwork \in Networks \cup {None}
      /\ site = None /\ days = FirstRange /\ search = "" /\ network = None
      /\ chart = Synced!NoAnswer /\ fetching = TRUE /\ siteSyncing = FALSE
      /\ fetches = [f \in Synced!Slots |-> IF f = 1 THEN first ELSE Synced!NoFetch]
      /\ syncs = [s \in Synced!Slots |-> Synced!NoSync]
      /\ acts = 0 /\ wish = None /\ crossed = FALSE
  BY DEF Synced!SyncedInit
<1>2. /\ first \in FetchRun /\ first.at = "projects" /\ first.target = None
      /\ first.days = FirstRange
  <2>1. first = [at |-> "projects", target |-> None, days |-> FirstRange,
                 answer |-> Synced!NoAnswer]
    BY DEF Synced!NoFetch
  <2> QED BY <2>1, NoFetchFacts, SyncedBounds DEF FetchRun
<1>3. 1 \in Synced!Slots /\ edition \in [Projects -> 0 .. MaxEdition]
  <2>1. 1 <= MaxEdition /\ MaxEdition \in Nat /\ 1 <= MaxFetches /\ MaxFetches \in Nat
    BY SyncedBounds
  <2>2. \A n \in 0 .. 1 : n \in 0 .. MaxEdition
    BY <2>1
  <2>3. edition \in [Projects -> 0 .. MaxEdition]
    BY <1>1, <2>2
  <2> QED BY <2>1, <2>3 DEF Synced!Slots
<1> HIDE DEF first
<1>4. /\ fetches \in [Synced!Slots -> FetchRun] /\ fetches[1] = first
      /\ \A f \in Synced!Slots : f # 1 => fetches[f] = Synced!NoFetch
      /\ Synced!Fetching = {1}
  BY <1>1, <1>2, <1>3, NoFetchFacts DEF Synced!Fetching
<1>5. Synced!Syncing = {} /\ chart.of = None
  BY <1>1, NoFetchFacts DEF Synced!Syncing
<1>6. Synced!SyncedTypeOK
  <2>1. syncs \in [Synced!Slots -> [of : Projects \cup {None}, days : Ranges]]
    BY <1>1, NoFetchFacts
  <2>2. acts \in 0 .. MaxActs /\ days \in Ranges
    <3>1. 0 \in 0 .. MaxActs
      BY SyncedBounds
    <3> QED BY <1>1, <3>1, SyncedBounds
  <2>3. {savedSite, site, wish} \subseteq Projects \cup {None}
    BY <1>1
  <2>4. {savedNetwork, network} \subseteq Networks \cup {None}
    BY <1>1
  <2>5. {connected, fetching, siteSyncing, crossed} \subseteq BOOLEAN
    BY <1>1
  <2> QED BY <1>1, <1>3, <1>4, <2>1, <2>2, <2>3, <2>4, <2>5 DEF Synced!SyncedTypeOK, FetchRun
<1>7. SyncsInv
  BY <1>1, <1>2, <1>4, <1>5, NoFetchFacts DEF SyncsInv
<1>8. AloneInv
  BY <1>1, <1>2, <1>4 DEF AloneInv
<1> QED BY <1>6, <1>7, <1>8 DEF SyncedInv

LEMMA SyncedStays == SyncedInv /\ UNCHANGED SyncedVars => SyncedInv'
<1> SUFFICES ASSUME SyncedInv, UNCHANGED SyncedVars PROVE SyncedInv'
  OBVIOUS
<1>1. Synced!Fetching' = Synced!Fetching /\ Synced!Syncing' = Synced!Syncing
  BY DEF SyncedVars, Synced!Fetching, Synced!Syncing
<1>2. Synced!SyncedTypeOK'
  BY DEF SyncedVars, SyncedInv, Synced!SyncedTypeOK
<1>3. SyncsInv'
  BY <1>1 DEF SyncedVars, SyncedInv, SyncsInv
<1>4. AloneInv'
  BY <1>1 DEF SyncedVars, SyncedInv, AloneInv
<1> QED BY <1>2, <1>3, <1>4 DEF SyncedInv

LEMMA ActCounted == ASSUME SyncedInv, acts < MaxActs, acts' = acts + 1 PROVE acts' \in 0 .. MaxActs
<1>1. acts \in 0 .. MaxActs
  BY SyncedTypes
<1>2. MaxActs \in Nat
  BY SyncedBounds
<1> QED BY <1>1, <1>2

\* A slot of a fetch that goes on.
LEMMA FetchMoves ==
    ASSUME SyncedInv, NEW f \in Synced!Slots, NEW g \in FetchRun,
           fetches' = [fetches EXCEPT ![f] = g]
    PROVE  /\ fetches' \in [Synced!Slots -> FetchRun] /\ fetches'[f] = g
           /\ \A e \in Synced!Slots : e # f => fetches'[e] = fetches[e]
           /\ g # Synced!NoFetch => Synced!Fetching' = Synced!Fetching \cup {f}
           /\ g = Synced!NoFetch => Synced!Fetching' = Synced!Fetching \ {f}
BY SyncedTypes DEF Synced!Fetching

LEMMA SitesLandInv ==
    ASSUME SyncedInv, NEW f \in Synced!Slots, Synced!SitesLand(f)
    PROVE  SyncedInv'
<1> DEFINE chosenSite == IF fetches[f].target # None THEN fetches[f].target
                         ELSE IF savedSite # None THEN savedSite
                         ELSE CHOOSE p \in Projects : \A q \in Projects : q <= p
           g == [fetches[f] EXCEPT !.at = "data", !.answer.of = chosenSite]
<1>1. /\ fetches[f].at = "projects"
      /\ site' = chosenSite /\ savedSite' = chosenSite
      /\ wish' = IF wish = None THEN chosenSite ELSE wish
      /\ fetches' = [fetches EXCEPT ![f].at = "data", ![f].answer.of = chosenSite]
      /\ UNCHANGED <<kind, edition, connected, savedNetwork, days, search, network, chart,
                     fetching, siteSyncing, syncs, acts, crossed>>
  BY DEF Synced!SitesLand
<1>2. chosenSite \in Projects
  <2>1. \E p \in Projects : \A q \in Projects : q <= p
    BY SyncedBounds, LastOf
  <2> QED BY <2>1, SyncedTypes DEF FetchRun
<1>3. (fetches[f].target # None => chosenSite = fetches[f].target) /\ chosenSite # None
  BY <1>2, SyncedBounds
<1> HIDE DEF chosenSite
<1>4. fetches' = [fetches EXCEPT ![f] = g]
  BY <1>1, SyncedTypes
<1>5. /\ g \in FetchRun /\ g.at = "data" /\ g.answer.of = chosenSite
      /\ g.days = fetches[f].days
  <2>1. fetches[f] \in FetchRun
    BY SyncedTypes
  <2> DEFINE reply == [fetches[f].answer EXCEPT !.of = chosenSite]
  <2>2. reply \in Synced!Reply /\ reply.of = chosenSite
    BY <1>2, <2>1 DEF FetchRun, Synced!Reply
  <2>3. g = [fetches[f] EXCEPT !.at = "data", !.answer = reply]
    BY <2>1 DEF FetchRun
  <2> HIDE DEF reply
  <2> QED BY <2>1, <2>2, <2>3 DEF FetchRun
<1> HIDE DEF g
<1>6. /\ fetches' \in [Synced!Slots -> FetchRun] /\ fetches'[f] = g
      /\ \A e \in Synced!Slots : e # f => fetches'[e] = fetches[e]
      /\ Synced!Fetching' = Synced!Fetching \cup {f} /\ f \in Synced!Fetching
  BY <1>1, <1>4, <1>5, FetchMoves, NoFetchFacts DEF Synced!Fetching
<1>7. wish' \in Projects /\ wish' # None
  BY <1>1, <1>2, <1>3, SyncedTypes
<1>8. Synced!Syncing' = Synced!Syncing
  BY <1>1 DEF Synced!Syncing
<1>9. Synced!SyncedTypeOK'
  <2>1. {savedSite, site, wish}' \subseteq Projects \cup {None}
    BY <1>1, <1>2, <1>7
  <2> QED BY <1>1, <1>6, <2>1, SyncedTypes DEF SyncedInv, Synced!SyncedTypeOK, FetchRun
<1>10. SyncsInv'
  BY <1>1, <1>2, <1>3, <1>5, <1>6, <1>7, <1>8 DEF SyncedInv, SyncsInv
<1>11. AloneInv'
  <2> SUFFICES ASSUME ~crossed PROVE AloneInv'
    BY <1>1 DEF AloneInv
  <2>1. \A e \in Synced!Fetching' : e = f
    BY <1>6 DEF SyncedInv, AloneInv
  <2>2. wish' = chosenSite
    BY <1>1, <1>3, <1>6 DEF SyncedInv, AloneInv
  <2>3. g.days = days
    BY <1>5, <1>6 DEF SyncedInv, AloneInv
  <2> QED BY <1>1, <1>5, <1>6, <2>1, <2>2, <2>3 DEF AloneInv
<1> QED BY <1>9, <1>10, <1>11 DEF SyncedInv

LEMMA DataAnsweredInv ==
    ASSUME SyncedInv, NEW f \in Synced!Slots, Synced!DataAnswered(f)
    PROVE  SyncedInv'
<1> DEFINE p == fetches[f].answer.of
           reply == [of |-> p, days |-> fetches[f].days, edition |-> edition[p],
                     connected |-> connected]
           g == [fetches[f] EXCEPT !.at = "answered", !.answer = reply]
<1>1. /\ fetches[f].at = "data"
      /\ fetches' = [fetches EXCEPT ![f].at = "answered", ![f].answer = reply]
      /\ UNCHANGED <<kind, edition, connected, savedSite, savedNetwork, site, days, search,
                     network, chart, fetching, siteSyncing, syncs, acts, wish, crossed>>
  BY DEF Synced!DataAnswered, Synced!memoryVars, Synced!viewVars
<1>2. p \in Projects
  BY <1>1 DEF SyncedInv, SyncsInv
<1>3. reply \in Synced!Answer
  BY <1>2, SyncedTypes DEF Synced!Answer, FetchRun
<1>4. fetches' = [fetches EXCEPT ![f] = g]
  BY <1>1, SyncedTypes
<1> HIDE DEF reply
<1>5. g \in FetchRun /\ g.at = "answered" /\ g.answer = reply /\ g.days = fetches[f].days
  BY <1>3, SyncedTypes, NoFetchFacts DEF FetchRun
<1> HIDE DEF g
<1>6. /\ fetches' \in [Synced!Slots -> FetchRun] /\ fetches'[f] = g
      /\ \A e \in Synced!Slots : e # f => fetches'[e] = fetches[e]
      /\ Synced!Fetching' = Synced!Fetching \cup {f} /\ f \in Synced!Fetching
  BY <1>1, <1>4, <1>5, FetchMoves, NoFetchFacts DEF Synced!Fetching
<1>7. Synced!Syncing' = Synced!Syncing
  BY <1>1 DEF Synced!Syncing
<1>8. Synced!SyncedTypeOK'
  BY <1>1, <1>6 DEF SyncedInv, Synced!SyncedTypeOK, FetchRun
<1>9. SyncsInv'
  BY <1>1, <1>3, <1>5, <1>6, <1>7 DEF SyncedInv, SyncsInv
<1>10. AloneInv'
  <2> SUFFICES ASSUME ~crossed PROVE AloneInv'
    BY <1>1 DEF AloneInv
  <2>1. \A e \in Synced!Fetching' : e = f
    BY <1>6 DEF SyncedInv, AloneInv
  <2>2. p = wish /\ site = wish /\ savedSite = wish /\ fetches[f].days = days
    BY <1>1, <1>6 DEF SyncedInv, AloneInv
  <2>3. reply = Current(site, days, edition, connected)
    BY <2>2 DEF Current, reply
  <2>4. reply.of = wish
    BY <2>2 DEF reply
  <2> QED BY <1>1, <1>5, <1>6, <2>1, <2>2, <2>3, <2>4 DEF AloneInv
<1> QED BY <1>8, <1>9, <1>10 DEF SyncedInv

\* A fetch ends.
LEMMA FetchEnds ==
    ASSUME SyncedInv, NEW f \in Synced!Fetching, fetching' = FALSE,
           fetches' = [fetches EXCEPT ![f] = Synced!NoFetch],
           UNCHANGED <<kind, edition, connected, savedSite, site, days, search, siteSyncing,
                       syncs, acts, wish>>,
           crossed' \in BOOLEAN, crossed => crossed',
           chart' \in Synced!Answer \cup {Synced!NoAnswer},
           network' \in Networks \cup {None}, savedNetwork' \in Networks \cup {None},
           kind = "growth" /\ chart'.of # None /\ NetworksOf[chart'.of] # {} =>
              network' \in NetworksOf[chart'.of] /\ network' = savedNetwork',
           ~crossed' => fetches[f].at = "answered" /\ chart' = fetches[f].answer
    PROVE  SyncedInv'
<1>1. /\ fetches' \in [Synced!Slots -> FetchRun] /\ fetches'[f] = Synced!NoFetch
      /\ \A e \in Synced!Slots : e # f => fetches'[e] = fetches[e]
      /\ Synced!Fetching' = Synced!Fetching \ {f}
  BY FetchMoves, NoFetchFacts DEF Synced!Fetching
<1>2. Synced!Syncing' = Synced!Syncing
  BY DEF Synced!Syncing
<1>3. Synced!SyncedTypeOK'
  <2>1. {savedNetwork, network}' \subseteq Networks \cup {None}
    OBVIOUS
  <2> QED BY <1>1, <2>1, SyncedTypes DEF SyncedInv, Synced!SyncedTypeOK, FetchRun
<1>4. SyncsInv'
  BY <1>1, <1>2, NoFetchFacts DEF SyncedInv, SyncsInv
<1>5. AloneInv'
  <2> SUFFICES ASSUME ~crossed' PROVE AloneInv'
    BY DEF AloneInv
  <2>1. ~crossed
    BY SyncedTypes
  <2>2. Synced!Fetching' = {}
    BY <1>1, <2>1 DEF SyncedInv, AloneInv
  <2>3. /\ fetches[f].at = "answered" /\ site = wish /\ savedSite = site
        /\ chart' = Current(site, days, edition, connected)
    BY <2>1 DEF SyncedInv, AloneInv
  <2> QED BY <2>2, <2>3 DEF AloneInv
<1> QED BY <1>3, <1>4, <1>5 DEF SyncedInv

LEMMA FetchEndsInv ==
    ASSUME SyncedInv, NEW f \in Synced!Slots,
           Synced!DataLands(f) \/ Synced!GrowthLands(f) \/ Synced!FetchFails(f)
    PROVE  SyncedInv'
<1>1. CASE Synced!DataLands(f)
  <2>1. /\ kind # "growth" /\ fetches[f].at = "answered" /\ chart' = fetches[f].answer
        /\ fetching' = FALSE /\ fetches' = [fetches EXCEPT ![f] = Synced!NoFetch]
        /\ UNCHANGED <<kind, edition, connected, savedSite, savedNetwork, site, days, search,
                       network, siteSyncing, syncs, acts, wish, crossed>>
    BY <1>1 DEF Synced!DataLands, Synced!memoryVars
  <2>2. f \in Synced!Fetching /\ chart' \in Synced!Answer
    BY <2>1, NoFetchFacts DEF Synced!Fetching, SyncedInv, SyncsInv
  <2> QED BY <2>1, <2>2, FetchEnds, SyncedTypes
<1>2. CASE Synced!GrowthLands(f)
  <2> DEFINE offered == NetworksOf[fetches[f].answer.of]
  <2>1. /\ kind = "growth" /\ fetches[f].at = "answered" /\ chart' = fetches[f].answer
        /\ IF offered = {} THEN UNCHANGED <<network, savedNetwork>>
           ELSE /\ network' = IF savedNetwork \in offered THEN savedNetwork
                              ELSE CHOOSE n \in offered : TRUE
                /\ savedNetwork' = network'
        /\ fetching' = FALSE /\ fetches' = [fetches EXCEPT ![f] = Synced!NoFetch]
        /\ UNCHANGED <<kind, edition, connected, savedSite, site, days, search, siteSyncing,
                       syncs, acts, wish, crossed>>
    BY <1>2 DEF Synced!GrowthLands
  <2>2. /\ f \in Synced!Fetching /\ chart' \in Synced!Answer /\ chart'.of \in Projects
        /\ offered = NetworksOf[chart'.of]
    BY <2>1, NoFetchFacts DEF Synced!Fetching, SyncedInv, SyncsInv
  <2>3. offered \subseteq Networks
    BY <2>2, SyncedBounds
  <2> HIDE DEF offered
  <2>4. /\ network' \in Networks \cup {None} /\ savedNetwork' \in Networks \cup {None}
        /\ offered # {} => network' \in offered /\ network' = savedNetwork'
    <3>1. CASE offered = {}
      BY <2>1, <3>1, SyncedTypes
    <3>2. CASE offered # {}
      BY <2>1, <2>3, <3>2
    <3> QED BY <3>1, <3>2
  <2> QED BY <2>1, <2>2, <2>4, FetchEnds, SyncedTypes
<1>3. CASE Synced!FetchFails(f)
  <2>1. /\ f \in Synced!Fetching /\ fetching' = FALSE /\ crossed' = TRUE
        /\ fetches' = [fetches EXCEPT ![f] = Synced!NoFetch]
        /\ UNCHANGED <<kind, edition, connected, savedSite, savedNetwork, site, days, search,
                       network, chart, siteSyncing, syncs, acts, wish>>
    BY <1>3 DEF Synced!FetchFails, Synced!memoryVars, Synced!viewVars
  <2>2. kind = "growth" /\ chart.of # None /\ NetworksOf[chart.of] # {} =>
            network \in NetworksOf[chart.of] /\ network = savedNetwork
    BY DEF SyncedInv, SyncsInv
  <2> QED BY <2>1, <2>2, FetchEnds, SyncedTypes
<1> QED BY <1>1, <1>2, <1>3

\* A fetch begins: the choice of a project or a range, or a sync that has landed.
LEMMA FetchBegins ==
    ASSUME SyncedInv, NEW f \in Synced!Slots, NEW target \in Projects \cup {None}, NEW d \in Ranges,
           Synced!Begin(f, target, d),
           UNCHANGED <<kind, connected, savedSite, savedNetwork, site, search, network, chart>>,
           edition' \in [Projects -> 0 .. MaxEdition], days' \in Ranges, acts' \in 0 .. MaxActs,
           wish' \in Projects \cup {None}, site = None <=> wish' = None,
           target = None => wish' = None,
           siteSyncing' \in BOOLEAN,
           syncs' \in [Synced!Slots -> [of : Projects \cup {None}, days : Ranges]],
           siteSyncing' => Synced!Syncing' # {},
           \A s \in Synced!Syncing' : syncs'[s].of \in Projects
    PROVE  SyncedInv'
<1> DEFINE g == [Synced!NoFetch EXCEPT !.at = "projects", !.target = target, !.days = d]
<1>1. /\ Synced!Unused(f) /\ fetches' = [fetches EXCEPT ![f] = g] /\ fetching' = TRUE
      /\ crossed' = \/ Synced!Fetching # {} \/ d # days'
                    \/ target # None /\ target # wish'
  BY DEF Synced!Begin
<1>2. g \in FetchRun /\ g.at = "projects" /\ g.target = target /\ g.days = d
  <2>1. g = [at |-> "projects", target |-> target, days |-> d, answer |-> Synced!NoAnswer]
    <3>1. Synced!NoFetch = [at |-> "idle", target |-> None, days |-> FirstRange,
                            answer |-> Synced!NoAnswer]
      BY DEF Synced!NoFetch
    <3> DEFINE opened1 == [Synced!NoFetch EXCEPT !.at = "projects"]
               opened2 == [opened1 EXCEPT !.target = target]
    <3>2. opened1 = [at |-> "projects", target |-> None, days |-> FirstRange,
                     answer |-> Synced!NoAnswer]
      BY <3>1
    <3> HIDE DEF opened1
    <3>3. opened2 = [at |-> "projects", target |-> target, days |-> FirstRange,
                     answer |-> Synced!NoAnswer]
      BY <3>2
    <3>4. g = [opened2 EXCEPT !.days = d]
      BY DEF opened1
    <3> HIDE DEF opened2, g
    <3> QED BY <3>3, <3>4
  <2> HIDE DEF g
  <2> QED BY <2>1, NoFetchFacts DEF FetchRun
<1> HIDE DEF g
<1>3. /\ fetches' \in [Synced!Slots -> FetchRun] /\ fetches'[f] = g
      /\ \A e \in Synced!Slots : e # f => fetches'[e] = fetches[e]
      /\ Synced!Fetching' = Synced!Fetching \cup {f}
  BY <1>1, <1>2, FetchMoves, NoFetchFacts
<1>4. crossed' \in BOOLEAN
  BY <1>1
<1>5. Synced!SyncedTypeOK'
  <2>1. {savedSite, site, wish}' \subseteq Projects \cup {None}
    BY SyncedTypes
  <2>2. {connected, fetching, siteSyncing, crossed}' \subseteq BOOLEAN
    BY <1>1, <1>4, SyncedTypes
  <2> QED BY <1>3, <2>1, <2>2, SyncedTypes DEF SyncedInv, Synced!SyncedTypeOK, FetchRun
<1>6. SyncsInv'
  BY <1>2, <1>3 DEF SyncedInv, SyncsInv
<1>7. AloneInv'
  <2> SUFFICES ASSUME ~crossed' PROVE AloneInv'
    BY DEF AloneInv
  <2>1. Synced!Fetching' = {f} /\ d = days' /\ (target # None => target = wish')
    BY <1>1, <1>3
  <2> QED BY <1>2, <1>3, <2>1 DEF AloneInv
<1> QED BY <1>5, <1>6, <1>7 DEF SyncedInv

\* A sync that ends, with its rows stored or not.
LEMMA SyncEnded ==
    ASSUME SyncedInv, NEW s \in Synced!Syncing,
           Synced!UpsertKeywords(syncs[s].of) \/ edition' = edition,
           syncs' = [syncs EXCEPT ![s] = Synced!NoSync]
    PROVE  /\ edition' \in [Projects -> 0 .. MaxEdition]
           /\ syncs[s].of \in Projects /\ syncs[s].days \in Ranges
           /\ syncs' \in [Synced!Slots -> [of : Projects \cup {None}, days : Ranges]]
           /\ \A r \in Synced!Syncing' : syncs'[r].of \in Projects
<1> DEFINE p == syncs[s].of
<1>1. s \in Synced!Slots /\ p \in Projects
  BY DEF SyncedInv, SyncsInv, Synced!Syncing
<1>2. edition' \in [Projects -> 0 .. MaxEdition]
  <2>1. CASE edition' = edition
    BY <2>1, SyncedTypes
  <2>2. CASE edition[p] < MaxEdition /\ edition' = [edition EXCEPT ![p] = @ + 1]
    <3>1. edition[p] \in 0 .. MaxEdition /\ MaxEdition \in Nat
      BY <1>1, SyncedTypes, SyncedBounds
    <3>2. edition[p] + 1 \in 0 .. MaxEdition
      BY <2>2, <3>1
    <3> QED BY <2>2, <3>2, SyncedTypes
  <2> QED BY <2>1, <2>2 DEF Synced!UpsertKeywords
<1>3. syncs' \in [Synced!Slots -> [of : Projects \cup {None}, days : Ranges]]
  BY NoFetchFacts, SyncedTypes
<1>4. \A r \in Synced!Syncing' : r \in Synced!Syncing /\ syncs'[r] = syncs[r]
  BY <1>1, SyncedTypes DEF Synced!Syncing
<1> QED BY <1>1, <1>2, <1>3, <1>4, SyncedTypes DEF SyncedInv, SyncsInv

LEMMA FetchBeginsInv ==
    ASSUME SyncedInv, NEW f \in Synced!Slots,
           \/ \E p \in Projects : Synced!onProjectChange(f, p)
           \/ \E d \in Ranges : Synced!handleDaysChange(f, d)
           \/ \E s \in Synced!Slots : Synced!SyncLands(s, f)
    PROVE  SyncedInv'
<1>1. ASSUME NEW p \in Projects, Synced!onProjectChange(f, p) PROVE SyncedInv'
  <2>1. /\ acts < MaxActs /\ acts' = acts + 1 /\ site # None /\ wish' = p /\ days' = days
        /\ Synced!Begin(f, p, days)
        /\ UNCHANGED <<kind, edition, connected, savedSite, savedNetwork, site, search, network,
                       chart, siteSyncing, syncs>>
    BY <1>1 DEF Synced!onProjectChange, Synced!Act, Synced!memoryVars
  <2>2. acts' \in 0 .. MaxActs /\ p # None
    BY <2>1, ActCounted, SyncedBounds
  <2>3. Synced!Syncing' = Synced!Syncing
    BY <2>1 DEF Synced!Syncing
  <2>4. /\ siteSyncing' => Synced!Syncing' # {}
        /\ \A s \in Synced!Syncing' : syncs'[s].of \in Projects
    BY <2>1, <2>3 DEF SyncedInv, SyncsInv
  <2> QED BY <2>1, <2>2, <2>4, FetchBegins, SyncedTypes
<1>2. ASSUME NEW d \in Ranges, Synced!handleDaysChange(f, d) PROVE SyncedInv'
  <2>1. /\ acts < MaxActs /\ acts' = acts + 1 /\ wish' = wish /\ days' = d
        /\ Synced!Begin(f, site, d)
        /\ UNCHANGED <<kind, edition, connected, savedSite, savedNetwork, site, search, network,
                       chart, siteSyncing, syncs>>
    BY <1>2 DEF Synced!handleDaysChange, Synced!Act, Synced!memoryVars
  <2>2. acts' \in 0 .. MaxActs
    BY <2>1, ActCounted
  <2>3. Synced!Syncing' = Synced!Syncing
    BY <2>1 DEF Synced!Syncing
  <2>4. /\ siteSyncing' => Synced!Syncing' # {}
        /\ \A s \in Synced!Syncing' : syncs'[s].of \in Projects
        /\ site = None <=> wish' = None
    BY <2>1, <2>3 DEF SyncedInv, SyncsInv
  <2> QED BY <2>1, <2>2, <2>4, FetchBegins, SyncedTypes
<1>3. ASSUME NEW s \in Synced!Slots, Synced!SyncLands(s, f) PROVE SyncedInv'
  <2>1. /\ s \in Synced!Syncing /\ Synced!UpsertKeywords(syncs[s].of)
        /\ syncs' = [syncs EXCEPT ![s] = Synced!NoSync] /\ siteSyncing' = FALSE
        /\ days' = days /\ wish' = wish
        /\ Synced!Begin(f, syncs[s].of, syncs[s].days)
        /\ UNCHANGED <<kind, connected, savedSite, savedNetwork, site, search, network, chart,
                acts>>
    BY <1>3 DEF Synced!SyncLands, Synced!memoryVars
  <2>2. /\ edition' \in [Projects -> 0 .. MaxEdition]
        /\ syncs[s].of \in Projects /\ syncs[s].days \in Ranges
        /\ syncs' \in [Synced!Slots -> [of : Projects \cup {None}, days : Ranges]]
        /\ \A r \in Synced!Syncing' : syncs'[r].of \in Projects
    BY <2>1, SyncEnded
  <2>3. syncs[s].of # None /\ (site = None <=> wish' = None)
    BY <2>1, <2>2, SyncedBounds DEF SyncedInv, SyncsInv
  <2> QED BY <2>1, <2>2, <2>3, FetchBegins, SyncedTypes
<1> QED BY <1>1, <1>2, <1>3

LEMMA SyncedActInv ==
    ASSUME SyncedInv,
           \/ \E text \in {"", "hit", "miss"} : Synced!setSearch(text)
           \/ \E n \in Networks : Synced!setActivePlatform(n)
           \/ \E s \in Synced!Slots : Synced!handleSync(s) \/ Synced!SyncFails(s)
    PROVE  SyncedInv'
<1>1. ASSUME NEW text \in {"", "hit", "miss"}, Synced!setSearch(text) PROVE SyncedInv'
  <2>1. /\ search' = text
        /\ UNCHANGED <<kind, edition, connected, savedSite, savedNetwork, site, days, network,
                       chart, fetching, fetches, siteSyncing, syncs, acts, wish, crossed>>
    BY <1>1 DEF Synced!setSearch, Synced!memoryVars
  <2>2. Synced!Fetching' = Synced!Fetching /\ Synced!Syncing' = Synced!Syncing
    BY <2>1 DEF Synced!Fetching, Synced!Syncing
  <2>3. Synced!SyncedTypeOK'
    BY <2>1 DEF SyncedInv, Synced!SyncedTypeOK
  <2>4. SyncsInv' /\ AloneInv'
    BY <2>1, <2>2 DEF SyncedInv, SyncsInv, AloneInv
  <2> QED BY <2>3, <2>4 DEF SyncedInv
<1>2. ASSUME NEW n \in Networks, Synced!setActivePlatform(n) PROVE SyncedInv'
  <2>1. /\ kind = "growth" /\ n \in Synced!GrowthTabs /\ network' = n /\ savedNetwork' = n
        /\ UNCHANGED <<kind, edition, connected, savedSite, site, days, search, chart, fetching,
                       fetches, siteSyncing, syncs, acts, wish, crossed>>
    BY <1>2 DEF Synced!setActivePlatform
  <2>2. Synced!Fetching' = Synced!Fetching /\ Synced!Syncing' = Synced!Syncing
    BY <2>1 DEF Synced!Fetching, Synced!Syncing
  <2>3. n \in NetworksOf[chart.of]
    BY <2>1 DEF Synced!GrowthTabs
  <2>4. Synced!SyncedTypeOK'
    <3>1. {savedNetwork, network}' \subseteq Networks \cup {None}
      BY <2>1
    <3> QED BY <2>1, <3>1 DEF SyncedInv, Synced!SyncedTypeOK
  <2>5. SyncsInv' /\ AloneInv'
    BY <2>1, <2>2, <2>3 DEF SyncedInv, SyncsInv, AloneInv
  <2> QED BY <2>4, <2>5 DEF SyncedInv
<1>3. ASSUME NEW s \in Synced!Slots, Synced!handleSync(s) PROVE SyncedInv'
  <2> DEFINE g == [of |-> site, days |-> days]
  <2>1. /\ site # None /\ acts < MaxActs /\ acts' = acts + 1 /\ siteSyncing' = TRUE
        /\ syncs' = [syncs EXCEPT ![s] = g]
        /\ UNCHANGED <<kind, edition, connected, savedSite, savedNetwork, site, days, search,
                       network, chart, fetching, fetches, wish, crossed>>
    BY <1>3 DEF Synced!handleSync, Synced!Act, Synced!memoryVars, Synced!viewVars
  <2>2. /\ g \in [of : Projects \cup {None}, days : Ranges] /\ g.of \in Projects
        /\ g # Synced!NoSync
    <3>1. site \in Projects /\ days \in Ranges
      BY <2>1, SyncedTypes
    <3>2. g.of # Synced!NoSync.of
      BY <2>1, NoFetchFacts
    <3> QED BY <3>1, <3>2
  <2> HIDE DEF g
  <2>3. /\ syncs' \in [Synced!Slots -> [of : Projects \cup {None}, days : Ranges]]
        /\ syncs'[s] = g /\ \A r \in Synced!Slots : r # s => syncs'[r] = syncs[r]
    BY <2>1, <2>2, SyncedTypes
  <2>4. Synced!Fetching' = Synced!Fetching /\ Synced!Syncing' = Synced!Syncing \cup {s}
    BY <2>1, <2>2, <2>3 DEF Synced!Fetching, Synced!Syncing
  <2>5. acts' \in 0 .. MaxActs
    BY <2>1, ActCounted
  <2>6. Synced!SyncedTypeOK'
    BY <2>1, <2>3, <2>5 DEF SyncedInv, Synced!SyncedTypeOK
  <2>7. \A r \in Synced!Syncing' : syncs'[r].of \in Projects
    <3>1. Synced!Syncing \subseteq Synced!Slots
      BY DEF Synced!Syncing
    <3> QED BY <2>2, <2>3, <2>4, <3>1 DEF SyncedInv, SyncsInv
  <2>8. SyncsInv' /\ AloneInv'
    BY <2>1, <2>4, <2>7 DEF SyncedInv, SyncsInv, AloneInv
  <2> QED BY <2>6, <2>8 DEF SyncedInv
<1>4. ASSUME NEW s \in Synced!Slots, Synced!SyncFails(s) PROVE SyncedInv'
  <2>1. /\ s \in Synced!Syncing /\ (Synced!UpsertKeywords(syncs[s].of) \/ edition' = edition)
        /\ syncs' = [syncs EXCEPT ![s] = Synced!NoSync] /\ siteSyncing' = FALSE
        /\ crossed' = (crossed \/ edition' # edition)
        /\ UNCHANGED <<kind, connected, savedSite, savedNetwork, site, days, search, network,
                       chart, fetching, fetches, acts, wish>>
    BY <1>4 DEF Synced!SyncFails, Synced!memoryVars, Synced!viewVars
  <2>2. /\ edition' \in [Projects -> 0 .. MaxEdition]
        /\ syncs' \in [Synced!Slots -> [of : Projects \cup {None}, days : Ranges]]
        /\ \A r \in Synced!Syncing' : syncs'[r].of \in Projects
    BY <2>1, SyncEnded
  <2>3. Synced!Fetching' = Synced!Fetching
    BY <2>1 DEF Synced!Fetching
  <2>4. crossed' \in BOOLEAN
    BY <2>1, SyncedTypes
  <2>5. Synced!SyncedTypeOK'
    BY <2>1, <2>2, <2>4 DEF SyncedInv, Synced!SyncedTypeOK
  <2>6. SyncsInv'
    BY <2>1, <2>2, <2>3 DEF SyncedInv, SyncsInv
  <2>7. AloneInv'
    <3> SUFFICES ASSUME ~crossed' PROVE AloneInv'
      BY DEF AloneInv
    <3>1. ~crossed /\ edition' = edition
      BY <2>1
    <3> QED BY <2>1, <2>3, <3>1 DEF SyncedInv, AloneInv
  <2> QED BY <2>5, <2>6, <2>7 DEF SyncedInv
<1> QED BY <1>1, <1>2, <1>3, <1>4

LEMMA SyncedStepInv == SyncedInv /\ Synced!SyncedNext => SyncedInv'
BY SitesLandInv, DataAnsweredInv, FetchEndsInv, FetchBeginsInv, SyncedActInv
   DEF Synced!SyncedNext

-----------------------------------------------------------------------------
(* Keyword research and the site explorer.                                 *)

LEMMA SeoBounds ==
    /\ DomainSeed \in Seo!Seeds /\ \A s \in Seo!Seeds : SuggestionsOf[s] \in SUBSET Words
    /\ None \notin Seo!Seeds /\ None \notin Seo!Audits
    /\ MaxSeedRows \in Nat /\ 1 <= MaxSeedRows /\ MaxAudits \in Nat /\ 1 <= MaxAudits
    /\ MaxGenerated \in Nat
<1>1. Seo!SeoAssumption
  BY PagesAssumption DEF PagesAssumption
<1>2. /\ DomainSeed \in Seo!Seeds /\ SuggestionsOf \in [Seo!Seeds -> SUBSET Words]
      /\ None \notin Seo!Seeds /\ None \notin Seo!Audits /\ MaxGenerated \in Nat
  BY <1>1 DEF Seo!SeoAssumption, Seo!Audits
<1>3. MaxSeedRows \in Nat \ {0} /\ MaxAudits \in Nat \ {0}
  BY <1>1 DEF Seo!SeoAssumption
<1> QED BY <1>2, <1>3

\* Requests are of seeds there are; no seed is stored twice; what was gained is listed.
SeedsInv ==
    /\ seoListing => get.at # "idle"
    /\ generating => post.at # "idle"
    /\ get.at \in {"sent", "missed"} => get.seed \in Seo!Seeds
    /\ post.at \in {"sent", "missed"} => post.seed \in Seo!Seeds
    /\ ~raced =>
          /\ \A s \in Seo!Seeds : seoStored[s].old \/ seoStored[s].copies <= 1
          /\ \A w \in Words : keywords[w] <= 1 /\ get.answer[w] <= 1 /\ post.answer[w] <= 1
    /\ ~overwritten => \A w \in gained : keywords[w] > 0

\* The explorer is loaded before it audits, and is as far as its calls are.
ExplorerInv ==
    /\ exploring <=> survey # "idle"
    /\ running <=> crawl # "idle"
    /\ survey # "idle" => crawl = "idle" /\ auditResult = Seo!NoResult
    /\ survey \in {"issues", "status"} => row = audits
    /\ survey = "status" => issues = audits
    /\ crawl = "run" => auditResult = Seo!NoResult
    /\ crawl = "issues" => auditResult = [of |-> audits, checks |-> TRUE]
    /\ tool = "explorer" /\ survey = "idle" /\ ~unread =>
          /\ crawl # "issues" => issues = audits
          /\ crawl = "idle" => Seo!Score = audits

SeoInv == Seo!SeoTypeOK /\ SeedsInv /\ ExplorerInv

LEMMA SeoTypes ==
    ASSUME SeoInv
    PROVE  /\ tool \in {"keywords", "explorer"}
           /\ seoStored \in [Seo!Seeds -> [copies : 0 .. MaxSeedRows, old : BOOLEAN]]
           /\ keywords \in Seo!Counts /\ seed \in Seo!Seeds \cup {None} /\ filter \in Seo!Filters
           /\ get \in Seo!Request /\ post \in Seo!Request
           /\ generated \in 0 .. MaxGenerated /\ gained \subseteq Words
           /\ seoListing \in BOOLEAN /\ seoReady \in BOOLEAN /\ generating \in BOOLEAN
           /\ overwritten \in BOOLEAN /\ raced \in BOOLEAN /\ exploring \in BOOLEAN
           /\ running \in BOOLEAN /\ unread \in BOOLEAN
           /\ audits \in Seo!Audits /\ issues \in Seo!Audits /\ row \in Seo!Audits \cup {None}
           /\ auditResult \in [of : Seo!Audits, checks : BOOLEAN] \cup {Seo!NoResult}
           /\ activeTab \in {"checks", "issues"}
           /\ survey \in {"idle", "projects", "issues", "status"}
           /\ crawl \in {"idle", "run", "issues"}
BY DEF SeoInv, Seo!SeoTypeOK

LEMMA SeoPromises ==
    ASSUME SeoInv
    PROVE  /\ Seo!SeoTypeOK /\ Seo!KeywordsListedOnce /\ Seo!GeneratedStays
           /\ Seo!ExplorerIsCurrent /\ Seo!SeoSpinnerHasCause
<1>1. Seo!SeoTypeOK /\ Seo!SeoSpinnerHasCause
  BY DEF SeoInv, SeedsInv, ExplorerInv, Seo!SeoSpinnerHasCause
<1>2. Seo!KeywordsListedOnce /\ Seo!GeneratedStays
  BY DEF SeoInv, SeedsInv, Seo!KeywordsListedOnce, Seo!GeneratedStays
<1>3. Seo!ExplorerIsCurrent
  BY DEF SeoInv, ExplorerInv, Seo!ExplorerIsCurrent
<1> QED BY <1>1, <1>2, <1>3

LEMMA SeoFacts ==
    /\ Seo!NoRequest \in Seo!Request /\ Seo!NoRequest.at = "idle"
    /\ Seo!NoRequest.answer = Seo!Nothing
    /\ Seo!Nothing \in Seo!Counts /\ \A w \in Words : Seo!Nothing[w] = 0
    /\ \A s \in Seo!Seeds, n \in 0 .. MaxSeedRows :
          /\ Seo!Suggested(s, n) \in Seo!Counts
          /\ n <= 1 => \A w \in Words : Seo!Suggested(s, n)[w] <= 1
<1>1. 0 \in 0 .. MaxSeedRows
  BY SeoBounds
<1>2. Seo!Nothing \in Seo!Counts /\ \A w \in Words : Seo!Nothing[w] = 0
  BY <1>1 DEF Seo!Nothing, Seo!Counts
<1>3. /\ Seo!NoRequest \in Seo!Request /\ Seo!NoRequest.at = "idle"
      /\ Seo!NoRequest.answer = Seo!Nothing
  BY <1>2 DEF Seo!NoRequest, Seo!Request
<1>4. ASSUME NEW s \in Seo!Seeds, NEW n \in 0 .. MaxSeedRows
      PROVE  /\ Seo!Suggested(s, n) \in Seo!Counts
             /\ n <= 1 => \A w \in Words : Seo!Suggested(s, n)[w] <= 1
  BY <1>1 DEF Seo!Suggested, Seo!Counts
<1> QED BY <1>2, <1>3, <1>4

LEMMA SeoInit == Seo!SeoInit => SeoInv
<1> SUFFICES ASSUME Seo!SeoInit PROVE SeoInv
  OBVIOUS
<1>1. /\ tool \in {"keywords", "explorer"}
      /\ seoStored \in [Seo!Seeds -> [copies : 0 .. 1, old : BOOLEAN]]
      /\ keywords = Seo!Nothing /\ seed = None /\ filter = "all" /\ seoReady = FALSE
      /\ seoListing = (tool = "keywords") /\ generating = FALSE /\ post = Seo!NoRequest
      /\ get = IF seoListing THEN [Seo!NoRequest EXCEPT !.at = "projects"] ELSE Seo!NoRequest
      /\ generated = 0 /\ gained = {} /\ overwritten = FALSE /\ raced = FALSE
      /\ audits \in {0, 1} /\ row = None /\ auditResult = Seo!NoResult /\ issues = 0
      /\ activeTab = "checks" /\ exploring = (tool = "explorer") /\ running = FALSE
      /\ survey = (IF exploring THEN "projects" ELSE "idle") /\ crawl = "idle" /\ unread = FALSE
  BY DEF Seo!SeoInit
<1>2. /\ [Seo!NoRequest EXCEPT !.at = "projects"] \in Seo!Request
      /\ [Seo!NoRequest EXCEPT !.at = "projects"].answer = Seo!Nothing
      /\ [Seo!NoRequest EXCEPT !.at = "projects"].at = "projects"
  BY SeoFacts DEF Seo!Request
<1>3. /\ get \in Seo!Request /\ get.answer = Seo!Nothing
      /\ seoListing => get.at # "idle"
      /\ get.at \notin {"sent", "missed"}
  BY <1>1, <1>2, SeoFacts
<1>4. /\ seoStored \in [Seo!Seeds -> [copies : 0 .. MaxSeedRows, old : BOOLEAN]]
      /\ \A s \in Seo!Seeds : seoStored[s].copies <= 1
  <2>1. \A n \in 0 .. 1 : n \in 0 .. MaxSeedRows /\ n <= 1
    BY SeoBounds
  <2> QED BY <1>1, <2>1
<1>5. audits \in Seo!Audits /\ issues \in Seo!Audits /\ generated \in 0 .. MaxGenerated
  <2>1. 0 \in Seo!Audits /\ 1 \in Seo!Audits /\ 0 \in 0 .. MaxGenerated
    BY SeoBounds DEF Seo!Audits
  <2> QED BY <1>1, <2>1
<1>6. exploring \in BOOLEAN /\ seoListing \in BOOLEAN /\ (exploring <=> survey # "idle")
      /\ survey \in {"idle", "projects"} /\ (survey = "idle" => tool # "explorer")
  BY <1>1
<1>7. Seo!SeoTypeOK
  <2>1. {seoListing, seoReady, generating, overwritten, raced, exploring, running, unread}
            \subseteq BOOLEAN
    BY <1>1, <1>6
  <2>2. {get, post} \subseteq Seo!Request /\ {audits, issues} \subseteq Seo!Audits
    BY <1>1, <1>3, <1>5, SeoFacts
  <2>3. keywords \in Seo!Counts /\ filter \in Seo!Filters
    BY <1>1, SeoFacts DEF Seo!Filters
  <2> QED BY <1>1, <1>4, <1>5, <1>6, <2>1, <2>2, <2>3 DEF Seo!SeoTypeOK
<1>8. SeedsInv
  BY <1>1, <1>3, <1>4, SeoFacts DEF SeedsInv
<1>9. ExplorerInv
  BY <1>1, <1>6 DEF ExplorerInv
<1> QED BY <1>7, <1>8, <1>9 DEF SeoInv

LEMMA SeoStays == SeoInv /\ UNCHANGED SeoVars => SeoInv'
BY DEF SeoVars, SeoInv, SeedsInv, ExplorerInv, Seo!SeoTypeOK, Seo!Score

\* A request as the API moves it, and the rows it may store.
Answered(request, next) ==
    /\ \/ request.at = "sent" /\ next = Seo!FindKeywords(request) /\ UNCHANGED <<seoStored, raced>>
       \/ /\ request.at = "missed" /\ Seo!Resolved(request)
          /\ next = [request EXCEPT !.at = "answered", !.answer = Seo!Suggested(request.seed, 1)]
       \/ /\ request.at = "missed" /\ UNCHANGED <<seoStored, raced>>
          /\ next = [request EXCEPT !.at = "answered"]

LEMMA RequestAnswered ==
    ASSUME SeoInv, NEW request \in Seo!Request, NEW next, Answered(request, next),
           request.seed \in Seo!Seeds,
           ~raced => \A w \in Words : request.answer[w] <= 1
    PROVE  /\ next \in Seo!Request /\ next.at \in {"missed", "answered"}
           /\ next.seed = request.seed
           /\ seoStored' \in [Seo!Seeds -> [copies : 0 .. MaxSeedRows, old : BOOLEAN]]
           /\ raced' \in BOOLEAN /\ (raced => raced')
           /\ ~raced' => /\ \A s \in Seo!Seeds : seoStored'[s].old \/ seoStored'[s].copies <= 1
                         /\ \A w \in Words : next.answer[w] <= 1
<1> DEFINE k == request.seed
<1>0. /\ seoStored[k] \in [copies : 0 .. MaxSeedRows, old : BOOLEAN]
      /\ ~raced => \A s \in Seo!Seeds : seoStored[s].old \/ seoStored[s].copies <= 1
  BY SeoTypes DEF SeoInv, SeedsInv
<1>1. CASE request.at = "sent" /\ next = Seo!FindKeywords(request) /\ UNCHANGED <<seoStored, raced>>
  <2>1. CASE seoStored[k].copies > 0 /\ ~seoStored[k].old
    <3> DEFINE answer == Seo!Suggested(k, seoStored[k].copies)
    <3>1. next = [request EXCEPT !.at = "answered", !.answer = answer]
      BY <1>1, <2>1 DEF Seo!FindKeywords
    <3>2. answer \in Seo!Counts /\ (~raced => \A w \in Words : answer[w] <= 1)
      BY <1>0, <2>1, SeoFacts
    <3> HIDE DEF answer
    <3>3. next \in Seo!Request /\ next.at = "answered" /\ next.seed = k /\ next.answer = answer
      BY <3>1, <3>2 DEF Seo!Request
    <3> QED BY <1>0, <1>1, <3>2, <3>3, SeoTypes
  <2>2. CASE ~(seoStored[k].copies > 0 /\ ~seoStored[k].old)
    <3>1. next = [request EXCEPT !.at = "missed"]
      BY <1>1, <2>2 DEF Seo!FindKeywords
    <3>2. /\ next \in Seo!Request /\ next.at = "missed" /\ next.seed = k
          /\ next.answer = request.answer
      BY <3>1 DEF Seo!Request
    <3> QED BY <1>0, <1>1, <3>2, SeoTypes
  <2> QED BY <2>1, <2>2
<1>2. CASE /\ request.at = "missed" /\ Seo!Resolved(request)
           /\ next = [request EXCEPT !.at = "answered", !.answer = Seo!Suggested(k, 1)]
  <2> DEFINE answer == Seo!Suggested(k, 1)
  <2>1. answer \in Seo!Counts /\ \A w \in Words : answer[w] <= 1
    <3>1. 1 \in 0 .. MaxSeedRows
      BY SeoBounds
    <3> QED BY <3>1, SeoFacts
  <2>2. next = [request EXCEPT !.at = "answered", !.answer = answer]
    BY <1>2
  <2> HIDE DEF answer
  <2>3. next \in Seo!Request /\ next.at = "answered" /\ next.seed = k /\ next.answer = answer
    BY <2>1, <2>2 DEF Seo!Request
  <2>4. CASE UNCHANGED <<seoStored, raced>>
    BY <1>0, <2>1, <2>3, <2>4, SeoTypes
  <2>5. CASE /\ seoStored[k].copies < MaxSeedRows
             /\ seoStored' = [seoStored EXCEPT ![k].copies = @ + 1]
             /\ raced' = (raced \/ (seoStored[k].copies > 0 /\ ~seoStored[k].old))
    <3> DEFINE added == [seoStored[k] EXCEPT !.copies = @ + 1]
    <3>1. seoStored' = [seoStored EXCEPT ![k] = added]
      BY <2>5, SeoTypes
    <3>2. /\ added \in [copies : 0 .. MaxSeedRows, old : BOOLEAN]
          /\ added.copies = seoStored[k].copies + 1 /\ added.old = seoStored[k].old
      <4>1. seoStored[k].copies \in 0 .. MaxSeedRows /\ MaxSeedRows \in Nat
        BY <1>0, SeoBounds
      <4>2. seoStored[k].copies + 1 \in 0 .. MaxSeedRows
        BY <2>5, <4>1
      <4> QED BY <1>0, <4>2
    <3> HIDE DEF added
    <3>3. /\ seoStored' \in [Seo!Seeds -> [copies : 0 .. MaxSeedRows, old : BOOLEAN]]
          /\ seoStored'[k] = added /\ \A s \in Seo!Seeds : s # k => seoStored'[s] = seoStored[s]
      BY <3>1, <3>2, SeoTypes
    <3>4. raced' \in BOOLEAN /\ (raced => raced')
      BY <2>5, SeoTypes
    <3>5. ~raced' => added.old \/ added.copies <= 1
      <4>1. seoStored[k].copies \in Nat /\ raced \in BOOLEAN
        BY <1>0, SeoTypes, SeoBounds
      <4>2. ASSUME ~raced', ~added.old PROVE added.copies <= 1
        <5>1. ~(seoStored[k].copies > 0)
          BY <2>5, <3>2, <4>2
        <5> QED BY <3>2, <4>1, <5>1
      <4> QED BY <4>2
    <3> QED BY <1>0, <2>1, <2>3, <3>3, <3>4, <3>5
  <2> QED BY <1>2, <2>4, <2>5 DEF Seo!Resolved
<1>3. CASE /\ request.at = "missed" /\ UNCHANGED <<seoStored, raced>>
           /\ next = [request EXCEPT !.at = "answered"]
  <2>1. /\ next \in Seo!Request /\ next.at = "answered" /\ next.seed = k
        /\ next.answer = request.answer
    BY <1>3 DEF Seo!Request
  <2> QED BY <1>0, <1>3, <2>1, SeoTypes
<1> QED BY <1>1, <1>2, <1>3 DEF Answered

\* The keywords' rows and requests.
LEMMA SeoKeywordsInv ==
    ASSUME SeoInv,
           \/ \E s \in Seo!Seeds : Seo!Expire(s) \/ Seo!setSeed(s)
           \/ Seo!KeywordProjectsLand \/ Seo!KeywordsLand
           \/ \E f \in Seo!Filters : Seo!setFilter(f)
           \/ Seo!handleGenerate \/ Seo!Merge \/ Seo!GenerateFails
    PROVE  SeoInv'
<1>1. UNCHANGED <<tool, audits, row, auditResult, issues, activeTab, exploring, running, survey,
                  crawl, unread, raced>>
  BY DEF Seo!Expire, Seo!setSeed, Seo!KeywordProjectsLand, Seo!KeywordsLand, Seo!setFilter,
         Seo!handleGenerate, Seo!Merge, Seo!GenerateFails, Seo!explorerVars
<1>2. ExplorerInv'
  BY <1>1 DEF SeoInv, ExplorerInv, Seo!Score
<1>3. ASSUME NEW s \in Seo!Seeds, Seo!Expire(s) PROVE SeoInv'
  <2> DEFINE older == [seoStored[s] EXCEPT !.old = TRUE]
  <2>1. /\ seoStored' = [seoStored EXCEPT ![s] = older]
        /\ UNCHANGED <<keywords, seed, filter, seoListing, seoReady, generating, get, post,
                       generated, gained, overwritten>>
    BY <1>3, SeoTypes DEF Seo!Expire
  <2>2. older \in [copies : 0 .. MaxSeedRows, old : BOOLEAN] /\ older.old = TRUE
    BY SeoTypes
  <2> HIDE DEF older
  <2>3. /\ seoStored' \in [Seo!Seeds -> [copies : 0 .. MaxSeedRows, old : BOOLEAN]]
        /\ seoStored'[s] = older /\ \A r \in Seo!Seeds : r # s => seoStored'[r] = seoStored[r]
    BY <2>1, <2>2, SeoTypes
  <2>4. Seo!SeoTypeOK'
    BY <1>1, <2>1, <2>3 DEF SeoInv, Seo!SeoTypeOK
  <2>5. SeedsInv'
    BY <1>1, <2>1, <2>2, <2>3 DEF SeoInv, SeedsInv
  <2> QED BY <1>2, <2>4, <2>5 DEF SeoInv
<1>4. ASSUME NEW s \in Seo!Seeds, Seo!setSeed(s) PROVE SeoInv'
  <2>1. /\ seed' = s
        /\ UNCHANGED <<seoStored, keywords, filter, seoListing, seoReady, generating, get, post,
                       generated, gained, overwritten>>
    BY <1>4 DEF Seo!setSeed
  <2>2. Seo!SeoTypeOK' /\ SeedsInv'
    BY <1>1, <2>1 DEF SeoInv, Seo!SeoTypeOK, SeedsInv
  <2> QED BY <1>2, <2>2 DEF SeoInv
<1>5. CASE Seo!KeywordProjectsLand
  <2>1. /\ get.at = "projects" /\ seoReady' = TRUE
        /\ get' = [get EXCEPT !.at = "sent", !.seed = DomainSeed]
        /\ UNCHANGED <<seoStored, keywords, seed, filter, seoListing, generating, post, generated,
                       gained, overwritten>>
    BY <1>5 DEF Seo!KeywordProjectsLand
  <2>2. /\ get' \in Seo!Request /\ get'.at = "sent" /\ get'.seed \in Seo!Seeds
        /\ get'.answer = get.answer
    BY <2>1, SeoTypes, SeoBounds DEF Seo!Request
  <2>3. Seo!SeoTypeOK'
    <3>1. {get, post}' \subseteq Seo!Request
      BY <2>1, <2>2, SeoTypes
    <3> QED BY <1>1, <2>1, <3>1 DEF SeoInv, Seo!SeoTypeOK
  <2>4. SeedsInv'
    BY <1>1, <2>1, <2>2 DEF SeoInv, SeedsInv
  <2> QED BY <1>2, <2>3, <2>4 DEF SeoInv
<1>6. CASE Seo!KeywordsLand
  <2>1. /\ \/ get.at = "answered" /\ keywords' = get.answer /\ overwritten' = (gained # {})
           \/ UNCHANGED <<keywords, overwritten>>
        /\ get' = Seo!NoRequest /\ seoListing' = FALSE
        /\ UNCHANGED <<seoStored, seed, filter, seoReady, generating, post, generated, gained>>
    BY <1>6 DEF Seo!KeywordsLand
  <2>2. /\ get' \in Seo!Request /\ get'.at = "idle" /\ \A w \in Words : get'.answer[w] <= 1
    BY <2>1, SeoFacts
  <2>3. /\ keywords' \in Seo!Counts /\ overwritten' \in BOOLEAN
        /\ ~raced => \A w \in Words : keywords'[w] <= 1
        /\ ~overwritten' => \A w \in gained : keywords'[w] > 0
    <3>1. get.answer \in Seo!Counts
      BY SeoTypes DEF Seo!Request
    <3> QED BY <2>1, <3>1, SeoTypes DEF SeoInv, SeedsInv
  <2>4. Seo!SeoTypeOK'
    <3>1. {get, post}' \subseteq Seo!Request
      BY <2>1, <2>2, SeoTypes
    <3> QED BY <1>1, <2>1, <2>3, <3>1 DEF SeoInv, Seo!SeoTypeOK
  <2>5. SeedsInv'
    BY <1>1, <2>1, <2>2, <2>3 DEF SeoInv, SeedsInv
  <2> QED BY <1>2, <2>4, <2>5 DEF SeoInv
<1>7. ASSUME NEW f \in Seo!Filters, Seo!setFilter(f) PROVE SeoInv'
  <2>1. /\ filter' = f
        /\ UNCHANGED <<seoStored, keywords, seed, seoListing, seoReady, generating, get, post,
                       generated, gained, overwritten>>
    BY <1>7 DEF Seo!setFilter
  <2>2. Seo!SeoTypeOK' /\ SeedsInv'
    BY <1>1, <2>1 DEF SeoInv, Seo!SeoTypeOK, SeedsInv
  <2> QED BY <1>2, <2>2 DEF SeoInv
<1>8. CASE Seo!handleGenerate
  <2>1. /\ seed # None /\ generated < MaxGenerated /\ generated' = generated + 1
        /\ generating' = TRUE
        /\ post' = [Seo!NoRequest EXCEPT !.at = "sent", !.seed = seed]
        /\ UNCHANGED <<seoStored, keywords, seed, filter, seoListing, seoReady, get, gained,
                       overwritten>>
    BY <1>8 DEF Seo!handleGenerate, Seo!GenerateOpen
  <2>2. /\ post' \in Seo!Request /\ post'.at = "sent" /\ post'.seed \in Seo!Seeds
        /\ \A w \in Words : post'.answer[w] <= 1
    <3>1. seed \in Seo!Seeds
      BY <2>1, SeoTypes
    <3>2. /\ post' \in Seo!Request /\ post'.at = "sent" /\ post'.seed = seed
          /\ post'.answer = Seo!Nothing
      BY <2>1, <3>1, SeoFacts DEF Seo!Request
    <3> QED BY <3>1, <3>2, SeoFacts
  <2>3. generated' \in 0 .. MaxGenerated
    BY <2>1, SeoTypes, SeoBounds
  <2>4. Seo!SeoTypeOK'
    <3>1. {get, post}' \subseteq Seo!Request
      BY <2>1, <2>2, SeoTypes
    <3> QED BY <1>1, <2>1, <2>3, <3>1 DEF SeoInv, Seo!SeoTypeOK
  <2>5. SeedsInv'
    BY <1>1, <2>1, <2>2 DEF SeoInv, SeedsInv
  <2> QED BY <1>2, <2>4, <2>5 DEF SeoInv
<1>9. CASE Seo!Merge
  <2>1. /\ post.at = "answered"
        /\ keywords' = [w \in Words |-> IF keywords[w] > 0 THEN keywords[w] ELSE post.answer[w]]
        /\ gained' = gained \cup {w \in Words : post.answer[w] > 0}
        /\ seed' = None /\ post' = Seo!NoRequest /\ generating' = FALSE
        /\ UNCHANGED <<seoStored, filter, seoListing, seoReady, get, generated, overwritten>>
    BY <1>9 DEF Seo!Merge
  <2>2. /\ post' \in Seo!Request /\ post'.at = "idle" /\ \A w \in Words : post'.answer[w] <= 1
    BY <2>1, SeoFacts
  <2>3. post.answer \in Seo!Counts /\ gained \subseteq Words /\ keywords \in Seo!Counts
    BY SeoTypes DEF Seo!Request
  <2>4. /\ keywords' \in Seo!Counts /\ gained' \subseteq Words
        /\ ~raced => \A w \in Words : keywords'[w] <= 1
        /\ ~overwritten => \A w \in gained' : keywords'[w] > 0
    BY <2>1, <2>3 DEF SeoInv, SeedsInv, Seo!Counts
  <2>5. Seo!SeoTypeOK'
    <3>1. {get, post}' \subseteq Seo!Request
      BY <2>1, <2>2, SeoTypes
    <3> QED BY <1>1, <2>1, <2>4, <3>1 DEF SeoInv, Seo!SeoTypeOK
  <2>6. SeedsInv'
    BY <1>1, <2>1, <2>2, <2>4 DEF SeoInv, SeedsInv
  <2> QED BY <1>2, <2>5, <2>6 DEF SeoInv
<1>10. CASE Seo!GenerateFails
  <2>1. /\ post' = Seo!NoRequest /\ generating' = FALSE
        /\ UNCHANGED <<seoStored, keywords, seed, filter, seoListing, seoReady, get, generated,
                       gained, overwritten>>
    BY <1>10 DEF Seo!GenerateFails
  <2>2. /\ post' \in Seo!Request /\ post'.at = "idle" /\ \A w \in Words : post'.answer[w] <= 1
    BY <2>1, SeoFacts
  <2>3. Seo!SeoTypeOK'
    <3>1. {get, post}' \subseteq Seo!Request
      BY <2>1, <2>2, SeoTypes
    <3> QED BY <1>1, <2>1, <3>1 DEF SeoInv, Seo!SeoTypeOK
  <2>4. SeedsInv'
    BY <1>1, <2>1, <2>2 DEF SeoInv, SeedsInv
  <2> QED BY <1>2, <2>3, <2>4 DEF SeoInv
<1> QED BY <1>3, <1>4, <1>5, <1>6, <1>7, <1>8, <1>9, <1>10

\* The API answers.
LEMMA SeoAnswersInv ==
    ASSUME SeoInv, Seo!Keywords \/ Seo!KeywordsPost
    PROVE  SeoInv'
<1>1. UNCHANGED <<tool, audits, row, auditResult, issues, activeTab, exploring, running, survey,
                  crawl, unread, keywords, seed, filter, seoListing, seoReady, generating,
                  generated, gained, overwritten>>
  BY DEF Seo!Keywords, Seo!KeywordsPost, Seo!explorerVars
<1>2. ExplorerInv'
  BY <1>1 DEF SeoInv, ExplorerInv, Seo!Score
<1>3. ASSUME NEW r \in {get, post}, NEW next, Answered(r, next),
             \/ r = get /\ get' = next /\ post' = post
             \/ r = post /\ post' = next /\ get' = get
      PROVE  SeoInv'
  <2>1. r \in Seo!Request /\ r.seed \in Seo!Seeds /\ (~raced => \A w \in Words : r.answer[w] <= 1)
    BY <1>3, SeoTypes DEF Answered, SeoInv, SeedsInv
  <2>2. /\ next \in Seo!Request /\ next.at \in {"missed", "answered"}
        /\ next.seed = r.seed
        /\ seoStored' \in [Seo!Seeds -> [copies : 0 .. MaxSeedRows, old : BOOLEAN]]
        /\ raced' \in BOOLEAN /\ (raced => raced')
        /\ ~raced' => /\ \A s \in Seo!Seeds : seoStored'[s].old \/ seoStored'[s].copies <= 1
                      /\ \A w \in Words : next.answer[w] <= 1
    BY <1>3, <2>1, RequestAnswered
  <2>3. /\ get' \in Seo!Request /\ post' \in Seo!Request
        /\ get.at # "idle" => get'.at # "idle"
        /\ post.at # "idle" => post'.at # "idle"
        /\ get'.at \in {"sent", "missed"} => get'.seed \in Seo!Seeds
        /\ post'.at \in {"sent", "missed"} => post'.seed \in Seo!Seeds
    BY <1>3, <2>1, <2>2, SeoTypes DEF SeoInv, SeedsInv
  <2>4. ~raced' => \A w \in Words : get'.answer[w] <= 1 /\ post'.answer[w] <= 1
    BY <1>3, <2>2 DEF SeoInv, SeedsInv
  <2>5. Seo!SeoTypeOK'
    <3>1. {get, post}' \subseteq Seo!Request
      BY <2>3
    <3>2. {seoListing, seoReady, generating, overwritten, raced, exploring, running, unread}'
              \subseteq BOOLEAN
      BY <1>1, <2>2, SeoTypes
    <3> QED BY <1>1, <2>2, <3>1, <3>2 DEF SeoInv, Seo!SeoTypeOK
  <2>6. SeedsInv'
    BY <1>1, <2>2, <2>3, <2>4 DEF SeoInv, SeedsInv
  <2> QED BY <1>2, <2>5, <2>6 DEF SeoInv
<1>4. CASE Seo!Keywords
  <2>1. Answered(get, get') /\ post' = post
    BY <1>4 DEF Seo!Keywords, Answered
  <2> QED BY <1>3, <2>1
<1>5. CASE Seo!KeywordsPost
  <2>1. Answered(post, post') /\ get' = get
    BY <1>5 DEF Seo!KeywordsPost, Answered
  <2> QED BY <1>3, <2>1
<1> QED BY <1>4, <1>5

\* The explorer loads, and audits.
LEMMA SeoExplorerInv ==
    ASSUME SeoInv,
           \/ Seo!LoadExplorer \/ Seo!LoadFails
           \/ \E tab \in {"checks", "issues"} : Seo!setActiveTab(tab)
           \/ Seo!handleRunAudit \/ Seo!AuditLands \/ Seo!IssuesReload \/ Seo!AuditFails
    PROVE  SeoInv'
<1>1. UNCHANGED <<tool, seoStored, keywords, seed, filter, seoListing, seoReady, generating, get,
                  post, generated, gained, overwritten, raced>>
  BY DEF Seo!LoadExplorer, Seo!LoadFails, Seo!setActiveTab, Seo!handleRunAudit, Seo!AuditLands,
         Seo!IssuesReload, Seo!AuditFails, Seo!keywordVars
<1>2. SeedsInv'
  BY <1>1 DEF SeoInv, SeedsInv
<1>3. /\ audits \in Seo!Audits /\ issues \in Seo!Audits /\ row \in Seo!Audits \cup {None}
      /\ auditResult \in [of : Seo!Audits, checks : BOOLEAN] \cup {Seo!NoResult}
      /\ exploring \in BOOLEAN /\ running \in BOOLEAN /\ unread \in BOOLEAN
      /\ activeTab \in {"checks", "issues"}
      /\ survey \in {"idle", "projects", "issues", "status"} /\ crawl \in {"idle", "run", "issues"}
  BY SeoTypes
<1>4. ASSUME /\ audits' \in Seo!Audits /\ issues' \in Seo!Audits /\ row' \in Seo!Audits \cup {None}
             /\ auditResult' \in [of : Seo!Audits, checks : BOOLEAN] \cup {Seo!NoResult}
             /\ exploring' \in BOOLEAN /\ running' \in BOOLEAN /\ unread' \in BOOLEAN
             /\ activeTab' \in {"checks", "issues"}
             /\ survey' \in {"idle", "projects", "issues", "status"}
             /\ crawl' \in {"idle", "run", "issues"},
             ExplorerInv'
      PROVE  SeoInv'
  <2>1. {seoListing, seoReady, generating, overwritten, raced, exploring, running, unread}'
            \subseteq BOOLEAN
    BY <1>1, <1>4, SeoTypes
  <2>2. Seo!SeoTypeOK'
    BY <1>1, <1>4, <2>1 DEF SeoInv, Seo!SeoTypeOK
  <2> QED BY <1>2, <1>4, <2>2 DEF SeoInv
<1>5. None \notin Seo!Audits /\ Seo!NoResult = [of |-> None, checks |-> FALSE]
  BY SeoBounds DEF Seo!NoResult
<1>6. CASE Seo!LoadExplorer
  <2>1. UNCHANGED <<audits, activeTab, running, crawl, unread>> /\ Seo!Surveyed
    BY <1>6 DEF Seo!LoadExplorer
  <2>2. CASE /\ survey = "projects" /\ row' = audits /\ survey' = "issues"
             /\ UNCHANGED <<auditResult, issues, exploring>>
    <3>1. ExplorerInv'
      BY <2>1, <2>2 DEF SeoInv, ExplorerInv, Seo!Score
    <3> QED BY <1>3, <1>4, <2>1, <2>2, <3>1
  <2>3. CASE /\ survey = "issues" /\ issues' = audits /\ survey' = "status"
             /\ UNCHANGED <<row, auditResult, exploring>>
    <3>1. ExplorerInv'
      BY <2>1, <2>3 DEF SeoInv, ExplorerInv, Seo!Score
    <3> QED BY <1>3, <1>4, <2>1, <2>3, <3>1
  <2>4. CASE /\ survey = "status" /\ auditResult' = [of |-> audits, checks |-> FALSE]
             /\ survey' = "idle" /\ exploring' = FALSE /\ UNCHANGED <<row, issues>>
    <3>1. auditResult' \in [of : Seo!Audits, checks : BOOLEAN] /\ auditResult'.of = audits
      BY <1>3, <2>4
    <3>2. auditResult' # Seo!NoResult
      BY <1>3, <1>5, <3>1
    <3>3. ExplorerInv'
      BY <1>3, <2>1, <2>4, <3>1, <3>2 DEF SeoInv, ExplorerInv, Seo!Score
    <3> QED BY <1>3, <1>4, <2>1, <2>4, <3>1, <3>3
  <2> QED BY <2>1, <2>2, <2>3, <2>4 DEF Seo!Surveyed
<1>7. CASE Seo!LoadFails
  <2>1. /\ survey # "idle" /\ survey' = "idle" /\ exploring' = FALSE
        /\ unread' = (survey # "status")
        /\ UNCHANGED <<audits, row, auditResult, issues, activeTab, running, crawl>>
    BY <1>7 DEF Seo!LoadFails
  <2>2. ExplorerInv'
    <3>1. survey = "status" => row = audits /\ issues = audits /\ row # None
      BY <1>3, <1>5 DEF SeoInv, ExplorerInv
    <3> QED BY <2>1, <3>1 DEF SeoInv, ExplorerInv, Seo!Score
  <2> QED BY <1>3, <1>4, <2>1, <2>2
<1>8. ASSUME NEW tab \in {"checks", "issues"}, Seo!setActiveTab(tab) PROVE SeoInv'
  <2>1. /\ activeTab' = tab
        /\ UNCHANGED <<audits, row, auditResult, issues, exploring, running, survey, crawl, unread>>
    BY <1>8 DEF Seo!setActiveTab
  <2>2. ExplorerInv'
    BY <1>1, <2>1 DEF SeoInv, ExplorerInv, Seo!Score
  <2> QED BY <1>3, <1>4, <2>1, <2>2
<1>9. CASE Seo!handleRunAudit
  <2>1. /\ ~exploring /\ ~running /\ running' = TRUE /\ auditResult' = Seo!NoResult
        /\ crawl' = "run"
        /\ UNCHANGED <<audits, row, issues, activeTab, exploring, survey, unread>>
    BY <1>9 DEF Seo!handleRunAudit
  <2>2. ExplorerInv'
    BY <1>1, <2>1 DEF SeoInv, ExplorerInv, Seo!Score
  <2> QED BY <1>3, <1>4, <2>1, <2>2
<1>10. CASE Seo!AuditLands
  <2>1. /\ crawl = "run" /\ audits < MaxAudits /\ audits' = audits + 1
        /\ auditResult' = [of |-> audits', checks |-> TRUE] /\ crawl' = "issues"
        /\ UNCHANGED <<row, issues, activeTab, exploring, running, survey, unread>>
    BY <1>10 DEF Seo!AuditLands, Seo!AuditRun
  <2>2. audits' \in Seo!Audits
    BY <1>3, <2>1, SeoBounds DEF Seo!Audits
  <2>3. auditResult' \in [of : Seo!Audits, checks : BOOLEAN]
    BY <2>1, <2>2
  <2>4. ExplorerInv'
    <3>1. survey = "idle"
      BY <2>1 DEF SeoInv, ExplorerInv
    <3> QED BY <1>1, <2>1, <3>1 DEF SeoInv, ExplorerInv
  <2> QED BY <1>3, <1>4, <2>1, <2>2, <2>3, <2>4
<1>11. CASE Seo!IssuesReload
  <2>1. /\ crawl = "issues" /\ issues' = audits /\ activeTab' = "checks"
        /\ running' = FALSE /\ crawl' = "idle" /\ unread' = FALSE
        /\ UNCHANGED <<audits, row, auditResult, exploring, survey>>
    BY <1>11 DEF Seo!IssuesReload
  <2>2. auditResult = [of |-> audits, checks |-> TRUE] /\ survey = "idle"
    BY <2>1 DEF SeoInv, ExplorerInv
  <2>3. auditResult.of = audits /\ auditResult # Seo!NoResult
    <3>1. auditResult.checks # Seo!NoResult.checks
      BY <1>5, <2>2
    <3> QED BY <2>2, <3>1
  <2>4. ExplorerInv'
    BY <1>1, <2>1, <2>2, <2>3 DEF SeoInv, ExplorerInv, Seo!Score
  <2> QED BY <1>3, <1>4, <2>1, <2>4
<1>12. CASE Seo!AuditFails
  <2>1. /\ crawl # "idle" /\ running' = FALSE /\ crawl' = "idle"
        /\ \/ crawl = "run" /\ audits < MaxAudits /\ audits' = audits + 1
           \/ audits' = audits
        /\ unread' = \/ unread \/ audits' # audits
                      \/ crawl = "issues" \/ row # audits
        /\ UNCHANGED <<row, auditResult, issues, activeTab, exploring, survey>>
    BY <1>12 DEF Seo!AuditFails, Seo!AuditRun
  <2>2. audits' \in Seo!Audits /\ unread' \in BOOLEAN
    BY <1>3, <2>1, SeoBounds DEF Seo!Audits
  <2>3. ExplorerInv'
    <3>1. survey = "idle"
      BY <2>1 DEF SeoInv, ExplorerInv
    <3>2. ASSUME ~unread', tool = "explorer"
          PROVE  issues = audits' /\ auditResult = Seo!NoResult /\ row = audits' /\ row # None
      <4>1. ~unread /\ audits' = audits /\ crawl = "run" /\ row = audits
        BY <1>3, <2>1, <3>2
      <4> QED BY <1>3, <1>5, <3>1, <3>2, <4>1 DEF SeoInv, ExplorerInv
    <3>3. tool' = "explorer" /\ ~unread' => issues' = audits' /\ Seo!Score' = audits'
      BY <1>1, <2>1, <3>2 DEF Seo!Score
    <3> QED BY <1>1, <2>1, <3>1, <3>3 DEF SeoInv, ExplorerInv
  <2> QED BY <1>3, <1>4, <2>1, <2>2, <2>3
<1> QED BY <1>6, <1>7, <1>8, <1>9, <1>10, <1>11, <1>12

LEMMA SeoStepInv == SeoInv /\ Seo!SeoNext => SeoInv'
BY SeoKeywordsInv, SeoAnswersInv, SeoExplorerInv DEF Seo!SeoNext

-----------------------------------------------------------------------------
(* The chat, the generator and the automations.                            *)

LEMMA AiBounds ==
    /\ None \notin TaskIds /\ MaxTopics \in Nat /\ MaxCopies \in Nat
    /\ MaxFlips \in Nat /\ 1 <= MaxFlips
<1>1. Ai!AiAssumption
  BY PagesAssumption DEF PagesAssumption
<1>2. None \notin TaskIds /\ MaxTopics \in Nat /\ MaxCopies \in Nat /\ MaxFlips \in Nat \ {0}
  BY <1>1 DEF Ai!AiAssumption
<1> QED BY <1>2

\* A question and its answer, a question and its answer, and perhaps a question.
ChatInv ==
    /\ drafting <=> draft # Ai!NoDraft
    /\ \A i \in 1 .. Len(messages) : messages[i].role = IF i % 2 = 1 THEN "user" ELSE "bot"
    /\ \A i \in 1 .. Len(messages) : i % 2 = 0 => messages[i].topic = messages[i - 1].topic
    /\ desk = "chat" =>
          /\ drafting <=> Len(messages) % 2 = 1
          /\ drafting => messages[Len(messages)].topic = draft.topic

CopyInv == (copied # None => timers > 0) /\ timers <= copies

FlipsOf(f, j) == {e \in Ai!Slots : f[e] # Ai!NoFlip /\ f[e].of = j}
Fetched(a, m, j) == IF j \in m THEN Ai!Negated(a[j]) ELSE a[j]

\* A card that no fetch is about to set is as it was fetched, and flipped if it is being flipped.
JobsInv ==
    /\ gathering => Ai!Gathering # {}
    /\ \A f \in Ai!Flipping : flips[f].of \in TaskIds
    /\ desk = "automations" /\ Ai!Gathering = {} /\ ~mingled =>
          \A j \in TaskIds :
             /\ FlipsOf(flips, j) = {} => jobCards[j] = Fetched(jobs, misread, j)
             /\ \A f \in Ai!Slots :
                   FlipsOf(flips, j) = {f} =>
                      /\ jobCards[j] = Ai!Negated(Fetched(jobs, misread, j))
                      /\ flips[f].found # None => flips[f].found = jobs[j]

AiInv == Ai!AiTypeOK /\ ChatInv /\ CopyInv /\ JobsInv

GatherRun == [at : {"idle", "projects", "sent", "answered"}, answer : [TaskIds -> Ai!State]]
FlipRun == [of : TaskIds \cup {None}, found : Ai!State \cup {None}]
Asked == [topic : Ai!Topics, platform : Formats \cup {None}]

LEMMA AiTypes ==
    ASSUME AiInv
    PROVE  /\ desk \in {"chat", "content", "automations"}
           /\ hasProject \in BOOLEAN /\ aiReady \in BOOLEAN /\ drafting \in BOOLEAN
           /\ gathering \in BOOLEAN /\ making \in BOOLEAN /\ mingled \in BOOLEAN
           /\ input \in Ai!Topics /\ topics \in Ai!Topics /\ copies \in 0 .. MaxCopies
           /\ messages \in Seq([role : {"user", "bot"}, topic : Ai!Topics])
           /\ aiPlatform \in Formats /\ variants \in Asked /\ draft \in Asked
           /\ copied \in Ai!Variants \cup {None} /\ timers \in 0 .. MaxCopies
           /\ jobs \in [TaskIds -> Ai!State] /\ jobCards \in [TaskIds -> Ai!State]
           /\ gathers \in [Ai!Slots -> GatherRun] /\ flips \in [Ai!Slots -> FlipRun]
           /\ misread \subseteq TaskIds /\ flipped \in 0 .. MaxFlips
BY DEF AiInv, Ai!AiTypeOK, GatherRun, FlipRun, Asked

LEMMA AiPromises ==
    ASSUME AiInv
    PROVE  /\ Ai!AiTypeOK /\ Ai!AnswersFollowQuestions /\ Ai!CopiedGoes
           /\ Ai!AutomationsAreCurrent /\ Ai!AiSpinnerHasCause
<1>1. Ai!AiTypeOK /\ Ai!CopiedGoes /\ Ai!AiSpinnerHasCause
  BY DEF AiInv, ChatInv, CopyInv, JobsInv, Ai!CopiedGoes, Ai!AiSpinnerHasCause
<1>2. Ai!AnswersFollowQuestions
  BY DEF AiInv, ChatInv, Ai!AnswersFollowQuestions
<1>3. Ai!AutomationsAreCurrent
  <2> SUFFICES ASSUME desk = "automations", Ai!Gathering \cup Ai!Flipping = {}, ~mingled,
                      NEW j \in TaskIds
               PROVE  jobCards[j] = IF j \in misread THEN Ai!Negated(jobs[j]) ELSE jobs[j]
    BY DEF Ai!AutomationsAreCurrent
  <2>1. FlipsOf(flips, j) = {}
    BY DEF FlipsOf, Ai!Flipping
  <2>2. Ai!Gathering = {}
    OBVIOUS
  <2> QED BY <2>1, <2>2 DEF AiInv, JobsInv, Fetched
<1> QED BY <1>1, <1>2, <1>3

LEMMA AiFacts ==
    /\ Ai!NoDraft \in Asked /\ Ai!NoDraft.topic = 0
    /\ Ai!NoFlip \in FlipRun /\ Ai!NoFlip.of = None
    /\ Ai!NoGather \in GatherRun /\ Ai!NoGather.at = "idle"
    /\ \A s \in Ai!State : Ai!Negated(s) \in Ai!State
<1>1. 0 \in Ai!Topics
  BY AiBounds DEF Ai!Topics
<1> QED BY <1>1 DEF Ai!NoDraft, Ai!NoFlip, Ai!NoGather, Ai!Negated, Ai!State, Asked, FlipRun,
                    GatherRun

LEMMA AiInit == Ai!AiInit => AiInv
<1> SUFFICES ASSUME Ai!AiInit PROVE AiInv
  OBVIOUS
<1> DEFINE first == [Ai!NoGather EXCEPT !.at = "projects"]
<1>1. /\ desk \in {"chat", "content", "automations"}
      /\ hasProject = FALSE /\ aiReady = FALSE /\ input = 0 /\ messages = <<>>
      /\ aiPlatform \in Formats /\ variants = Ai!NoDraft /\ copied = None /\ timers = 0
      /\ drafting = FALSE /\ draft = Ai!NoDraft /\ topics = 0 /\ copies = 0
      /\ jobs \in [TaskIds -> Ai!State]
      /\ jobCards = [j \in TaskIds |-> "absent"] /\ gathering = (desk = "automations")
      /\ gathers = [g \in Ai!Slots |-> IF g = 1 /\ gathering THEN first ELSE Ai!NoGather]
      /\ flips = [f \in Ai!Slots |-> Ai!NoFlip] /\ flipped = 0 /\ making = FALSE
      /\ misread = {} /\ mingled = FALSE
  BY DEF Ai!AiInit
<1>2. first \in GatherRun /\ first.at = "projects"
  BY AiFacts DEF GatherRun
<1> HIDE DEF first
<1>3. gathers \in [Ai!Slots -> GatherRun] /\ (gathering => Ai!Gathering # {})
  <2>1. 1 \in Ai!Slots
    BY AiBounds DEF Ai!Slots
  <2>2. gathers \in [Ai!Slots -> GatherRun]
    BY <1>1, <1>2, AiFacts
  <2>3. gathering => gathers[1] = first /\ first # Ai!NoGather
    BY <1>1, <1>2, <2>1, AiFacts
  <2> QED BY <2>1, <2>2, <2>3 DEF Ai!Gathering
<1>4. flips \in [Ai!Slots -> FlipRun] /\ Ai!Flipping = {}
  BY <1>1, AiFacts DEF Ai!Flipping
<1>5. Ai!AiTypeOK
  <2>1. {hasProject, aiReady, drafting, gathering, making, mingled} \subseteq BOOLEAN
    BY <1>1
  <2>2. input \in Ai!Topics /\ topics \in Ai!Topics
    BY <1>1, AiBounds DEF Ai!Topics
  <2>3. copies \in 0 .. MaxCopies /\ timers \in 0 .. MaxCopies
    BY <1>1, AiBounds
  <2>4. flipped \in 0 .. MaxFlips
    BY <1>1, AiBounds
  <2>5. {variants, draft} \subseteq [topic : Ai!Topics, platform : Formats \cup {None}]
    BY <1>1, AiFacts DEF Asked
  <2>6. {jobs, jobCards} \subseteq [TaskIds -> Ai!State]
    BY <1>1 DEF Ai!State
  <2>7. messages \in Seq([role : {"user", "bot"}, topic : Ai!Topics])
    BY <1>1
  <2> QED BY <1>1, <1>3, <1>4, <2>1, <2>2, <2>3, <2>4, <2>5, <2>6, <2>7
          DEF Ai!AiTypeOK, GatherRun, FlipRun
<1>6. ChatInv
  <2>1. Len(messages) = 0
    BY <1>1
  <2>2. 1 .. Len(messages) = {} /\ Len(messages) % 2 # 1
    BY <2>1
  <2> QED BY <1>1, <2>2 DEF ChatInv
<1>7. CopyInv
  BY <1>1 DEF CopyInv
<1>8. JobsInv
  <2>1. desk = "automations" => Ai!Gathering # {}
    BY <1>1, <1>3
  <2> QED BY <1>3, <1>4, <2>1 DEF JobsInv
<1> QED BY <1>5, <1>6, <1>7, <1>8 DEF AiInv

LEMMA AiStays == AiInv /\ UNCHANGED AiVars => AiInv'
<1> SUFFICES ASSUME AiInv, UNCHANGED AiVars PROVE AiInv'
  OBVIOUS
<1>1. Ai!AiTypeOK'
  BY DEF AiVars, AiInv, Ai!AiTypeOK
<1>2. ChatInv' /\ CopyInv'
  BY DEF AiVars, AiInv, ChatInv, CopyInv
<1>3. JobsInv'
  BY DEF AiVars, AiInv, JobsInv, Ai!Gathering, Ai!Flipping
<1> QED BY <1>1, <1>2, <1>3 DEF AiInv

LEMMA JobsStay ==
    ASSUME AiInv, UNCHANGED <<desk, jobs, jobCards, gathering, gathers, flips, misread, mingled>>
    PROVE  JobsInv'
BY DEF AiInv, JobsInv, Ai!Gathering, Ai!Flipping

LEMMA ChatStays ==
    ASSUME AiInv, UNCHANGED <<desk, messages, drafting, draft>>
    PROVE  ChatInv'
BY DEF AiInv, ChatInv

\* A message is appended: a question, or the answer to the last one.
LEMMA MessageAdded ==
    ASSUME AiInv, desk = "chat", UNCHANGED desk, NEW topic \in Ai!Topics,
           NEW role \in {"user", "bot"},
           messages' = Append(messages, [role |-> role, topic |-> topic]),
           IF drafting THEN role = "bot" /\ topic = draft.topic ELSE role = "user",
           drafting' = ~drafting, drafting' <=> draft' # Ai!NoDraft,
           drafting' => draft'.topic = topic
    PROVE  /\ messages' \in Seq([role : {"user", "bot"}, topic : Ai!Topics])
           /\ ChatInv'
<1> DEFINE n == Len(messages)
           m == [role |-> role, topic |-> topic]
           M == [role : {"user", "bot"}, topic : Ai!Topics]
<1>1. m \in M /\ messages \in Seq(M) /\ m.role = role /\ m.topic = topic
  BY AiTypes
<1>2. messages' = Append(messages, m)
  OBVIOUS
<1> HIDE DEF m, M
<1>3. /\ messages' \in Seq(M) /\ n \in Nat /\ Len(messages') = n + 1 /\ messages'[n + 1] = m
      /\ \A i \in 1 .. n : messages'[i] = messages[i]
  BY <1>1, <1>2
<1>4. /\ drafting \in BOOLEAN /\ (drafting <=> n % 2 = 1)
      /\ drafting => messages[n].topic = draft.topic
      /\ \A i \in 1 .. n : messages[i].role = IF i % 2 = 1 THEN "user" ELSE "bot"
      /\ \A i \in 1 .. n : i % 2 = 0 => messages[i].topic = messages[i - 1].topic
  BY AiTypes DEF AiInv, ChatInv
<1> HIDE DEF n
<1>5. (n + 1) % 2 = 1 <=> ~(n % 2 = 1)
  BY <1>3
<1>6. (n + 1) % 2 = 0 <=> n % 2 = 1
  BY <1>3
<1>7. \A i \in 1 .. n + 1 : messages'[i].role = IF i % 2 = 1 THEN "user" ELSE "bot"
  <2> TAKE i \in 1 .. n + 1
  <2>1. CASE i \in 1 .. n
    BY <1>3, <1>4, <2>1
  <2>2. CASE i = n + 1
    BY <1>1, <1>3, <1>4, <1>5, <2>2
  <2> QED BY <1>3, <2>1, <2>2
<1>8. \A i \in 1 .. n + 1 : i % 2 = 0 => messages'[i].topic = messages'[i - 1].topic
  <2> SUFFICES ASSUME NEW i \in 1 .. n + 1, i % 2 = 0
               PROVE  messages'[i].topic = messages'[i - 1].topic
    OBVIOUS
  <2>1. i - 1 \in 1 .. n
    BY <1>3
  <2>2. CASE i \in 1 .. n
    BY <1>3, <1>4, <2>1, <2>2
  <2>3. CASE i = n + 1
    <3>1. n % 2 = 1 /\ drafting
      BY <1>4, <1>6, <2>3
    <3>2. i - 1 = n
      BY <1>3, <2>3
    <3>3. messages'[i].topic = topic /\ messages'[i - 1] = messages[n]
      BY <1>1, <1>3, <2>1, <2>3, <3>2
    <3>4. topic = draft.topic /\ messages[n].topic = draft.topic
      BY <1>4, <3>1
    <3> QED BY <3>3, <3>4
  <2> QED BY <1>3, <2>2, <2>3
<1>9. /\ drafting' <=> (n + 1) % 2 = 1
      /\ drafting' => messages'[n + 1].topic = draft'.topic
  BY <1>1, <1>3, <1>4, <1>5
<1> QED BY <1>3, <1>7, <1>8, <1>9 DEF ChatInv, M

\* The load, the chat, and the generator.
LEMMA AiDeskInv ==
    ASSUME AiInv,
           \/ Ai!ChatReady \/ Ai!ContentReady \/ Ai!setInput \/ Ai!handleSend \/ Ai!Replied
           \/ \E p \in Formats : Ai!setPlatform(p)
           \/ Ai!handleGenerate \/ Ai!Generated \/ Ai!CopiedFades
           \/ \E i \in Ai!Variants : Ai!handleCopy(i)
    PROVE  AiInv'
<1>1. UNCHANGED <<desk, jobs, jobCards, gathering, gathers, flips, flipped, making, misread,
        mingled>>
  BY DEF Ai!ChatReady, Ai!ContentReady, Ai!setInput, Ai!handleSend, Ai!Replied, Ai!setPlatform,
         Ai!handleGenerate, Ai!Generated, Ai!CopiedFades, Ai!handleCopy, Ai!jobVars
<1>2. JobsInv'
  BY <1>1, JobsStay
<1>3. ASSUME /\ hasProject' \in BOOLEAN /\ aiReady' \in BOOLEAN /\ drafting' \in BOOLEAN
             /\ input' \in Ai!Topics /\ topics' \in Ai!Topics /\ copies' \in 0 .. MaxCopies
             /\ messages' \in Seq([role : {"user", "bot"}, topic : Ai!Topics])
             /\ aiPlatform' \in Formats /\ variants' \in Asked /\ draft' \in Asked
             /\ copied' \in Ai!Variants \cup {None} /\ timers' \in 0 .. MaxCopies,
             ChatInv', CopyInv'
      PROVE  AiInv'
  <2>1. {hasProject, aiReady, drafting, gathering, making, mingled}' \subseteq BOOLEAN
    BY <1>1, <1>3, AiTypes
  <2>2. {variants, draft}' \subseteq [topic : Ai!Topics, platform : Formats \cup {None}]
    BY <1>3 DEF Asked
  <2>3. Ai!AiTypeOK'
    BY <1>1, <1>3, <2>1, <2>2 DEF AiInv, Ai!AiTypeOK
  <2> QED BY <1>2, <1>3, <2>3 DEF AiInv
<1>4. CopyInv /\ ChatInv
  BY DEF AiInv
<1>5. CASE Ai!ChatReady \/ Ai!ContentReady
  <2>1. /\ hasProject' \in BOOLEAN /\ aiReady' = TRUE
        /\ UNCHANGED <<input, messages, aiPlatform, variants, copied, timers, drafting, draft,
                       topics, copies>>
    BY <1>5 DEF Ai!ChatReady, Ai!ContentReady, Ai!draftVars
  <2>2. ChatInv' /\ CopyInv'
    BY <1>1, <1>4, <2>1, ChatStays DEF CopyInv
  <2> QED BY <1>3, <2>1, <2>2, AiTypes
<1>6. CASE Ai!setInput
  <2>1. /\ topics < MaxTopics /\ input' = topics + 1 /\ topics' = topics + 1
        /\ UNCHANGED <<hasProject, aiReady, messages, aiPlatform, variants, copied, timers,
                       drafting, draft, copies>>
    BY <1>6 DEF Ai!setInput
  <2>2. topics + 1 \in Ai!Topics
    BY <2>1, AiTypes, AiBounds DEF Ai!Topics
  <2>3. ChatInv' /\ CopyInv'
    BY <1>1, <1>4, <2>1, ChatStays DEF CopyInv
  <2> QED BY <1>3, <2>1, <2>2, <2>3, AiTypes
<1>7. CASE Ai!handleSend
  <2> DEFINE q == [topic |-> input, platform |-> None]
  <2>1. /\ desk = "chat" /\ input # 0 /\ ~drafting
        /\ messages' = Append(messages, [role |-> "user", topic |-> input])
        /\ draft' = q /\ input' = 0 /\ drafting' = TRUE
        /\ UNCHANGED <<hasProject, aiReady, aiPlatform, variants, copied, timers, topics, copies>>
    BY <1>7 DEF Ai!handleSend, Ai!canSend
  <2>2. q \in Asked /\ q.topic = input /\ q # Ai!NoDraft /\ 0 \in Ai!Topics
    BY <2>1, AiTypes, AiFacts, AiBounds DEF Asked, Ai!Topics
  <2> HIDE DEF q
  <2>3. messages' \in Seq([role : {"user", "bot"}, topic : Ai!Topics]) /\ ChatInv'
    BY <1>1, <2>1, <2>2, AiTypes, MessageAdded
  <2>4. CopyInv'
    BY <1>4, <2>1 DEF CopyInv
  <2> QED BY <1>3, <2>1, <2>2, <2>3, <2>4, AiTypes
<1>8. CASE Ai!Replied
  <2>1. /\ desk = "chat" /\ draft # Ai!NoDraft
        /\ messages' = Append(messages, [role |-> "bot", topic |-> draft.topic])
        /\ draft' = Ai!NoDraft /\ drafting' = FALSE
        /\ UNCHANGED <<hasProject, aiReady, input, aiPlatform, variants, copied, timers, topics,
                       copies>>
    BY <1>8 DEF Ai!Replied
  <2>2. drafting /\ draft.topic \in Ai!Topics /\ draft' \in Asked
    BY <1>4, <2>1, AiTypes, AiFacts DEF ChatInv, Asked
  <2>3. messages' \in Seq([role : {"user", "bot"}, topic : Ai!Topics]) /\ ChatInv'
    BY <1>1, <2>1, <2>2, MessageAdded
  <2>4. CopyInv'
    BY <1>4, <2>1 DEF CopyInv
  <2> QED BY <1>3, <2>1, <2>2, <2>3, <2>4, AiTypes
<1>9. ASSUME NEW p \in Formats, Ai!setPlatform(p) PROVE AiInv'
  <2>1. /\ aiPlatform' = p
        /\ UNCHANGED <<hasProject, aiReady, input, messages, variants, copied, timers, drafting,
                       draft, topics, copies>>
    BY <1>9 DEF Ai!setPlatform
  <2>2. ChatInv' /\ CopyInv'
    BY <1>1, <1>4, <2>1, ChatStays DEF CopyInv
  <2> QED BY <1>3, <2>1, <2>2, AiTypes
<1>10. CASE Ai!handleGenerate
  <2> DEFINE q == [topic |-> input, platform |-> aiPlatform]
  <2>1. /\ desk = "content" /\ input # 0 /\ draft' = q /\ drafting' = TRUE
        /\ variants' = Ai!NoDraft
        /\ UNCHANGED <<hasProject, aiReady, input, messages, aiPlatform, copied, timers, topics,
                       copies>>
    BY <1>10 DEF Ai!handleGenerate
  <2>2. q \in Asked /\ q # Ai!NoDraft
    BY <2>1, AiTypes, AiFacts DEF Asked
  <2> HIDE DEF q
  <2>3. ChatInv' /\ CopyInv'
    BY <1>1, <1>4, <2>1, <2>2 DEF ChatInv, CopyInv
  <2> QED BY <1>3, <2>1, <2>2, <2>3, AiTypes, AiFacts
<1>11. CASE Ai!Generated
  <2>1. /\ desk = "content" /\ variants' \in {draft, Ai!NoDraft}
        /\ draft' = Ai!NoDraft /\ drafting' = FALSE
        /\ UNCHANGED <<hasProject, aiReady, input, messages, aiPlatform, copied, timers, topics,
                       copies>>
    BY <1>11 DEF Ai!Generated
  <2>2. variants' \in Asked /\ draft' \in Asked
    BY <2>1, AiTypes, AiFacts
  <2>3. ChatInv' /\ CopyInv'
    BY <1>1, <1>4, <2>1 DEF ChatInv, CopyInv
  <2> QED BY <1>3, <2>1, <2>2, <2>3, AiTypes
<1>12. CASE Ai!CopiedFades
  <2>1. /\ timers > 0 /\ timers' = timers - 1 /\ copied' = None
        /\ UNCHANGED <<hasProject, aiReady, input, messages, aiPlatform, variants, drafting,
                       draft, topics, copies>>
    BY <1>12 DEF Ai!CopiedFades
  <2>2. timers' \in 0 .. MaxCopies /\ timers' <= copies
    <3>1. timers \in 0 .. MaxCopies /\ copies \in 0 .. MaxCopies /\ timers <= copies
      BY <1>4, AiTypes DEF CopyInv
    <3> QED BY <2>1, <3>1, AiBounds
  <2>3. ChatInv' /\ CopyInv'
    BY <1>1, <1>4, <2>1, <2>2, ChatStays DEF CopyInv
  <2> QED BY <1>3, <2>1, <2>2, <2>3, AiTypes
<1>13. ASSUME NEW i \in Ai!Variants, Ai!handleCopy(i) PROVE AiInv'
  <2>1. /\ copies < MaxCopies /\ copies' = copies + 1 /\ copied' = i /\ timers' = timers + 1
        /\ UNCHANGED <<hasProject, aiReady, input, messages, aiPlatform, variants, drafting,
                       draft, topics>>
    BY <1>13 DEF Ai!handleCopy
  <2>2. /\ timers' \in 0 .. MaxCopies /\ copies' \in 0 .. MaxCopies /\ timers' <= copies'
        /\ timers' > 0
    <3>1. timers \in 0 .. MaxCopies /\ copies \in 0 .. MaxCopies /\ timers <= copies
      BY <1>4, AiTypes DEF CopyInv
    <3> QED BY <2>1, <3>1, AiBounds
  <2>3. ChatInv' /\ CopyInv'
    BY <1>1, <2>1, <2>2, ChatStays DEF CopyInv
  <2> QED BY <1>3, <2>1, <2>2, <2>3, AiTypes
<1> QED BY <1>5, <1>6, <1>7, <1>8, <1>9, <1>10, <1>11, <1>12, <1>13

\* What the flips are of, when one slot of them changes.
LEMMA FlipsOfStep ==
    ASSUME flips \in [Ai!Slots -> FlipRun], NEW f \in Ai!Slots, NEW new \in FlipRun,
           flips' = [flips EXCEPT ![f] = new]
    PROVE  /\ flips' \in [Ai!Slots -> FlipRun] /\ flips'[f] = new
           /\ \A e \in Ai!Slots \ {f} : flips'[e] = flips[e]
           /\ \A j \in TaskIds :
                 FlipsOf(flips', j) =
                    IF new # Ai!NoFlip /\ new.of = j THEN FlipsOf(flips, j) \cup {f}
                    ELSE FlipsOf(flips, j) \ {f}
<1>1. /\ flips' \in [Ai!Slots -> FlipRun] /\ flips'[f] = new
      /\ \A e \in Ai!Slots \ {f} : flips'[e] = flips[e]
  OBVIOUS
<1>2. ASSUME NEW j \in TaskIds
      PROVE  FlipsOf(flips', j) =
                 IF new # Ai!NoFlip /\ new.of = j THEN FlipsOf(flips, j) \cup {f}
                 ELSE FlipsOf(flips, j) \ {f}
  BY <1>1 DEF FlipsOf
<1> QED BY <1>1, <1>2

\* The automations' cards, at one of them.
CardInv(j) ==
    /\ FlipsOf(flips, j) = {} => jobCards[j] = Fetched(jobs, misread, j)
    /\ \A f \in Ai!Slots :
          FlipsOf(flips, j) = {f} =>
             /\ jobCards[j] = Ai!Negated(Fetched(jobs, misread, j))
             /\ flips[f].found # None => flips[f].found = jobs[j]

LEMMA CardsOf ==
    JobsInv <=>
        /\ gathering => Ai!Gathering # {}
        /\ \A f \in Ai!Flipping : flips[f].of \in TaskIds
        /\ desk = "automations" /\ Ai!Gathering = {} /\ ~mingled =>
               \A j \in TaskIds : CardInv(j)
BY DEF JobsInv, CardInv

\* The types of the automations are all that is left once the desk is alone.
LEMMA JobsStep ==
    ASSUME AiInv, UNCHANGED <<desk, aiReady, Ai!draftVars>>,
           hasProject' \in BOOLEAN, gathering' \in BOOLEAN, making' \in BOOLEAN,
           mingled' \in BOOLEAN,
           jobs' \in [TaskIds -> Ai!State], jobCards' \in [TaskIds -> Ai!State],
           gathers' \in [Ai!Slots -> GatherRun], flips' \in [Ai!Slots -> FlipRun],
           misread' \subseteq TaskIds, flipped' \in 0 .. MaxFlips,
           JobsInv'
    PROVE  AiInv'
<1>1. UNCHANGED <<input, messages, aiPlatform, variants, copied, timers, drafting, draft, topics,
                  copies>>
  BY DEF Ai!draftVars
<1>2. {hasProject, aiReady, drafting, gathering, making, mingled}' \subseteq BOOLEAN
  BY <1>1, AiTypes
<1>3. {jobs, jobCards}' \subseteq [TaskIds -> Ai!State]
  OBVIOUS
<1>4. {variants, draft}' \subseteq [topic : Ai!Topics, platform : Formats \cup {None}]
  BY <1>1, AiTypes DEF Asked
<1>5. Ai!AiTypeOK'
  BY <1>1, <1>2, <1>3, <1>4 DEF AiInv, Ai!AiTypeOK, GatherRun, FlipRun
<1>6. ChatInv' /\ CopyInv'
  BY <1>1 DEF AiInv, ChatInv, CopyInv
<1> QED BY <1>5, <1>6 DEF AiInv

\* A fetch goes on, lands or fails.
LEMMA AiGatherInv ==
    ASSUME AiInv, NEW g \in Ai!Slots,
           Ai!GatherSent(g) \/ Ai!GetAutomations(g) \/ Ai!GatherLands(g) \/ Ai!GatherFails(g)
    PROVE  AiInv'
<1>1. UNCHANGED <<desk, aiReady, Ai!draftVars, jobs, flips, flipped, making>>
  BY DEF Ai!GatherSent, Ai!GetAutomations, Ai!GatherLands, Ai!GatherFails
<1>2. JobsInv /\ gathers \in [Ai!Slots -> GatherRun] /\ gathers[g] \in GatherRun
  BY AiTypes DEF AiInv
<1>3. ASSUME NEW new \in GatherRun, new # Ai!NoGather,
             gathers' = [gathers EXCEPT ![g] = new],
             hasProject' \in BOOLEAN, UNCHANGED <<jobCards, gathering, misread, mingled>>
      PROVE  AiInv'
  <2>1. gathers' \in [Ai!Slots -> GatherRun] /\ gathers'[g] = new
    BY <1>2, <1>3
  <2>2. Ai!Gathering' # {}
    BY <1>3, <2>1 DEF Ai!Gathering
  <2>3. \A e \in Ai!Flipping' : flips'[e].of \in TaskIds
    BY <1>1, <1>2 DEF JobsInv, Ai!Flipping
  <2>4. JobsInv'
    BY <2>2, <2>3 DEF JobsInv
  <2> QED BY <1>1, <1>3, <2>1, <2>4, AiTypes, JobsStep
<1>4. CASE Ai!GatherSent(g)
  <2> DEFINE new == [gathers[g] EXCEPT !.at = "sent"]
  <2>1. new \in GatherRun /\ new # Ai!NoGather
    <3>1. new.at = "sent" /\ new \in GatherRun
      BY <1>2 DEF GatherRun
    <3> QED BY <3>1, AiFacts
  <2>2. /\ gathers' = [gathers EXCEPT ![g] = new] /\ hasProject' = TRUE
        /\ UNCHANGED <<jobCards, gathering, misread, mingled>>
    BY <1>4 DEF Ai!GatherSent
  <2> HIDE DEF new
  <2> QED BY <1>3, <2>1, <2>2
<1>5. CASE Ai!GetAutomations(g)
  <2> DEFINE new == [at |-> "answered", answer |-> jobs]
  <2>1. new \in GatherRun /\ new # Ai!NoGather
    <3>1. new.at = "answered" /\ new \in GatherRun
      BY AiTypes DEF GatherRun
    <3> QED BY <3>1, AiFacts
  <2>2. /\ gathers' = [gathers EXCEPT ![g] = new]
        /\ UNCHANGED <<hasProject, jobCards, gathering, misread, mingled>>
    BY <1>5 DEF Ai!GetAutomations
  <2> HIDE DEF new
  <2> QED BY <1>3, <2>1, <2>2, AiTypes
<1>6. CASE Ai!GatherLands(g)
  <2> DEFINE answer == gathers[g].answer
  <2>1. /\ jobCards' = [j \in TaskIds |-> IF answer[j] = "absent" THEN "absent" ELSE "on"]
        /\ misread' = {j \in TaskIds : answer[j] = "off"}
        /\ gathers' = [gathers EXCEPT ![g] = Ai!NoGather] /\ gathering' = FALSE
        /\ mingled' = (Ai!Gathering # {g} \/ Ai!Flipping # {} \/ answer # jobs)
        /\ UNCHANGED hasProject
    BY <1>6 DEF Ai!GatherLands
  <2>2. answer \in [TaskIds -> Ai!State]
    BY <1>2 DEF GatherRun
  <2> HIDE DEF answer
  <2>3. /\ gathers' \in [Ai!Slots -> GatherRun] /\ jobCards' \in [TaskIds -> Ai!State]
        /\ misread' \subseteq TaskIds /\ mingled' \in BOOLEAN
    BY <1>2, <2>1, AiFacts DEF Ai!State
  <2>4. ASSUME ~mingled', NEW j \in TaskIds PROVE CardInv(j)'
    <3>1. answer = jobs /\ FlipsOf(flips', j) = {}
      BY <1>1, <2>1, <2>4 DEF FlipsOf, Ai!Flipping
    <3>2. jobs[j] \in Ai!State
      BY AiTypes
    <3>3. jobCards'[j] = Fetched(jobs', misread', j)
      BY <1>1, <2>1, <3>1, <3>2 DEF Fetched, Ai!Negated, Ai!State
    <3> QED BY <3>1, <3>3 DEF CardInv
  <2>5. \A e \in Ai!Flipping' : flips'[e].of \in TaskIds
    BY <1>1, <1>2 DEF JobsInv, Ai!Flipping
  <2>6. JobsInv'
    BY <2>1, <2>4, <2>5 DEF JobsInv, CardInv
  <2> QED BY <1>1, <2>1, <2>3, <2>6, AiTypes, JobsStep
<1>7. CASE Ai!GatherFails(g)
  <2>1. /\ gathers' = [gathers EXCEPT ![g] = Ai!NoGather] /\ gathering' = FALSE
        /\ mingled' = TRUE /\ UNCHANGED <<hasProject, jobCards, misread>>
    BY <1>7 DEF Ai!GatherFails
  <2>2. gathers' \in [Ai!Slots -> GatherRun]
    BY <1>2, <2>1, AiFacts
  <2>3. \A e \in Ai!Flipping' : flips'[e].of \in TaskIds
    BY <1>1, <1>2 DEF JobsInv, Ai!Flipping
  <2>4. JobsInv'
    BY <2>1, <2>3 DEF JobsInv
  <2> QED BY <1>1, <2>1, <2>2, <2>4, AiTypes, JobsStep
<1> QED BY <1>4, <1>5, <1>6, <1>7

\* The API flips an automation, or does not.
LEMMA JobsFlip ==
    ASSUME AiInv, NEW f \in Ai!Flipping, Ai!ToggleAutomation(f) \/ UNCHANGED jobs
    PROVE  /\ jobs' \in [TaskIds -> Ai!State]
           /\ \A j \in TaskIds \ {flips[f].of} : jobs'[j] = jobs[j]
           /\ Ai!ToggleAutomation(f) => jobs'[flips[f].of] = Ai!Negated(flips[f].found)
<1>1. /\ jobs \in [TaskIds -> Ai!State] /\ flips[f] \in FlipRun /\ f \in Ai!Slots
      /\ flips[f].of \in TaskIds
  BY AiTypes DEF AiInv, JobsInv, Ai!Flipping
<1>2. CASE UNCHANGED jobs /\ ~Ai!ToggleAutomation(f)
  BY <1>1, <1>2
<1>3. CASE Ai!ToggleAutomation(f)
  <2>1. flips[f].found \in Ai!State
    BY <1>1, <1>3 DEF Ai!ToggleAutomation, FlipRun
  <2>2. Ai!Negated(flips[f].found) \in Ai!State
    BY <2>1, AiFacts
  <2> QED BY <1>1, <1>3, <2>2 DEF Ai!ToggleAutomation
<1> QED BY <1>2, <1>3

\* A toggle is made, goes on, lands or fails.
LEMMA AiFlipInv ==
    ASSUME AiInv, NEW f \in Ai!Slots,
           \/ \E g \in Ai!Slots : Ai!FlipFails(f, g)
           \/ Ai!ToggleFinds(f) \/ Ai!FlipLands(f)
           \/ \E j \in TaskIds : Ai!toggleAutomation(f, j)
    PROVE  AiInv'
<1>1. UNCHANGED <<desk, hasProject, aiReady, Ai!draftVars, gathering, making, misread>>
  BY DEF Ai!FlipFails, Ai!ToggleFinds, Ai!FlipLands, Ai!toggleAutomation
<1>2. JobsInv /\ flips \in [Ai!Slots -> FlipRun] /\ flips[f] \in FlipRun
  BY AiTypes DEF AiInv
<1>3. \A e \in Ai!Flipping : flips[e].of \in TaskIds /\ e \in Ai!Slots
  BY <1>2 DEF JobsInv, Ai!Flipping
<1>4. ASSUME NEW g \in Ai!Slots, Ai!FlipFails(f, g) PROVE AiInv'
  <2> DEFINE new == [Ai!NoGather EXCEPT !.at = "projects"]
  <2>1. /\ f \in Ai!Flipping /\ (Ai!ToggleAutomation(f) \/ UNCHANGED jobs)
        /\ flips' = [flips EXCEPT ![f] = Ai!NoFlip]
        /\ gathers' = [gathers EXCEPT ![g] = new]
        /\ UNCHANGED <<jobCards, flipped, mingled>>
    BY <1>4 DEF Ai!FlipFails
  <2>2. new \in GatherRun /\ new # Ai!NoGather
    <3>1. new \in GatherRun /\ new.at = "projects"
      BY AiFacts DEF GatherRun
    <3> QED BY <3>1, AiFacts
  <2> HIDE DEF new
  <2>3. gathers' \in [Ai!Slots -> GatherRun] /\ Ai!Gathering' # {}
    BY <2>1, <2>2, AiTypes DEF Ai!Gathering
  <2>4. /\ flips' \in [Ai!Slots -> FlipRun] /\ flips'[f] = Ai!NoFlip
        /\ \A e \in Ai!Slots \ {f} : flips'[e] = flips[e]
    BY <1>2, <2>1, AiFacts, FlipsOfStep
  <2>5. \A e \in Ai!Flipping' : flips'[e].of \in TaskIds
    BY <1>3, <2>4 DEF Ai!Flipping
  <2>6. JobsInv'
    BY <2>3, <2>5 DEF JobsInv
  <2>7. jobs' \in [TaskIds -> Ai!State]
    BY <2>1, JobsFlip
  <2> QED BY <1>1, <2>1, <2>3, <2>4, <2>6, <2>7, AiTypes, JobsStep
<1>5. CASE Ai!ToggleFinds(f)
  <2> DEFINE new == [flips[f] EXCEPT !.found = jobs[flips[f].of]]
  <2>1. /\ f \in Ai!Flipping /\ flips' = [flips EXCEPT ![f] = new]
        /\ UNCHANGED <<jobs, jobCards, gathers, flipped, mingled>>
    BY <1>5 DEF Ai!ToggleFinds
  <2>2. /\ new \in FlipRun /\ new.of = flips[f].of /\ new.found = jobs[flips[f].of]
        /\ flips[f].of \in TaskIds
    BY <1>2, <1>3, <2>1, AiTypes DEF FlipRun
  <2>3. new # Ai!NoFlip
    BY <2>2, AiFacts, AiBounds
  <2> HIDE DEF new
  <2>4. /\ flips' \in [Ai!Slots -> FlipRun] /\ flips'[f] = new
        /\ \A e \in Ai!Slots \ {f} : flips'[e] = flips[e]
        /\ \A j \in TaskIds : FlipsOf(flips', j) =
               IF new # Ai!NoFlip /\ new.of = j THEN FlipsOf(flips, j) \cup {f}
               ELSE FlipsOf(flips, j) \ {f}
    BY <1>2, <2>1, <2>2, FlipsOfStep
  <2>5. \A j \in TaskIds : FlipsOf(flips', j) = FlipsOf(flips, j)
    BY <2>1, <2>2, <2>3, <2>4 DEF FlipsOf, Ai!Flipping
  <2>6. \A e \in Ai!Flipping' : flips'[e].of \in TaskIds
    BY <1>3, <2>2, <2>4 DEF Ai!Flipping
  <2>7. ASSUME NEW j \in TaskIds, CardInv(j) PROVE CardInv(j)'
    <3>1. ASSUME NEW e \in Ai!Slots, FlipsOf(flips', j) = {e}, flips'[e].found # None
          PROVE  flips'[e].found = jobs'[j]
      <4>1. CASE e = f
        BY <2>1, <2>2, <2>4, <2>5, <3>1, <4>1 DEF FlipsOf
      <4>2. CASE e # f
        BY <2>1, <2>4, <2>5, <2>7, <3>1, <4>2 DEF CardInv
      <4> QED BY <4>1, <4>2
    <3>2. UNCHANGED <<jobCards, jobs, misread>>
      BY <1>1, <2>1
    <3> QED BY <2>5, <2>7, <3>1, <3>2 DEF CardInv
  <2>8. UNCHANGED Ai!Gathering
    BY <2>1 DEF Ai!Gathering
  <2>9. JobsInv'
    BY <1>1, <1>2, <2>1, <2>6, <2>7, <2>8 DEF JobsInv, CardInv
  <2> QED BY <1>1, <2>1, <2>4, <2>9, AiTypes, JobsStep
<1>6. CASE Ai!FlipLands(f)
  <2>1. /\ f \in Ai!Flipping /\ Ai!ToggleAutomation(f)
        /\ flips' = [flips EXCEPT ![f] = Ai!NoFlip]
        /\ mingled' = (mingled \/ \E e \in Ai!Flipping \ {f} : flips[e].of = flips[f].of)
        /\ UNCHANGED <<jobCards, gathers, flipped>>
    BY <1>6 DEF Ai!FlipLands
  <2>2. /\ flips' \in [Ai!Slots -> FlipRun] /\ flips'[f] = Ai!NoFlip
        /\ \A e \in Ai!Slots \ {f} : flips'[e] = flips[e]
        /\ \A j \in TaskIds : FlipsOf(flips', j) = FlipsOf(flips, j) \ {f}
    BY <1>2, <2>1, AiFacts, FlipsOfStep
  <2>3. /\ jobs' \in [TaskIds -> Ai!State]
        /\ \A j \in TaskIds \ {flips[f].of} : jobs'[j] = jobs[j]
        /\ jobs'[flips[f].of] = Ai!Negated(flips[f].found)
    BY <2>1, JobsFlip
  <2>4. \A e \in Ai!Flipping' : flips'[e].of \in TaskIds
    BY <1>3, <2>2 DEF Ai!Flipping
  <2>5. ASSUME ~mingled', NEW j \in TaskIds, CardInv(j) PROVE CardInv(j)'
    <3>1. CASE j = flips[f].of
      <4>1. FlipsOf(flips, j) = {f}
        BY <1>3, <2>1, <2>5, <3>1 DEF FlipsOf, Ai!Flipping
      <4>2. /\ jobCards[j] = Ai!Negated(Fetched(jobs, misread, j))
            /\ flips[f].found = jobs[j]
        BY <2>1, <2>5, <4>1 DEF CardInv, Ai!ToggleAutomation
      <4>3. FlipsOf(flips', j) = {}
        BY <2>2, <4>1
      <4>4. jobCards'[j] = Fetched(jobs', misread', j)
        BY <1>1, <2>1, <2>3, <3>1, <4>2 DEF Fetched, Ai!Negated
      <4> QED BY <4>3, <4>4 DEF CardInv
    <3>2. CASE j # flips[f].of
      <4>1. FlipsOf(flips', j) = FlipsOf(flips, j)
        BY <2>2, <3>2 DEF FlipsOf
      <4>2. Fetched(jobs', misread', j) = Fetched(jobs, misread, j) /\ jobs'[j] = jobs[j]
        BY <1>1, <2>3, <3>2 DEF Fetched
      <4>3. jobCards'[j] = jobCards[j]
        BY <2>1
      <4>4. \A e \in Ai!Slots : FlipsOf(flips', j) = {e} => flips'[e] = flips[e]
        BY <2>2, <4>1 DEF FlipsOf
      <4> QED BY <2>5, <4>1, <4>2, <4>3, <4>4 DEF CardInv
    <3> QED BY <3>1, <3>2
  <2>6. UNCHANGED Ai!Gathering
    BY <2>1 DEF Ai!Gathering
  <2>7. ~mingled' => ~mingled
    BY <2>1
  <2>8. JobsInv'
    BY <1>1, <1>2, <2>4, <2>5, <2>6, <2>7 DEF JobsInv, CardInv
  <2>9. mingled' \in BOOLEAN
    BY <2>1, AiTypes
  <2> QED BY <1>1, <2>1, <2>2, <2>3, <2>8, <2>9, AiTypes, JobsStep
<1>7. ASSUME NEW k \in TaskIds, Ai!toggleAutomation(f, k) PROVE AiInv'
  <2> DEFINE new == [of |-> k, found |-> None]
  <2>1. /\ f \notin Ai!Flipping /\ flipped < MaxFlips /\ flipped' = flipped + 1
        /\ jobCards' = [jobCards EXCEPT ![k] = Ai!Negated(@)]
        /\ flips' = [flips EXCEPT ![f] = new]
        /\ UNCHANGED <<jobs, gathers, mingled>>
    BY <1>7 DEF Ai!toggleAutomation
  <2>2. new \in FlipRun /\ new.of = k /\ new.found = None /\ new # Ai!NoFlip
    <3>1. new \in FlipRun /\ new.of = k /\ new.found = None
      BY DEF FlipRun
    <3> QED BY <3>1, AiFacts, AiBounds
  <2> HIDE DEF new
  <2>3. /\ flips' \in [Ai!Slots -> FlipRun] /\ flips'[f] = new
        /\ \A e \in Ai!Slots \ {f} : flips'[e] = flips[e]
        /\ \A j \in TaskIds : FlipsOf(flips', j) =
               IF new # Ai!NoFlip /\ new.of = j THEN FlipsOf(flips, j) \cup {f}
               ELSE FlipsOf(flips, j) \ {f}
    BY <1>2, <2>1, <2>2, FlipsOfStep
  <2>4. \A e \in Ai!Flipping' : flips'[e].of \in TaskIds
    BY <1>3, <2>2, <2>3 DEF Ai!Flipping
  <2>5. /\ jobCards' \in [TaskIds -> Ai!State] /\ jobCards'[k] = Ai!Negated(jobCards[k])
        /\ \A j \in TaskIds \ {k} : jobCards'[j] = jobCards[j]
    <3>1. jobCards \in [TaskIds -> Ai!State] /\ Ai!Negated(jobCards[k]) \in Ai!State
      BY AiTypes, AiFacts
    <3> QED BY <2>1, <3>1
  <2>6. \A j \in TaskIds : f \notin FlipsOf(flips, j)
    BY <2>1 DEF FlipsOf, Ai!Flipping
  <2>7. \A j \in TaskIds : Fetched(jobs', misread', j) = Fetched(jobs, misread, j)
    BY <1>1, <2>1 DEF Fetched
  <2>8. ASSUME NEW j \in TaskIds, CardInv(j) PROVE CardInv(j)'
    <3>1. CASE j = k
      <4>1. FlipsOf(flips', k) = FlipsOf(flips, k) \cup {f}
        BY <2>2, <2>3
      <4>2. ASSUME NEW e \in Ai!Slots, FlipsOf(flips', k) = {e}
            PROVE  /\ jobCards'[k] = Ai!Negated(Fetched(jobs', misread', k))
                   /\ flips'[e].found = None
        <5>1. e = f /\ FlipsOf(flips, k) = {}
          BY <2>6, <4>1, <4>2
        <5>2. jobCards[k] = Fetched(jobs, misread, k)
          BY <2>8, <3>1, <5>1 DEF CardInv
        <5> QED BY <2>2, <2>3, <2>5, <2>7, <5>1, <5>2
      <4> QED BY <3>1, <4>1, <4>2 DEF CardInv
    <3>2. CASE j # k
      <4>1. FlipsOf(flips', j) = FlipsOf(flips, j)
        <5>1. FlipsOf(flips', j) = FlipsOf(flips, j) \ {f}
          BY <2>2, <2>3, <3>2
        <5> QED BY <2>6, <5>1
      <4>2. \A e \in Ai!Slots : FlipsOf(flips', j) = {e} => flips'[e] = flips[e]
        BY <2>3, <2>6, <4>1 DEF FlipsOf
      <4>3. jobCards'[j] = jobCards[j] /\ jobs'[j] = jobs[j]
        BY <2>1, <2>5, <3>2
      <4> QED BY <2>7, <2>8, <4>1, <4>2, <4>3 DEF CardInv
    <3> QED BY <3>1, <3>2
  <2>9. UNCHANGED Ai!Gathering
    BY <2>1 DEF Ai!Gathering
  <2>10. JobsInv'
    BY <1>1, <1>2, <2>1, <2>4, <2>8, <2>9 DEF JobsInv, CardInv
  <2>11. flipped' \in 0 .. MaxFlips
    BY <2>1, AiTypes, AiBounds
  <2> QED BY <1>1, <2>1, <2>3, <2>5, <2>10, <2>11, AiTypes, JobsStep
<1> QED BY <1>4, <1>5, <1>6, <1>7

LEMMA AiStepInv == AiInv /\ Ai!AiNext => AiInv'
<1> SUFFICES ASSUME AiInv, Ai!AiNext PROVE AiInv'
  OBVIOUS
<1>1. CASE Ai!handleCreateWorkflow \/ Ai!CreateAutomation
  <2>1. /\ making' \in BOOLEAN
        /\ UNCHANGED <<desk, hasProject, aiReady, Ai!draftVars, jobs, jobCards, gathering, gathers,
                       flips, flipped, misread, mingled>>
    BY <1>1 DEF Ai!handleCreateWorkflow, Ai!CreateAutomation
  <2> QED BY <2>1, AiTypes, JobsStay, JobsStep
<1> QED BY <1>1, AiDeskInv, AiGatherInv, AiFlipInv DEF Ai!AiNext
-----------------------------------------------------------------------------
(* All the pages.                                                          *)

\* The page that is open is as its own invariant says; the others are away.
PagesInv ==
    /\ route = "calendar" => CalInv
    /\ route = "wizard" => WizardInv
    /\ route = "projects" => ScreensInv
    /\ route = "integrations" => ConnectedInv
    /\ route = "billing" => OfferInv
    /\ route = "analyzer" => AnalyzerInv
    /\ route = "tasks" => TaskInv
    /\ route = "mode" => ModeInv
    /\ route = "synced" => SyncedInv
    /\ route = "seo" => SeoInv
    /\ route = "ai" => AiInv

LEMMA PagesInit == Init => PagesInv
BY CalInit, WizardInit, ScreensInit, ConnectedInit, OfferInit, AnalyzerInit, TaskInit, ModeInit,
   SyncedInit, SeoInit, AiInit
   DEF Init, PagesInv

LEMMA PagesStay == PagesInv /\ UNCHANGED vars => PagesInv'
BY CalStays, WizardStays, ScreensStays, ConnectedStays, OfferStays, AnalyzerStays, TaskStays,
   ModeStays, SyncedStays, SeoStays, AiStays
   DEF vars, PagesInv

LEMMA PagesKept == PagesInv /\ [Next]_vars => PagesInv'
<1> SUFFICES ASSUME PagesInv, Next PROVE PagesInv'
  BY PagesStay
<1>1. CASE CalendarStep
  BY <1>1, CalStepInv DEF CalendarStep, PagesInv
<1>2. CASE WizardStep
  BY <1>2, WizardStepInv DEF WizardStep, PagesInv
<1>3. CASE ProjectScreensStep
  BY <1>3, ScreensStepInv DEF ProjectScreensStep, PagesInv
<1>4. CASE IntegrationsStep
  BY <1>4, ConnectedStepInv DEF IntegrationsStep, PagesInv
<1>5. CASE BillingScreenStep
  BY <1>5, OfferStepInv DEF BillingScreenStep, PagesInv
<1>6. CASE AnalyzerStep
  BY <1>6, AnalyzerStepInv DEF AnalyzerStep, PagesInv
<1>7. CASE TasksStep
  BY <1>7, TaskStepInv DEF TasksStep, PagesInv
<1>8. CASE ModeStep
  BY <1>8, ModeStepInv DEF ModeStep, PagesInv
<1>9. CASE SyncedStep
  BY <1>9, SyncedStepInv DEF SyncedStep, PagesInv
<1>10. CASE SeoStep
  BY <1>10, SeoStepInv DEF SeoStep, PagesInv
<1>11. CASE AiStep
  BY <1>11, AiStepInv DEF AiStep, PagesInv
<1> QED BY <1>1, <1>2, <1>3, <1>4, <1>5, <1>6, <1>7, <1>8, <1>9, <1>10, <1>11 DEF Next

(* The inductive invariant of the pages under app/(dashboard), from which  *)
(* the theorems below follow: the page that is open keeps its own.         *)
THEOREM PagesInvHolds == Spec => []PagesInv
BY PagesInit, PagesKept, PTL DEF Spec

\* What the invariant of the open page says of it.
LEMMA PagesPromise ==
    PagesInv => /\ TypeOK /\ SpinnersHaveCause /\ QuietPagesAreConsistent
                /\ CopiesAreCurrent /\ NothingTwice
<1> SUFFICES ASSUME PagesInv
             PROVE  /\ TypeOK /\ SpinnersHaveCause /\ QuietPagesAreConsistent
                    /\ CopiesAreCurrent /\ NothingTwice
  OBVIOUS
<1> USE DEF PagesInv
<1>1. TypeOK
  <2>1. WizardInv => Wizard!TypeOK
    BY DEF WizardInv
  <2> QED BY <2>1, CalPromises, ScreensPromises, ConnectedPromises, OfferPromises,
             AnalyzerPromises, TaskPromises, ModePromises, SyncedPromises, SeoPromises,
             AiPromises
          DEF TypeOK
<1>2. SpinnersHaveCause
  BY CalPromises, WizardPromises, ScreensPromises, ConnectedPromises, OfferPromises,
     AnalyzerPromises, TaskPromises, SyncedPromises, SeoPromises, AiPromises
     DEF SpinnersHaveCause
<1>3. QuietPagesAreConsistent
  BY CalPromises, AnalyzerPromises, SyncedPromises DEF QuietPagesAreConsistent
<1>4. CopiesAreCurrent
  BY ScreensPromises, ConnectedPromises, OfferPromises, TaskPromises, ModePromises, SeoPromises,
     AiPromises
     DEF CopiesAreCurrent
<1>5. NothingTwice
  BY CalPromises, WizardPromises, TaskPromises, SeoPromises, AiPromises DEF NothingTwice
<1> QED BY <1>1, <1>2, <1>3, <1>4, <1>5

(* Every page of the dashboard keeps its state well-formed: the call it    *)
(* awaits is one it made, and what it lists is of the API's sets.          *)
THEOREM TypeCorrect == Spec => []TypeOK
BY PagesInvHolds, PagesPromise, PTL

(* A spinner, an analysis screen or a disabled button of any of the pages  *)
(* under app/(dashboard) never stays for nothing: a call is under way      *)
(* whose end, well or not, takes it away; with any number of calls, of     *)
(* windows of the wizards and of "Copied!" timers.                         *)
THEOREM SpinnersHaveCauseHolds == Spec => []SpinnersHaveCause
BY PagesInvHolds, PagesPromise, PTL

(* The calendar, the profile analyzer and the pages that sync show at rest *)
(* the project the user chose last and nothing of another one, whatever    *)
(* polls, syncs, fetches and selections were under way together.           *)
THEOREM QuietPagesAreConsistentHolds == Spec => []QuietPagesAreConsistent
BY PagesInvHolds, PagesPromise, PTL

(* What the lists of projects, connections, tasks and automations, the     *)
(* billing page, the sidebar and the site explorer show at rest is what    *)
(* the API holds; nobody is offered a subscription they have, and what was *)
(* generated stays listed: with any calls under way and any failures.      *)
THEOREM CopiesAreCurrentHolds == Spec => []CopiesAreCurrent
BY PagesInvHolds, PagesPromise, PTL

(* What the user composed once is made once, a post of the calendar, a     *)
(* project of the wizard, a task, whatever is clicked again, fails or is   *)
(* answered late; a keyword is listed once; and each message to the chat   *)
(* has one answer, before the next.                                        *)
THEOREM NothingTwiceHolds == Spec => []NothingTwice
BY PagesInvHolds, PagesPromise, PTL
=============================================================================
