---------------------------- MODULE IntegrationsPage ----------------------------
(***************************************************************************)
(* The user's integrations: a card for each provider, Connected or         *)
(* Available, whose one button disconnects or leaves for the provider's    *)
(* login.  No button is disabled while a call is under way.                *)
(*                                                                         *)
(*   creds     the providers the API holds a token of                      *)
(*   status    the providers the cards say are connected, or Unknown       *)
(*   reading   the runs of fetchIntegrations under way, each with its      *)
(*             answer once the API has given it                            *)
(*   calls     the disconnects under way                                   *)
(***************************************************************************)
EXTENDS Naturals, FiniteSets

CONSTANTS Providers, \* google, meta and linkedin
          Unknown,
          MaxReading \* bound on the readings under way, and on the calls

ReadingAssumption == MaxReading \in Nat \ {0}

VARIABLES
    creds, status, iLoading, reading, calls, gone,
    unsure  \* history: readings overlapped or failed, or a token came or went elsewhere

integrationVars == <<creds, status, iLoading, reading, calls, gone, unsure>>

Slots == 1 .. MaxReading
Idle == [at |-> "idle", creds |-> {}]

IntegrationTypeOK ==
    /\ creds \subseteq Providers
    /\ status \in (SUBSET Providers) \cup {Unknown}
    /\ reading \in [Slots -> [at : {"idle", "sent", "answered"}, creds : SUBSET Providers]]
    /\ calls \in [Providers -> 0 .. MaxReading]
    /\ {iLoading, gone, unsure} \subseteq BOOLEAN

IntegrationInit ==
    /\ creds \in SUBSET Providers
    /\ status = Unknown /\ iLoading = TRUE /\ gone = FALSE /\ unsure = FALSE
    /\ reading = [s \in Slots |-> IF s = 1 THEN [Idle EXCEPT !.at = "sent"] ELSE Idle]
    /\ calls = [p \in Providers |-> 0]

Reading == {s \in Slots : reading[s].at # "idle"}

-----------------------------------------------------------------------------
\* fetchIntegrations, up to its await.  The spinner is not shown again.
fetchIntegrations ==
    \E s \in Slots \ Reading :
        reading' = [reading EXCEPT ![s] = [Idle EXCEPT !.at = "sent"]]

GetIntegrations(s) ==
    /\ reading[s].at = "sent"
    /\ reading' = [reading EXCEPT ![s] = [at |-> "answered", creds |-> creds]]
    /\ UNCHANGED <<creds, status, iLoading, calls, gone, unsure>>

\* A card for every supported provider, connected if the API holds a token of it.
IntegrationsLand(s) ==
    /\ reading[s].at = "answered"
    /\ status' = reading[s].creds
    /\ reading' = [reading EXCEPT ![s] = Idle] /\ iLoading' = FALSE
    /\ UNCHANGED <<creds, calls, gone, unsure>>

\* The cards stay as they are; without any, "No integrations found".
IntegrationsFail(s) ==
    /\ s \in Reading
    /\ reading' = [reading EXCEPT ![s] = Idle] /\ iLoading' = FALSE
    /\ unsure' = TRUE
    /\ UNCHANGED <<creds, status, calls, gone>>

\* The page stands, and has cards.
Cards == ~iLoading /\ ~gone /\ status # Unknown

\* The button of a connected card; the card says Connected until the next reading lands.
handleDisconnect(p) ==
    /\ Cards /\ p \in status /\ calls[p] < MaxReading
    /\ calls' = [calls EXCEPT ![p] = @ + 1]
    /\ UNCHANGED <<creds, status, iLoading, reading, gone, unsure>>

\* The button of any other: the login URL can be had and the page is left, or a toast.
handleConnection(p) ==
    /\ Cards /\ p \notin status
    /\ gone' = TRUE
    /\ UNCHANGED <<creds, status, iLoading, reading, calls, unsure>>

\* A bug: the cards are not read again.
DisconnectedQuietly(p) ==
    /\ calls[p] > 0
    /\ calls' = [calls EXCEPT ![p] = @ - 1]
    /\ creds' = creds \ {p}
    /\ UNCHANGED <<status, iLoading, reading, gone, unsure>>

\* The API has no token of p any more, and the cards are read again.
Disconnected(p) ==
    /\ calls[p] > 0
    /\ calls' = [calls EXCEPT ![p] = @ - 1]
    /\ creds' = creds \ {p}
    /\ fetchIntegrations
    /\ unsure' = (unsure \/ Reading # {})
    /\ UNCHANGED <<status, iLoading, gone>>

\* The call fails, before or after the API took it.
DisconnectFails(p) ==
    /\ calls[p] > 0
    /\ calls' = [calls EXCEPT ![p] = @ - 1]
    /\ creds' \in {creds, creds \ {p}}
    /\ unsure' = (unsure \/ creds' # creds)
    /\ UNCHANGED <<status, iLoading, reading, gone>>

\* Another tab connects or disconnects a provider.
OtherTab(p) ==
    /\ creds' = IF p \in creds THEN creds \ {p} ELSE creds \cup {p}
    /\ unsure' = TRUE
    /\ UNCHANGED <<status, iLoading, reading, calls, gone>>

IntegrationNext ==
    \/ \E s \in Slots : GetIntegrations(s) \/ IntegrationsLand(s) \/ IntegrationsFail(s)
    \/ \E p \in Providers : \/ handleDisconnect(p) \/ handleConnection(p)
                            \/ Disconnected(p) \/ DisconnectFails(p) \/ OtherTab(p)

-----------------------------------------------------------------------------
(* The cards at rest say what the API holds, unless readings overlapped or *)
(* failed, or a token came or went elsewhere.                              *)
CardsAreCurrent == Reading = {} /\ ~unsure => status = creds

(* The spinner has a reading under way.                                    *)
IntegrationSpinnerHasCause == iLoading => Reading # {}
=============================================================================
