----------------------------- MODULE DashboardMode -----------------------------
(***************************************************************************)
(* The dashboard's mode, which decides the groups of the sidebar.  It is   *)
(* kept three times: in the user's row, in a cookie and in the provider.   *)
(* A load takes it from the cookie and asks the API, whose answer wins; a  *)
(* choice is stored in the cookie at once and sent to the API, whose       *)
(* failure is ignored.                                                     *)
(*                                                                         *)
(*   stored     users.dashboard_mode                                       *)
(*   cookie     dmtool_mode, None when there is none                       *)
(*   mode, ready, openGroups   state of the provider and of the sidebar    *)
(*   mounted    the mode of the load, which the effect closes over         *)
(*   me         the request for the user's row                             *)
(*   patch[i]   the i-th choice on its way to the API                      *)
(***************************************************************************)
EXTENDS Integers

CONSTANTS None,       \* no cookie
          MaxChosen,  \* bound on the choices
          MaxLoads    \* bound on the loads of the page

ModeAssumption == MaxChosen \in Nat /\ MaxLoads \in Nat \ {0}

VARIABLES
    stored, cookie, mode, ready, openGroups, mounted, me, patch, chosen, loads,
    mixed   \* history: since the load, something has run into something else

provider == <<mode, ready, mounted, me>>
modeVars == <<stored, cookie, provider, openGroups, patch, chosen, loads, mixed>>

Modes == {"search", "social", "combined"}
Choices == 1 .. MaxChosen

\* The groups of the sidebar and the modes that show them.
navGroups ==
    [SEO |-> Modes \ {"social"}, Social |-> Modes \ {"search"}, AI |-> Modes, Account |-> Modes]
Groups == DOMAIN navGroups

ModeTypeOK ==
    /\ stored \in Modes /\ cookie \in Modes \cup {None}
    /\ mode \in Modes /\ mounted \in Modes /\ ready \in BOOLEAN /\ mixed \in BOOLEAN
    /\ openGroups \subseteq Groups
    /\ me \in [at : {"sent", "answered", "over"}, mode : Modes]
    /\ patch \in [Choices -> [at : {"idle", "sent", "over"}, mode : Modes]]
    /\ chosen \in 0 .. MaxChosen /\ loads \in 1 .. MaxLoads

Patching == {i \in Choices : patch[i].at = "sent"}
ModeOf(value) == IF value \in Modes THEN value ELSE "combined"

\* The layout reads the cookie on the server, and the provider asks for the user's row.
ModeInit ==
    /\ stored \in Modes /\ cookie \in Modes \cup {None}
    /\ mode = ModeOf(cookie) /\ mounted = mode /\ ready = FALSE
    /\ me = [at |-> "sent", mode |-> mode]
    /\ openGroups = {"SEO", "Social"}
    /\ patch = [i \in Choices |-> [at |-> "idle", mode |-> "combined"]]
    /\ chosen = 0 /\ loads = 1 /\ mixed = FALSE

\* The page is loaded again; the choices on their way may still arrive.
Load ==
    /\ loads < MaxLoads /\ loads' = loads + 1
    /\ mode' = ModeOf(cookie) /\ mounted' = ModeOf(cookie) /\ ready' = FALSE
    /\ me' = [at |-> "sent", mode |-> ModeOf(cookie)]
    /\ openGroups' = {"SEO", "Social"}
    /\ mixed' = (Patching # {})
    /\ UNCHANGED <<stored, cookie, patch, chosen>>

writeCookieMode(value) == cookie' = value

\* A segment of the switcher: the cookie and the state at once, then the API.
setMode(next) ==
    /\ next # mode /\ chosen < MaxChosen
    /\ writeCookieMode(next) /\ mode' = next
    /\ chosen' = chosen + 1
    /\ patch' = [patch EXCEPT ![chosen + 1] = [at |-> "sent", mode |-> next]]
    /\ mixed' = (mixed \/ Patching # {} \/ me.at # "over")
    /\ UNCHANGED <<stored, ready, mounted, me, openGroups, loads>>

\* The API stores a choice; its answer changes nothing.
PatchTaken(i) ==
    /\ i \in Patching
    /\ stored' = patch[i].mode
    /\ patch' = [patch EXCEPT ![i].at = "over"]
    /\ UNCHANGED <<cookie, provider, openGroups, chosen, loads, mixed>>

\* A choice never reaches the API, and is not taken back.
PatchLost(i) ==
    /\ i \in Patching
    /\ patch' = [patch EXCEPT ![i].at = "over"]
    /\ mixed' = TRUE
    /\ UNCHANGED <<stored, cookie, provider, openGroups, chosen, loads>>

\* The API reads the user's row.
MeAnswered ==
    /\ me.at = "sent" /\ me' = [at |-> "answered", mode |-> stored]
    /\ UNCHANGED <<stored, cookie, mode, ready, mounted, openGroups, patch, chosen, loads, mixed>>

\* A bug: the answer is shown but the cookie keeps its value.
MeLandsInState ==
    /\ me.at = "answered"
    /\ mode' = me.mode
    /\ me' = [me EXCEPT !.at = "over"] /\ ready' = TRUE
    /\ UNCHANGED <<stored, cookie, mounted, openGroups, patch, chosen, loads, mixed>>

\* The answer wins, when it is not the mode the load began with.
MeLands ==
    /\ me.at = "answered"
    /\ \/ me.mode # mounted /\ writeCookieMode(me.mode) /\ mode' = me.mode
       \/ me.mode = mounted /\ UNCHANGED <<cookie, mode>>
    /\ me' = [me EXCEPT !.at = "over"] /\ ready' = TRUE
    /\ UNCHANGED <<stored, mounted, openGroups, patch, chosen, loads, mixed>>

\* The request fails: the cookie's value stays.
MeFails ==
    /\ me.at # "over"
    /\ me' = [me EXCEPT !.at = "over"] /\ ready' = TRUE
    /\ mixed' = TRUE
    /\ UNCHANGED <<stored, cookie, mode, mounted, openGroups, patch, chosen, loads>>

\* A group of the sidebar is opened or closed; a group the mode hides keeps its place.
visibleGroups == {g \in Groups : mode \in navGroups[g]}
toggleGroup(g) ==
    /\ g \in visibleGroups
    /\ openGroups' = IF g \in openGroups THEN openGroups \ {g} ELSE openGroups \cup {g}
    /\ UNCHANGED <<stored, cookie, provider, patch, chosen, loads, mixed>>

ModeNext ==
    \/ Load
    \/ \E m \in Modes : setMode(m)
    \/ \E i \in Choices : PatchTaken(i) \/ PatchLost(i)
    \/ MeAnswered \/ MeLands \/ MeFails
    \/ \E g \in Groups : toggleGroup(g)

-----------------------------------------------------------------------------
(* Once nothing is under way, the sidebar, the cookie of the next load and *)
(* the user's row agree, and a load heals what an earlier one had mixed    *)
(* up.  They may differ until then when a request failed, when a second    *)
(* choice was made before the first was stored, or when a choice was made  *)
(* before the row was read, whose answer then undoes it.                   *)
ModeFollowsRow ==
    me.at = "over" /\ Patching = {} /\ ~mixed =>
        /\ mode = stored
        /\ \/ cookie = stored
           \/ cookie = None /\ mode = "combined"
=============================================================================
