------------------------------ MODULE SharedCall ------------------------------
(***************************************************************************)
(* What the refresh of the api-client promises to those who need it: in a  *)
(* tab one call at a time is under way; who needs it while it is joins it  *)
(* instead of starting another; and when it ends, nobody of the tab waits  *)
(* any more.                                                               *)
(***************************************************************************)
CONSTANTS Callers,  \* what may start a call
          Waiters,  \* those of them that wait for its end
          Home      \* the tab of each

VARIABLES
    flying,   \* those whose call is under way
    waiting   \* those who wait

callVars == <<flying, waiting>>

OfTab(t) == {w \in Waiters : Home[w] = t}

Init == flying = {} /\ waiting = {}

Start(i) ==
    /\ \A j \in flying : Home[j] # Home[i]
    /\ flying' = flying \cup {i}
    /\ waiting' = waiting \cup ({i} \cap Waiters)

Join(w) ==
    /\ \E j \in flying : Home[j] = Home[w]
    /\ waiting' = waiting \cup {w}
    /\ UNCHANGED flying

Finish(i) ==
    /\ i \in flying
    /\ flying' = flying \ {i}
    /\ waiting' = waiting \ OfTab(Home[i])

Next ==
    \/ \E i \in Callers : Start(i) \/ Finish(i)
    \/ \E w \in Waiters : Join(w)

Spec == Init /\ [][Next]_callVars
=============================================================================
