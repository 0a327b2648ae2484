----------------------------- MODULE MCWorkspace -----------------------------
(***************************************************************************)
(* Workspace on small instances: two projects on two platforms, two posts, *)
(* and of every bound as much as two calls that meet need.                 *)
(***************************************************************************)
EXTENDS Workspace, TLC

CONSTANTS c1, c2, p1, p2, meta, twitter, linkedin, s1, s2, w1, w2

\* The ids the API hands out are interchangeable.
MCSymmetry == Permutations(Posts)

MCPlatformOf == <<"facebook", "instagram">>

Metric(name, isSimulated, isBlank, age) ==
    [platform |-> name, simulated |-> isSimulated, blank |-> isBlank, at |-> age]

\* A measured row and a newer simulated one of Instagram, and a blank one of LinkedIn.
MCRows ==
    {Metric("instagram", FALSE, FALSE, 1), Metric("instagram", TRUE, FALSE, 2),
     Metric("linkedin", FALSE, TRUE, 1)}

MCNetworksOf == (1 :> {"instagram", "linkedin"}) @@ (2 :> {"facebook"})

MCSuggestionsOf == (s1 :> {w1}) @@ (s2 :> {w1, w2})
=============================================================================
