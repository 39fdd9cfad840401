----------------------------- MODULE MCViewState ------------------------------
(* Instances of ViewState: two films on one server, or one film on two.      *)
EXTENDS ViewState, TLC

CONSTANTS a, b, sa, sb, u1, u2

MCTwo == {a, b}
MCOneServer == (a :> sa) @@ (b :> sa)
MCTwoServers == (a :> sa) @@ (b :> sb)
MCNoParent == [i \in {a, b} |-> NoItem]
MCLeafScope == [i \in {a, b} |-> "Leaf"]
MCOneTitle == [i \in {a, b} |-> 1]
MCTwoTitles == (a :> 1) @@ (b :> 2)

\* The two sides of the two-server instance, and the two users, are alike.
Sides == (a :> b) @@ (b :> a) @@ (sa :> sb) @@ (sb :> sa)
Alike == {Sides} \cup Permutations({u1, u2})
             \cup {Sides @@ p : p \in Permutations({u1, u2})}
==============================================================================
