----------------------------- MODULE MCViewSync -------------------------------
(* Instances of ViewSync: a show with one episode on one server, or one film *)
(* held by two servers.                                                      *)
EXTENDS ViewSync, TLC

CONSTANTS a, b, sa, sb, u1, u2

MCTwo == {a, b}

\* a is the show of episode b
MCShow == (a :> NoItem) @@ (b :> a)
MCShowScope == (a :> "Show") @@ (b :> "Leaf")
MCOneServer == (a :> sa) @@ (b :> sa)
MCTwoTitles == (a :> 1) @@ (b :> 2)

\* a and b are two copies of one film
MCNoParent == [i \in {a, b} |-> NoItem]
MCLeafScope == [i \in {a, b} |-> "Leaf"]
MCTwoServers == (a :> sa) @@ (b :> sb)
MCOneTitle == [i \in {a, b} |-> 1]
==============================================================================
