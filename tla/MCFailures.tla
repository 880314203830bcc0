------------------------------ MODULE MCFailures ------------------------------
(***************************************************************************)
(* Instances of Failures for TLC, on the graphs of MCGraph.                *)
(***************************************************************************)
EXTENDS Failures, MCGraph

\* An all of a leaf, an any and a leaf; an any of one child in an any; and a seq
\* that leads to an any of a leaf and an all.
Fragile == Beside(Beside(
    << <<"all", <<2, 3, 4>>>>, Leaf, <<"any", <<5, 6>>>>, Leaf, Leaf, Leaf >>,
    << <<"any", <<2, 3>>>>, <<"any", <<4>>>>, Leaf, Leaf >>),
    << <<"seq", <<2, 3>>>>, Leaf, <<"any", <<4, 5>>>>, Leaf,
       <<"all", <<6, 7>>>>, Leaf, Leaf >>)

FragileNode == DOMAIN Fragile
FragileKind == KindOf(Fragile)
FragileKids == KidsIn(Fragile)

=============================================================================
