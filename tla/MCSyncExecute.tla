--------------------------- MODULE MCSyncExecute ---------------------------
(***************************************************************************)
(* Instances of SyncExecute for TLC, on the graphs of MCGraph.             *)
(***************************************************************************)
EXTENDS SyncExecute, MCGraph

\* Three calls of count_down(), the last of which may be anyone's, the caller's
\* included: an any of an any of one child and of a leaf, and the graph
\* any{any{A, B}, C}.
Latched == <<
    <<"any", <<2, 3>>>>, <<"any", <<4>>>>, Leaf, Leaf,
    <<"any", <<6, 7>>>>, <<"any", <<8, 9>>>>, Leaf, Leaf, Leaf >>

LatchedNode == DOMAIN Latched
LatchedKind == KindOf(Latched)
LatchedKids == KidsIn(Latched)

=============================================================================
