------------------------------- MODULE MCGraph -------------------------------
(***************************************************************************)
(* Instances of Graph for TLC: the graphs of test/orizzonte, and what each *)
(* of them can evaluate to, defined on the tree alone.                     *)
(***************************************************************************)
EXTENDS GraphOutcome, SequencesExt

-----------------------------------------------------------------------------
(* A graph is written as the sequence of its nodes, parents first:         *)
(* <<kind, children>>.                                                     *)

KindOf(nodes) == [n \in DOMAIN nodes |-> nodes[n][1]]
KidsIn(nodes) == [n \in DOMAIN nodes |-> nodes[n][2]]

Leaf == <<"leaf", <<>>>>

\* basic.cpp t1 to t5, with up to three children: a seq, an all of one and of
\* three, an any of one, of two and of three leaves.
Basic == <<
    <<"seq", <<2, 3>>>>, Leaf, Leaf,
    <<"all", <<5>>>>, Leaf,
    <<"all", <<7, 8, 9>>>>, Leaf, Leaf, Leaf,
    <<"any", <<11>>>>, Leaf,
    <<"any", <<13, 14>>>>, Leaf, Leaf,
    <<"any", <<16, 17, 18>>>>, Leaf, Leaf, Leaf >>

BasicNode == DOMAIN Basic
BasicKind == KindOf(Basic)
BasicKids == KidsIn(Basic)

\* any nodes of one child, whose destruction comes after a continuation that
\* schedules tasks and enters another of them.
Singles == <<
    <<"seq", <<2, 3>>>>,
    <<"any", <<4>>>>, <<"all", <<6, 7>>>>,
    <<"any", <<5>>>>, Leaf, <<"any", <<8>>>>, Leaf, Leaf >>

\* basic.cpp t6: an all of two any nodes.
AllOfAny == <<
    <<"all", <<2, 3>>>>,
    <<"any", <<4, 5>>>>, <<"any", <<6, 7>>>>, Leaf, Leaf, Leaf, Leaf >>

\* weird_cleanup.cpp: any{seq{any{seq{B, E}, A}, D}, C}.
Weird == <<
    <<"any", <<2, 3>>>>,
    <<"seq", <<4, 5>>>>, Leaf,
    <<"any", <<6, 7>>>>, Leaf,
    <<"seq", <<8, 9>>>>, Leaf, Leaf, Leaf >>

\* basic.cpp t9: an any of two seq nodes that start with an any.
AnyOfSeq == <<
    <<"any", <<2, 3>>>>,
    <<"seq", <<4, 5>>>>, <<"seq", <<6, 7>>>>,
    <<"any", <<8, 9>>>>, Leaf, <<"any", <<10, 11>>>>, Leaf,
    Leaf, Leaf, Leaf, Leaf >>

\* basic.cpp t8: an any of two all nodes, each of an any and a leaf.
AnyOfAll == <<
    <<"any", <<2, 3>>>>,
    <<"all", <<4, 5>>>>, <<"all", <<6, 7>>>>,
    <<"any", <<8, 9>>>>, Leaf, <<"any", <<10, 11>>>>, Leaf,
    Leaf, Leaf, Leaf, Leaf >>

\* Graphs side by side in one forest, renumbered.
Beside(g, h) ==
    g \o [n \in DOMAIN h |->
             <<h[n][1], [i \in DOMAIN h[n][2] |-> h[n][2][i] + Len(g)]>>]

Nested == Beside(Beside(AllOfAny, Weird), Singles)
NestedNode == DOMAIN Nested
NestedKind == KindOf(Nested)
NestedKids == KidsIn(Nested)

Deep == Beside(AnyOfSeq, AnyOfAll)
DeepNode == DOMAIN Deep
DeepKind == KindOf(Deep)
DeepKids == KidsIn(Deep)

-----------------------------------------------------------------------------
\* The stages of the nodes, from what the program's state still tells of them: a
\* node that anybody knows of is done, and passed on unless a thread is leaving
\* it; and it is started if it, or one below it, is done or at work.
Known == counted \union UNION {seen[t] : t \in Thread}
                 \union UNION {joined[n] : n \in Node}

PassedOn == {n \in Known : ~\E t \in Thread : Leaving(t, n)}

AtWork == {n \in Node : engaged[n] \/ \E t \in Thread : Entering(t, n)}

Started == {n \in Tree[root] : Tree[n] \intersect (Known \union AtWork) # {}}

\* The inductive invariant of module GraphInvariant, with these for the stages.
\* (Inv only says that there are some.)
Accounts ==
    IF calls = 0
    THEN Unused
    ELSE /\ Account(Started, Known, PassedOn)
         /\ Attended(Started, Known, PassedOn)
         /\ \E out \in {Evaluation(root, calls, win) : win \in Winners(root)} :
                Valued(Known, PassedOn, out)

=============================================================================
