----------------------------- MODULE GraphProofs -----------------------------
(***************************************************************************)
(* Proofs about module Graph, for every finite forest of graphs, any       *)
(* number of workers and any number of calls: what the functions on its    *)
(* trees are (Tree, Lender and CleanupCount), and type correctness.        *)
(*                                                                         *)
(* The inductions are over the numbers of nodes, and over sets of them in  *)
(* place of predicates: a set of naturals that is not empty has a least    *)
(* element.                                                                *)
(***************************************************************************)
EXTENDS Graph, FiniteSetTheorems, TLAPS

-----------------------------------------------------------------------------
\* Facts about the shape of the graphs.

\* A node has at most one parent, at one position.
LEMMA KidFacts ==
    ASSUME NEW n \in Node, NEW i \in DOMAIN Kids[n]
    PROVE  /\ Kids[n][i] \in Node \ Roots
           /\ Parent[Kids[n][i]] = n
           /\ Position[Kids[n][i]] = i
<1> DEFINE k == Kids[n][i]
<1>1. k \in Node
  BY KidsAssumption
<1>2. k \in KidsOf(n)
  BY DEF KidsOf
<1>3. k \notin Roots
  BY <1>2 DEF Roots
<1>4. ASSUME NEW m \in Node, k \in KidsOf(m) PROVE m = n
  BY <1>4, KidsAssumption DEF KidsOf
<1>5. Parent[k] = n
  BY <1>1, <1>2, <1>3, <1>4 DEF Parent
<1>6. ASSUME NEW j \in DOMAIN Kids[n], Kids[n][j] = k PROVE j = i
  BY <1>6, KidsAssumption
<1>7. Position[k] = i
  BY <1>1, <1>3, <1>5, <1>6 DEF Position
<1> QED
  BY <1>1, <1>3, <1>5, <1>7

\* A node that is no root is the child of its parent at its position.
LEMMA ParentFacts ==
    ASSUME NEW k \in Node \ Roots
    PROVE  /\ Parent[k] \in Node
           /\ k \in KidsOf(Parent[k])
           /\ Position[k] \in DOMAIN Kids[Parent[k]]
           /\ Kids[Parent[k]][Position[k]] = k
<1>1. PICK n \in Node : k \in KidsOf(n)
  BY DEF Roots
<1>2. PICK i \in DOMAIN Kids[n] : k = Kids[n][i]
  BY <1>1 DEF KidsOf
<1> QED
  BY <1>1, <1>2, KidFacts

\* Sequences of children.
LEMMA ArityFacts ==
    ASSUME NEW n \in Node
    PROVE  /\ Arity(n) \in Nat
           /\ DOMAIN Kids[n] = 1 .. Arity(n)
           /\ Shared(n) => 1 \in DOMAIN Kids[n]
           /\ Kind[n] = "seq" => 1 \in DOMAIN Kids[n] /\ 2 \in DOMAIN Kids[n]
<1>1. Kids[n] \in Seq(Node)
  BY KidsAssumption
<1>2. Arity(n) \in Nat /\ DOMAIN Kids[n] = 1 .. Arity(n)
  BY <1>1 DEF Arity
<1>3. ASSUME Shared(n) PROVE Arity(n) >= 1
  BY <1>3, KidsAssumption DEF Arity, Shared
<1>4. ASSUME Kind[n] = "seq" PROVE Arity(n) = 2
  BY <1>4, KidsAssumption DEF Arity
<1> QED
  BY <1>2, <1>3, <1>4

\* The loop over the children goes on to another child of the same parent.
LEMMA NextKidFacts ==
    ASSUME NEW k \in Node \ Roots, ~IsLast(k)
    PROVE  /\ NextKid(k) \in Node \ Roots
           /\ Parent[NextKid(k)] = Parent[k]
<1> DEFINE n == Parent[k]
<1>1. /\ n \in Node
      /\ Position[k] \in 1 .. Arity(n)
      /\ Arity(n) \in Nat
      /\ DOMAIN Kids[n] = 1 .. Arity(n)
  BY ParentFacts, ArityFacts
<1>2. Position[k] + 1 \in DOMAIN Kids[n]
  BY <1>1 DEF IsLast
<1> QED
  BY <1>1, <1>2, KidFacts DEF NextKid

\* The caller is no task, and tasks are nodes.
LEMMA ThreadFacts ==
    /\ Main \notin Node
    /\ Main \in Thread
    /\ Task \subseteq Node \ Roots
    /\ Thread \subseteq Node \union {Main}
  BY NodeAssumption DEF Main, Task, Thread

-----------------------------------------------------------------------------
\* Numbers.

\* A set of naturals that is not empty has a least element.
LEMMA Least ==
    ASSUME NEW S \in SUBSET Nat, S # {}
    PROVE  \E m \in S : \A n \in S : m <= n
<1> DEFINE R == OpToRel(<, Nat)
<1>1. IsWellFoundedOn(R, Nat)
  BY NatLessThanWellFounded
<1>2. PICK x \in S : \A y \in S : <<y, x>> \notin R
  <2> HIDE DEF R
  <2> QED
    BY <1>1, WFMin
<1>3. \A y \in S : ~ (y < x)
  BY <1>2 DEF OpToRel
<1> QED
  BY <1>3

\* Induction from smaller numbers to larger ones.
LEMMA Ascending ==
    ASSUME NEW N \in SUBSET Nat, NEW T,
           \A n \in N : (\A k \in N : k < n => k \in T) => n \in T
    PROVE  N \subseteq T
<1> SUFFICES ASSUME N \ T # {} PROVE FALSE
  OBVIOUS
<1>1. PICK m \in N \ T : \A n \in N \ T : m <= n
  BY Least
<1>2. \A k \in N : k < m => k \in T
  BY <1>1
<1> QED
  BY <1>1, <1>2

\* Induction from larger numbers to smaller ones, below a bound.
LEMMA Descending ==
    ASSUME NEW N \in SUBSET Nat, NEW T, NEW b \in Nat, \A n \in N : n < b,
           \A n \in N : (\A k \in N : n < k => k \in T) => n \in T
    PROVE  N \subseteq T
<1> DEFINE S == {a \in Nat : \A n \in N : a <= n => n \in T}
<1>1. b \in S
  OBVIOUS
<1>2. PICK a \in S : \A n \in S : a <= n
  <2>1. S \in SUBSET Nat /\ S # {}
    BY <1>1
  <2> HIDE DEF S
  <2> QED
    BY <2>1, Least
<1>3. CASE a = 0
  BY <1>3
<1>4. CASE a # 0
  <2> DEFINE m == a - 1
  <2>1. m \in Nat /\ m < a /\ \A n \in N : m < n => a <= n
    BY <1>4
  <2>2. \A n \in N : m < n => n \in T
    BY <2>1
  <2>3. m \in N => m \in T
    BY <2>2
  <2>4. \A n \in N : m <= n => m < n \/ n = m
    BY <2>1
  <2>5. m \in S
    BY <2>1, <2>2, <2>3, <2>4
  <2> QED
    BY <1>2, <2>1, <2>5
<1> QED
  BY <1>3, <1>4

\* A finite set of naturals has a bound.
LEMMA Bounded ==
    ASSUME NEW S \in SUBSET Nat, IsFiniteSet(S)
    PROVE  \E b \in Nat : \A n \in S : n < b
<1>1. PICK m \in Nat : ExistsSurjection(1 .. m, S)
  BY FS_NatSurjection
<1>2. PICK f \in [1 .. m -> S] : \A s \in S : \E i \in 1 .. m : f[i] = s
  BY <1>1 DEF ExistsSurjection, Surjection
<1> DEFINE Below(l) == \E b \in Nat : \A i \in 1 .. l : f[i] < b
           T == {l \in 0 .. m : Below(l)}
<1>3. Below(0)
  <2>1. \A i \in 1 .. 0 : f[i] < 0
    OBVIOUS
  <2> QED
    BY <2>1
<1>4. ASSUME NEW l \in 1 .. m, Below(l - 1) PROVE Below(l)
  <2>1. PICK b \in Nat : \A i \in 1 .. (l - 1) : f[i] < b
    BY <1>4
  <2>2. f[l] \in Nat
    OBVIOUS
  <2>3. PICK c \in Nat : b <= c /\ f[l] < c
    <3>1. CASE f[l] < b
      BY <3>1
    <3>2. CASE ~ (f[l] < b)
      <4>1. f[l] + 1 \in Nat /\ b <= f[l] + 1 /\ f[l] < f[l] + 1
        BY <2>2, <3>2
      <4> QED
        BY <4>1
    <3> QED
      BY <3>1, <3>2
  <2>4. ASSUME NEW i \in 1 .. l PROVE f[i] < c
    <3>1. f[i] \in Nat
      <4>1. i \in 1 .. m
        OBVIOUS
      <4> QED
        BY <4>1
    <3>2. CASE i = l
      BY <2>3, <3>2
    <3>3. CASE i # l
      <4>1. i \in 1 .. (l - 1)
        BY <3>3
      <4> QED
        BY <2>1, <2>3, <3>1, <4>1
    <3> QED
      BY <3>2, <3>3
  <2> QED
    BY <2>3, <2>4
<1>5. ASSUME NEW l \in 0 .. m, \A k \in 0 .. m : k < l => k \in T PROVE l \in T
  <2>1. CASE l = 0
    BY <1>3, <2>1
  <2>2. CASE l # 0
    <3>1. l - 1 \in 0 .. m /\ l - 1 < l /\ l \in 1 .. m
      BY <2>2
    <3>2. Below(l - 1)
      BY <1>5, <3>1
    <3> QED
      BY <1>4, <3>1, <3>2
  <2> QED
    BY <2>1, <2>2
<1>6. Below(m)
  <2>1. 0 .. m \in SUBSET Nat
    OBVIOUS
  <2>2. 0 .. m \subseteq T
    <3> HIDE DEF T
    <3>1. \A l \in 0 .. m : (\A k \in 0 .. m : k < l => k \in T) => l \in T
      BY <1>5
    <3> QED
      BY <2>1, <3>1, Ascending
  <2>3. m \in 0 .. m
    OBVIOUS
  <2> QED
    BY <2>2, <2>3
<1> QED
  BY <1>2, <1>6

\* G[n][f] says what the value of a function is at n if the function is f above
\* n, and b is above all of N.
FromAbove(N, b, V, G) ==
    /\ N \in SUBSET Nat /\ b \in Nat /\ \A n \in N : n < b
    /\ V # {}
    /\ \A n \in N : \A f \in [N -> V] : G[n][f] \in V
    /\ \A n \in N : \A f, g \in [N -> V] :
           (\A k \in N : n < k => f[k] = g[k]) => G[n][f] = G[n][g]

\* A function that is defined by recursion from larger numbers to smaller ones
\* exists.
LEMMA RecursionDown ==
    ASSUME NEW N, NEW b, NEW V, NEW G, FromAbove(N, b, V, G)
    PROVE  \E f \in [N -> V] : \A n \in N : f[n] = G[n][f]
<1>0. N \in SUBSET Nat /\ \A n \in N : ~ (b <= n)
  BY DEF FromAbove
<1> USE DEF FromAbove
<1> DEFINE Solves(f, a) == \A n \in N : a <= n => f[n] = G[n][f]
           T == {a \in 0 .. b : \E f \in [N -> V] : Solves(f, a)}
<1>1. b \in T
  <2>1. PICK v \in V : TRUE
    OBVIOUS
  <2>2. [n \in N |-> v] \in [N -> V]
    OBVIOUS
  <2>4. Solves([n \in N |-> v], b)
    BY <1>0
  <2>5. b \in 0 .. b
    OBVIOUS
  <2> QED
    BY <2>2, <2>4, <2>5
<1>2. ASSUME NEW a \in 0 .. b, a + 1 \in T PROVE a \in T
  <2>1. PICK f \in [N -> V] : Solves(f, a + 1)
    BY <1>2
  <2>2. \A n \in N : a <= n => n = a \/ a + 1 <= n
    OBVIOUS
  <2>3. CASE a \notin N
    <3>1. Solves(f, a)
      BY <2>1, <2>2, <2>3
    <3> QED
      BY <3>1
  <2>4. CASE a \in N
    <3> DEFINE g == [f EXCEPT ![a] = G[a][f]]
    <3>1. g \in [N -> V] /\ g[a] = G[a][f]
      BY <2>4
    <3>2. \A k \in N : k # a => g[k] = f[k]
      OBVIOUS
    <3> HIDE DEF g
    <3>3. ASSUME NEW n \in N, a <= n PROVE g[n] = G[n][g]
      <4>1. \A k \in N : n < k => f[k] = g[k]
        BY <3>2, <3>3
      <4>2. G[n][f] = G[n][g]
        BY <3>1, <4>1
      <4>3. n # a => f[n] = G[n][f]
        BY <2>1, <2>2, <3>3
      <4> QED
        BY <3>1, <3>2, <4>2, <4>3
    <3> QED
      BY <3>1, <3>3
  <2> QED
    BY <2>3, <2>4
<1>3. 0 .. b \subseteq T
  <2>1. ASSUME NEW a \in 0 .. b, \A k \in 0 .. b : a < k => k \in T
        PROVE  a \in T
    <3>1. CASE a = b
      BY <1>1, <3>1
    <3>2. CASE a # b
      <4>1. a + 1 \in 0 .. b /\ a < a + 1
        BY <3>2
      <4> HIDE DEF T
      <4>2. a + 1 \in T
        BY <2>1, <4>1
      <4> QED
        BY <1>2, <4>2
    <3> QED
      BY <3>1, <3>2
  <2>2. PICK c \in Nat : \A n \in 0 .. b : n < c
    <3>1. b + 1 \in Nat /\ \A n \in 0 .. b : n < b + 1
      OBVIOUS
    <3> QED
      BY <3>1
  <2>3. 0 .. b \in SUBSET Nat
    OBVIOUS
  <2> HIDE DEF T
  <2>4. \A a \in 0 .. b : (\A k \in 0 .. b : a < k => k \in T) => a \in T
    BY <2>1
  <2> QED
    BY <2>2, <2>3, <2>4, Descending
<1>4. 0 \in T
  <2>1. 0 \in 0 .. b
    OBVIOUS
  <2> HIDE DEF T
  <2> QED
    BY <1>3, <2>1
<1> QED
  BY <1>4

\* G[n][f] says what the value of a function is at n if the function is f below
\* n, and b is above all of N.
FromBelow(N, b, V, G) ==
    /\ N \in SUBSET Nat /\ b \in Nat /\ \A n \in N : n < b
    /\ V # {}
    /\ \A n \in N : \A f \in [N -> V] : G[n][f] \in V
    /\ \A n \in N : \A f, g \in [N -> V] :
           (\A k \in N : k < n => f[k] = g[k]) => G[n][f] = G[n][g]

\* A function that is defined by recursion from smaller numbers to larger ones
\* exists.
LEMMA RecursionUp ==
    ASSUME NEW N, NEW b, NEW V, NEW G, FromBelow(N, b, V, G)
    PROVE  \E f \in [N -> V] : \A n \in N : f[n] = G[n][f]
<1>0. N \in SUBSET Nat /\ \A n \in N : ~ (n < 0)
  BY DEF FromBelow
<1> USE DEF FromBelow
<1> DEFINE Solves(f, a) == \A n \in N : n < a => f[n] = G[n][f]
           T == {a \in 0 .. b : \E f \in [N -> V] : Solves(f, a)}
<1>1. 0 \in T
  <2>1. PICK v \in V : TRUE
    OBVIOUS
  <2>2. [n \in N |-> v] \in [N -> V]
    OBVIOUS
  <2>4. Solves([n \in N |-> v], 0)
    BY <1>0
  <2> QED
    BY <2>2, <2>4
<1>2. ASSUME NEW a \in 0 .. b, a + 1 \in 0 .. b, a \in T PROVE a + 1 \in T
  <2>1. PICK f \in [N -> V] : Solves(f, a)
    BY <1>2
  <2>2. \A n \in N : n < a + 1 => n = a \/ n < a
    OBVIOUS
  <2>3. CASE a \notin N
    <3>1. Solves(f, a + 1)
      BY <2>1, <2>2, <2>3
    <3> QED
      BY <1>2, <3>1
  <2>4. CASE a \in N
    <3> DEFINE g == [f EXCEPT ![a] = G[a][f]]
    <3>1. g \in [N -> V] /\ g[a] = G[a][f]
      BY <2>4
    <3>2. \A k \in N : k # a => g[k] = f[k]
      OBVIOUS
    <3> HIDE DEF g
    <3>3. ASSUME NEW n \in N, n < a + 1 PROVE g[n] = G[n][g]
      <4>1. \A k \in N : k < n => f[k] = g[k]
        BY <3>2, <3>3
      <4>2. G[n][f] = G[n][g]
        BY <3>1, <4>1
      <4>3. n # a => f[n] = G[n][f]
        BY <2>1, <2>2, <3>3
      <4> QED
        BY <3>1, <3>2, <4>2, <4>3
    <3> QED
      BY <1>2, <3>1, <3>3
  <2> QED
    BY <2>3, <2>4
<1>3. 0 .. b \subseteq T
  <2>1. ASSUME NEW a \in 0 .. b, \A k \in 0 .. b : k < a => k \in T
        PROVE  a \in T
    <3>1. CASE a = 0
      BY <1>1, <3>1
    <3>2. CASE a # 0
      <4>1. a - 1 \in 0 .. b /\ a - 1 < a /\ (a - 1) + 1 = a
        BY <3>2
      <4> HIDE DEF T
      <4>2. a - 1 \in T
        BY <2>1, <4>1
      <4> QED
        BY <1>2, <4>1, <4>2
    <3> QED
      BY <3>1, <3>2
  <2>2. 0 .. b \in SUBSET Nat
    OBVIOUS
  <2> HIDE DEF T
  <2>3. \A a \in 0 .. b : (\A k \in 0 .. b : k < a => k \in T) => a \in T
    BY <2>1
  <2> QED
    BY <2>2, <2>3, Ascending
<1>4. PICK f \in [N -> V] : Solves(f, b)
  <2>1. b \in T
    <3>1. b \in 0 .. b
      OBVIOUS
    <3> HIDE DEF T
    <3> QED
      BY <1>3, <3>1
  <2> QED
    BY <2>1
<1> QED
  BY <1>4

-----------------------------------------------------------------------------
\* Nodes are numbered with parents first, and there are finitely many.

LEMMA NodeBound == Node \in SUBSET Nat /\ \E b \in Nat : \A n \in Node : n < b
  BY NodeAssumption, Bounded

LEMMA KidsAreLarger ==
    ASSUME NEW n \in Node, NEW k \in KidsOf(n)
    PROVE  k \in Node \ Roots /\ Parent[k] = n /\ n < k
  BY KidFacts, KidsAssumption DEF KidsOf

LEMMA ParentIsSmaller ==
    ASSUME NEW k \in Node \ Roots
    PROVE  Parent[k] \in Node /\ k \in KidsOf(Parent[k]) /\ Parent[k] < k
  BY ParentFacts, KidsAreLarger

-----------------------------------------------------------------------------
\* Tree.

\* A solution of the equation that defines Tree exists, and so Tree is one.
LEMMA TreeDef ==
    /\ Tree \in [Node -> SUBSET Node]
    /\ \A n \in Node : Tree[n] = {n} \union UNION {Tree[k] : k \in KidsOf(n)}
<1> DEFINE V == SUBSET Node
           Body(n, f) == {n} \union UNION {f[k] : k \in KidsOf(n)}
           G == [n \in Node |-> [f \in [Node -> V] |-> Body(n, f)]]
<1>1. ASSUME NEW n \in Node, NEW f \in [Node -> V] PROVE Body(n, f) \in V
  <2>1. \A k \in KidsOf(n) : f[k] \subseteq Node
    BY KidsAreLarger
  <2> QED
    BY <2>1
<1>2. ASSUME NEW n \in Node, NEW f \in [Node -> V], NEW g \in [Node -> V],
             \A k \in Node : n < k => f[k] = g[k]
      PROVE  Body(n, f) = Body(n, g)
  <2>1. \A k \in KidsOf(n) : f[k] = g[k]
    BY <1>2, KidsAreLarger
  <2> QED
    BY <2>1
<1>4. PICK b \in Nat : \A n \in Node : n < b
  BY NodeBound
<1>5. \A n \in Node : \A f \in [Node -> V] : G[n][f] = Body(n, f)
  OBVIOUS
<1>6. \E f \in [Node -> V] : \A n \in Node : f[n] = G[n][f]
  <2>1. V # {}
    OBVIOUS
  <2> HIDE DEF V, G, Body
  <2>2. \A n \in Node : \A f, g \in [Node -> V] :
            (\A k \in Node : n < k => f[k] = g[k]) => G[n][f] = G[n][g]
    BY <1>2, <1>5
  <2>3. FromAbove(Node, b, V, G)
    BY <1>1, <1>4, <1>5, <2>1, <2>2, NodeBound DEF FromAbove
  <2> QED
    BY <2>3, RecursionDown
<1>7. PICK f \in [Node -> V] : \A n \in Node : f[n] = Body(n, f)
  <2> HIDE DEF V, G, Body
  <2> QED
    BY <1>5, <1>6
<1>8. f = [n \in Node |-> {n} \union UNION {f[k] : k \in KidsOf(n)}]
  BY <1>7
<1>9. Tree = [n \in Node |-> {n} \union UNION {Tree[k] : k \in KidsOf(n)}]
  BY <1>8 DEF Tree
<1> DEFINE T == {n \in Node : Tree[n] \subseteq Node}
<1>10. Node \subseteq T
  <2>1. ASSUME NEW n \in Node, \A k \in Node : n < k => k \in T
        PROVE  n \in T
    <3>1. \A k \in KidsOf(n) : Tree[k] \subseteq Node
      BY <2>1, KidsAreLarger
    <3>2. Tree[n] = {n} \union UNION {Tree[k] : k \in KidsOf(n)}
      BY <1>9
    <3> QED
      BY <3>1, <3>2
  <2> HIDE DEF T
  <2>2. \A n \in Node : (\A k \in Node : n < k => k \in T) => n \in T
    BY <2>1
  <2> QED
    BY <1>4, <2>2, NodeBound, Descending
<1> QED
  BY <1>9, <1>10

\* A node is in its own tree, with it are its children, and without it is only
\* the tree's own root.
LEMMA TreeSelf == \A n \in Node : n \in Tree[n] /\ Tree[n] \subseteq Node
  BY TreeDef

LEMMA TreeKids ==
    ASSUME NEW n \in Node, NEW k \in KidsOf(n)
    PROVE  Tree[k] \subseteq Tree[n]
  BY TreeDef

LEMMA TreeDown ==
    ASSUME NEW n \in Node, NEW m \in Tree[n], NEW k \in KidsOf(m)
    PROVE  k \in Tree[n]
<1> DEFINE T == {a \in Node : \A c \in Tree[a] : KidsOf(c) \subseteq Tree[a]}
<1>1. ASSUME NEW a \in Node, \A c \in Node : a < c => c \in T
      PROVE  a \in T
  <2>1. ASSUME NEW c \in Tree[a], NEW d \in KidsOf(c) PROVE d \in Tree[a]
    <3>1. CASE c = a
      BY <2>1, <3>1, KidsAreLarger, TreeSelf, TreeKids
    <3>2. CASE c # a
      <4>1. PICK e \in KidsOf(a) : c \in Tree[e]
        BY <3>2, TreeDef
      <4>2. e \in T
        BY <1>1, KidsAreLarger
      <4> QED
        BY <2>1, <4>1, <4>2, TreeKids
    <3> QED
      BY <3>1, <3>2
  <2> QED
    BY <2>1
<1>2. PICK b \in Nat : \A a \in Node : a < b
  BY NodeBound
<1>3. Node \subseteq T
  <2> HIDE DEF T
  <2> QED
    BY <1>1, <1>2, NodeBound, Descending
<1> QED
  BY <1>3

LEMMA TreeUp ==
    ASSUME NEW n \in Node, NEW m \in Tree[n], m # n
    PROVE  m \in Node \ Roots /\ Parent[m] \in Tree[n]
<1> DEFINE T == {a \in Node :
                   \A c \in Tree[a] \ {a} : c \notin Roots /\ Parent[c] \in Tree[a]}
<1>1. ASSUME NEW a \in Node, \A c \in Node : a < c => c \in T
      PROVE  a \in T
  <2>1. ASSUME NEW c \in Tree[a] \ {a}
        PROVE  c \notin Roots /\ Parent[c] \in Tree[a]
    <3>1. PICK e \in KidsOf(a) : c \in Tree[e]
      BY TreeDef
    <3>2. CASE c = e
      BY <3>2, KidsAreLarger, TreeSelf
    <3>3. CASE c # e
      <4>1. e \in T
        BY <1>1, KidsAreLarger
      <4> QED
        BY <3>1, <3>3, <4>1, TreeKids
    <3> QED
      BY <3>2, <3>3
  <2> QED
    BY <2>1
<1>2. PICK b \in Nat : \A a \in Node : a < b
  BY NodeBound
<1>3. Node \subseteq T
  <2> HIDE DEF T
  <2> QED
    BY <1>1, <1>2, NodeBound, Descending
<1> QED
  BY <1>3, TreeSelf


LEMMA TreeOrder ==
    ASSUME NEW n \in Node, NEW m \in Tree[n]
    PROVE  n <= m
<1> DEFINE T == {a \in Node : \A c \in Tree[a] : a <= c}
<1>1. ASSUME NEW a \in Node, \A c \in Node : a < c => c \in T
      PROVE  a \in T
  <2>1. ASSUME NEW c \in Tree[a] PROVE a <= c
    <3>1. CASE c = a
      BY <3>1, NodeBound
    <3>2. CASE c # a
      <4>1. PICK e \in KidsOf(a) : c \in Tree[e]
        BY <3>2, TreeDef
      <4>2. e \in Node /\ a < e
        BY KidsAreLarger
      <4>3. e <= c
        BY <1>1, <4>1, <4>2
      <4>4. a \in Nat /\ e \in Nat /\ c \in Nat
        BY <4>2, TreeSelf, NodeBound
      <4> QED
        BY <4>2, <4>3, <4>4
    <3> QED
      BY <3>1, <3>2
  <2> QED
    BY <2>1
<1>2. PICK b \in Nat : \A a \in Node : a < b
  BY NodeBound
<1>3. Node \subseteq T
  <2> HIDE DEF T
  <2> QED
    BY <1>1, <1>2, NodeBound, Descending
<1> QED
  BY <1>3

\* The trees of two children of a node have nothing in common.
LEMMA TreesApart ==
    ASSUME NEW n \in Node, NEW k \in KidsOf(n), NEW l \in KidsOf(n), k # l
    PROVE  Tree[k] \intersect Tree[l] = {}
<1> DEFINE T == {m \in Node : m \notin Tree[k] \intersect Tree[l]}
<1>1. /\ k \in Node \ Roots /\ Parent[k] = n /\ n < k
      /\ l \in Node \ Roots /\ Parent[l] = n /\ n < l
      /\ n \in Nat /\ k \in Nat /\ l \in Nat
  BY KidsAreLarger, NodeBound
<1>2. n \notin Tree[k] /\ n \notin Tree[l]
  <2>1. ~ (k <= n) /\ ~ (l <= n)
    BY <1>1
  <2> QED
    BY <1>1, <2>1, TreeOrder
<1>3. k \notin Tree[l] /\ l \notin Tree[k]
  BY <1>1, <1>2, TreeUp
<1>4. ASSUME NEW m \in Node, \A c \in Node : c < m => c \in T
      PROVE  m \in T
  <2>1. SUFFICES ASSUME m \in Tree[k], m \in Tree[l] PROVE FALSE
    OBVIOUS
  <2>2. m # k /\ m # l
    BY <1>3, <2>1
  <2>3. m \in Node \ Roots /\ Parent[m] \in Tree[k] /\ Parent[m] \in Tree[l]
    BY <1>1, <2>1, <2>2, TreeUp
  <2>4. Parent[m] \in Node /\ Parent[m] < m
    BY <2>3, ParentIsSmaller
  <2> QED
    BY <1>4, <2>3, <2>4
<1>5. Node \subseteq T
  <2> HIDE DEF T
  <2> QED
    BY <1>4, NodeBound, Ascending
<1> QED
  BY <1>1, <1>5, TreeSelf

\* What is in the tree of a node was entered through that node, ...
LEMMA SecondDown ==
    ASSUME NEW k \in Node \ Roots, NEW n \in Node, Kind[n] = "seq",
           k \in Tree[Kids[n][2]]
    PROVE  k = Kids[n][2] \/ Parent[k] \in Tree[Kids[n][2]]
<1>1. Kids[n][2] \in Node
  BY ArityFacts, KidFacts
<1> QED
  BY <1>1, TreeUp

\* ... and a child is where its parent is.
LEMMA SecondUp ==
    ASSUME NEW k \in Node \ Roots, NEW n \in Node, Kind[n] = "seq",
           Parent[k] \in Tree[Kids[n][2]]
    PROVE  k \in Tree[Kids[n][2]]
<1>1. Kids[n][2] \in Node /\ k \in KidsOf(Parent[k])
  BY ArityFacts, KidFacts, ParentIsSmaller
<1> QED
  BY <1>1, TreeDown

-----------------------------------------------------------------------------
\* Lender.

LEMMA LenderDef ==
    \A n \in Node :
        Lender[n] = IF n \in Roots THEN Main
                    ELSE IF Shared(Parent[n]) THEN Parent[n]
                    ELSE IF Position[n] = 1 THEN Lender[Parent[n]]
                    ELSE Main
<1> DEFINE V == Node \union {Main}
           Body(n, f) == IF n \in Roots THEN Main
                         ELSE IF Shared(Parent[n]) THEN Parent[n]
                         ELSE IF Position[n] = 1 THEN f[Parent[n]]
                         ELSE Main
           G == [n \in Node |-> [f \in [Node -> V] |-> Body(n, f)]]
<1>1. ASSUME NEW n \in Node, NEW f \in [Node -> V] PROVE Body(n, f) \in V
  BY ParentIsSmaller
<1>2. ASSUME NEW n \in Node, NEW f \in [Node -> V], NEW g \in [Node -> V],
             \A k \in Node : k < n => f[k] = g[k]
      PROVE  Body(n, f) = Body(n, g)
  BY <1>2, ParentIsSmaller
<1>3. PICK b \in Nat : \A n \in Node : n < b
  BY NodeBound
<1>4. \A n \in Node : \A f \in [Node -> V] : G[n][f] = Body(n, f)
  OBVIOUS
<1>5. \E f \in [Node -> V] : \A n \in Node : f[n] = G[n][f]
  <2>1. V # {}
    OBVIOUS
  <2> HIDE DEF V, G, Body
  <2>2. \A n \in Node : \A f, g \in [Node -> V] :
            (\A k \in Node : k < n => f[k] = g[k]) => G[n][f] = G[n][g]
    BY <1>2, <1>4
  <2>3. FromBelow(Node, b, V, G)
    BY <1>1, <1>3, <1>4, <2>1, <2>2, NodeBound DEF FromBelow
  <2> QED
    BY <2>3, RecursionUp
<1>6. PICK f \in [Node -> V] : \A n \in Node : f[n] = Body(n, f)
  <2> HIDE DEF V, G, Body
  <2> QED
    BY <1>4, <1>5
<1>7. f = [n \in Node |-> IF n \in Roots THEN Main
                          ELSE IF Shared(Parent[n]) THEN Parent[n]
                          ELSE IF Position[n] = 1 THEN f[Parent[n]]
                          ELSE Main]
  BY <1>6
<1>8. Lender = [n \in Node |-> IF n \in Roots THEN Main
                               ELSE IF Shared(Parent[n]) THEN Parent[n]
                               ELSE IF Position[n] = 1 THEN Lender[Parent[n]]
                               ELSE Main]
  BY <1>7 DEF Lender
<1> QED
  BY <1>8

-----------------------------------------------------------------------------
\* Counting children.

LEMMA NodesAreFinite == \A S \in SUBSET Node : IsFiniteSet(S)
  BY NodeAssumption, FS_Subset

LEMMA KidsCount ==
    ASSUME NEW n \in Node
    PROVE  /\ KidsOf(n) \in SUBSET Node
           /\ IsFiniteSet(KidsOf(n))
           /\ Cardinality(KidsOf(n)) = Arity(n)
<1> DEFINE f == [i \in 1 .. Arity(n) |-> Kids[n][i]]
<1>1. Arity(n) \in Nat /\ DOMAIN Kids[n] = 1 .. Arity(n)
  BY ArityFacts
<1>2. KidsOf(n) \in SUBSET Node
  BY KidsAreLarger
<1>3. f \in [1 .. Arity(n) -> KidsOf(n)]
  BY <1>1 DEF KidsOf
<1>4. \A i, j \in 1 .. Arity(n) : f[i] = f[j] => i = j
  BY <1>1, KidFacts
<1>5. \A k \in KidsOf(n) : \E i \in 1 .. Arity(n) : f[i] = k
  BY <1>1 DEF KidsOf
<1>6. ExistsBijection(1 .. Arity(n), KidsOf(n))
  <2> HIDE DEF f
  <2> QED
    BY <1>3, <1>4, <1>5
       DEF ExistsBijection, Bijection, Injection, Surjection, IsInjective
<1>7. IsFiniteSet(1 .. Arity(n)) /\ Cardinality(1 .. Arity(n)) = Arity(n)
  BY <1>1, FS_Interval
<1> QED
  BY <1>2, <1>6, <1>7, FS_Bijection

-----------------------------------------------------------------------------
\* CleanupCount.

\* The sum in cleanup_count over the first children of n of what f counts.
SumOver(f, n) ==
    LET Sum[i \in 0 .. Arity(n)] ==
            IF i = 0 THEN 0 ELSE Sum[i - 1] + f[Kids[n][i]]
    IN  Sum

LEMMA SumDef ==
    ASSUME NEW n \in Node, NEW f, \A k \in KidsOf(n) : f[k] \in Nat
    PROVE  /\ SumOver(f, n) \in [0 .. Arity(n) -> Nat]
           /\ SumOver(f, n)[0] = 0
           /\ \A i \in 1 .. Arity(n) :
                  SumOver(f, n)[i] = SumOver(f, n)[i - 1] + f[Kids[n][i]]
<1> DEFINE N == 0 .. Arity(n)
           Body(i, s) == IF i = 0 THEN 0 ELSE s[i - 1] + f[Kids[n][i]]
           G == [i \in N |-> [s \in [N -> Nat] |-> Body(i, s)]]
<1>1. /\ Arity(n) \in Nat /\ N \in SUBSET Nat /\ 0 \in N
      /\ DOMAIN Kids[n] = 1 .. Arity(n)
      /\ \A i \in N : i < Arity(n) + 1
  BY ArityFacts
<1>2. ASSUME NEW i \in N, i # 0
      PROVE  i - 1 \in N /\ i - 1 < i /\ f[Kids[n][i]] \in Nat
  <2>1. i \in DOMAIN Kids[n]
    BY <1>1, <1>2
  <2>2. Kids[n][i] \in KidsOf(n)
    BY <2>1 DEF KidsOf
  <2> QED
    BY <1>1, <1>2, <2>2
<1>3. ASSUME NEW i \in N, NEW s \in [N -> Nat] PROVE Body(i, s) \in Nat
  BY <1>2
<1>4. ASSUME NEW i \in N, NEW s \in [N -> Nat], NEW r \in [N -> Nat],
             \A j \in N : j < i => s[j] = r[j]
      PROVE  Body(i, s) = Body(i, r)
  BY <1>2, <1>4
<1>5. \A i \in N : \A s \in [N -> Nat] : G[i][s] = Body(i, s)
  OBVIOUS
<1>6. \E s \in [N -> Nat] : \A i \in N : s[i] = G[i][s]
  <2> HIDE DEF N, G, Body
  <2>1. \A i \in N : \A s, r \in [N -> Nat] :
            (\A j \in N : j < i => s[j] = r[j]) => G[i][s] = G[i][r]
    BY <1>4, <1>5
  <2>2. Nat # {} /\ Arity(n) + 1 \in Nat
    BY <1>1
  <2>3. FromBelow(N, Arity(n) + 1, Nat, G)
    BY <1>1, <1>3, <1>5, <2>1, <2>2 DEF FromBelow
  <2> QED
    BY <2>3, RecursionUp
<1>7. PICK s \in [N -> Nat] : \A i \in N : s[i] = Body(i, s)
  <2> HIDE DEF N, G, Body
  <2> QED
    BY <1>5, <1>6
<1>8. s = [i \in 0 .. Arity(n) |->
              IF i = 0 THEN 0 ELSE s[i - 1] + f[Kids[n][i]]]
  BY <1>7
<1> DEFINE Sum == SumOver(f, n)
<1>9. Sum = [i \in 0 .. Arity(n) |->
                IF i = 0 THEN 0 ELSE Sum[i - 1] + f[Kids[n][i]]]
  BY <1>8 DEF SumOver
<1>10. /\ Sum[0] = 0
       /\ \A i \in N : i # 0 => Sum[i] = Sum[i - 1] + f[Kids[n][i]]
  <2> HIDE DEF Sum
  <2> QED
    BY <1>1, <1>9
<1> DEFINE T == {i \in N : Sum[i] \in Nat}
<1>11. N \subseteq T
  <2>1. ASSUME NEW i \in N, \A j \in N : j < i => j \in T PROVE i \in T
    <3> HIDE DEF Sum
    <3>1. CASE i = 0
      BY <1>10, <3>1
    <3>2. CASE i # 0
      BY <1>2, <1>10, <2>1, <3>2
    <3> QED
      BY <3>1, <3>2
  <2> HIDE DEF T, N
  <2> QED
    BY <1>1, <2>1, Ascending
<1>12. \A i \in 1 .. Arity(n) : i \in N /\ i # 0
  BY <1>1
<1> QED
  <2> HIDE DEF Sum
  <2>1. Sum \in [0 .. Arity(n) -> Nat]
    BY <1>9, <1>11
  <2>2. \A i \in 1 .. Arity(n) : Sum[i] = Sum[i - 1] + f[Kids[n][i]]
    BY <1>10, <1>12
  <2> QED
    BY <1>10, <2>1, <2>2 DEF Sum

\* What the children count is all that matters.
LEMMA SumSame ==
    ASSUME NEW n \in Node, NEW f, NEW g,
           \A k \in KidsOf(n) : f[k] \in Nat /\ f[k] = g[k]
    PROVE  SumOver(f, n)[Arity(n)] = SumOver(g, n)[Arity(n)]
<1> DEFINE N == 0 .. Arity(n)
           F == SumOver(f, n)
           E == SumOver(g, n)
           T == {i \in N : F[i] = E[i]}
<1>1. /\ Arity(n) \in Nat /\ N \in SUBSET Nat /\ Arity(n) \in N
      /\ DOMAIN Kids[n] = 1 .. Arity(n)
  BY ArityFacts
<1>2. /\ F[0] = 0 /\ E[0] = 0
      /\ \A i \in 1 .. Arity(n) : F[i] = F[i - 1] + f[Kids[n][i]]
      /\ \A i \in 1 .. Arity(n) : E[i] = E[i - 1] + g[Kids[n][i]]
  BY SumDef
<1>3. \A i \in 1 .. Arity(n) : f[Kids[n][i]] = g[Kids[n][i]]
  BY <1>1 DEF KidsOf
<1>4. ASSUME NEW i \in N, \A j \in N : j < i => j \in T PROVE i \in T
  <2> HIDE DEF E, F
  <2>1. CASE i = 0
    BY <1>2, <2>1
  <2>2. CASE i # 0
    <3>1. i - 1 \in N /\ i - 1 < i /\ i \in 1 .. Arity(n)
      BY <1>1, <2>2
    <3>2. F[i - 1] = E[i - 1]
      BY <1>4, <3>1
    <3> QED
      BY <1>2, <1>3, <3>1, <3>2
  <2> QED
    BY <2>1, <2>2
<1>5. N \subseteq T
  <2> HIDE DEF T, N
  <2> QED
    BY <1>1, <1>4, Ascending
<1> QED
  BY <1>1, <1>5

LEMMA CleanupCountDef ==
    /\ CleanupCount \in [Node -> Nat]
    /\ \A n \in Node :
           CleanupCount[n] = SumOver(CleanupCount, n)[Arity(n)]
                             + IF Kind[n] = "any" THEN 1 ELSE 0
<1> DEFINE Body(n, f) == SumOver(f, n)[Arity(n)]
                         + IF Kind[n] = "any" THEN 1 ELSE 0
           G == [n \in Node |-> [f \in [Node -> Nat] |-> Body(n, f)]]
<1>1. ASSUME NEW n \in Node, NEW f \in [Node -> Nat] PROVE Body(n, f) \in Nat
  <2>1. SumOver(f, n)[Arity(n)] \in Nat
    BY SumDef, ArityFacts, KidsAreLarger
  <2> QED
    BY <2>1
<1>2. ASSUME NEW n \in Node, NEW f \in [Node -> Nat], NEW g \in [Node -> Nat],
             \A k \in Node : n < k => f[k] = g[k]
      PROVE  Body(n, f) = Body(n, g)
  <2>1. \A k \in KidsOf(n) : f[k] \in Nat /\ f[k] = g[k]
    BY <1>2, KidsAreLarger
  <2> QED
    BY <2>1, SumSame
<1>3. PICK b \in Nat : \A n \in Node : n < b
  BY NodeBound
<1>4. \A n \in Node : \A f \in [Node -> Nat] : G[n][f] = Body(n, f)
  OBVIOUS
<1>5. \E f \in [Node -> Nat] : \A n \in Node : f[n] = G[n][f]
  <2> HIDE DEF G, Body
  <2>1. \A n \in Node : \A f, g \in [Node -> Nat] :
            (\A k \in Node : n < k => f[k] = g[k]) => G[n][f] = G[n][g]
    BY <1>2, <1>4
  <2>2. Nat # {}
    OBVIOUS
  <2>3. FromAbove(Node, b, Nat, G)
    BY <1>1, <1>3, <1>4, <2>1, <2>2, NodeBound DEF FromAbove
  <2> QED
    BY <2>3, RecursionDown
<1>6. PICK f \in [Node -> Nat] : \A n \in Node : f[n] = Body(n, f)
  <2> HIDE DEF G, Body
  <2> QED
    BY <1>4, <1>5
<1>7. f = [n \in Node |-> SumOver(f, n)[Arity(n)]
                          + IF Kind[n] = "any" THEN 1 ELSE 0]
  BY <1>6
<1>8. CleanupCount = [n \in Node |->
                         SumOver(CleanupCount, n)[Arity(n)]
                         + IF Kind[n] = "any" THEN 1 ELSE 0]
  BY <1>7 DEF CleanupCount, SumOver
<1>9. /\ CleanupCount = [n \in Node |-> CleanupCount[n]]
      /\ \A n \in Node :
             CleanupCount[n] = SumOver(CleanupCount, n)[Arity(n)]
                               + IF Kind[n] = "any" THEN 1 ELSE 0
  <2> HIDE DEF CleanupCount
  <2> QED
    BY <1>8
<1> DEFINE T == {n \in Node : CleanupCount[n] \in Nat}
<1>10. ASSUME NEW n \in Node, \A k \in Node : n < k => k \in T PROVE n \in T
  <2>1. \A k \in KidsOf(n) : CleanupCount[k] \in Nat
    BY <1>10, KidsAreLarger
  <2>2. SumOver(CleanupCount, n)[Arity(n)] \in Nat
    BY <2>1, SumDef, ArityFacts
  <2> QED
    BY <1>9, <2>2
<1>11. Node \subseteq T
  <2> HIDE DEF T
  <2> QED
    BY <1>3, <1>10, NodeBound, Descending
<1> QED
  BY <1>9, <1>11

\* cleanup_count() of a node is the number of any nodes in its tree.
THEOREM CleanupCountCountsAnys ==
    \A n \in Node :
        CleanupCount[n] = Cardinality({m \in Tree[n] : Kind[m] = "any"})
<1> DEFINE Anys(n) == {m \in Tree[n] : Kind[m] = "any"}
           T == {n \in Node : CleanupCount[n] = Cardinality(Anys(n))}
<1>1. \A n \in Node : Anys(n) \in SUBSET Node
  BY TreeSelf
<1>2. ASSUME NEW n \in Node, \A k \in Node : n < k => k \in T PROVE n \in T
  <2> DEFINE N == 0 .. Arity(n)
             Sum == SumOver(CleanupCount, n)
             First(i) == UNION {Anys(Kids[n][j]) : j \in 1 .. i}
             S == {i \in N : Sum[i] = Cardinality(First(i))}
  <2>1. /\ Arity(n) \in Nat /\ N \in SUBSET Nat /\ Arity(n) \in N
        /\ DOMAIN Kids[n] = 1 .. Arity(n)
    BY ArityFacts
  <2>2. /\ Sum[0] = 0
        /\ \A i \in 1 .. Arity(n) :
               Sum[i] = Sum[i - 1] + CleanupCount[Kids[n][i]]
    BY SumDef, CleanupCountDef, KidsAreLarger
  <2>3. ASSUME NEW i \in 1 .. Arity(n)
        PROVE  /\ Kids[n][i] \in KidsOf(n) /\ Kids[n][i] \in Node
               /\ CleanupCount[Kids[n][i]] = Cardinality(Anys(Kids[n][i]))
    <3>1. Kids[n][i] \in KidsOf(n)
      BY <2>1 DEF KidsOf
    <3> QED
      BY <1>2, <3>1, KidsAreLarger
  <2>4. \A i \in N : First(i) \in SUBSET Node
    <3>1. \A i \in N : \A j \in 1 .. i : j \in 1 .. Arity(n)
      BY <2>1
    <3> QED
      BY <1>1, <2>3, <3>1
  <2>5. ASSUME NEW i \in N, \A j \in N : j < i => j \in S PROVE i \in S
    <3>1. CASE i = 0
      <4>1. First(0) = {}
        OBVIOUS
      <4> HIDE DEF First, Sum
      <4> QED
        BY <2>2, <3>1, <4>1, FS_EmptySet
    <3>2. CASE i # 0
      <4>1. i - 1 \in N /\ i - 1 < i /\ i \in 1 .. Arity(n)
        BY <2>1, <3>2
      <4> DEFINE k == Kids[n][i]
      <4>2. Sum[i - 1] = Cardinality(First(i - 1))
        BY <2>5, <4>1
      <4>3. First(i) = First(i - 1) \union Anys(k)
        <5>1. 1 .. i = (1 .. (i - 1)) \union {i}
          BY <2>1, <3>2
        <5> QED
          BY <5>1
      <4>4. First(i - 1) \intersect Anys(k) = {}
        <5>1. ASSUME NEW j \in 1 .. (i - 1)
              PROVE  Tree[Kids[n][j]] \intersect Tree[k] = {}
          <6>1. j \in 1 .. Arity(n) /\ j # i
            BY <2>1, <4>1
          <6>2. Kids[n][j] # k
            BY <2>1, <4>1, <6>1, KidFacts
          <6> QED
            BY <2>3, <4>1, <6>1, <6>2, TreesApart
        <5> QED
          BY <5>1
      <4>5. IsFiniteSet(First(i - 1)) /\ IsFiniteSet(Anys(k))
        BY <1>1, <2>3, <2>4, <4>1, NodesAreFinite
      <4>6. Cardinality(First(i - 1) \union Anys(k))
            = Cardinality(First(i - 1)) + Cardinality(Anys(k))
        <5> DEFINE A == First(i - 1)
                   B == Anys(k)
        <5> HIDE DEF First, Anys, k
        <5>1. /\ IsFiniteSet(A) /\ IsFiniteSet(B)
              /\ Cardinality(A) \in Nat /\ Cardinality(B) \in Nat
              /\ A \intersect B = {}
          BY <4>4, <4>5, FS_CardinalityType
        <5> HIDE DEF A, B
        <5>2. Cardinality(A \union B)
              = Cardinality(A) + Cardinality(B) - Cardinality(A \intersect B)
          BY <5>1, FS_Union
        <5>3. Cardinality(A \intersect B) = 0
          <6>1. Cardinality({}) = 0
            BY FS_EmptySet
          <6> QED
            BY <5>1, <6>1
        <5>4. Cardinality(A \union B) = Cardinality(A) + Cardinality(B)
          BY <5>1, <5>2, <5>3
        <5> QED
          BY <5>4 DEF A, B
      <4> HIDE DEF First, Anys, Sum
      <4> QED
        BY <2>2, <2>3, <4>1, <4>2, <4>3, <4>6
    <3> QED
      BY <3>1, <3>2
  <2>6. Sum[Arity(n)] = Cardinality(First(Arity(n)))
    <3>1. N \subseteq S
      <4> HIDE DEF S, N
      <4> QED
        BY <2>1, <2>5, Ascending
    <3> QED
      BY <2>1, <3>1
  <2> DEFINE Below == First(Arity(n))
  <2>7. Anys(n) = Below \union IF Kind[n] = "any" THEN {n} ELSE {}
    <3>1. Below = UNION {Anys(k) : k \in KidsOf(n)}
      BY <2>1 DEF KidsOf
    <3>2. Tree[n] = {n} \union UNION {Tree[k] : k \in KidsOf(n)}
      BY TreeDef
    <3> QED
      BY <3>1, <3>2
  <2>8. n \notin Below
    <3>1. ASSUME NEW j \in 1 .. Arity(n) PROVE n \notin Tree[Kids[n][j]]
      <4>1. Kids[n][j] \in Nat /\ n \in Nat /\ n < Kids[n][j]
        BY <2>3, KidsAreLarger, NodeBound
      <4>2. ~ (Kids[n][j] <= n)
        BY <4>1
      <4> QED
        BY <2>3, <4>2, TreeOrder
    <3> QED
      BY <3>1
  <2>9. IsFiniteSet(Below) /\ Cardinality(Below) \in Nat
    BY <2>1, <2>4, NodesAreFinite, FS_CardinalityType
  <2>10. Cardinality(Anys(n)) = Cardinality(Below)
                                + IF Kind[n] = "any" THEN 1 ELSE 0
    <3> HIDE DEF Below, Anys
    <3>1. CASE Kind[n] = "any"
      BY <2>7, <2>8, <2>9, <3>1, FS_AddElement
    <3>2. CASE Kind[n] # "any"
      BY <2>7, <2>9, <3>2
    <3> QED
      BY <3>1, <3>2
  <2> HIDE DEF Anys, Below, Sum
  <2> QED
    BY <2>6, <2>10, CleanupCountDef DEF Below, Sum
<1>3. PICK b \in Nat : \A a \in Node : a < b
  BY NodeBound
<1>4. Node \subseteq T
  <2> HIDE DEF T
  <2> QED
    BY <1>2, <1>3, NodeBound, Descending
<1> QED
  BY <1>4

-----------------------------------------------------------------------------
\* Moving one thread keeps the others where they are.
LEMMA GotoType ==
    ASSUME ThreadType, NEW t \in Thread, NEW label \in Label,
           NEW n \in Node \union {Main}, Place(t, label, n), Goto(t, label, n)
    PROVE  /\ pc' \in [Thread -> Label]
           /\ cur' \in [Thread -> Node \union {Main}]
           /\ \A u \in Thread : Place(u, pc[u], cur[u])'
<1>1. /\ pc' \in [Thread -> Label]
      /\ cur' \in [Thread -> Node \union {Main}]
  BY DEF ThreadType, Goto
<1>2. ASSUME NEW u \in Thread PROVE Place(u, pc'[u], cur'[u])
  <2>1. CASE u = t
    <3>1. pc'[u] = label /\ cur'[u] = n
      BY <2>1 DEF ThreadType, Goto
    <3> QED
      BY <2>1, <3>1
  <2>2. CASE u # t
    <3>1. pc'[u] = pc[u] /\ cur'[u] = cur[u]
      BY <2>2 DEF ThreadType, Goto
    <3> QED
      BY <3>1 DEF ThreadType
  <2> QED
    BY <2>1, <2>2
<1> QED
  BY <1>1, <1>2 DEF Place, ChildOf, Shared

\* An any whose destruction is pending is where a thread returns to, else it is
\* through.
LEMMA UnwindType ==
    ASSUME ThreadType, NEW t \in Thread, NEW known \in SUBSET Node,
           Unwind(t, known)
    PROVE  ThreadType'
<1>1. DOMAIN val' = Thread /\ seen' \in [Thread -> SUBSET Node]
  BY DEF Unwind, ThreadType
<1>2. CASE rest[t] # <<>>
  <2>1. Head(rest[t]) \in Only /\ Tail(rest[t]) \in Seq(Only)
    BY <1>2 DEF ThreadType
  <2>2. rest' \in [Thread -> Seq(Only)]
    BY <1>2, <2>1 DEF Unwind, ThreadType
  <2>3. Place(t, "last", Head(rest[t]))
    BY <2>1, ThreadFacts DEF Place, Only, Shared
  <2>4. Goto(t, "last", Head(rest[t]))
    BY <1>2 DEF Unwind
  <2> QED
    BY <1>1, <2>1, <2>2, <2>3, <2>4, GotoType DEF ThreadType, Label, Only
<1>3. CASE rest[t] = <<>>
  <2>1. rest' \in [Thread -> Seq(Only)]
    BY <1>3 DEF Unwind, ThreadType
  <2>2. CASE t = Main
    <3>1. Place(t, "wait", t)
      BY <2>2 DEF Place
    <3>2. Goto(t, "wait", t)
      BY <1>3, <2>2 DEF Unwind
    <3> QED
      BY <1>1, <2>1, <2>2, <3>1, <3>2, GotoType DEF ThreadType, Label
  <2>3. CASE t # Main
    <3>1. Place(t, "idle", t)
      BY <2>3 DEF Place
    <3>2. Goto(t, "idle", t)
      BY <1>3, <2>3 DEF Unwind
    <3> QED
      BY <1>1, <2>1, <3>1, <3>2, GotoType, ThreadFacts
         DEF ThreadType, Label
  <2> QED
    BY <2>2, <2>3
<1> QED
  BY <1>2, <1>3

\* A thread at a step of a node is at a node.
LEMMA AtNode ==
    ASSUME ThreadType, NEW t \in Thread, pc[t] \notin {"idle", "wait", "count"}
    PROVE  cur[t] \in Node
  BY DEF ThreadType, Place

-----------------------------------------------------------------------------
\* One lemma per action: it preserves the types.

LEMMA CallKeepsType ==
    ASSUME TypeOK, NEW r \in Roots, Call(r)
    PROVE  TypeOK'
<1>1. r \in Node
  BY DEF Roots
<1>2. Place(Main, "exec", r)
  BY <1>1, ThreadFacts DEF Place
<1>3. ThreadType'
  BY <1>1, <1>2, ThreadFacts, GotoType DEF TypeOK, ThreadType, Call, Label
<1>4. StorageType' /\ CallType'
  BY BoundsAssumption
     DEF TypeOK, StorageType, CallType, Call, storageVars
<1> QED
  BY <1>3, <1>4 DEF TypeOK

LEMMA ExecLeafKeepsType ==
    ASSUME TypeOK, NEW t \in Thread, ExecLeaf(t)
    PROVE  TypeOK'
<1>1. cur[t] \in Node
  BY AtNode DEF TypeOK, ExecLeaf
<1>2. Place(t, "out", cur[t])
  BY <1>1, ThreadFacts DEF Place
<1>3. ThreadType'
  BY <1>1, <1>2, GotoType DEF TypeOK, ThreadType, ExecLeaf, Label
<1> QED
  BY <1>3 DEF TypeOK, StorageType, CallType, ExecLeaf, storageVars, latchVars,
              callVars

LEMMA ExecSeqKeepsType ==
    ASSUME TypeOK, NEW t \in Thread, ExecSeq(t)
    PROVE  TypeOK'
<1>1. cur[t] \in Node
  BY AtNode DEF TypeOK, ExecSeq
<1>2. Kids[cur[t]][1] \in Node
  BY <1>1, ArityFacts, KidFacts DEF ExecSeq
<1>3. Place(t, "exec", Kids[cur[t]][1])
  BY <1>2, ThreadFacts DEF Place
<1>4. ThreadType'
  BY <1>2, <1>3, GotoType DEF TypeOK, ThreadType, ExecSeq, Label
<1> QED
  BY <1>4 DEF TypeOK, StorageType, CallType, ExecSeq, storageVars, latchVars,
              callVars

LEMMA ExecSharedKeepsType ==
    ASSUME TypeOK, NEW t \in Thread, ExecShared(t)
    PROVE  TypeOK'
<1> DEFINE n == cur[t]
<1>1. n \in Node
  BY AtNode DEF TypeOK, ExecShared
<1>2. Kids[n][1] \in Node \ Roots /\ Parent[Kids[n][1]] = n
  BY <1>1, ArityFacts, KidFacts DEF ExecShared
<1>3. Place(t, "fan", Kids[n][1])
  BY <1>2, ThreadFacts DEF Place, ExecShared
<1>4. ThreadType'
  BY <1>2, <1>3, GotoType DEF TypeOK, ThreadType, ExecShared, Label
<1>5. StorageType'
  BY <1>1, ArityFacts
     DEF TypeOK, StorageType, ThreadType, ExecShared, Construct
<1> QED
  BY <1>4, <1>5 DEF TypeOK, CallType, ExecShared, latchVars, callVars

LEMMA ScheduleKeepsType ==
    ASSUME TypeOK, NEW t \in Thread, Schedule(t)
    PROVE  TypeOK'
<1> DEFINE k == cur[t]
<1>1. /\ pc[t] = "fan" /\ ~IsLast(k)
      /\ k \in Node \ Roots /\ Shared(Parent[k])
  BY AtNode DEF TypeOK, ThreadType, Place, Schedule
<1>2. NextKid(k) \in Node \ Roots /\ Parent[NextKid(k)] = Parent[k]
  BY <1>1, NextKidFacts
<1>3. k \in Task
  BY <1>1 DEF Task
<1>4. /\ pc' = [pc EXCEPT ![k] = "queued"]
      /\ cur' = [cur EXCEPT ![t] = NextKid(k), ![k] = k]
  BY DEF Schedule
<1>5. /\ pc' \in [Thread -> Label]
      /\ cur' \in [Thread -> Node \union {Main}]
  BY <1>1, <1>2, <1>4 DEF TypeOK, ThreadType, Label
<1>6. ASSUME NEW u \in Thread PROVE Place(u, pc'[u], cur'[u])
  <2>1. CASE u = k
    <3>1. pc'[u] = "queued" /\ cur'[u] = k
      BY <1>3, <1>4, <2>1 DEF TypeOK, ThreadType, Thread
    <3> QED
      BY <1>3, <2>1, <3>1, ThreadFacts DEF Place
  <2>2. CASE u = t /\ u # k
    <3>1. pc'[u] = "fan" /\ cur'[u] = NextKid(k)
      BY <1>1, <1>4, <2>2 DEF TypeOK, ThreadType
    <3> QED
      BY <1>1, <1>2, <3>1, ThreadFacts DEF Place
  <2>3. CASE u # t /\ u # k
    <3>1. pc'[u] = pc[u] /\ cur'[u] = cur[u]
      BY <1>4, <2>3 DEF TypeOK, ThreadType
    <3> QED
      BY <3>1 DEF TypeOK, ThreadType
  <2> QED
    BY <2>1, <2>2, <2>3
<1>7. \A u \in Thread : Place(u, pc[u], cur[u])'
  BY <1>6 DEF Place, ChildOf, Shared
<1>8. seen' \in [Thread -> SUBSET Node]
  BY DEF TypeOK, ThreadType, Schedule
<1> QED
  BY <1>5, <1>7, <1>8
     DEF TypeOK, ThreadType, StorageType, CallType, Schedule, storageVars,
         latchVars, callVars

LEMMA RunInlineKeepsType ==
    ASSUME TypeOK, NEW t \in Thread, RunInline(t)
    PROVE  TypeOK'
<1>1. cur[t] \in Node
  BY AtNode DEF TypeOK, RunInline
<1>2. Place(t, "exec", cur[t])
  BY <1>1, ThreadFacts DEF Place
<1>3. ThreadType'
  BY <1>1, <1>2, GotoType DEF TypeOK, ThreadType, RunInline, Label
<1> QED
  BY <1>3 DEF TypeOK, StorageType, CallType, RunInline, storageVars,
              latchVars, callVars

LEMMA StartKeepsType ==
    ASSUME TypeOK, NEW k \in Task, Start(k)
    PROVE  TypeOK'
<1>1. k \in Node /\ k \in Thread
  BY ThreadFacts DEF Thread
<1>2. Place(k, "exec", k)
  BY <1>1, ThreadFacts DEF Place
<1>3. ThreadType'
  BY <1>1, <1>2, GotoType DEF TypeOK, ThreadType, Start, Label
<1> QED
  BY <1>3 DEF TypeOK, StorageType, CallType, Start, storageVars, latchVars,
              callVars

LEMMA SeqFirstKeepsType ==
    ASSUME TypeOK, NEW t \in Thread, SeqFirst(t)
    PROVE  TypeOK'
<1> DEFINE n == Parent[cur[t]]
<1>1. cur[t] \in Node \ Roots /\ Kind[n] = "seq"
  BY AtNode DEF TypeOK, SeqFirst, ChildOf
<1>2. n \in Node /\ Kids[n][2] \in Node
  BY <1>1, ParentFacts, ArityFacts, KidFacts
<1>3. Place(t, "exec", Kids[n][2])
  BY <1>2, ThreadFacts DEF Place
<1>4. ThreadType'
  BY <1>2, <1>3, GotoType DEF TypeOK, ThreadType, SeqFirst, Label
<1> QED
  BY <1>4 DEF TypeOK, StorageType, CallType, SeqFirst, storageVars, latchVars,
              callVars

LEMMA SeqSecondKeepsType ==
    ASSUME TypeOK, NEW t \in Thread, SeqSecond(t)
    PROVE  TypeOK'
<1> DEFINE n == Parent[cur[t]]
<1>1. cur[t] \in Node \ Roots
  BY AtNode DEF TypeOK, SeqSecond, ChildOf
<1>2. n \in Node
  BY <1>1, ParentFacts
<1>3. Place(t, "out", n)
  BY <1>2, ThreadFacts DEF Place
<1>4. ThreadType'
  BY <1>2, <1>3, GotoType DEF TypeOK, ThreadType, SeqSecond, Label
<1> QED
  BY <1>4 DEF TypeOK, StorageType, CallType, SeqSecond, storageVars, latchVars,
              callVars

LEMMA AllStoreKeepsType ==
    ASSUME TypeOK, NEW t \in Thread, AllStore(t)
    PROVE  TypeOK'
<1>1. cur[t] \in Node
  BY AtNode DEF TypeOK, AllStore
<1>2. Place(t, "join", cur[t])
  BY <1>1, ThreadFacts DEF Place, AllStore
<1>3. ThreadType'
  BY <1>1, <1>2, GotoType DEF TypeOK, ThreadType, AllStore, Label
<1> QED
  BY <1>3 DEF TypeOK, StorageType, CallType, AllStore, storageVars, latchVars,
              callVars

\* The parent of a child that is through, and what its fetch_sub changes.
LEMMA FetchSubType ==
    ASSUME TypeOK, NEW t \in Thread, NEW n \in Node, FetchSub(t, n)
    PROVE  StorageType' /\ CallType' /\ Acquire(t, n) \in SUBSET Node
<1>1. joined' \in [Node -> SUBSET Node]
  BY DEF TypeOK, ThreadType, StorageType, FetchSub, Release
<1>2. Acquire(t, n) \in SUBSET Node
  BY DEF TypeOK, ThreadType, StorageType, Acquire
<1>3. left' \in [Node -> Int]
  BY DEF TypeOK, StorageType, FetchSub
<1> QED
  BY <1>1, <1>2, <1>3
     DEF TypeOK, StorageType, CallType, FetchSub, latchVars, callVars

LEMMA JoiningNode ==
    ASSUME TypeOK, NEW t \in Thread,
           pc[t] = "join" \/ (pc[t] = "out" /\ ChildOf(cur[t], "any"))
    PROVE  /\ Parent[cur[t]] \in Node
           /\ pc[t] = "join" => Kind[Parent[cur[t]]] = "all"
<1>1. cur[t] \in Node
  BY AtNode DEF TypeOK
<1>2. cur[t] \notin Roots /\ (pc[t] = "join" => ChildOf(cur[t], "all"))
  BY DEF TypeOK, ThreadType, Place, ChildOf
<1> QED
  BY <1>1, <1>2, ParentFacts DEF ChildOf

LEMMA AllJoinKeepsType ==
    ASSUME TypeOK, NEW t \in Thread, AllJoin(t)
    PROVE  TypeOK'
<1> DEFINE n == Parent[cur[t]]
<1>1. n \in Node
  BY JoiningNode DEF AllJoin
<1>2. StorageType' /\ CallType' /\ Acquire(t, n) \in SUBSET Node
  BY <1>1, FetchSubType DEF AllJoin
<1>3. ThreadType'
  BY <1>2, UnwindType DEF TypeOK, AllJoin
<1> QED
  BY <1>2, <1>3 DEF TypeOK

LEMMA AllLastKeepsType ==
    ASSUME TypeOK, NEW t \in Thread, AllLast(t)
    PROVE  TypeOK'
<1> DEFINE n == Parent[cur[t]]
<1>1. n \in Node /\ Kind[n] = "all"
  BY JoiningNode DEF AllLast
<1>2. StorageType' /\ CallType' /\ Acquire(t, n) \in SUBSET Node
  BY <1>1, FetchSubType DEF AllLast
<1>3. Place(t, "last", n)
  BY <1>1, ThreadFacts DEF Place, Shared
<1>4. ThreadType'
  BY <1>1, <1>2, <1>3, GotoType DEF TypeOK, ThreadType, AllLast, Label
<1> QED
  BY <1>2, <1>4 DEF TypeOK

\* Only the winner of an any of one child is also its last child.
LEMMA AnyFirstKeepsType ==
    ASSUME TypeOK, NEW t \in Thread, AnyFirst(t)
    PROVE  TypeOK'
<1> DEFINE n == Parent[cur[t]]
<1>1. n \in Node /\ Kind[n] = "any"
  BY JoiningNode DEF AnyFirst, ChildOf
<1>2. StorageType' /\ CallType' /\ Acquire(t, n) \in SUBSET Node
  BY <1>1, FetchSubType DEF AnyFirst
<1>3. Place(t, "out", n)
  BY <1>1, ThreadFacts DEF Place
<1>4. rest' \in [Thread -> Seq(Only)]
  <2>1. rest[t] \in Seq(Only)
    BY DEF TypeOK, ThreadType
  <2>2. left[n] = 1 => n \in Only
    BY <1>1 DEF AnyFirst, Only
  <2>3. left[n] = 1 => <<n>> \o rest[t] \in Seq(Only)
    BY <2>1, <2>2
  <2> QED
    BY <2>1, <2>3 DEF AnyFirst, TypeOK, ThreadType
<1>5. ThreadType'
  BY <1>1, <1>2, <1>3, <1>4, GotoType
     DEF TypeOK, ThreadType, AnyFirst, Label
<1> QED
  BY <1>2, <1>5 DEF TypeOK

LEMMA AnyLoseKeepsType ==
    ASSUME TypeOK, NEW t \in Thread, AnyLose(t)
    PROVE  TypeOK'
<1> DEFINE n == Parent[cur[t]]
<1>1. n \in Node
  BY JoiningNode DEF AnyLose
<1>2. StorageType' /\ CallType' /\ Acquire(t, n) \in SUBSET Node
  BY <1>1, FetchSubType DEF AnyLose
<1>3. ThreadType'
  BY <1>2, UnwindType DEF TypeOK, AnyLose
<1> QED
  BY <1>2, <1>3 DEF TypeOK

LEMMA AnyLastKeepsType ==
    ASSUME TypeOK, NEW t \in Thread, AnyLast(t)
    PROVE  TypeOK'
<1> DEFINE n == Parent[cur[t]]
<1>1. n \in Node /\ Kind[n] = "any"
  BY JoiningNode DEF AnyLast, ChildOf
<1>2. StorageType' /\ CallType' /\ Acquire(t, n) \in SUBSET Node
  BY <1>1, FetchSubType DEF AnyLast
<1>3. Place(t, "last", n)
  BY <1>1, ThreadFacts DEF Place, Shared
<1>4. ThreadType'
  BY <1>1, <1>2, <1>3, GotoType DEF TypeOK, ThreadType, AnyLast, Label
<1> QED
  BY <1>2, <1>4 DEF TypeOK

LEMMA DestroyType ==
    ASSUME StorageType, NEW n \in Node, Destroy(n), DOMAIN slot' = Node
    PROVE  StorageType'
  BY DEF StorageType, Destroy

LEMMA AllFinishKeepsType ==
    ASSUME TypeOK, NEW t \in Thread, AllFinish(t)
    PROVE  TypeOK'
<1> DEFINE n == cur[t]
<1>1. n \in Node
  BY AtNode DEF TypeOK, AllFinish
<1>2. Place(t, "out", n)
  BY <1>1, ThreadFacts DEF Place
<1>3. ThreadType'
  BY <1>1, <1>2, GotoType DEF TypeOK, ThreadType, AllFinish, Label
<1>4. StorageType'
  BY <1>1, DestroyType DEF TypeOK, AllFinish
<1> QED
  BY <1>3, <1>4 DEF TypeOK, CallType, AllFinish, latchVars, callVars

LEMMA AnyFinishKeepsType ==
    ASSUME TypeOK, NEW t \in Thread, AnyFinish(t)
    PROVE  TypeOK'
<1>1. cur[t] \in Node
  BY AtNode DEF TypeOK, AnyFinish
<1>2. Place(t, "count", cur[t])
  BY <1>1, ThreadFacts DEF Place
<1>3. ThreadType'
  BY <1>1, <1>2, GotoType DEF TypeOK, ThreadType, AnyFinish, Label
<1>4. StorageType'
  BY <1>1, DestroyType DEF TypeOK, StorageType, AnyFinish
<1> QED
  BY <1>3, <1>4 DEF TypeOK, CallType, AnyFinish, latchVars, callVars

LEMMA DeliverKeepsType ==
    ASSUME TypeOK, NEW t \in Thread, Deliver(t)
    PROVE  TypeOK'
<1>1. Place(t, "count", Main)
  BY DEF Place
<1>2. ThreadType'
  BY <1>1, GotoType DEF TypeOK, ThreadType, Deliver, Label
<1> QED
  BY <1>2 DEF TypeOK, StorageType, CallType, Deliver, storageVars, latchVars

LEMMA CountDownKeepsType ==
    ASSUME TypeOK, NEW t \in Thread, CountDown(t)
    PROVE  TypeOK'
<1>1. seen[t] \union counted \in SUBSET Node
  BY DEF TypeOK, ThreadType, CallType
<1>2. ThreadType'
  BY <1>1, UnwindType DEF TypeOK, CountDown
<1>3. counted' \in SUBSET Node
  BY <1>1 DEF TypeOK, ThreadType, CallType, CountDown
<1> QED
  BY <1>2, <1>3 DEF TypeOK, StorageType, CallType, CountDown, storageVars,
                    callVars

LEMMA ReturnKeepsType ==
    ASSUME TypeOK, Return
    PROVE  TypeOK'
<1>1. Main \in Thread /\ Place(Main, "idle", Main)
  BY ThreadFacts DEF Place
<1>2. seen[Main] \union counted \in SUBSET Node
  BY <1>1 DEF TypeOK, ThreadType, CallType
<1>3. ThreadType'
  BY <1>1, <1>2, GotoType DEF TypeOK, ThreadType, Return, Label
<1> QED
  BY <1>3 DEF TypeOK, StorageType, CallType, Return, storageVars, latchVars,
              callVars

LEMMA StutterKeepsType ==
    ASSUME TypeOK, UNCHANGED vars
    PROVE  TypeOK'
  BY DEF TypeOK, ThreadType, StorageType, CallType, Place, ChildOf, Shared,
         vars, threadVars, storageVars, latchVars, callVars

-----------------------------------------------------------------------------
LEMMA InitType == Init => TypeOK
<1> SUFFICES ASSUME Init PROVE TypeOK
  OBVIOUS
<1>1. ThreadType
  BY ThreadFacts DEF Init, ThreadType, Label, Place
<1>2. StorageType
  BY DEF Init, StorageType
<1>3. CallType
  BY BoundsAssumption DEF Init, CallType
<1> QED
  BY <1>1, <1>2, <1>3 DEF TypeOK

LEMMA StepKeepsType ==
    ASSUME TypeOK, [Next]_vars
    PROVE  TypeOK'
<1>1. CASE \E r \in Roots : Call(r)
  BY <1>1, CallKeepsType
<1>2. ASSUME NEW t \in Thread, Execute(t) \/ Fan(t)
      PROVE  TypeOK'
  BY <1>2, ExecLeafKeepsType, ExecSeqKeepsType, ExecSharedKeepsType,
     ScheduleKeepsType, RunInlineKeepsType
     DEF Execute, Fan
<1>3. ASSUME NEW t \in Thread, Continue(t)
      PROVE  TypeOK'
  BY <1>3, SeqFirstKeepsType, SeqSecondKeepsType, DeliverKeepsType,
     AllStoreKeepsType, AllJoinKeepsType, AllLastKeepsType,
     AllFinishKeepsType, AnyFirstKeepsType, AnyLoseKeepsType,
     AnyLastKeepsType, AnyFinishKeepsType, CountDownKeepsType
     DEF Continue
<1>4. CASE \E k \in Task : Start(k)
  BY <1>4, StartKeepsType
<1>5. CASE Return
  BY <1>5, ReturnKeepsType
<1>6. CASE Terminating \/ UNCHANGED vars
  BY <1>6, StutterKeepsType DEF Terminating
<1> QED
  BY <1>1, <1>2, <1>3, <1>4, <1>5, <1>6 DEF Next, Step

\* Type correctness: whatever the shape of the graphs, a thread never takes a
\* step on a node the step is not made for, and destroys after a continuation
\* returned only the storage of an any of one child.
THEOREM TypeCorrect == Spec => []TypeOK
<1>1. Init => TypeOK
  BY InitType
<1>2. TypeOK /\ [Next]_vars => TypeOK'
  BY StepKeepsType
<1> QED
  BY <1>1, <1>2, PTL DEF Spec

=============================================================================
