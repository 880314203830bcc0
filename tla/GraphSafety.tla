------------------------------ MODULE GraphSafety ------------------------------
(***************************************************************************)
(* Proofs that the invariant of GraphInvariant holds of module Graph, and  *)
(* what follows from it, for every finite forest of graphs, any number of  *)
(* workers and any number of calls.                                        *)
(***************************************************************************)
EXTENDS GraphProofs, GraphInvariant

-----------------------------------------------------------------------------
\* What follows from the invariant about single nodes.

\* A node that is not started is untouched, and so is what is below it.
LEMMA Unstarted ==
    ASSUME NEW S, NEW D, NEW P, Account(S, D, P), NEW k \in Node, k \notin S
    PROVE  /\ k \notin D /\ k \notin P /\ ~engaged[k]
           /\ KidsOf(k) \intersect (S \union {k}) = {}
<1>1. \A l \in KidsOf(k) : l \in Node \ Roots /\ Parent[l] = k /\ l # k
  BY KidsAreLarger, NodeBound
<1>2. root \in S /\ root \in Roots
  BY DEF Account, Stages, TypeOK, CallType
<1>3. \A l \in KidsOf(k) : l \notin S
  BY <1>1, <1>2 DEF Account, Stages
<1> QED
  BY <1>1, <1>3 DEF Account, Stages, Storages

\* A child of a started node is in the tree of the call.
LEMMA InTree ==
    ASSUME NEW S, NEW D, NEW P, Account(S, D, P),
           NEW n \in S, NEW k \in KidsOf(n)
    PROVE  k \in Tree[root] /\ S \subseteq Node
<1>1. root \in Node /\ S \subseteq Tree[root]
  BY DEF Account, Stages, TypeOK, CallType, Roots
<1> QED
  BY <1>1, TreeDown, TreeSelf

\* A thread on its way out of a node: the node's parent is started and, unless
\* it is an any, not done.
LEMMA LeavingFacts ==
    ASSUME NEW S, NEW D, NEW P, Account(S, D, P),
           NEW t \in Thread, NEW k \in Node, Leaving(t, k)
    PROVE  /\ k \in S /\ k \in D /\ k \notin P /\ k \in seen[t]
           /\ k \in Roots => k = root
           /\ k \notin Roots =>
                /\ k # root /\ Parent[k] \in S /\ k \in KidsOf(Parent[k])
                /\ Shared(Parent[k]) => engaged[Parent[k]]
                /\ Waits(Parent[k]) => Parent[k] \notin D
<1>1. /\ k \in S /\ k \in D /\ k \notin P /\ k \in seen[t]
      /\ root \in Roots
  BY DEF Account, Positions, LeavingDone, Stages, TypeOK, CallType
<1>2. k \in Roots => k = root
  BY <1>1 DEF Account, Stages
<1>3. ASSUME k \notin Roots
      PROVE  /\ k # root /\ Parent[k] \in S /\ k \in KidsOf(Parent[k])
             /\ Shared(Parent[k]) => engaged[Parent[k]]
             /\ Waits(Parent[k]) => Parent[k] \notin D
  BY <1>1, <1>3, ParentFacts DEF Account, Stages
<1> QED
  BY <1>1, <1>2, <1>3

\* The children of a seq.
LEMMA SeqKids ==
    ASSUME NEW n \in Node, Kind[n] = "seq"
    PROVE  KidsOf(n) = {Kids[n][1], Kids[n][2]}
<1>1. DOMAIN Kids[n] = {1, 2}
  BY KidsAssumption
<1> QED
  BY <1>1 DEF KidsOf

-----------------------------------------------------------------------------
\* Moves of a thread.

\* Thread t goes on to a step, and no other thread does.
Moves(t, label, n) ==
    /\ pc'[t] = label /\ cur'[t] = n
    /\ \A u \in Thread \ {t} : /\ pc'[u] = pc[u] /\ cur'[u] = cur[u]
                               /\ rest'[u] = rest[u] /\ seen'[u] = seen[u]

\* What only the continuations change.
Kept == /\ engaged' = engaged /\ left' = left /\ joined' = joined
        /\ counted' = counted /\ ctr' = ctr
        /\ calls' = calls /\ root' = root /\ results' = results

\* The latch stays balanced while the same any nodes owe it a count_down().
LEMMA LatchKept ==
    ASSUME LatchBalance, calls' = calls, root' = root, ctr' = ctr,
           counted' = counted, root \in Node,
           \A n \in Node : Kind[n] = "any" /\ KidsOf(n) \subseteq counted =>
               (engaged[n] \/ \E t \in Thread : Counting(t, n))
               <=> (engaged'[n] \/ \E t \in Thread : Counting(t, n)')
    PROVE  LatchBalance'
<1>1. Tree[root] \subseteq Node
  BY TreeSelf
<1>2. Owing' = Owing
  BY <1>1 DEF Owing, Counting, KidsOf
<1> QED
  BY <1>2 DEF LatchBalance

\* A step on which a thread is sent to another node, and on which no child of
\* an all or an any is passed on.
Plain(S, D, P, S2, D2, P2, t, label, n) ==
    /\ Moves(t, label, n) /\ Kept
    /\ rest'[t] = rest[t] /\ seen[t] \subseteq seen'[t]
    /\ pc[t] \in {"queued", "exec", "fan", "out", "join"}
    /\ label \in {"exec", "fan", "out", "join"}
    /\ S \subseteq S2 /\ D \subseteq D2 /\ P \subseteq P2
    /\ \A m \in Node : Shared(m) =>
           /\ KidsOf(m) \intersect P2 = KidsOf(m) \intersect P
           /\ engaged[m] /\ m \in D2 => m \in D

LEMMA PlainStep ==
    ASSUME NEW S, NEW D, NEW P, Account(S, D, P),
           NEW S2, NEW D2, NEW P2, NEW t \in Thread, NEW label, NEW n,
           Plain(S, D, P, S2, D2, P2, t, label, n)
    PROVE  /\ calls' > 0 /\ Tidy' /\ Storages(S2, D2, P2)'
           /\ EndingOver(P2)' /\ CountingOver(S2)' /\ CountingOutput(P2)'
           /\ TasksStarted(S2)' /\ Cleanups(P2)' /\ LatchBalance'
<1> USE DEF Account, Positions, Plain, Kept
<1>1. calls' > 0
  OBVIOUS
<1>2. Tidy'
  BY ThreadFacts DEF Tidy, Moves, Thread
<1>3. Storages(S2, D2, P2)'
  <2>1. ASSUME NEW m \in Node, engaged[m]
        PROVE  KidsOf(m) \ P2 = KidsOf(m) \ P /\ Shared(m)
    BY <2>1 DEF Storages
  <2> QED
    BY <2>1 DEF Storages, Shared, KidsOf, Arity
<1>4. EndingOver(P2)'
  BY DEF EndingOver, Ending, Pending, Moves, KidsOf
<1>5. CountingOver(S2)'
  <2>1. ASSUME NEW u \in Thread, NEW m \in Node, Counting(u, m)'
        PROVE  Counting(u, m) /\ seen[u] \subseteq seen'[u]
    BY <2>1 DEF Counting, Moves
  <2> QED
    BY <2>1 DEF CountingOver, KidsOf
<1>6. CountingOutput(P2)'
  BY DEF CountingOutput, Counting, Moves
<1>7. TasksStarted(S2)'
  BY DEF TasksStarted, Moves, Thread
<1>8. \A u \in Thread, m \in Node : Counting(u, m)' <=> Counting(u, m)
  BY DEF Counting, Moves
<1>9. Cleanups(P2)'
  BY <1>8 DEF Cleanups, Shared, KidsOf
<1>10. LatchBalance'
  <2>1. root \in Node
    BY DEF TypeOK, CallType, Roots
  <2> QED
    BY <1>8, <2>1, LatchKept
<1> QED
  BY <1>1, <1>2, <1>3, <1>4, <1>5, <1>6, <1>7, <1>9, <1>10

-----------------------------------------------------------------------------
\* One lemma per action: the stages of the nodes move on with it.

LEMMA ExecLeafKeeps ==
    ASSUME NEW S, NEW D, NEW P, Account(S, D, P), TypeOK',
           NEW t \in Thread, ExecLeaf(t), NEW n, n = cur[t]
    PROVE  Account(S, D \union {n}, P)'
<1> USE DEF Account, Positions
<1> DEFINE D2 == D \union {n}
<1>1. /\ n \in Node /\ Kind[n] = "leaf" /\ pc[t] = "exec"
      /\ Entering(t, n) /\ ~Waits(n) /\ ~Shared(n)
  BY AtNode DEF ExecLeaf, Entering, Waits, Shared, TypeOK
<1>2. /\ Moves(t, "out", n) /\ rest'[t] = rest[t]
      /\ seen'[t] = seen[t] \union {n}
  BY <1>1 DEF ExecLeaf, Goto, Moves, TypeOK, ThreadType
<1>3. Kept
  BY DEF ExecLeaf, storageVars, latchVars, callVars, Kept
<1>4. n \in S /\ n \notin D /\ n \notin P /\ ~engaged[n]
  BY <1>1 DEF EnteringFresh, Stages
<1>5. Plain(S, D, P, S, D2, P, t, "out", n)
  BY <1>1, <1>2, <1>3, <1>4 DEF Plain
<1>6. Stages(S, D2, P)'
  BY <1>1, <1>3, <1>4 DEF Kept, Stages, Waits, KidsOf, Shared
<1>7. EnteringFresh(S, D2)'
  BY <1>1, <1>2, <1>3 DEF Kept, EnteringFresh, Entering, Moves, Alone, KidsOf
<1>8. StartingFresh(S)'
  BY <1>2, <1>3 DEF Kept, StartingFresh, Starting, Moves
<1>9. LeavingDone(D2, P)'
  BY <1>1, <1>2, <1>4 DEF LeavingDone, Leaving, Moves
<1>10. Alone'
  BY <1>1, <1>2, <1>4
     DEF Alone, LeavingDone, Entering, Starting, Leaving, Ending, Pending,
         Counting, Moves
<1>11. Knowledge(P)'
  <2>1. Closed(seen[t] \union {n})
    BY <1>1 DEF Knowledge, Closed
  <2> QED
    BY <1>1, <1>2, <1>3, <2>1 DEF Kept, Knowledge, Closed, Waits, KidsOf, Leaving, Moves
<1>12. Informed'
  BY <1>1, <1>2
     DEF Informed, Entering, Starting, Leaving, Ending, Pending, Moves
<1>13. Delivery(P)'
  BY <1>1, <1>2, <1>3 DEF Kept, Delivery, Leaving, Counting, Moves
<1> QED
  BY <1>5, <1>6, <1>7, <1>8, <1>9, <1>10, <1>11, <1>12, <1>13, PlainStep

LEMMA ExecSeqKeeps ==
    ASSUME NEW S, NEW D, NEW P, Account(S, D, P), TypeOK',
           NEW t \in Thread, ExecSeq(t), NEW k, k = Kids[cur[t]][1]
    PROVE  Account(S \union {k}, D, P)'
<1> USE DEF Account, Positions
<1> DEFINE n == cur[t]
           S2 == S \union {k}
<1>1. /\ n \in Node /\ Kind[n] = "seq" /\ pc[t] = "exec"
      /\ Entering(t, n) /\ ~Shared(n) /\ 1 \in DOMAIN Kids[n]
  BY AtNode, ArityFacts DEF ExecSeq, Entering, Shared, TypeOK
<1>2. /\ k \in Node \ Roots /\ Parent[k] = n /\ k \in KidsOf(n)
      /\ Position[k] = 1 /\ ~Shared(Parent[k])
  BY <1>1, KidFacts DEF KidsOf
<1>3. Moves(t, "exec", k) /\ rest'[t] = rest[t] /\ seen'[t] = seen[t]
  BY <1>1 DEF ExecSeq, Goto, Moves, TypeOK, ThreadType
<1>4. Kept
  BY DEF ExecSeq, storageVars, latchVars, callVars, Kept
<1>5. n \in S /\ n \notin D /\ KidsOf(n) \intersect S = {}
  BY <1>1 DEF EnteringFresh
<1>6. /\ k \notin S /\ k \notin D /\ k \notin P /\ ~engaged[k]
      /\ KidsOf(k) \intersect S2 = {}
  BY <1>2, <1>5, Unstarted
<1>7. Plain(S, D, P, S2, D, P, t, "exec", k)
  BY <1>1, <1>3, <1>4 DEF Plain
<1>8. \A m \in Node : Kind[m] = "seq" => k # Kids[m][2]
  BY <1>2, ArityFacts, KidFacts
<1>9. Stages(S2, D, P)'
  <2>1. k \in Tree[root]
    BY <1>2, <1>5, InTree
  <2> QED
    BY <1>2, <1>4, <1>5, <1>8, <2>1 DEF Kept, Stages, Waits, KidsOf, Shared
<1>10. EnteringFresh(S2, D)'
  <2>1. \A m \in Node : k \in KidsOf(m) => m = n
    BY <1>2, KidsAreLarger
  <2>2. ASSUME NEW u \in Thread, NEW m \in Node, Entering(u, m)'
        PROVE  m = k \/ (Entering(u, m) /\ m # n)
    <3>1. m = k \/ (u # t /\ Entering(u, m))
      BY <1>3, <2>2 DEF Entering, Moves
    <3> QED
      BY <1>1, <3>1 DEF Alone
  <2>3. ASSUME NEW u \in Thread, NEW m \in Node, Entering(u, m)'
        PROVE  m \in S2 \ D /\ ~engaged'[m] /\ KidsOf(m) \intersect S2 = {}
    <3>1. Entering(u, m) =>
              m \in S \ D /\ ~engaged[m] /\ KidsOf(m) \intersect S = {}
      BY DEF EnteringFresh
    <3> QED
      BY <1>2, <1>4, <1>6, <2>1, <2>2, <2>3, <3>1 DEF Kept
  <2> QED
    BY <2>3 DEF EnteringFresh, KidsOf
<1>11. StartingFresh(S2)'
  <2>1. ASSUME NEW u \in Thread, NEW l \in Node, Starting(u, l),
               NEW i \in DOMAIN Kids[Parent[l]]
        PROVE  Kids[Parent[l]][i] # k
    <3>1. Parent[l] \in Node /\ Shared(Parent[l])
      BY <2>1, ParentFacts DEF TypeOK, ThreadType, Place, Starting
    <3> QED
      BY <1>2, <3>1, KidFacts
  <2> QED
    BY <1>3, <1>4, <2>1 DEF Kept, StartingFresh, Starting, Moves
<1>12. LeavingDone(D, P)'
  BY <1>3 DEF LeavingDone, Leaving, Moves
<1>13. Alone'
  BY <1>1, <1>3, <1>6
     DEF Alone, EnteringFresh, Entering, Starting, Leaving, Ending, Pending,
         Counting, Moves
<1>14. Knowledge(P)'
  BY <1>1, <1>3, <1>4 DEF Kept, Knowledge, Closed, Waits, KidsOf, Leaving, Moves
<1>15. Informed'
  <2>1. \A m \in Node : Kind[m] = "seq" /\ k \in Tree[Kids[m][2]]
                        => n \in Tree[Kids[m][2]]
    BY <1>2, <1>8, SecondDown
  <2> QED
    BY <1>1, <1>3, <2>1
       DEF Informed, Entering, Starting, Leaving, Ending, Pending, Moves
<1>16. Delivery(P)'
  BY <1>1, <1>3, <1>4 DEF Kept, Delivery, Leaving, Counting, Moves
<1> QED
  BY <1>7, <1>9, <1>10, <1>11, <1>12, <1>13, <1>14, <1>15, <1>16, PlainStep

LEMMA RunInlineKeeps ==
    ASSUME NEW S, NEW D, NEW P, Account(S, D, P), TypeOK',
           NEW t \in Thread, RunInline(t), NEW k, k = cur[t]
    PROVE  Account(S \union {k}, D, P)'
<1> USE DEF Account, Positions
<1> DEFINE n == Parent[k]
           S2 == S \union {k}
<1>1. /\ k \in Node \ Roots /\ Shared(n) /\ pc[t] = "fan" /\ Starting(t, k)
      /\ Position[k] \in DOMAIN Kids[n] /\ Kids[n][Position[k]] = k
      /\ n \in Node /\ k \in KidsOf(n)
  <2>1. k \in Node \ Roots /\ Shared(n) /\ pc[t] = "fan" /\ Starting(t, k)
    BY AtNode DEF RunInline, Starting, TypeOK, ThreadType, Place
  <2> QED
    BY <2>1, ParentFacts
<1>2. Moves(t, "exec", k) /\ rest'[t] = rest[t] /\ seen'[t] = seen[t]
  BY <1>1 DEF RunInline, Goto, Moves, TypeOK, ThreadType
<1>3. Kept
  BY DEF RunInline, storageVars, latchVars, callVars, Kept
<1>4. /\ k \notin S /\ k \notin D /\ k \notin P /\ ~engaged[k]
      /\ KidsOf(k) \intersect S2 = {}
      /\ engaged[n] /\ n \in S
  <2>1. Position[k] <= Position[k]
    BY <1>1, ArityFacts
  <2>2. engaged[n] /\ k \notin S
    BY <1>1, <2>1 DEF StartingFresh
  <2> QED
    BY <1>1, <2>2, Unstarted DEF Storages
<1>5. Plain(S, D, P, S2, D, P, t, "exec", k)
  BY <1>1, <1>2, <1>3 DEF Plain
<1>6. \A m \in Node : Kind[m] = "seq" => k # Kids[m][2]
  BY <1>1, ArityFacts, KidFacts DEF Shared
<1>7. Stages(S2, D, P)'
  <2>1. k \in Tree[root]
    BY <1>1, <1>4, InTree
  <2> QED
    BY <1>1, <1>3, <1>4, <1>6, <2>1 DEF Kept, Stages, Waits, KidsOf, Shared
<1>8. EnteringFresh(S2, D)'
  <2>1. \A m \in Node : k \in KidsOf(m) => m = n
    BY <1>1, KidsAreLarger
  <2> QED
    BY <1>1, <1>2, <1>3, <1>4, <2>1
       DEF Kept, EnteringFresh, Entering, Moves, KidsOf
<1>9. StartingFresh(S2)'
  <2>1. ASSUME NEW u \in Thread, NEW l \in Node, Starting(u, l), u # t,
               NEW i \in DOMAIN Kids[Parent[l]]
        PROVE  Kids[Parent[l]][i] # k
    <3>1. Parent[l] \in Node /\ Parent[l] # n
      BY <1>1, <2>1, ParentFacts
         DEF Alone, TypeOK, ThreadType, Place, Starting
    <3> QED
      BY <1>1, <3>1, KidFacts
  <2> QED
    BY <1>2, <1>3, <2>1 DEF Kept, StartingFresh, Starting, Moves
<1>10. LeavingDone(D, P)'
  BY <1>2 DEF LeavingDone, Leaving, Moves
<1>11. Alone'
  BY <1>1, <1>2, <1>4
     DEF Alone, EnteringFresh, Entering, Starting, Leaving, Ending, Pending,
         Counting, Moves
<1>12. Knowledge(P)'
  BY <1>1, <1>2, <1>3
     DEF Kept, Knowledge, Closed, Waits, KidsOf, Leaving, Moves
<1>13. Informed'
  BY <1>1, <1>2
     DEF Informed, Entering, Starting, Leaving, Ending, Pending, Moves
<1>14. Delivery(P)'
  BY <1>1, <1>2, <1>3 DEF Kept, Delivery, Leaving, Counting, Moves
<1> QED
  BY <1>5, <1>7, <1>8, <1>9, <1>10, <1>11, <1>12, <1>13, <1>14, PlainStep

LEMMA StartKeeps ==
    ASSUME NEW S, NEW D, NEW P, Account(S, D, P), TypeOK',
           NEW k \in Task, Start(k)
    PROVE  Account(S, D, P)'
<1> USE DEF Account, Positions
<1>1. /\ k \in Thread /\ k \in Node /\ pc[k] = "queued" /\ cur[k] = k
      /\ Entering(k, k)
  BY ThreadFacts DEF Start, Entering, TypeOK, ThreadType, Place, Thread
<1>2. Moves(k, "exec", k) /\ rest'[k] = rest[k] /\ seen'[k] = seen[k]
  BY <1>1 DEF Start, Goto, Moves, TypeOK, ThreadType
<1>3. Kept
  BY DEF Start, storageVars, latchVars, callVars, Kept
<1>4. Plain(S, D, P, S, D, P, k, "exec", k)
  BY <1>1, <1>2, <1>3 DEF Plain
<1>5. Stages(S, D, P)'
  BY <1>3 DEF Kept, Stages, Waits, KidsOf, Shared
<1>6. EnteringFresh(S, D)'
  BY <1>1, <1>2, <1>3 DEF Kept, EnteringFresh, Entering, Moves, KidsOf
<1>7. StartingFresh(S)'
  BY <1>2, <1>3 DEF Kept, StartingFresh, Starting, Moves
<1>8. LeavingDone(D, P)'
  BY <1>2 DEF LeavingDone, Leaving, Moves
<1>9. Alone'
  BY <1>1, <1>2
     DEF Alone, Entering, Starting, Leaving, Ending, Pending, Counting, Moves
<1>10. Knowledge(P)'
  BY <1>1, <1>2, <1>3
     DEF Kept, Knowledge, Closed, Waits, KidsOf, Leaving, Moves
<1>11. Informed'
  BY <1>1, <1>2
     DEF Informed, Entering, Starting, Leaving, Ending, Pending, Moves
<1>12. Delivery(P)'
  BY <1>1, <1>2, <1>3 DEF Kept, Delivery, Leaving, Counting, Moves
<1> QED
  BY <1>1, <1>4, <1>5, <1>6, <1>7, <1>8, <1>9, <1>10, <1>11, <1>12,
     PlainStep

LEMMA AllStoreKeeps ==
    ASSUME NEW S, NEW D, NEW P, Account(S, D, P), TypeOK',
           NEW t \in Thread, AllStore(t)
    PROVE  Account(S, D, P)'
<1> USE DEF Account, Positions
<1> DEFINE k == cur[t]
<1>1. k \in Node /\ pc[t] = "out" /\ Leaving(t, k)
  BY AtNode DEF AllStore, Leaving, TypeOK
<1>2. Moves(t, "join", k) /\ rest'[t] = rest[t] /\ seen'[t] = seen[t]
  BY <1>1 DEF AllStore, Goto, Moves, TypeOK, ThreadType
<1>3. Kept
  BY DEF AllStore, storageVars, latchVars, callVars, Kept
<1>4. Plain(S, D, P, S, D, P, t, "join", k)
  BY <1>1, <1>2, <1>3 DEF Plain
<1>5. Stages(S, D, P)'
  BY <1>3 DEF Kept, Stages, Waits, KidsOf, Shared
<1>6. EnteringFresh(S, D)'
  BY <1>2, <1>3 DEF Kept, EnteringFresh, Entering, Moves, KidsOf
<1>7. StartingFresh(S)'
  BY <1>2, <1>3 DEF Kept, StartingFresh, Starting, Moves
<1>8. LeavingDone(D, P)'
  BY <1>1, <1>2 DEF LeavingDone, Leaving, Moves
<1>9. Alone'
  BY <1>1, <1>2
     DEF Alone, Entering, Starting, Leaving, Ending, Pending, Counting, Moves
<1>10. Knowledge(P)'
  BY <1>1, <1>2, <1>3
     DEF Kept, Knowledge, Closed, Waits, KidsOf, Leaving, Moves
<1>11. Informed'
  BY <1>1, <1>2
     DEF Informed, Entering, Starting, Leaving, Ending, Pending, Moves
<1>12. Delivery(P)'
  BY <1>1, <1>2, <1>3 DEF Kept, Delivery, Leaving, Counting, Moves
<1> QED
  BY <1>4, <1>5, <1>6, <1>7, <1>8, <1>9, <1>10, <1>11, <1>12, PlainStep

LEMMA SeqFirstKeeps ==
    ASSUME NEW S, NEW D, NEW P, Account(S, D, P), TypeOK',
           NEW t \in Thread, SeqFirst(t),
           NEW k, k = cur[t], NEW l, l = Kids[Parent[k]][2]
    PROVE  Account(S \union {l}, D, P \union {k})'
<1> USE DEF Account, Positions
<1> DEFINE n == Parent[k]
           S2 == S \union {l}
           P2 == P \union {k}
<1>1. /\ k \in Node \ Roots /\ Kind[n] = "seq" /\ pc[t] = "out"
      /\ Leaving(t, k) /\ n \in Node /\ Kids[n][1] = k
      /\ 2 \in DOMAIN Kids[n] /\ ~Shared(n)
  <2>1. k \in Node \ Roots /\ Kind[n] = "seq" /\ pc[t] = "out" /\ Leaving(t, k)
    BY AtNode DEF SeqFirst, Leaving, TypeOK, ChildOf
  <2> QED
    BY <2>1, ParentFacts, ArityFacts DEF SeqFirst, Shared
<1>2. /\ l \in Node \ Roots /\ Parent[l] = n /\ l \in KidsOf(n)
      /\ Position[l] = 2 /\ ~Shared(Parent[l])
  BY <1>1, KidFacts DEF KidsOf
<1>3. Moves(t, "exec", l) /\ rest'[t] = rest[t] /\ seen'[t] = seen[t]
  BY <1>1 DEF SeqFirst, Goto, Moves, TypeOK, ThreadType
<1>4. Kept
  BY DEF SeqFirst, storageVars, latchVars, callVars, Kept
<1>5. /\ k \in S /\ k \in D /\ k \notin P /\ k \in seen[t]
      /\ k # root /\ n \in S
  BY <1>1, LeavingFacts
<1>6. /\ l \notin S /\ l \notin D /\ l \notin P /\ ~engaged[l]
      /\ KidsOf(l) \intersect S2 = {}
  <2>1. l \notin S
    BY <1>1, <1>5 DEF Stages
  <2> QED
    BY <1>2, <2>1, Unstarted
<1>7. \A m \in Node : k \in KidsOf(m) \/ l \in KidsOf(m) => m = n
  BY <1>1, <1>2, KidsAreLarger
<1>8. Plain(S, D, P, S2, D, P2, t, "exec", l)
  BY <1>1, <1>3, <1>4, <1>7 DEF Plain
<1>9. Stages(S2, D, P2)'
  <2>1. l \in Tree[root]
    BY <1>2, <1>5, InTree
  <2>2. ASSUME NEW m \in Node, Kind[m] = "seq", Kids[m][2] \in S2
        PROVE  Kids[m][1] \in P2
    <3>1. Kids[m][2] = l => m = n
      BY <1>7, <2>2, ArityFacts DEF KidsOf
    <3> QED
      BY <1>1, <2>2, <3>1 DEF Stages
  <2>3. /\ S2 \subseteq Tree[root] /\ D \subseteq S2 /\ P2 \subseteq D
        /\ root \in S2
    BY <1>5, <2>1 DEF Stages
  <2>4. \A m \in S2 \ {root} : m \notin Roots /\ Parent[m] \in S2
    BY <1>2, <1>5 DEF Stages
  <2>5. \A m \in D : Waits(m) => KidsOf(m) \subseteq P2
    BY DEF Stages
  <2>6. \A m \in S2 \ P2 : m \notin Roots /\ Shared(Parent[m]) => engaged[Parent[m]]
    BY <1>2 DEF Stages
  <2> QED
    BY <1>4, <2>2, <2>3, <2>4, <2>5, <2>6 DEF Kept, Stages, Waits, KidsOf, Shared
<1>10. EnteringFresh(S2, D)'
  <2>1. ASSUME NEW u \in Thread, NEW m \in Node, Entering(u, m)
        PROVE  l \notin KidsOf(m)
    <3>1. k \in KidsOf(n) /\ k \in S
      BY <1>1, <1>5, ParentFacts
    <3> QED
      BY <1>7, <2>1, <3>1 DEF EnteringFresh
  <2>2. ASSUME NEW u \in Thread, NEW m \in Node, Entering(u, m)'
        PROVE  m = l \/ (Entering(u, m) /\ l \notin KidsOf(m))
    <3>1. m = l \/ Entering(u, m)
      BY <1>3, <2>2 DEF Entering, Moves
    <3> QED
      BY <2>1, <3>1
  <2>3. \A m \in Node : l \notin KidsOf(m) /\ KidsOf(m) \intersect S = {}
                       => KidsOf(m) \intersect S2 = {}
    OBVIOUS
  <2>4. l \in S2 \ D /\ ~engaged'[l]
    BY <1>4, <1>6 DEF Kept
  <2>5. ASSUME NEW u \in Thread, NEW m \in Node, Entering(u, m)'
        PROVE  m \in S2 \ D /\ ~engaged'[m] /\ KidsOf(m) \intersect S2 = {}
    <3>1. Entering(u, m) =>
              m \in S \ D /\ ~engaged[m] /\ KidsOf(m) \intersect S = {}
      BY DEF EnteringFresh
    <3> QED
      BY <1>4, <1>6, <2>2, <2>3, <2>4, <2>5, <3>1 DEF Kept
  <2> QED
    BY <2>5 DEF EnteringFresh, KidsOf
<1>11. StartingFresh(S2)'
  <2>1. ASSUME NEW u \in Thread, NEW m \in Node, Starting(u, m),
               NEW i \in DOMAIN Kids[Parent[m]]
        PROVE  Kids[Parent[m]][i] # l
    <3>1. Parent[m] \in Node /\ Shared(Parent[m])
      BY <2>1, ParentFacts DEF TypeOK, ThreadType, Place, Starting
    <3> QED
      BY <1>2, <3>1, KidFacts
  <2> QED
    BY <1>3, <1>4, <2>1 DEF Kept, StartingFresh, Starting, Moves
<1>12. LeavingDone(D, P2)'
  BY <1>1, <1>3 DEF LeavingDone, Leaving, Moves, Alone
<1>13. Alone'
  <2>1. ASSUME NEW u \in Thread, NEW m \in Node, Entering(u, m)'
        PROVE  u = t \/ (Entering(u, m) /\ m # l)
    <3>1. u = t \/ Entering(u, m)
      BY <1>3, <2>1 DEF Entering, Moves
    <3> QED
      BY <1>6, <3>1 DEF EnteringFresh
  <2>2. \A m \in Node : Entering(t, m)' => m = l
    BY <1>3 DEF Entering, Moves
  <2>3. \A u, v \in Thread, m \in Node :
            Entering(u, m)' /\ Entering(v, m)' => u = v
    BY <2>1, <2>2 DEF Alone
  <2> QED
    BY <1>1, <1>3, <2>3
       DEF Alone, Starting, Leaving, Ending, Pending, Counting, Moves
<1>14. Knowledge(P2)'
  BY <1>1, <1>3, <1>4
     DEF Kept, Knowledge, Closed, Waits, KidsOf, Leaving, Moves
<1>15. Informed'
  <2>1. ASSUME NEW m \in Node, Kind[m] = "seq", l \in Tree[Kids[m][2]]
        PROVE  Kids[m][1] \in seen[t]
    <3>1. CASE l = Kids[m][2]
      <4>1. m = n
        BY <1>7, <2>1, <3>1, ArityFacts DEF KidsOf
      <4> QED
        BY <1>1, <1>5, <4>1
    <3>2. CASE l # Kids[m][2]
      <4>1. k \in Tree[Kids[m][2]]
        BY <1>1, <1>2, <2>1, <3>2, SecondDown, SecondUp
      <4> QED
        BY <1>1, <2>1, <4>1 DEF Informed
    <3> QED
      BY <3>1, <3>2
  <2> QED
    BY <1>1, <1>3, <2>1
       DEF Informed, Entering, Starting, Leaving, Ending, Pending, Moves
<1>16. Delivery(P2)'
  BY <1>1, <1>3, <1>4, <1>5 DEF Kept, Delivery, Leaving, Counting, Moves
<1> QED
  BY <1>8, <1>9, <1>10, <1>11, <1>12, <1>13, <1>14, <1>15, <1>16, PlainStep

LEMMA SeqSecondKeeps ==
    ASSUME NEW S, NEW D, NEW P, Account(S, D, P), TypeOK',
           NEW t \in Thread, SeqSecond(t),
           NEW k, k = cur[t], NEW n, n = Parent[k]
    PROVE  Account(S, D \union {n}, P \union {k})'
<1> USE DEF Account, Positions
<1> DEFINE D2 == D \union {n}
           P2 == P \union {k}
           i == Kids[n][1]
<1>1. /\ k \in Node \ Roots /\ Kind[n] = "seq" /\ pc[t] = "out"
      /\ Leaving(t, k) /\ n \in Node /\ Kids[n][2] = k /\ k \in KidsOf(n)
      /\ ~Shared(n) /\ Waits(n)
  <2>1. k \in Node \ Roots /\ Kind[n] = "seq" /\ pc[t] = "out" /\ Leaving(t, k)
    BY AtNode DEF SeqSecond, Leaving, TypeOK, ChildOf
  <2> QED
    BY <2>1, ParentFacts DEF SeqSecond, Shared, Waits
<1>2. /\ Moves(t, "out", n) /\ rest'[t] = rest[t]
      /\ seen'[t] = seen[t] \union {n}
  BY <1>1 DEF SeqSecond, Goto, Moves, TypeOK, ThreadType
<1>3. Kept
  BY DEF SeqSecond, storageVars, latchVars, callVars, Kept
<1>4. /\ k \in S /\ k \in D /\ k \notin P /\ k \in seen[t]
      /\ k # root /\ n \in S /\ n \notin D /\ n \notin P /\ n # k
  <2>1. /\ k \in S /\ k \in D /\ k \notin P /\ k \in seen[t]
        /\ k # root /\ n \in S /\ n \notin D
    BY <1>1, LeavingFacts
  <2> QED
    BY <2>1 DEF Stages
<1>5. KidsOf(n) = {i, k} /\ i \in P /\ i \in seen[t]
  <2>1. k \in Tree[Kids[n][2]]
    BY <1>1, TreeSelf
  <2>2. i \in seen[t]
    BY <1>1, <2>1 DEF Informed
  <2> QED
    BY <1>1, <1>4, <2>2, SeqKids DEF Stages
<1>6. \A m \in Node : k \in KidsOf(m) => m = n
  BY <1>1, KidsAreLarger
<1>7. Plain(S, D, P, S, D2, P2, t, "out", n)
  BY <1>1, <1>2, <1>3, <1>6 DEF Plain
<1>8. Stages(S, D2, P2)'
  <2>1. /\ S \subseteq Tree[root] /\ D2 \subseteq S /\ P2 \subseteq D2
        /\ root \in S
    BY <1>4 DEF Stages
  <2>2. ASSUME NEW m \in D2, Waits(m) PROVE KidsOf(m) \subseteq P2
    BY <1>5, <2>2 DEF Stages
  <2>3. \A m \in S \ {root} : m \notin Roots /\ Parent[m] \in S
    BY DEF Stages
  <2>4. \A m \in Node : Kind[m] = "seq" /\ Kids[m][2] \in S => Kids[m][1] \in P2
    BY DEF Stages
  <2>5. \A m \in S \ P2 : m \notin Roots /\ Shared(Parent[m]) => engaged[Parent[m]]
    BY DEF Stages
  <2> QED
    BY <1>3, <2>1, <2>2, <2>3, <2>4, <2>5 DEF Kept, Stages, Waits, KidsOf, Shared
<1>9. EnteringFresh(S, D2)'
  <2>1. ASSUME NEW u \in Thread, NEW m \in Node, Entering(u, m)'
        PROVE  Entering(u, m) /\ m # n
    <3>1. Entering(u, m)
      BY <1>2, <2>1 DEF Entering, Moves
    <3> QED
      BY <1>1, <1>4, <3>1 DEF EnteringFresh, Stages
  <2> QED
    BY <1>3, <2>1 DEF Kept, EnteringFresh, KidsOf
<1>10. StartingFresh(S)'
  BY <1>2, <1>3 DEF Kept, StartingFresh, Starting, Moves
<1>11. LeavingDone(D2, P2)'
  BY <1>1, <1>2, <1>4 DEF LeavingDone, Leaving, Moves, Alone
<1>12. Alone'
  BY <1>1, <1>2, <1>4
     DEF Alone, LeavingDone, Entering, Starting, Leaving, Ending, Pending,
         Counting, Moves
<1>13. Knowledge(P2)'
  <2>1. Closed(seen[t] \union {n})
    BY <1>4, <1>5 DEF Knowledge, Closed
  <2> QED
    BY <1>1, <1>2, <1>3, <2>1
       DEF Kept, Knowledge, Closed, Waits, KidsOf, Leaving, Moves
<1>14. Informed'
  <2>1. \A m \in Node : Kind[m] = "seq" /\ n \in Tree[Kids[m][2]]
                        => k \in Tree[Kids[m][2]]
    BY <1>1, SecondUp
  <2> QED
    BY <1>1, <1>2, <2>1
       DEF Informed, Entering, Starting, Leaving, Ending, Pending, Moves
<1>15. Delivery(P2)'
  BY <1>1, <1>2, <1>3, <1>4 DEF Kept, Delivery, Leaving, Counting, Moves
<1> QED
  BY <1>7, <1>8, <1>9, <1>10, <1>11, <1>12, <1>13, <1>14, <1>15, PlainStep

\* The storage of n is constructed, with n's first child to be started.
LEMMA ExecSharedKeeps ==
    ASSUME NEW S, NEW D, NEW P, Account(S, D, P), TypeOK',
           NEW t \in Thread, ExecShared(t),
           NEW n, n = cur[t], NEW k, k = Kids[n][1]
    PROVE  Account(S, D, P)'
<1> USE DEF Account, Positions
<1>1. /\ n \in Node /\ Shared(n) /\ pc[t] = "exec" /\ Entering(t, n)
      /\ 1 \in DOMAIN Kids[n]
  BY AtNode, ArityFacts DEF ExecShared, Entering, TypeOK
<1>2. /\ k \in Node \ Roots /\ Parent[k] = n /\ k \in KidsOf(n)
      /\ Position[k] = 1
  BY <1>1, KidFacts DEF KidsOf
<1>3. Moves(t, "fan", k) /\ rest'[t] = rest[t] /\ seen'[t] = seen[t]
  BY <1>1 DEF ExecShared, Goto, Moves, TypeOK, ThreadType
<1>4. /\ counted' = counted /\ ctr' = ctr
      /\ calls' = calls /\ root' = root /\ results' = results
  BY DEF ExecShared, latchVars, callVars
<1>5. /\ engaged'[n] /\ joined'[n] = seen[t] /\ left'[n] = Arity(n)
      /\ \A m \in Node \ {n} : /\ engaged'[m] = engaged[m]
                               /\ joined'[m] = joined[m] /\ left'[m] = left[m]
  BY <1>1 DEF ExecShared, Construct, TypeOK, StorageType
<1>6. /\ n \in S /\ n \notin D /\ n \notin P /\ ~engaged[n]
      /\ KidsOf(n) \intersect S = {} /\ KidsOf(n) \intersect P = {}
      /\ seen[t] \subseteq P
  <2>1. n \in S /\ n \notin D /\ ~engaged[n] /\ KidsOf(n) \intersect S = {}
    BY <1>1 DEF EnteringFresh
  <2> QED
    BY <1>1, <2>1 DEF Stages, Knowledge, Leaving
<1>7. \A m \in Node : engaged[m] => engaged'[m] /\ m # n
  BY <1>5, <1>6
<1>8. calls' > 0
  BY <1>4
<1>9. Tidy'
  BY <1>1, <1>3, <1>4, <1>5, ThreadFacts DEF Tidy, Moves, Thread
<1>10. Stages(S, D, P)'
  <2>1. S \subseteq Node
    BY <1>2, <1>6, InTree
  <2>2. \A l \in S \ P : l \notin Roots /\ Shared(Parent[l])
                        => engaged'[Parent[l]]
    BY <1>7, <2>1, ParentFacts DEF Stages
  <2> QED
    BY <1>4, <2>2 DEF Stages, Waits, KidsOf, Shared
<1>11. Storages(S, D, P)'
  <2>1. ASSUME NEW m \in Node, engaged'[m]
        PROVE  /\ Shared(m) /\ m \in S
               /\ m \in D => Kind[m] = "any" /\ left'[m] < Arity(m)
               /\ joined'[m] \intersect KidsOf(m) = P \intersect KidsOf(m)
               /\ left'[m] = Cardinality(KidsOf(m) \ P)
    <3>1. CASE m = n
      <4>1. KidsOf(n) \ P = KidsOf(n)
        BY <1>6
      <4>2. joined'[n] \intersect KidsOf(n) = {}
        BY <1>5, <1>6
      <4> QED
        BY <1>1, <1>5, <1>6, <3>1, <4>1, <4>2, KidsCount
    <3>2. CASE m # n
      BY <1>5, <2>1, <3>2 DEF Storages
    <3> QED
      BY <3>1, <3>2
  <2> QED
    BY <2>1 DEF Storages, Shared, KidsOf, Arity
<1>12. EnteringFresh(S, D)'
  <2>1. ASSUME NEW u \in Thread, NEW m \in Node, Entering(u, m)'
        PROVE  Entering(u, m) /\ m # n
    <3>1. u # t /\ Entering(u, m)
      BY <1>3, <2>1 DEF Entering, Moves
    <3> QED
      BY <1>1, <3>1 DEF Alone
  <2> QED
    BY <1>5, <2>1 DEF EnteringFresh, KidsOf
<1>13. StartingFresh(S)'
  <2>1. \A i \in DOMAIN Kids[Parent[k]] : Kids[Parent[k]][i] \notin S
    BY <1>2, <1>6 DEF KidsOf
  <2>2. \A u \in Thread, l \in Node : Starting(u, l) => Parent[l] \in Node
    BY ParentFacts DEF TypeOK, ThreadType, Place, Starting
  <2>3. ASSUME NEW u \in Thread, NEW l \in Node, Starting(u, l)'
        PROVE  l = k \/ Starting(u, l)
    BY <1>3, <2>3 DEF Starting, Moves
  <2>4. ASSUME NEW m \in Node, engaged[m] PROVE engaged'[m]
    BY <1>5, <2>4
  <2> QED
    BY <1>2, <1>5, <2>1, <2>2, <2>3, <2>4 DEF StartingFresh
<1>14. LeavingDone(D, P)'
  BY <1>3 DEF LeavingDone, Leaving, Moves
<1>15. EndingOver(P)'
  BY <1>1, <1>3, <1>7 DEF EndingOver, Ending, Pending, Moves, KidsOf
<1>16. \A u \in Thread, m \in Node :
           /\ Counting(u, m)' <=> Counting(u, m)
           /\ Counting(u, m) => m # n
  <2>1. ASSUME NEW u \in Thread, Counting(u, n) PROVE FALSE
    <3>1. k \in seen[u]
      BY <1>1, <1>2, <2>1 DEF CountingOver
    <3>2. k \in P
      BY <2>1, <3>1 DEF Knowledge, Counting, Leaving
    <3> QED
      BY <1>2, <1>6, <3>2
  <2> QED
    BY <1>1, <1>3, <2>1 DEF Counting, Moves
<1>17. CountingOver(S)'
  <2>1. \A u \in Thread : seen'[u] = seen[u]
    BY <1>3 DEF Moves
  <2> QED
    BY <1>5, <1>16, <2>1 DEF CountingOver, KidsOf
<1>18. CountingOutput(P)'
  BY <1>3, <1>4 DEF CountingOutput, Counting, Moves
<1>19. TasksStarted(S)'
  BY <1>1, <1>3 DEF TasksStarted, Moves, Thread
<1>20. Alone'
  <2>1. ASSUME NEW u \in Thread, NEW l \in Node, Starting(u, l) PROVE Parent[l] # n
    BY <1>6, <2>1 DEF StartingFresh
  <2> QED
    BY <1>1, <1>2, <1>3, <2>1
       DEF Alone, Entering, Starting, Leaving, Ending, Pending, Counting, Moves
<1>21. Knowledge(P)'
  BY <1>1, <1>3, <1>4, <1>5, <1>6
     DEF Knowledge, Closed, Waits, KidsOf, Leaving, Moves
<1>22. Informed'
  <2>1. \A m \in Node : Kind[m] = "seq" => k # Kids[m][2]
    BY <1>1, <1>2, ArityFacts, KidFacts DEF Shared
  <2>2. \A m \in Node : Kind[m] = "seq" /\ k \in Tree[Kids[m][2]]
                        => n \in Tree[Kids[m][2]]
    BY <1>2, <2>1, SecondDown
  <2> QED
    BY <1>1, <1>3, <2>2
       DEF Informed, Entering, Starting, Leaving, Ending, Pending, Moves
<1>23. Cleanups(P)'
  BY <1>4, <1>7, <1>16 DEF Cleanups, KidsOf
<1>24. Delivery(P)'
  BY <1>1, <1>3, <1>4, <1>5 DEF Delivery, Leaving, Counting, Moves
<1>25. LatchBalance'
  <2>1. root \in Node
    BY DEF TypeOK, CallType, Roots
  <2>2. ~ (KidsOf(n) \subseteq counted)
    BY <1>2, <1>6 DEF Knowledge
  <2> QED
    BY <1>4, <1>5, <1>16, <2>1, <2>2, LatchKept
<1> QED
  BY <1>8, <1>9, <1>10, <1>11, <1>12, <1>13, <1>14, <1>15, <1>17, <1>18,
     <1>19, <1>20, <1>21, <1>22, <1>23, <1>24, <1>25

\* Two threads move: a task is given to the scheduler, and its parent's loop
\* goes on to the next child.
LEMMA ScheduleKeeps ==
    ASSUME NEW S, NEW D, NEW P, Account(S, D, P), TypeOK',
           NEW t \in Thread, Schedule(t), NEW k, k = cur[t]
    PROVE  Account(S \union {k}, D, P)'
<1> USE DEF Account, Positions
<1> DEFINE n == Parent[k]
           l == NextKid(k)
           S2 == S \union {k}
<1>1. /\ k \in Node \ Roots /\ Shared(n) /\ pc[t] = "fan" /\ Starting(t, k)
      /\ n \in Node /\ k \in KidsOf(n) /\ k \in Task /\ k \in Thread
      /\ l \in Node \ Roots /\ Parent[l] = n
  <2>1. /\ k \in Node \ Roots /\ Shared(n) /\ pc[t] = "fan" /\ Starting(t, k)
        /\ ~IsLast(k)
    BY AtNode DEF Schedule, Starting, TypeOK, ThreadType, Place
  <2> QED
    BY <2>1, ParentFacts, NextKidFacts DEF Task, Thread
<1>2. /\ Position[l] \in Nat /\ Position[k] \in Nat /\ Position[k] < Position[l]
      /\ DOMAIN Kids[n] \subseteq Nat
      /\ Position[k] \in DOMAIN Kids[n] /\ Kids[n][Position[k]] = k
  <2>1. /\ Position[k] \in 1 .. Arity(n) /\ Arity(n) \in Nat
        /\ DOMAIN Kids[n] = 1 .. Arity(n) /\ Kids[n][Position[k]] = k
        /\ Position[k] # Arity(n)
    BY <1>1, ParentFacts, ArityFacts DEF Schedule, IsLast
  <2>2. Position[k] + 1 \in DOMAIN Kids[n]
    BY <2>1
  <2>3. Position[l] = Position[k] + 1
    BY <1>1, <2>2, KidFacts DEF NextKid
  <2> QED
    BY <2>1, <2>3
<1>3. /\ k \notin S /\ k \notin D /\ k \notin P /\ ~engaged[k]
      /\ KidsOf(k) \intersect S2 = {}
      /\ engaged[n] /\ n \in S /\ pc[k] = "idle" /\ k # t /\ rest[k] = <<>>
      /\ \A i \in DOMAIN Kids[n] : Position[k] <= i => Kids[n][i] \notin S
  <2>1. engaged[n] /\ \A i \in DOMAIN Kids[n] :
                          Position[k] <= i => Kids[n][i] \notin S
    BY <1>1 DEF StartingFresh
  <2>2. k \notin S
    BY <1>2, <2>1
  <2>3. pc[k] = "idle"
    BY <1>1, <2>2 DEF TasksStarted
  <2>4. /\ k \notin D /\ k \notin P /\ ~engaged[k]
        /\ KidsOf(k) \intersect S2 = {}
    BY <1>1, <2>2, Unstarted
  <2>5. n \in S
    BY <1>1, <2>1 DEF Storages
  <2>6. rest[k] = <<>> /\ k # t
    BY <1>1, <2>3 DEF Tidy
  <2> QED
    BY <2>1, <2>2, <2>3, <2>4, <2>5, <2>6
<1>4. /\ pc'[t] = "fan" /\ cur'[t] = l /\ rest'[t] = rest[t] /\ seen'[t] = seen[t]
      /\ pc'[k] = "queued" /\ cur'[k] = k /\ rest'[k] = <<>> /\ seen'[k] = seen[t]
      /\ \A u \in Thread \ {t, k} :
             /\ pc'[u] = pc[u] /\ cur'[u] = cur[u]
             /\ rest'[u] = rest[u] /\ seen'[u] = seen[u]
  BY <1>1, <1>3 DEF Schedule, TypeOK, ThreadType
<1>5. Kept
  BY DEF Schedule, storageVars, latchVars, callVars, Kept
<1>6. calls' > 0
  BY <1>5 DEF Kept
<1>7. Tidy'
  BY <1>1, <1>3, <1>4, <1>5, ThreadFacts DEF Kept, Tidy, Thread
<1>8. Stages(S2, D, P)'
  <2>1. k \in Tree[root]
    BY <1>1, <1>3, InTree
  <2>2. \A m \in Node : Kind[m] = "seq" => k # Kids[m][2]
    BY <1>1, ArityFacts, KidFacts DEF Shared
  <2> QED
    BY <1>1, <1>3, <1>5, <2>1, <2>2 DEF Kept, Stages, Waits, KidsOf, Shared
<1>9. Storages(S2, D, P)'
  BY <1>5 DEF Kept, Storages, Shared, KidsOf, Arity
<1>10. EnteringFresh(S2, D)'
  <2>1. \A m \in Node : k \in KidsOf(m) => m = n
    BY <1>1, KidsAreLarger
  <2>2. ASSUME NEW u \in Thread, NEW m \in Node, Entering(u, m)'
        PROVE  (u = k /\ m = k) \/ (Entering(u, m) /\ m # n)
    <3>1. (u = k /\ m = k) \/ Entering(u, m)
      BY <1>4, <2>2 DEF Entering
    <3> QED
      BY <1>1, <1>3, <3>1 DEF EnteringFresh
  <2> QED
    BY <1>1, <1>3, <1>5, <2>1, <2>2 DEF Kept, EnteringFresh, KidsOf
<1>11. StartingFresh(S2)'
  <2>1. ASSUME NEW u \in Thread, NEW m \in Node, Starting(u, m)'
        PROVE  (u = t /\ m = l) \/ (Starting(u, m) /\ Parent[m] # n)
    <3>1. (u = t /\ m = l) \/ (Starting(u, m) /\ u # t)
      BY <1>4, <2>1 DEF Starting
    <3> QED
      BY <1>1, <3>1 DEF Alone
  <2>2. \A i \in DOMAIN Kids[n] : Position[l] <= i => Kids[n][i] \notin S2
    <3>1. ASSUME NEW i \in DOMAIN Kids[n], Position[l] <= i
          PROVE  Position[k] <= i /\ i # Position[k]
      BY <1>2, <3>1
    <3> QED
      BY <1>1, <1>2, <1>3, <3>1, KidFacts
  <2>3. ASSUME NEW u \in Thread, NEW m \in Node, Starting(u, m), Parent[m] # n,
               NEW i \in DOMAIN Kids[Parent[m]]
        PROVE  Kids[Parent[m]][i] # k
    <3>1. Parent[m] \in Node
      BY <2>3, ParentFacts DEF TypeOK, ThreadType, Place, Starting
    <3> QED
      BY <1>1, <2>3, <3>1, KidFacts
  <2> QED
    BY <1>1, <1>3, <1>5, <2>1, <2>2, <2>3 DEF Kept, StartingFresh
<1>12. LeavingDone(D, P)'
  BY <1>1, <1>4 DEF LeavingDone, Leaving
<1>13. EndingOver(P)'
  BY <1>1, <1>4, <1>5 DEF Kept, EndingOver, Ending, Pending, KidsOf
<1>14. \A u \in Thread, m \in Node \union {Main} :
           /\ Counting(u, m)' <=> Counting(u, m)
           /\ Counting(u, m) => seen'[u] = seen[u]
  BY <1>1, <1>3, <1>4 DEF Counting
<1>15. CountingOver(S2)'
  BY <1>5, <1>14 DEF Kept, CountingOver, KidsOf
<1>16. CountingOutput(P)'
  BY <1>5, <1>14 DEF Kept, CountingOutput
<1>17. TasksStarted(S2)'
  BY <1>1, <1>3, <1>4 DEF TasksStarted, Thread
<1>18. Alone'
  <2>1. \A u \in Thread, m \in Node :
            /\ Entering(u, m)' => (u = k /\ m = k) \/ Entering(u, m)
            /\ Entering(u, m) => m # k
            /\ Starting(u, m)' => (u = t /\ m = l) \/ (Starting(u, m) /\ u # t)
            /\ Leaving(u, m)' <=> Leaving(u, m)
            /\ Ending(u, m)' => Ending(u, m)
    BY <1>1, <1>3, <1>4
       DEF EnteringFresh, Entering, Starting, Leaving, Ending, Pending
  <2>2. \A u \in Thread :
            /\ \A i, j \in DOMAIN rest'[u] : rest'[u][i] = rest'[u][j] => i = j
            /\ pc'[u] = "last" => cur'[u] \notin Pending(u)'
    BY <1>1, <1>3, <1>4 DEF Alone, Pending
  <2> QED
    BY <1>1, <1>14, <2>1, <2>2 DEF Alone
<1>19. Knowledge(P)'
  <2>1. \A u \in Thread, m \in Node : Leaving(u, m)' <=> Leaving(u, m)
    BY <1>1, <1>3, <1>4 DEF Leaving
  <2>2. \A m \in seen[t] : m \in P
    BY <1>1 DEF Knowledge, Leaving
  <2>3. seen'[t] = seen[t] /\ seen'[k] = seen[t]
        /\ \A u \in Thread \ {t, k} : seen'[u] = seen[u]
    BY <1>4
  <2>4. \A u \in Thread : seen[u] \subseteq Node
    BY DEF TypeOK, ThreadType
  <2> QED
    BY <1>1, <1>5, <2>1, <2>2, <2>3, <2>4 DEF Kept, Knowledge, Closed, Waits, KidsOf
<1>20. Informed'
  <2>1. \A m \in Node : Kind[m] = "seq" /\ l \in Tree[Kids[m][2]]
                        => k \in Tree[Kids[m][2]]
    <3>1. \A m \in Node : Kind[m] = "seq" => l # Kids[m][2]
      BY <1>1, ArityFacts, KidFacts DEF Shared
    <3> QED
      BY <1>1, <3>1, SecondDown, SecondUp
  <2>2. ASSUME NEW u \in Thread, NEW m \in Node,
               \/ Entering(u, m)' \/ Starting(u, m)' \/ Leaving(u, m)'
               \/ Kind[m] = "all" /\ Ending(u, m)'
        PROVE  \/ u = k /\ m = k
               \/ u = t /\ m = l
               \/ /\ seen'[u] = seen[u]
                  /\ \/ Entering(u, m) \/ Starting(u, m) \/ Leaving(u, m)
                     \/ Kind[m] = "all" /\ Ending(u, m)
    BY <1>1, <1>3, <1>4, <2>2
       DEF Entering, Starting, Leaving, Ending, Pending
  <2>3. \A m \in Node : Kind[m] = "seq" /\ k \in Tree[Kids[m][2]]
                        => Kids[m][1] \in seen[t]
    BY <1>1 DEF Informed
  <2> QED
    BY <1>1, <1>4, <2>1, <2>2, <2>3 DEF Informed
<1>21. Cleanups(P)'
  BY <1>5, <1>14 DEF Kept, Cleanups, KidsOf
<1>22. Delivery(P)'
  <2>1. root \notin counted => root \notin seen[t]
    BY <1>1 DEF Delivery, Starting, Leaving, Counting
  <2>2. \A u \in Thread \ {k} : seen'[u] = seen[u]
    BY <1>4
  <2>3. \A u \in Thread : Leaving(u, root) => Leaving(u, root)'
    BY <1>1, <1>3, <1>4, <1>5 DEF Kept, Leaving
  <2> QED
    BY <1>1, <1>4, <1>5, <1>14, <2>1, <2>2, <2>3 DEF Kept, Delivery
<1>23. LatchBalance'
  <2>1. root \in Node
    BY DEF TypeOK, CallType, Roots
  <2> QED
    BY <1>5, <1>14, <2>1, LatchKept DEF Kept
<1> QED
  BY <1>6, <1>7, <1>8, <1>9, <1>10, <1>11, <1>12, <1>13, <1>15, <1>16, <1>17,
     <1>18, <1>19, <1>20, <1>21, <1>22, <1>23

-----------------------------------------------------------------------------
\* Unwinding.

\* The elements of a sequence without repetition are its head and, apart from
\* it, those of its tail.
LEMMA HeadAndTail ==
    ASSUME NEW X, NEW s \in Seq(X), s # <<>>,
           \A i, j \in DOMAIN s : s[i] = s[j] => i = j
    PROVE  /\ Head(s) \in X /\ Tail(s) \in Seq(X)
           /\ Head(s) \in {s[i] : i \in DOMAIN s}
           /\ {Tail(s)[i] : i \in DOMAIN Tail(s)}
              = {s[i] : i \in DOMAIN s} \ {Head(s)}
           /\ \A i, j \in DOMAIN Tail(s) : Tail(s)[i] = Tail(s)[j] => i = j
<1>1. /\ Head(s) = s[1] /\ 1 \in DOMAIN s /\ Head(s) \in X
      /\ Tail(s) \in Seq(X) /\ Len(s) \in Nat /\ DOMAIN s = 1 .. Len(s)
  OBVIOUS
<1>2. DOMAIN Tail(s) = 1 .. (Len(s) - 1)
  OBVIOUS
<1>3. \A i \in DOMAIN Tail(s) : Tail(s)[i] = s[i + 1] /\ i + 1 \in DOMAIN s
  BY <1>1, <1>2
<1>4. \A i \in DOMAIN s : i # 1 => i - 1 \in DOMAIN Tail(s) /\ (i - 1) + 1 = i
  BY <1>1, <1>2
<1>5. \A i \in DOMAIN Tail(s) : s[i + 1] # s[1]
  <2>1. \A i \in DOMAIN Tail(s) : i + 1 # 1
    BY <1>2
  <2> QED
    BY <1>1, <1>3, <2>1
<1>6. {Tail(s)[i] : i \in DOMAIN Tail(s)} = {s[i] : i \in DOMAIN s} \ {Head(s)}
  <2>1. ASSUME NEW i \in DOMAIN s, s[i] # s[1]
        PROVE  \E j \in DOMAIN Tail(s) : Tail(s)[j] = s[i]
    <3>1. i - 1 \in DOMAIN Tail(s) /\ Tail(s)[i - 1] = s[i]
      BY <1>3, <1>4, <2>1
    <3> QED
      BY <3>1
  <2> QED
    BY <1>1, <1>3, <1>5, <2>1
<1>7. \A i, j \in DOMAIN Tail(s) : Tail(s)[i] = Tail(s)[j] => i = j
  <2>1. ASSUME NEW i \in DOMAIN Tail(s), NEW j \in DOMAIN Tail(s),
               Tail(s)[i] = Tail(s)[j]
        PROVE  i = j
    <3>1. i + 1 = j + 1
      BY <1>3, <2>1
    <3> QED
      BY <1>2, <3>1
  <2> QED
    BY <2>1
<1> QED
  BY <1>1, <1>6, <1>7

\* Thread t is through with what it was called for.
Unwound(t, known) ==
    /\ \A u \in Thread \ {t} : /\ pc'[u] = pc[u] /\ cur'[u] = cur[u]
                               /\ rest'[u] = rest[u] /\ seen'[u] = seen[u]
    /\ pc'[t] \in {"last", "wait", "idle"}
    /\ pc'[t] = "idle" => t # Main /\ seen'[t] = {}
    /\ pc'[t] # "last" => rest'[t] = <<>>
    /\ seen'[t] \in {known, {}}
    /\ \A n \in Node : Ending(t, n)' => n \in Pending(t) /\ seen'[t] = known
    /\ \A i, j \in DOMAIN rest'[t] : rest'[t][i] = rest'[t][j] => i = j
    /\ pc'[t] = "last" => cur'[t] \notin Pending(t)'

LEMMA UnwindFacts ==
    ASSUME TypeOK, Alone, NEW t \in Thread, NEW known, Unwind(t, known)
    PROVE  Unwound(t, known)
<1>1. rest[t] \in Seq(Only)
  BY DEF TypeOK, ThreadType
<1>2. CASE rest[t] # <<>>
  <2>1. /\ pc'[t] = "last" /\ cur'[t] = Head(rest[t])
        /\ rest'[t] = Tail(rest[t]) /\ seen'[t] = known
    BY <1>2 DEF Unwind, Goto, TypeOK, ThreadType
  <2>2. \A u \in Thread \ {t} : /\ pc'[u] = pc[u] /\ cur'[u] = cur[u]
                                /\ rest'[u] = rest[u] /\ seen'[u] = seen[u]
    BY <1>2 DEF Unwind, Goto, TypeOK, ThreadType
  <2>3. /\ Head(rest[t]) \in {rest[t][i] : i \in DOMAIN rest[t]}
        /\ {Tail(rest[t])[i] : i \in DOMAIN Tail(rest[t])}
           = {rest[t][i] : i \in DOMAIN rest[t]} \ {Head(rest[t])}
        /\ \A i, j \in DOMAIN Tail(rest[t]) :
               Tail(rest[t])[i] = Tail(rest[t])[j] => i = j
    BY <1>1, <1>2, HeadAndTail DEF Alone
  <2>4. \A n \in Node : Ending(t, n)' => n \in Pending(t)
    BY <2>1, <2>3 DEF Ending, Pending
  <2>5. cur'[t] \notin Pending(t)'
    BY <2>1, <2>3 DEF Pending
  <2>6. \A i, j \in DOMAIN rest'[t] : rest'[t][i] = rest'[t][j] => i = j
    BY <2>1, <2>3
  <2> QED
    BY <2>1, <2>2, <2>4, <2>5, <2>6 DEF Unwound
<1>3. CASE rest[t] = <<>>
  <2>1. /\ pc'[t] = IF t = Main THEN "wait" ELSE "idle"
        /\ rest'[t] = <<>> /\ seen'[t] = IF t = Main THEN known ELSE {}
    BY <1>3 DEF Unwind, Goto, TypeOK, ThreadType
  <2>2. \A u \in Thread \ {t} : /\ pc'[u] = pc[u] /\ cur'[u] = cur[u]
                                /\ rest'[u] = rest[u] /\ seen'[u] = seen[u]
    BY <1>3 DEF Unwind, Goto, TypeOK, ThreadType
  <2> QED
    BY <2>1, <2>2 DEF Unwound, Ending, Pending
<1> QED
  BY <1>2, <1>3

-----------------------------------------------------------------------------
\* The outputs of the children of an all or an any.

\* A thread t on its way out of child k of n has subtracted it from the counter
\* of n, and is now on its way out of n (the winner of an any), or going to
\* destroy what it is the last child of, or through.
PassesOn(D, D2, t, k, n) ==
    LET known == seen[t] \union joined[n] \union (D2 \ D) IN
    /\ Leaving(t, k) /\ k \notin Roots /\ n = Parent[k] /\ Shared(n)
    /\ FetchSub(t, n)
    /\ \/ D2 = D /\ pc'[t] \in {"last", "wait", "idle"}
       \/ /\ D2 = D \union {n} /\ pc'[t] = "out" /\ cur'[t] = n
          /\ Kind[n] = "any" /\ left[n] = Arity(n)
    /\ \A u \in Thread \ {t} : /\ pc'[u] = pc[u] /\ cur'[u] = cur[u]
                               /\ rest'[u] = rest[u] /\ seen'[u] = seen[u]
    /\ seen'[t] \in {known, {}}
    /\ pc'[t] = "out" => seen'[t] = known
    /\ pc'[t] = "idle" => t # Main /\ seen'[t] = {}
    /\ pc'[t] \in {"idle", "wait"} => rest'[t] = <<>>
    /\ \A m \in Node : Ending(t, m)' =>
           /\ seen'[t] = known
           /\ m \in Pending(t) \/ (m = n /\ left[n] = 1)
    /\ \A i, j \in DOMAIN rest'[t] : rest'[t][i] = rest'[t][j] => i = j
    /\ pc'[t] = "last" => cur'[t] \notin Pending(t)'

\* What becomes of the storage of n, if S are started and D2 are done, and P
\* have been passed on before k.
StoragePassedOn(S, D2, P, t, k, n) ==
    /\ n \in S /\ engaged[n]
    /\ \A m \in Node : k \in KidsOf(m) <=> m = n
    /\ engaged' = engaged
    /\ joined'[n] = joined[n] \union seen[t]
    /\ \A m \in Node \ {n} : joined'[m] = joined[m]
    /\ Storages(S, D2, P \union {k})'
    /\ left[n] = 1 => KidsOf(n) \subseteq joined[n] \union {k}

LEMMA PassedOnStorage ==
    ASSUME NEW S, NEW D, NEW P, Account(S, D, P), NEW D2,
           NEW t \in Thread, NEW k \in Node, NEW n \in Node,
           PassesOn(D, D2, t, k, n)
    PROVE  StoragePassedOn(S, D2, P, t, k, n)
<1> DEFINE P2 == P \union {k}
<1> USE DEF Account, Positions
<1>1. /\ Leaving(t, k) /\ k \in Node \ Roots /\ n = Parent[k] /\ Shared(n)
      /\ D2 = D \/ (D2 = D \union {n} /\ Kind[n] = "any" /\ left[n] = Arity(n))
  BY DEF PassesOn
<1>2. /\ k \in S /\ k \in D /\ k \notin P /\ k \in seen[t]
      /\ n \in S /\ engaged[n] /\ n \in Node
  BY <1>1, LeavingFacts, ParentFacts
<1>3. \A m \in Node : k \in KidsOf(m) <=> m = n
  BY <1>1, ParentFacts, KidsAreLarger
<1>4. /\ left'[n] = left[n] - 1 /\ joined'[n] = joined[n] \union seen[t]
      /\ engaged' = engaged
      /\ \A m \in Node \ {n} : joined'[m] = joined[m] /\ left'[m] = left[m]
  BY <1>2 DEF PassesOn, FetchSub, Release, TypeOK, StorageType
<1>5. /\ left[n] \in Int /\ Arity(n) \in Nat
      /\ left[n] = Cardinality(KidsOf(n) \ P)
      /\ joined[n] \intersect KidsOf(n) = P \intersect KidsOf(n)
      /\ n \in D => Kind[n] = "any" /\ left[n] < Arity(n)
  BY <1>2, ArityFacts DEF Storages, TypeOK, StorageType
<1>6. IsFiniteSet(KidsOf(n) \ P) /\ KidsOf(n) \ P2 = (KidsOf(n) \ P) \ {k}
  <2>1. KidsOf(n) \ P \in SUBSET Node
    BY <1>2, KidsCount
  <2> QED
    BY <2>1, NodesAreFinite
<1>7. Cardinality(KidsOf(n) \ P2) = left[n] - 1
  BY <1>2, <1>3, <1>5, <1>6, FS_RemoveElement
<1>8. seen[t] \subseteq P2
  BY <1>1 DEF Knowledge, Leaving
<1>9. joined'[n] \intersect KidsOf(n) = P2 \intersect KidsOf(n)
  BY <1>2, <1>4, <1>5, <1>8
<1>10. Storages(S, D2, P2)'
  <2>1. ASSUME NEW m \in Node, engaged[m]
        PROVE  /\ Shared(m) /\ m \in S
               /\ m \in D2 => Kind[m] = "any" /\ left'[m] < Arity(m)
               /\ joined'[m] \intersect KidsOf(m) = P2 \intersect KidsOf(m)
               /\ left'[m] = Cardinality(KidsOf(m) \ P2)
    <3>1. CASE m = n
      BY <1>1, <1>2, <1>4, <1>5, <1>7, <1>9, <3>1
    <3>2. CASE m # n
      <4>1. KidsOf(m) \ P2 = KidsOf(m) \ P /\ k \notin KidsOf(m)
        BY <1>3, <3>2
      <4>2. joined'[m] = joined[m] /\ left'[m] = left[m]
        BY <1>4, <3>2
      <4>3. /\ Shared(m) /\ m \in S
            /\ m \in D => Kind[m] = "any" /\ left[m] < Arity(m)
            /\ joined[m] \intersect KidsOf(m) = P \intersect KidsOf(m)
            /\ left[m] = Cardinality(KidsOf(m) \ P)
        BY <2>1 DEF Storages
      <4>4. m \in D2 => m \in D
        BY <1>1, <3>2
      <4> QED
        BY <4>1, <4>2, <4>3, <4>4
    <3> QED
      BY <3>1, <3>2
  <2> QED
    BY <1>4, <2>1 DEF Storages, Shared, KidsOf, Arity
<1>11. ASSUME left[n] = 1 PROVE KidsOf(n) \subseteq joined[n] \union {k}
  <2>1. PICK x : KidsOf(n) \ P = {x}
    BY <1>5, <1>6, <1>11, FS_Singleton
  <2>2. x = k
    BY <1>2, <1>3, <2>1
  <2> QED
    BY <1>5, <2>1, <2>2
<1> QED
  BY <1>2, <1>3, <1>4, <1>10, <1>11 DEF StoragePassedOn

LEMMA PassingOnKeeps ==
    ASSUME NEW S, NEW D, NEW P, Account(S, D, P), TypeOK', NEW D2,
           NEW t \in Thread, NEW k \in Node, NEW n \in Node,
           PassesOn(D, D2, t, k, n)
    PROVE  Account(S, D2, P \union {k})'
<1> DEFINE P2 == P \union {k}
<1>0. StoragePassedOn(S, D2, P, t, k, n)
  BY PassedOnStorage
<1>2. /\ n \in S /\ engaged[n]
      /\ \A m \in Node : k \in KidsOf(m) <=> m = n
      /\ engaged' = engaged /\ joined'[n] = joined[n] \union seen[t]
      /\ \A m \in Node \ {n} : joined'[m] = joined[m]
      /\ Storages(S, D2, P2)'
      /\ left[n] = 1 => KidsOf(n) \subseteq joined[n] \union {k}
  BY <1>0 DEF StoragePassedOn
<1> USE DEF Account, Positions
<1> DEFINE known == seen[t] \union joined[n] \union (D2 \ D)
<1>1. /\ Leaving(t, k) /\ k \in Node \ Roots /\ n = Parent[k] /\ Shared(n)
      /\ \/ D2 = D /\ pc'[t] \in {"last", "wait", "idle"}
         \/ /\ D2 = D \union {n} /\ pc'[t] = "out" /\ cur'[t] = n
            /\ Kind[n] = "any" /\ left[n] = Arity(n)
      /\ \A u \in Thread \ {t} : /\ pc'[u] = pc[u] /\ cur'[u] = cur[u]
                                 /\ rest'[u] = rest[u] /\ seen'[u] = seen[u]
      /\ seen'[t] \in {known, {}} /\ (pc'[t] = "out" => seen'[t] = known)
      /\ pc[t] \in {"out", "join"} /\ cur[t] = k
  BY DEF PassesOn, Leaving
<1>3. /\ counted' = counted /\ ctr' = ctr
      /\ calls' = calls /\ root' = root /\ results' = results
  BY DEF PassesOn, FetchSub, latchVars, callVars
<1>4. /\ k \in S /\ k \in D /\ k \notin P /\ k \in seen[t] /\ k # root
      /\ D2 # D => pc'[t] = "out" /\ n \notin P /\ n # k
      /\ pc'[t] = "out" => D2 # D /\ n \notin D
  <2>1. k \in S /\ k \in D /\ k \notin P /\ k \in seen[t] /\ k # root
    BY <1>1, LeavingFacts
  <2>2. Arity(n) \in Nat /\ left[n] \in Int
    BY <1>2, ArityFacts DEF TypeOK, StorageType
  <2>3. pc'[t] = "out" => n \notin D
    <3>1. n \in D => left[n] < Arity(n)
      BY <1>2 DEF Storages
    <3> QED
      BY <1>1, <2>2, <3>1
  <2>4. n \notin D => n \notin P /\ n # k
    BY <2>1 DEF Stages
  <2> QED
    BY <1>1, <2>1, <2>3, <2>4
<1>5. calls' > 0
  BY <1>3
<1>6. Tidy'
  <2>1. \A u \in Thread : pc'[u] \in {"idle", "queued", "wait"} => rest'[u] = <<>>
    BY <1>1 DEF Tidy, PassesOn
  <2>2. \A u \in Task : pc'[u] = "idle" => seen'[u] = {}
    BY <1>1 DEF Tidy, PassesOn, Thread
  <2>3. \A m \in Node : ~engaged'[m] => joined'[m] = {}
    BY <1>2 DEF Tidy
  <2>4. pc'[Main] = "idle" => pc[Main] = "idle" /\ seen'[Main] = seen[Main]
    BY <1>1, ThreadFacts DEF PassesOn
  <2> QED
    BY <1>3, <2>1, <2>2, <2>3, <2>4 DEF Tidy
<1>7. Stages(S, D2, P2)'
  <2>1. S \in SUBSET Node
    BY TreeSelf DEF Stages, TypeOK, CallType, Roots
  <2> QED
    BY <1>1, <1>2, <1>3, <1>4, <2>1 DEF Stages, Waits, KidsOf, Shared
<1>8. /\ \A u \in Thread, m \in Node :
             /\ Entering(u, m)' => u # t /\ Entering(u, m)
             /\ Starting(u, m)' => u # t /\ Starting(u, m)
             /\ Leaving(u, m)' => \/ u # t /\ Leaving(u, m)
                                  \/ u = t /\ m = n /\ D2 # D
             /\ Ending(u, m)' => \/ Ending(u, m)
                                 \/ u = t /\ m = n /\ left[n] = 1
      /\ \A u \in Thread, m \in Node \union {Main} :
             Counting(u, m)' <=> u # t /\ Counting(u, m)
      /\ \A m \in Node \union {Main} : ~Counting(t, m)
  <2>1. \A u \in Thread \ {t}, m \in Node \union {Main} :
            /\ Entering(u, m)' <=> Entering(u, m)
            /\ Starting(u, m)' <=> Starting(u, m)
            /\ Leaving(u, m)' <=> Leaving(u, m)
            /\ Ending(u, m)' <=> Ending(u, m)
            /\ Counting(u, m)' <=> Counting(u, m)
    BY <1>1 DEF Entering, Starting, Leaving, Ending, Pending, Counting
  <2>2. \A m \in Node \union {Main} :
            /\ ~Entering(t, m)' /\ ~Starting(t, m)' /\ ~Counting(t, m)'
            /\ ~Counting(t, m)
            /\ Leaving(t, m)' => m = n /\ D2 # D
    BY <1>1, <1>4 DEF Entering, Starting, Leaving, Counting
  <2>3. \A m \in Node : Ending(t, m)' => Ending(t, m) \/ (m = n /\ left[n] = 1)
    BY DEF PassesOn, Ending
  <2> QED
    BY <2>1, <2>2, <2>3
<1>9. EnteringFresh(S, D2)'
  BY <1>1, <1>2, <1>8 DEF EnteringFresh, KidsOf
<1>10. StartingFresh(S)'
  BY <1>2, <1>8 DEF StartingFresh
<1>11. LeavingDone(D2, P2)'
  <2>1. ASSUME NEW u \in Thread \ {t}, NEW m \in Node, Leaving(u, m)
        PROVE  m # k
    BY <1>1, <2>1 DEF Alone
  <2>2. D2 # D => n \in D2 /\ n \in seen'[t]
    BY <1>1, <1>4
  <2> QED
    BY <1>1, <1>4, <1>8, <2>1, <2>2 DEF LeavingDone
<1>12. EndingOver(P2)'
  <2>1. ASSUME NEW m \in Node, Ending(t, m)'
        PROVE  /\ engaged[m] /\ KidsOf(m) \subseteq P2
               /\ KidsOf(m) \subseteq seen'[t]
    <3>1. seen'[t] = known
      BY <2>1 DEF PassesOn
    <3>2. CASE Ending(t, m)
      BY <3>1, <3>2 DEF EndingOver
    <3>3. CASE m = n /\ left[n] = 1
      <4>1. joined[n] \subseteq P
        BY <1>2 DEF Knowledge
      <4> QED
        BY <1>2, <1>4, <3>1, <3>3, <4>1
    <3> QED
      BY <1>8, <2>1, <3>2, <3>3
  <2>2. ASSUME NEW u \in Thread \ {t}, NEW m \in Node, Ending(u, m)'
        PROVE  /\ engaged[m] /\ KidsOf(m) \subseteq P2
               /\ KidsOf(m) \subseteq seen'[u]
    BY <1>1, <1>8, <2>2 DEF EndingOver
  <2> QED
    BY <1>2, <2>1, <2>2 DEF EndingOver, KidsOf
<1>13. CountingOver(S)'
  BY <1>1, <1>2, <1>8 DEF CountingOver, KidsOf
<1>14. CountingOutput(P2)'
  BY <1>1, <1>3, <1>8 DEF CountingOutput
<1>15. TasksStarted(S)'
  BY <1>1 DEF TasksStarted, Thread
<1>16. Alone'
  <2>1. \A u \in Thread : ~Ending(u, n)
    BY <1>2, <1>4 DEF EndingOver
  <2>2. D2 # D => \A u \in Thread : ~Leaving(u, n)
    BY <1>2, <1>4 DEF LeavingDone
  <2>3. \A u \in Thread :
            /\ \A i, j \in DOMAIN rest'[u] : rest'[u][i] = rest'[u][j] => i = j
            /\ pc'[u] = "last" => cur'[u] \notin Pending(u)'
    BY <1>1 DEF PassesOn, Alone, Pending
  <2> QED
    BY <1>8, <2>1, <2>2, <2>3 DEF Alone
<1>17. Knowledge(P2)'
  <2>1. seen[t] \subseteq P2 /\ joined[n] \subseteq P
    BY <1>1, <1>2 DEF Knowledge, Leaving
  <2>2. /\ Closed(seen[t]) /\ Closed(joined[n]) /\ (D2 # D => ~Waits(n))
    BY <1>1, <1>2 DEF Knowledge, Waits
  <2>3. Closed(known) /\ Closed(joined[n] \union seen[t]) /\ Closed({})
    BY <1>1, <2>2 DEF Closed
  <2>4. \A m \in known : m \in P2 \/ (m = n /\ D2 # D)
    BY <1>1, <2>1
  <2>5. D2 # D => Leaving(t, n)'
    BY <1>1, <1>4 DEF Leaving
  <2>6. \A m \in seen'[t] : m \in P2 \/ Leaving(t, m)'
    BY <1>1, <2>4, <2>5
  <2>7. ASSUME NEW u \in Thread \ {t}
        PROVE  (\A m \in seen'[u] : m \in P2 \/ Leaving(u, m)') /\ Closed(seen'[u])
    BY <1>1, <1>8 DEF Knowledge, Leaving
  <2>8. ASSUME NEW m \in Node
        PROVE  joined'[m] \subseteq P2 /\ Closed(joined'[m])
    BY <1>2, <2>1, <2>3 DEF Knowledge
  <2>9. counted' \subseteq P2 /\ Closed(counted')
    BY <1>3 DEF Knowledge
  <2>10. Closed(seen'[t])
    BY <1>1, <2>3
  <2> QED
    BY <2>6, <2>7, <2>8, <2>9, <2>10 DEF Knowledge, Closed, Waits, KidsOf
<1>18. Informed'
  <2>1. \A m \in Node : Kind[m] = "seq" /\ n \in Tree[Kids[m][2]]
                        => k \in Tree[Kids[m][2]]
    BY <1>1, SecondUp
  <2>2. \A m \in Node : Kind[m] = "seq" /\ k \in Tree[Kids[m][2]]
                        => Kids[m][1] \in seen[t]
    BY <1>1 DEF Informed
  <2>3. \A m \in Node : Leaving(t, m)' \/ Ending(t, m)' => seen[t] \subseteq seen'[t]
    BY <1>1, <1>8 DEF PassesOn
  <2>4. ASSUME NEW u \in Thread, NEW m \in Node,
               \/ Entering(u, m)' \/ Starting(u, m)' \/ Leaving(u, m)'
               \/ Kind[m] = "all" /\ Ending(u, m)'
        PROVE  \/ u = t /\ m = n /\ (Leaving(t, m)' \/ Ending(t, m)')
               \/ /\ seen[u] \subseteq seen'[u]
                  /\ \/ Entering(u, m) \/ Starting(u, m) \/ Leaving(u, m)
                     \/ Kind[m] = "all" /\ Ending(u, m)
    BY <1>1, <1>8, <2>3, <2>4
  <2> QED
    BY <2>1, <2>2, <2>3, <2>4 DEF Informed
<1>19. Cleanups(P2)'
  <2>1. ASSUME NEW m \in Node, Kind[m] = "any", KidsOf(m) \intersect P2 # {}
        PROVE  \/ engaged[m]
               \/ \E u \in Thread : Counting(u, m)'
               \/ KidsOf(m) \subseteq counted
    <3>1. CASE m = n
      BY <1>2, <3>1
    <3>2. CASE m # n
      <4>1. KidsOf(m) \intersect P # {}
        BY <1>2, <2>1, <3>2
      <4> QED
        BY <1>8, <2>1, <4>1 DEF Cleanups
    <3> QED
      BY <3>1, <3>2
  <2> QED
    BY <1>2, <1>3, <2>1 DEF Cleanups, KidsOf
<1>20. Delivery(P2)'
  <2>1. ASSUME root \notin counted
        PROVE  root \notin seen[t] /\ \A m \in Node : root \notin joined[m]
    BY <1>1, <1>4, <1>8, <2>1 DEF Delivery, Leaving
  <2>2. ASSUME root \notin counted, root \in seen'[t] PROVE Leaving(t, root)'
    <3>1. root \in D2 \ D
      BY <1>1, <1>2, <2>1, <2>2
    <3> QED
      BY <1>1, <1>3, <1>4, <3>1 DEF Leaving
  <2>3. ASSUME root \notin counted, NEW u \in Thread \ {t}, root \in seen'[u]
        PROVE  Leaving(u, root)' \/ Counting(u, Main)'
    BY <1>1, <1>3, <1>8, <2>3 DEF Delivery, Leaving
  <2>4. root \in P2 <=> root \in P
    BY <1>4
  <2> QED
    BY <1>1, <1>2, <1>3, <2>1, <2>2, <2>3, <2>4 DEF Delivery, Leaving
<1>21. LatchBalance'
  <2>1. root \in Node
    BY DEF TypeOK, CallType, Roots
  <2>2. \A m \in Node : (\E u \in Thread : Counting(u, m))
                        <=> (\E u \in Thread : Counting(u, m)')
    BY <1>8
  <2> QED
    BY <1>2, <1>3, <2>1, <2>2, LatchKept
<1> QED
  BY <1>2, <1>5, <1>6, <1>7, <1>9, <1>10, <1>11, <1>12, <1>13, <1>14, <1>15,
     <1>16, <1>17, <1>18, <1>19, <1>20, <1>21

\* A thread on its way out of a child of n, and the storage of n.
LEMMA AtParent ==
    ASSUME NEW S, NEW D, NEW P, Account(S, D, P),
           NEW t \in Thread, NEW k \in Node, NEW n,
           pc[t] = "join" \/ (pc[t] = "out" /\ ChildOf(k, "any")),
           k = cur[t], n = Parent[k]
    PROVE  /\ Leaving(t, k) /\ k \in Node \ Roots /\ n \in Node
           /\ pc[t] = "join" => Kind[n] = "all"
           /\ pc[t] = "out" => Kind[n] = "any"
           /\ Shared(n) /\ engaged[n] /\ n \notin Pending(t)
           /\ left[n] \in Int /\ Arity(n) \in Nat
           /\ n \in D => left[n] # Arity(n)
<1> USE DEF Account, Positions
<1>1. /\ Leaving(t, k) /\ k \in Node \ Roots
      /\ pc[t] = "join" => Kind[n] = "all"
      /\ pc[t] = "out" => Kind[n] = "any"
  BY DEF Leaving, TypeOK, ThreadType, Place, ChildOf
<1>2. n \in Node /\ Shared(n)
  BY <1>1, ParentFacts DEF Shared, Leaving
<1>3. engaged[n] /\ k \notin P /\ k \in KidsOf(n)
  BY <1>1, <1>2, LeavingFacts
<1>4. n \notin Pending(t)
  BY <1>2, <1>3 DEF EndingOver, Ending
<1>5. /\ left[n] \in Int /\ Arity(n) \in Nat
      /\ n \in D => left[n] < Arity(n)
  BY <1>2, <1>3, ArityFacts DEF Storages, TypeOK, StorageType
<1>6. n \in D => left[n] # Arity(n)
  BY <1>5
<1> QED
  BY <1>1, <1>2, <1>3, <1>4, <1>5, <1>6

LEMMA AllJoinKeeps ==
    ASSUME NEW S, NEW D, NEW P, Account(S, D, P), TypeOK',
           NEW t \in Thread, AllJoin(t), NEW k, k = cur[t]
    PROVE  Account(S, D, P \union {k})'
<1> DEFINE n == Parent[k]
<1>1. k \in Node /\ pc[t] = "join"
  BY AtNode DEF AllJoin, Account, TypeOK
<1>2. Leaving(t, k) /\ k \in Node \ Roots /\ n \in Node /\ Shared(n)
  BY <1>1, AtParent
<1>3. FetchSub(t, n) /\ Unwind(t, seen[t] \union joined[n])
  BY DEF AllJoin, Acquire
<1>4. Unwound(t, seen[t] \union joined[n])
  BY <1>3, UnwindFacts DEF Account
<1>5. PassesOn(D, D, t, k, n)
  BY <1>2, <1>3, <1>4 DEF PassesOn, Unwound
<1> QED
  BY <1>1, <1>2, <1>5, PassingOnKeeps

LEMMA AnyLoseKeeps ==
    ASSUME NEW S, NEW D, NEW P, Account(S, D, P), TypeOK',
           NEW t \in Thread, AnyLose(t), NEW k, k = cur[t]
    PROVE  Account(S, D, P \union {k})'
<1> DEFINE n == Parent[k]
<1>1. k \in Node /\ pc[t] = "out" /\ ChildOf(k, "any")
  BY AtNode DEF AnyLose, Account, TypeOK
<1>2. Leaving(t, k) /\ k \in Node \ Roots /\ n \in Node /\ Shared(n)
  BY <1>1, AtParent
<1>3. FetchSub(t, n) /\ Unwind(t, seen[t] \union joined[n])
  BY DEF AnyLose, Acquire
<1>4. Unwound(t, seen[t] \union joined[n])
  BY <1>3, UnwindFacts DEF Account
<1>5. PassesOn(D, D, t, k, n)
  BY <1>2, <1>3, <1>4 DEF PassesOn, Unwound
<1> QED
  BY <1>1, <1>2, <1>5, PassingOnKeeps

\* A thread t that is the last to be through with a child k of n goes on to
\* destroy the storage of n.
LEMMA LastPassesOn ==
    ASSUME NEW S, NEW D, NEW P, Account(S, D, P), TypeOK',
           NEW t \in Thread, NEW k \in Node, NEW n \in Node,
           Leaving(t, k), k \notin Roots, n = Parent[k], Shared(n),
           n \notin Pending(t), FetchSub(t, n), left[n] = 1,
           Goto(t, "last", n), rest' = rest,
           seen' = [seen EXCEPT ![t] = Acquire(t, n)]
    PROVE  Account(S, D, P \union {k})'
<1>1. /\ pc'[t] = "last" /\ cur'[t] = n /\ rest'[t] = rest[t]
      /\ seen'[t] = seen[t] \union joined[n]
      /\ \A u \in Thread \ {t} : /\ pc'[u] = pc[u] /\ cur'[u] = cur[u]
                                 /\ rest'[u] = rest[u] /\ seen'[u] = seen[u]
  BY DEF Goto, Acquire, Account, TypeOK, ThreadType
<1>2. \A i, j \in DOMAIN rest'[t] : rest'[t][i] = rest'[t][j] => i = j
  BY <1>1 DEF Account, Alone
<1>3. Pending(t)' = Pending(t)
  BY <1>1 DEF Pending
<1>4. PassesOn(D, D, t, k, n)
  BY <1>1, <1>2, <1>3 DEF PassesOn, Ending
<1> QED
  BY <1>4, PassingOnKeeps

LEMMA AllLastKeeps ==
    ASSUME NEW S, NEW D, NEW P, Account(S, D, P), TypeOK',
           NEW t \in Thread, AllLast(t), NEW k, k = cur[t]
    PROVE  Account(S, D, P \union {k})'
<1> DEFINE n == Parent[k]
<1>1. k \in Node /\ pc[t] = "join"
  BY AtNode DEF AllLast, Account, TypeOK
<1>2. /\ Leaving(t, k) /\ k \in Node \ Roots /\ n \in Node /\ Shared(n)
      /\ n \notin Pending(t)
  BY <1>1, AtParent
<1>3. /\ FetchSub(t, n) /\ left[n] = 1 /\ Goto(t, "last", n) /\ rest' = rest
      /\ seen' = [seen EXCEPT ![t] = Acquire(t, n)]
  BY DEF AllLast
<1> QED
  BY <1>1, <1>2, <1>3, LastPassesOn

LEMMA AnyLastKeeps ==
    ASSUME NEW S, NEW D, NEW P, Account(S, D, P), TypeOK',
           NEW t \in Thread, AnyLast(t), NEW k, k = cur[t]
    PROVE  Account(S, D, P \union {k})'
<1> DEFINE n == Parent[k]
<1>1. k \in Node /\ pc[t] = "out" /\ ChildOf(k, "any")
  BY AtNode DEF AnyLast, Account, TypeOK
<1>2. /\ Leaving(t, k) /\ k \in Node \ Roots /\ n \in Node /\ Shared(n)
      /\ n \notin Pending(t)
  BY <1>1, AtParent
<1>3. /\ FetchSub(t, n) /\ left[n] = 1 /\ Goto(t, "last", n) /\ rest' = rest
      /\ seen' = [seen EXCEPT ![t] = Acquire(t, n)]
  BY DEF AnyLast
<1> QED
  BY <1>1, <1>2, <1>3, LastPassesOn

\* A node put before a sequence it is not in.
Distinct(s) == \A i, j \in DOMAIN s : s[i] = s[j] => i = j

Elements(s) == {s[i] : i \in DOMAIN s}

LEMMA Pushed ==
    ASSUME NEW X, NEW s \in Seq(X), NEW n \in X, Distinct(s), n \notin Elements(s)
    PROVE  /\ Elements(<<n>> \o s) = Elements(s) \union {n}
           /\ Distinct(<<n>> \o s)
<1> DEFINE r == <<n>> \o s
<1> USE DEF Distinct, Elements
<1>1. /\ Len(s) \in Nat /\ DOMAIN s = 1 .. Len(s)
      /\ DOMAIN r = 1 .. (Len(s) + 1) /\ r[1] = n
      /\ \A i \in DOMAIN r : i # 1 => i - 1 \in DOMAIN s /\ r[i] = s[i - 1]
  OBVIOUS
<1> HIDE DEF r
<1>2. \A i \in DOMAIN s : i + 1 \in DOMAIN r /\ r[i + 1] = s[i]
  BY <1>1
<1>3. \A i \in DOMAIN r : i # 1 => r[i] # n
  BY <1>1
<1>4. ASSUME NEW i \in DOMAIN r, NEW j \in DOMAIN r, r[i] = r[j] PROVE i = j
  <2>1. CASE i = 1 \/ j = 1
    BY <1>1, <1>3, <1>4, <2>1
  <2>2. CASE i # 1 /\ j # 1
    <3>1. i - 1 = j - 1
      BY <1>1, <1>4, <2>2
    <3> QED
      BY <1>1, <3>1
  <2> QED
    BY <2>1, <2>2
<1>5. 1 \in DOMAIN r
  BY <1>1
<1>6. ASSUME NEW x PROVE x \in Elements(r) <=> x \in Elements(s) \union {n}
  <2>1. ASSUME x \in Elements(r) PROVE x \in Elements(s) \union {n}
    BY <1>1, <2>1
  <2>2. ASSUME x \in Elements(s) PROVE x \in Elements(r)
    BY <1>2, <2>2
  <2> QED
    BY <1>1, <1>5, <2>1, <2>2
<1>7. Elements(r) = Elements(s) \union {n} /\ Distinct(r)
  <2>1. Elements(r) = Elements(s) \union {n}
    <3> HIDE DEF Elements
    <3> QED
      BY <1>6
  <2> QED
    BY <1>4, <2>1
<1> QED
  BY <1>7 DEF r

LEMMA AnyFirstKeeps ==
    ASSUME NEW S, NEW D, NEW P, Account(S, D, P), TypeOK',
           NEW t \in Thread, AnyFirst(t),
           NEW k, k = cur[t], NEW n, n = Parent[k]
    PROVE  Account(S, D \union {n}, P \union {k})'
<1> DEFINE D2 == D \union {n}
<1>1. k \in Node /\ pc[t] = "out" /\ ChildOf(k, "any")
  BY AtNode DEF AnyFirst, Account, TypeOK
<1>2. /\ Leaving(t, k) /\ k \in Node \ Roots /\ n \in Node /\ Shared(n)
      /\ Kind[n] = "any" /\ n \notin Pending(t)
      /\ left[n] \in Int /\ Arity(n) \in Nat
      /\ n \in D => left[n] # Arity(n)
  BY <1>1, AtParent
<1>3. FetchSub(t, n) /\ left[n] = Arity(n) /\ D2 \ D = {n}
  BY <1>2 DEF AnyFirst
<1>4. /\ pc'[t] = "out" /\ cur'[t] = n
      /\ rest'[t] = IF left[n] = 1 THEN <<n>> \o rest[t] ELSE rest[t]
      /\ seen'[t] = seen[t] \union joined[n] \union {n}
      /\ \A u \in Thread \ {t} : /\ pc'[u] = pc[u] /\ cur'[u] = cur[u]
                                 /\ rest'[u] = rest[u] /\ seen'[u] = seen[u]
  BY DEF AnyFirst, Goto, Acquire, Account, TypeOK, ThreadType
<1>5. /\ \A i, j \in DOMAIN rest'[t] : rest'[t][i] = rest'[t][j] => i = j
      /\ \A m \in Node : m \in Pending(t)' =>
             m \in Pending(t) \/ (m = n /\ left[n] = 1)
  <2>1. /\ \A i, j \in DOMAIN rest[t] : rest[t][i] = rest[t][j] => i = j
        /\ rest[t] \in Seq(Only)
    BY DEF Account, Alone, TypeOK, ThreadType
  <2>2. CASE left[n] # 1
    BY <1>4, <2>1, <2>2 DEF Pending
  <2>3. CASE left[n] = 1
    <3>1. n \in Only /\ n \notin Elements(rest[t]) /\ Distinct(rest[t])
      BY <1>2, <1>3, <2>1, <2>3 DEF Only, Pending, Elements, Distinct
    <3>2. rest'[t] = <<n>> \o rest[t]
      BY <1>4, <2>3
    <3>3. /\ Elements(rest'[t]) = Elements(rest[t]) \union {n}
          /\ Distinct(rest'[t])
      BY <2>1, <3>1, <3>2, Pushed
    <3> QED
      BY <2>3, <3>3 DEF Pending, Elements, Distinct
  <2> QED
    BY <2>2, <2>3
<1>6. PassesOn(D, D2, t, k, n)
  BY <1>2, <1>3, <1>4, <1>5 DEF PassesOn, Ending
<1> QED
  BY <1>1, <1>2, <1>6, PassingOnKeeps

-----------------------------------------------------------------------------
\* The end of an all or an any.

\* Thread t destroys the storage of n, and goes on to pass on the output of an
\* all, or to count the latch down for an any.
Destroys(D, D2, t, n) ==
    /\ pc[t] = "last" /\ cur[t] = n /\ Destroy(n)
    /\ \/ /\ Kind[n] = "all" /\ D2 = D \union {n} /\ pc'[t] = "out"
          /\ seen'[t] = seen[t] \union {n}
       \/ /\ Kind[n] = "any" /\ D2 = D /\ pc'[t] = "count"
          /\ seen'[t] = seen[t]
    /\ cur'[t] = n /\ rest'[t] = rest[t]
    /\ \A u \in Thread \ {t} : /\ pc'[u] = pc[u] /\ cur'[u] = cur[u]
                               /\ rest'[u] = rest[u] /\ seen'[u] = seen[u]
    /\ counted' = counted /\ ctr' = ctr
    /\ calls' = calls /\ root' = root /\ results' = results

LEMMA DestroyKeeps ==
    ASSUME NEW S, NEW D, NEW P, Account(S, D, P), TypeOK', NEW D2,
           NEW t \in Thread, NEW n \in Node, Destroys(D, D2, t, n)
    PROVE  Account(S, D2, P)'
<1> USE DEF Account, Positions
<1>1. /\ pc[t] = "last" /\ cur[t] = n
      /\ \/ /\ Kind[n] = "all" /\ D2 = D \union {n} /\ pc'[t] = "out"
            /\ seen'[t] = seen[t] \union {n}
         \/ /\ Kind[n] = "any" /\ D2 = D /\ pc'[t] = "count"
            /\ seen'[t] = seen[t]
      /\ cur'[t] = n /\ rest'[t] = rest[t]
      /\ \A u \in Thread \ {t} : /\ pc'[u] = pc[u] /\ cur'[u] = cur[u]
                                 /\ rest'[u] = rest[u] /\ seen'[u] = seen[u]
  BY DEF Destroys
<1>2. /\ counted' = counted /\ ctr' = ctr
      /\ calls' = calls /\ root' = root /\ results' = results
  BY DEF Destroys
<1>3. /\ ~engaged'[n] /\ joined'[n] = {} /\ left' = left
      /\ \A m \in Node \ {n} : engaged'[m] = engaged[m] /\ joined'[m] = joined[m]
  BY DEF Destroys, Destroy, TypeOK, StorageType
<1>4. /\ Ending(t, n) /\ n \notin Pending(t) /\ engaged[n]
      /\ KidsOf(n) \subseteq P /\ KidsOf(n) \subseteq seen[t]
      /\ n \in S /\ Shared(n)
  <2>1. Ending(t, n) /\ n \notin Pending(t)
    BY <1>1 DEF Ending, Alone
  <2>2. engaged[n] /\ KidsOf(n) \subseteq P /\ KidsOf(n) \subseteq seen[t]
    BY <2>1 DEF EndingOver
  <2> QED
    BY <2>1, <2>2 DEF Storages
<1>5. Kind[n] = "all" => n \notin D /\ n \notin P
  BY <1>4 DEF Storages, Stages
<1>6. calls' > 0
  BY <1>2
<1>7. Tidy'
  <2>1. pc'[Main] = "idle" => pc[Main] = "idle" /\ seen'[Main] = seen[Main]
    BY <1>1, ThreadFacts
  <2> QED
    BY <1>1, <1>2, <1>3, <2>1 DEF Tidy, Thread
<1>8. Stages(S, D2, P)'
  <2>1. \A k \in S \ P : k \notin Roots /\ Shared(Parent[k]) => engaged'[Parent[k]]
    <3>1. S \subseteq Node
      BY TreeSelf DEF Stages, TypeOK, CallType, Roots
    <3> QED
      BY <1>3, <1>4, <3>1, ParentFacts DEF Stages
  <2> QED
    BY <1>1, <1>2, <1>4, <2>1 DEF Stages, Waits, KidsOf, Shared
<1>9. Storages(S, D2, P)'
  <2>1. ASSUME NEW m \in Node, engaged'[m]
        PROVE  /\ Shared(m) /\ m \in S
               /\ m \in D2 => Kind[m] = "any" /\ left'[m] < Arity(m)
               /\ joined'[m] \intersect KidsOf(m) = P \intersect KidsOf(m)
               /\ left'[m] = Cardinality(KidsOf(m) \ P)
    <3>1. /\ m # n /\ engaged[m] /\ joined'[m] = joined[m] /\ left'[m] = left[m]
          /\ m \in D2 => m \in D
      BY <1>1, <1>3, <2>1
    <3> QED
      BY <3>1 DEF Storages
  <2> QED
    BY <2>1 DEF Storages, Shared, KidsOf, Arity
<1>10. \A m \in Node : engaged'[m] <=> engaged[m] /\ m # n
  BY <1>3
<1>11. /\ \A u \in Thread, m \in Node :
             /\ Entering(u, m)' <=> Entering(u, m)
             /\ Starting(u, m)' <=> Starting(u, m)
             /\ Leaving(u, m)' <=> \/ Leaving(u, m)
                                   \/ u = t /\ m = n /\ Kind[n] = "all"
             /\ Ending(u, m)' => Ending(u, m) /\ ~(u = t /\ m = n)
       /\ \A u \in Thread, m \in Node \union {Main} :
             Counting(u, m)' <=> \/ Counting(u, m)
                                 \/ u = t /\ m = n /\ Kind[n] = "any"
       /\ \A m \in Node \union {Main} :
              /\ ~Entering(t, m) /\ ~Starting(t, m) /\ ~Leaving(t, m)
              /\ ~Counting(t, m)
  <2>1. \A u \in Thread \ {t}, m \in Node \union {Main} :
            /\ Entering(u, m)' <=> Entering(u, m)
            /\ Starting(u, m)' <=> Starting(u, m)
            /\ Leaving(u, m)' <=> Leaving(u, m)
            /\ Ending(u, m)' <=> Ending(u, m)
            /\ Counting(u, m)' <=> Counting(u, m)
    BY <1>1 DEF Entering, Starting, Leaving, Ending, Pending, Counting
  <2>2. \A m \in Node \union {Main} :
            /\ ~Entering(t, m)' /\ ~Starting(t, m)'
            /\ Leaving(t, m)' <=> m = n /\ Kind[n] = "all"
            /\ Counting(t, m)' <=> m = n /\ Kind[n] = "any"
            /\ ~Entering(t, m) /\ ~Starting(t, m) /\ ~Leaving(t, m)
            /\ ~Counting(t, m)
            /\ Ending(t, m)' => Ending(t, m) /\ m # n
    BY <1>1, <1>4 DEF Entering, Starting, Leaving, Ending, Pending, Counting
  <2> QED
    BY <2>1, <2>2
<1>12. EnteringFresh(S, D2)'
  BY <1>1, <1>4, <1>10, <1>11 DEF EnteringFresh, KidsOf
<1>13. StartingFresh(S)'
  <2>1. ASSUME NEW u \in Thread, NEW k \in Node, Starting(u, k)
        PROVE  Parent[k] # n /\ Parent[k] \in Node
    <3>1. k \in Node \ Roots
      BY <2>1 DEF TypeOK, ThreadType, Place, Starting
    <3>2. /\ Position[k] \in DOMAIN Kids[Parent[k]] /\ Position[k] <= Position[k]
          /\ Kids[Parent[k]][Position[k]] = k
          /\ k \in KidsOf(Parent[k]) /\ Parent[k] \in Node
      BY <3>1, ParentFacts, ArityFacts
    <3>3. k \notin S
      BY <2>1, <3>2 DEF StartingFresh
    <3> QED
      BY <1>4, <3>2, <3>3 DEF Stages
  <2> QED
    BY <1>10, <1>11, <2>1 DEF StartingFresh
<1>14. LeavingDone(D2, P)'
  BY <1>1, <1>5, <1>11 DEF LeavingDone
<1>15. EndingOver(P)'
  <2>1. ASSUME NEW u \in Thread, NEW m \in Node, Ending(u, m)'
        PROVE  Ending(u, m) /\ m # n /\ seen[u] \subseteq seen'[u]
    BY <1>1, <1>4, <1>11, <2>1 DEF Alone
  <2> QED
    BY <1>10, <2>1 DEF EndingOver, KidsOf
<1>16. CountingOver(S)'
  BY <1>1, <1>3, <1>4, <1>10, <1>11 DEF CountingOver, KidsOf
<1>17. CountingOutput(P)'
  BY <1>1, <1>2, <1>11, ThreadFacts DEF CountingOutput
<1>18. TasksStarted(S)'
  BY <1>1 DEF TasksStarted, Thread
<1>19. Alone'
  <2>1. Kind[n] = "all" => \A u \in Thread : ~Leaving(u, n)
    BY <1>5 DEF LeavingDone
  <2>2. Kind[n] = "any" => \A u \in Thread : ~Counting(u, n)
    BY <1>4 DEF CountingOver
  <2>3. \A u \in Thread :
            /\ \A i, j \in DOMAIN rest'[u] : rest'[u][i] = rest'[u][j] => i = j
            /\ pc'[u] = "last" => cur'[u] \notin Pending(u)'
    BY <1>1 DEF Alone, Pending
  <2> QED
    BY <1>11, <2>1, <2>2, <2>3 DEF Alone
<1>20. Knowledge(P)'
  <2>1. Closed(seen'[t])
    BY <1>1, <1>4 DEF Knowledge, Closed
  <2>2. \A m \in seen'[t] : m \in P \/ Leaving(t, m)'
    <3>1. seen[t] \subseteq P
      <4>1. seen[t] \subseteq Node
        BY DEF TypeOK, ThreadType
      <4> QED
        BY <1>11, <4>1 DEF Knowledge
    <3>2. Kind[n] = "all" => Leaving(t, n)'
      BY <1>11
    <3> QED
      BY <1>1, <3>1, <3>2
  <2>3. ASSUME NEW u \in Thread \ {t}
        PROVE  (\A m \in seen'[u] : m \in P \/ Leaving(u, m)') /\ Closed(seen'[u])
    BY <1>1, <1>11, <2>3 DEF Knowledge, Leaving
  <2>4. ASSUME NEW m \in Node
        PROVE  joined'[m] \subseteq P /\ Closed(joined'[m])
    <3>1. Closed({})
      BY DEF Closed
    <3> QED
      BY <1>3, <3>1 DEF Knowledge
  <2>5. counted' \subseteq P /\ Closed(counted')
    BY <1>2 DEF Knowledge
  <2> QED
    BY <2>1, <2>2, <2>3, <2>4, <2>5 DEF Knowledge, Closed, Waits, KidsOf
<1>21. Informed'
  <2>1. ASSUME NEW u \in Thread, NEW m \in Node,
               \/ Entering(u, m)' \/ Starting(u, m)' \/ Leaving(u, m)'
               \/ Kind[m] = "all" /\ Ending(u, m)'
        PROVE  /\ seen[u] \subseteq seen'[u]
               /\ \/ Entering(u, m) \/ Starting(u, m) \/ Leaving(u, m)
                  \/ Kind[m] = "all" /\ Ending(u, m)
    BY <1>1, <1>4, <1>11, <2>1
  <2> QED
    BY <2>1 DEF Informed
<1>22. Cleanups(P)'
  <2>1. ASSUME NEW m \in Node, Kind[m] = "any", KidsOf(m) \intersect P # {}
        PROVE  \/ engaged'[m]
               \/ \E u \in Thread : Counting(u, m)'
               \/ KidsOf(m) \subseteq counted
    BY <1>10, <1>11, <2>1 DEF Cleanups
  <2> QED
    BY <1>2, <2>1 DEF Cleanups, KidsOf
<1>23. Delivery(P)'
  <2>1. root \in Node
    BY DEF TypeOK, CallType, Roots
  <2>2. ASSUME root \notin counted, NEW u \in Thread, root \in seen'[u]
        PROVE  Leaving(u, root)' \/ Counting(u, Main)'
    <3>1. root \in seen[u] => Leaving(u, root) \/ Counting(u, Main)
      BY <2>2 DEF Delivery
    <3>2. Leaving(u, root) => Leaving(u, root)'
      BY <1>2, <1>11, <2>1 DEF Leaving
    <3>3. Counting(u, Main) => Counting(u, Main)'
      BY <1>11
    <3>4. CASE root \in seen[u]
      BY <3>1, <3>2, <3>3, <3>4
    <3>5. CASE root \notin seen[u]
      <4>1. u = t /\ root = n /\ Kind[n] = "all"
        BY <1>1, <2>2, <3>5
      <4> QED
        BY <1>1, <1>2, <4>1 DEF Leaving
    <3> QED
      BY <3>4, <3>5
  <2>3. ASSUME root \notin counted, NEW m \in Node PROVE root \notin joined'[m]
    BY <1>3, <2>3 DEF Delivery
  <2> QED
    BY <1>2, <2>2, <2>3 DEF Delivery, Leaving, Counting
<1>24. LatchBalance'
  <2>1. root \in Node
    BY DEF TypeOK, CallType, Roots
  <2>2. ASSUME NEW m \in Node, Kind[m] = "any"
        PROVE  (engaged[m] \/ \E u \in Thread : Counting(u, m))
               <=> (engaged'[m] \/ \E u \in Thread : Counting(u, m)')
    BY <1>4, <1>10, <1>11, <2>2
  <2> QED
    BY <1>2, <2>1, <2>2, LatchKept
<1> QED
  BY <1>6, <1>7, <1>8, <1>9, <1>12, <1>13, <1>14, <1>15, <1>16, <1>17, <1>18,
     <1>19, <1>20, <1>21, <1>22, <1>23, <1>24

LEMMA AllFinishKeeps ==
    ASSUME NEW S, NEW D, NEW P, Account(S, D, P), TypeOK',
           NEW t \in Thread, AllFinish(t), NEW n, n = cur[t]
    PROVE  Account(S, D \union {n}, P)'
<1>1. n \in Node
  BY AtNode DEF AllFinish, Account, TypeOK
<1>2. Destroys(D, D \union {n}, t, n)
  BY DEF Destroys, AllFinish, Goto, Account, TypeOK, ThreadType, latchVars,
         callVars
<1> QED
  BY <1>1, <1>2, DestroyKeeps

LEMMA AnyFinishKeeps ==
    ASSUME NEW S, NEW D, NEW P, Account(S, D, P), TypeOK',
           NEW t \in Thread, AnyFinish(t)
    PROVE  Account(S, D, P)'
<1> DEFINE n == cur[t]
<1>1. n \in Node
  BY AtNode DEF AnyFinish, Account, TypeOK
<1>2. Destroys(D, D, t, n)
  BY DEF Destroys, AnyFinish, Goto, Account, TypeOK, ThreadType, latchVars,
         callVars
<1> QED
  BY <1>1, <1>2, DestroyKeeps

-----------------------------------------------------------------------------
\* The latch.

\* The graph's output is passed to the caller's `then`.
LEMMA DeliverKeeps ==
    ASSUME NEW S, NEW D, NEW P, Account(S, D, P), TypeOK',
           NEW t \in Thread, Deliver(t), NEW k, k = cur[t]
    PROVE  Account(S, D, P \union {k})'
<1> USE DEF Account, Positions
<1> DEFINE P2 == P \union {k}
<1>1. /\ k \in Node /\ k \in Roots /\ pc[t] = "out" /\ Leaving(t, k)
  BY AtNode DEF Deliver, Leaving, TypeOK
<1>2. /\ k = root /\ root \in D /\ root \notin P /\ root \in seen[t]
      /\ root \notin counted
  <2>1. k = root /\ root \in D /\ root \notin P /\ root \in seen[t]
    BY <1>1, LeavingFacts
  <2> QED
    BY <2>1 DEF Knowledge
<1>3. /\ pc'[t] = "count" /\ cur'[t] = Main /\ rest'[t] = rest[t]
      /\ seen'[t] = seen[t]
      /\ \A u \in Thread \ {t} : /\ pc'[u] = pc[u] /\ cur'[u] = cur[u]
                                 /\ rest'[u] = rest[u] /\ seen'[u] = seen[u]
  BY DEF Deliver, Goto, TypeOK, ThreadType
<1>4. /\ engaged' = engaged /\ left' = left /\ joined' = joined
      /\ counted' = counted /\ ctr' = ctr /\ calls' = calls /\ root' = root
  BY DEF Deliver, storageVars, latchVars
<1>5. Len(results') = 1
  BY <1>2 DEF Deliver, Delivery
<1>6. \A m \in Node : k \notin KidsOf(m)
  BY <1>1 DEF Roots
<1>7. /\ \A u \in Thread, m \in Node :
             /\ Entering(u, m)' <=> Entering(u, m)
             /\ Starting(u, m)' <=> Starting(u, m)
             /\ Leaving(u, m)' <=> u # t /\ Leaving(u, m)
             /\ Ending(u, m)' <=> Ending(u, m)
             /\ Counting(u, m)' <=> Counting(u, m)
      /\ \A u \in Thread : Counting(u, Main)' <=> u = t \/ Counting(u, Main)
      /\ \A m \in Node : Leaving(t, m) <=> m = root
  <2>1. \A u \in Thread \ {t}, m \in Node \union {Main} :
            /\ Entering(u, m)' <=> Entering(u, m)
            /\ Starting(u, m)' <=> Starting(u, m)
            /\ Leaving(u, m)' <=> Leaving(u, m)
            /\ Ending(u, m)' <=> Ending(u, m)
            /\ Counting(u, m)' <=> Counting(u, m)
    BY <1>3 DEF Entering, Starting, Leaving, Ending, Pending, Counting
  <2>2. \A m \in Node :
            /\ ~Entering(t, m)' /\ ~Entering(t, m)
            /\ ~Starting(t, m)' /\ ~Starting(t, m)
            /\ ~Leaving(t, m)' /\ (Leaving(t, m) <=> m = root)
            /\ ~Counting(t, m)' /\ ~Counting(t, m)
            /\ Ending(t, m)' <=> Ending(t, m)
    BY <1>1, <1>2, <1>3, ThreadFacts
       DEF Entering, Starting, Leaving, Ending, Pending, Counting
  <2>3. Counting(t, Main)'
    BY <1>3 DEF Counting
  <2> QED
    BY <2>1, <2>2, <2>3
<1>8. calls' > 0
  BY <1>4
<1>9. Tidy'
  <2>1. pc'[Main] = "idle" => pc[Main] = "idle" /\ seen'[Main] = seen[Main]
    BY <1>3, ThreadFacts
  <2> QED
    BY <1>3, <1>4, <2>1 DEF Tidy, Thread
<1>10. Stages(S, D, P2)'
  BY <1>2, <1>4, <1>6 DEF Stages, Waits, KidsOf, Shared
<1>11. Storages(S, D, P2)'
  <2>1. ASSUME NEW m \in Node
        PROVE  /\ KidsOf(m) \ P2 = KidsOf(m) \ P
               /\ P2 \intersect KidsOf(m) = P \intersect KidsOf(m)
    BY <1>6
  <2> QED
    BY <1>4, <2>1 DEF Storages, Shared, KidsOf, Arity
<1>12. EnteringFresh(S, D)'
  BY <1>4, <1>7 DEF EnteringFresh, KidsOf
<1>13. StartingFresh(S)'
  BY <1>4, <1>7 DEF StartingFresh
<1>14. LeavingDone(D, P2)'
  <2>1. ASSUME NEW u \in Thread, NEW m \in Node, u # t, Leaving(u, m)
        PROVE  m # k
    BY <1>1, <2>1 DEF Alone
  <2> QED
    BY <1>3, <1>7, <2>1 DEF LeavingDone
<1>15. EndingOver(P2)'
  <2>1. \A u \in Thread : seen'[u] = seen[u]
    BY <1>3
  <2> QED
    BY <1>4, <1>7, <2>1 DEF EndingOver, KidsOf
<1>16. CountingOver(S)'
  <2>1. \A u \in Thread : seen'[u] = seen[u]
    BY <1>3
  <2> QED
    BY <1>4, <1>7, <2>1 DEF CountingOver, KidsOf
<1>17. CountingOutput(P2)'
  BY <1>2, <1>3, <1>4, <1>7 DEF CountingOutput
<1>18. TasksStarted(S)'
  BY <1>1, <1>3 DEF TasksStarted, Thread
<1>19. Alone'
  <2>1. \A u \in Thread : ~Counting(u, Main)
    BY <1>2 DEF CountingOutput
  <2>2. \A u \in Thread :
            /\ \A i, j \in DOMAIN rest'[u] : rest'[u][i] = rest'[u][j] => i = j
            /\ pc'[u] = "last" => cur'[u] \notin Pending(u)'
    BY <1>3 DEF Alone, Pending
  <2> QED
    BY <1>7, <2>1, <2>2 DEF Alone
<1>20. Knowledge(P2)'
  <2>1. ASSUME NEW u \in Thread
        PROVE  (\A m \in seen'[u] : m \in P2 \/ Leaving(u, m)') /\ Closed(seen'[u])
    <3>1. seen[u] \subseteq Node /\ seen'[u] = seen[u]
      BY <1>3 DEF TypeOK, ThreadType
    <3> QED
      BY <1>2, <1>7, <3>1 DEF Knowledge
  <2> QED
    BY <1>4, <2>1 DEF Knowledge, Closed, Waits, KidsOf
<1>21. Informed'
  <2>1. \A u \in Thread : seen'[u] = seen[u]
    BY <1>3
  <2> QED
    BY <1>7, <2>1 DEF Informed
<1>22. Cleanups(P2)'
  BY <1>4, <1>6, <1>7 DEF Cleanups, KidsOf
<1>23. Delivery(P2)'
  <2>1. ASSUME NEW u \in Thread, root \in seen'[u]
        PROVE  Leaving(u, root)' \/ Counting(u, Main)'
    <3>1. Leaving(u, root) \/ Counting(u, Main)
      BY <1>2, <1>3, <2>1 DEF Delivery
    <3> QED
      BY <1>1, <1>2, <1>3, <1>4, <3>1 DEF Leaving, Counting
  <2> QED
    BY <1>2, <1>4, <1>5, <2>1 DEF Delivery, Leaving, Counting
<1>24. LatchBalance'
  <2>1. \A m \in Node : (\E u \in Thread : Counting(u, m))
                        <=> (\E u \in Thread : Counting(u, m)')
    BY <1>7
  <2> QED
    BY <1>1, <1>2, <1>4, <2>1, LatchKept
<1> QED
  BY <1>8, <1>9, <1>10, <1>11, <1>12, <1>13, <1>14, <1>15, <1>16, <1>17,
     <1>18, <1>19, <1>20, <1>21, <1>22, <1>23, <1>24

\* The any nodes that owe the latch a count_down() are finitely many.
LEMMA OwingCount ==
    ASSUME NEW S, NEW D, NEW P, Account(S, D, P)
    PROVE  /\ Owing \subseteq Tree[root] /\ Tree[root] \subseteq Node
           /\ IsFiniteSet(Owing) /\ Cardinality(Owing) \in Nat
           /\ ctr = Cardinality(Owing) + IF root \in counted THEN 0 ELSE 1
<1>1. root \in Node
  BY DEF Account, TypeOK, CallType, Roots
<1>2. Owing \subseteq Tree[root] /\ Tree[root] \subseteq Node
  BY <1>1, TreeSelf DEF Owing
<1>3. IsFiniteSet(Owing) /\ Cardinality(Owing) \in Nat
  BY <1>2, NodesAreFinite, FS_CardinalityType
<1>4. ctr = Cardinality(Owing) + IF root \in counted THEN 0 ELSE 1
  BY DEF Account, LatchBalance
<1> QED
  BY <1>2, <1>3, <1>4

\* The latch is open only when everything is through.
Quiet == /\ Tree[root] \subseteq counted
         /\ \A t \in Thread : pc[t] \in {"idle", "wait"} /\ rest[t] = <<>>
         /\ \A n \in Node : ~engaged[n]
         /\ Len(results) = 1

LEMMA OpenIsQuiet ==
    ASSUME NEW S, NEW D, NEW P, Account(S, D, P), ctr <= 0
    PROVE  Quiet
<1>1. Owing = {} /\ root \in counted
  <2>1. Cardinality(Owing) = 0 /\ root \in counted
    BY OwingCount
  <2> QED
    BY <2>1, OwingCount, FS_EmptySet
<1>2. root \in Node /\ root \in Roots
  BY DEF Account, TypeOK, CallType, Roots
<1>3. \A n \in Tree[root] : Kind[n] = "any" =>
          /\ KidsOf(n) \subseteq counted /\ ~engaged[n]
          /\ \A t \in Thread : ~Counting(t, n)
  BY <1>1 DEF Owing, Counting
<1> DEFINE N == Tree[root]
<1>4. N \subseteq counted
  <2>1. ASSUME NEW n \in N, \A k \in N : k < n => k \in counted
        PROVE  n \in counted
    <3>1. CASE n = root
      BY <1>1, <3>1
    <3>2. CASE n # root
      <4>1. n \in Node \ Roots /\ Parent[n] \in N
        BY <1>2, <3>2, TreeUp
      <4>2. Parent[n] \in Node /\ n \in KidsOf(Parent[n]) /\ Parent[n] < n
        BY <4>1, ParentIsSmaller
      <4>3. Parent[n] \in counted
        BY <2>1, <4>1, <4>2
      <4>4. CASE Waits(Parent[n])
        BY <4>2, <4>3, <4>4 DEF Account, Knowledge, Closed
      <4>5. CASE Kind[Parent[n]] = "any"
        BY <1>3, <4>1, <4>2, <4>5
      <4>6. CASE Kind[Parent[n]] = "leaf"
        <5>1. DOMAIN Kids[Parent[n]] = {}
          BY <4>2, <4>6, KidsAssumption
        <5> QED
          BY <4>2, <5>1 DEF KidsOf
      <4> QED
        BY <4>2, <4>4, <4>5, <4>6, NodeAssumption DEF Waits
    <3> QED
      BY <3>1, <3>2
  <2>2. N \in SUBSET Nat
    BY <1>2, TreeSelf, NodeBound
  <2> HIDE DEF N
  <2> QED
    BY <2>1, <2>2, Ascending
<1>5. /\ S \subseteq N /\ N \subseteq S /\ S \subseteq D /\ D \subseteq P
      /\ N \subseteq Node
  BY <1>2, <1>4, TreeSelf DEF Account, Stages, Knowledge
<1>6. \A n \in Node : ~engaged[n]
  BY <1>3, <1>5 DEF Account, Storages
<1>7. ASSUME NEW t \in Thread
      PROVE  /\ \A n \in Node : /\ ~Entering(t, n) /\ ~Leaving(t, n)
                                /\ ~Starting(t, n) /\ ~Counting(t, n)
                                /\ ~Ending(t, n)
             /\ ~Counting(t, Main)
  <2>1. ASSUME NEW n \in Node PROVE ~Entering(t, n) /\ ~Leaving(t, n)
    BY <1>5 DEF Account, Positions, EnteringFresh, LeavingDone
  <2>2. ASSUME NEW n \in Node PROVE ~Ending(t, n)
    BY <1>6 DEF Account, Positions, EndingOver
  <2>3. ASSUME NEW n \in Node PROVE ~Counting(t, n)
    <3>1. Counting(t, n) => Kind[n] = "any" /\ n \in N
      BY <1>5 DEF Account, Positions, CountingOver
    <3> QED
      BY <1>3, <3>1
  <2>4. ~Counting(t, Main)
    BY <1>1 DEF Account, Positions, CountingOutput
  <2>5. ASSUME NEW k \in Node PROVE ~Starting(t, k)
    <3>1. Starting(t, k) => Parent[k] \in Node
      BY ParentFacts DEF Account, TypeOK, ThreadType, Place, Starting
    <3> QED
      BY <1>6, <3>1 DEF Account, Positions, StartingFresh
  <2> QED
    BY <2>1, <2>2, <2>3, <2>4, <2>5
<1>8. ASSUME NEW t \in Thread PROVE pc[t] \in {"idle", "wait"} /\ rest[t] = <<>>
  <2>1. pc[t] \in Label /\ cur[t] \in Node \union {Main}
    BY DEF Account, TypeOK, ThreadType
  <2>2. pc[t] \notin {"idle", "wait", "count"} => cur[t] \in Node
    BY AtNode DEF Account, TypeOK
  <2>3. pc[t] \in {"idle", "wait"}
    BY <1>7, <2>1, <2>2
       DEF Label, Entering, Starting, Leaving, Ending, Counting
  <2> QED
    BY <2>3 DEF Account, Tidy
<1>9. Len(results) = 1
  BY <1>2, <1>5, TreeSelf DEF Account, Delivery
<1> QED
  BY <1>4, <1>6, <1>8, <1>9 DEF Quiet

\* A thread that counts the latch down keeps it from being open.
LEMMA CountingOwes ==
    ASSUME NEW S, NEW D, NEW P, Account(S, D, P),
           NEW t \in Thread, NEW n \in Node \union {Main}, Counting(t, n)
    PROVE  /\ ctr > 0
           /\ n \in Node => n \in Owing /\ KidsOf(n) \subseteq seen[t]
                            /\ Kind[n] = "any" /\ ~engaged[n]
           /\ n = Main => root \notin counted /\ root \in seen[t]
<1>1. ASSUME n = Main
      PROVE  root \notin counted /\ root \in seen[t] /\ ctr > 0
  <2>1. root \notin counted /\ root \in seen[t]
    BY <1>1 DEF Account, Positions, CountingOutput
  <2> QED
    BY <2>1, OwingCount
<1>2. ASSUME n \in Node
      PROVE  /\ n \in Owing /\ KidsOf(n) \subseteq seen[t] /\ ctr > 0
             /\ Kind[n] = "any" /\ ~engaged[n]
  <2>1. /\ Kind[n] = "any" /\ n \in S /\ ~engaged[n] /\ KidsOf(n) \subseteq seen[t]
    BY <1>2 DEF Account, Positions, CountingOver
  <2>2. n \in Owing
    BY <2>1 DEF Account, Stages, Owing, Counting
  <2>3. Cardinality(Owing) # 0
    BY <2>2, OwingCount, FS_EmptySet
  <2> QED
    BY <2>1, <2>2, <2>3, OwingCount
<1> QED
  BY <1>1, <1>2, ThreadFacts

LEMMA CountDownKeeps ==
    ASSUME NEW S, NEW D, NEW P, Account(S, D, P), TypeOK',
           NEW t \in Thread, CountDown(t), NEW n, n = cur[t]
    PROVE  Account(S, D, P)'
<1>1. n \in Node \union {Main} /\ Counting(t, n) /\ pc[t] = "count"
  BY DEF CountDown, Counting, Account, TypeOK, ThreadType
<1>2. /\ ctr > 0
      /\ n \in Node => /\ n \in Owing /\ KidsOf(n) \subseteq seen[t]
                       /\ Kind[n] = "any" /\ ~engaged[n]
      /\ n = Main => root \notin counted /\ root \in seen[t]
  BY <1>1, CountingOwes
<1>3. Unwound(t, seen[t] \union counted)
  BY UnwindFacts DEF CountDown, Account
<1>4. /\ engaged' = engaged /\ left' = left /\ joined' = joined
      /\ counted' = counted \union seen[t] /\ ctr' = ctr - 1
      /\ calls' = calls /\ root' = root /\ results' = results
  BY DEF CountDown, storageVars, callVars
<1> USE DEF Account, Positions
<1>5. /\ \A u \in Thread \ {t} : /\ pc'[u] = pc[u] /\ cur'[u] = cur[u]
                                 /\ rest'[u] = rest[u] /\ seen'[u] = seen[u]
      /\ pc'[t] \in {"last", "wait", "idle"}
      /\ pc'[t] = "idle" => t # Main /\ seen'[t] = {}
      /\ pc'[t] # "last" => rest'[t] = <<>>
      /\ seen'[t] \in {seen[t] \union counted, {}}
      /\ \A m \in Node : Ending(t, m)' =>
             m \in Pending(t) /\ seen'[t] = seen[t] \union counted
  BY <1>3 DEF Unwound
<1>6. /\ \A u \in Thread, m \in Node :
             /\ Entering(u, m)' <=> u # t /\ Entering(u, m)
             /\ Starting(u, m)' <=> u # t /\ Starting(u, m)
             /\ Leaving(u, m)' <=> Leaving(u, m)
             /\ Ending(u, m)' => Ending(u, m)
      /\ \A u \in Thread, m \in Node \union {Main} :
             Counting(u, m)' <=> u # t /\ Counting(u, m)
      /\ \A m \in Node : ~Leaving(t, m)
      /\ \A m \in Node \union {Main} : Counting(t, m) => m = n
  <2>1. \A u \in Thread \ {t}, m \in Node \union {Main} :
            /\ Entering(u, m)' <=> Entering(u, m)
            /\ Starting(u, m)' <=> Starting(u, m)
            /\ Leaving(u, m)' <=> Leaving(u, m)
            /\ Ending(u, m)' <=> Ending(u, m)
            /\ Counting(u, m)' <=> Counting(u, m)
    BY <1>5 DEF Entering, Starting, Leaving, Ending, Pending, Counting
  <2>2. \A m \in Node \union {Main} :
            /\ ~Entering(t, m)' /\ ~Starting(t, m)' /\ ~Leaving(t, m)'
            /\ ~Leaving(t, m) /\ ~Counting(t, m)'
            /\ Counting(t, m) => m = n
    BY <1>1, <1>5 DEF Entering, Starting, Leaving, Counting
  <2>3. \A m \in Node : Ending(t, m)' => Ending(t, m)
    BY <1>5 DEF Ending
  <2> QED
    BY <2>1, <2>2, <2>3
<1>7. seen[t] \subseteq P
  <2>1. seen[t] \subseteq Node
    BY DEF TypeOK, ThreadType
  <2> QED
    BY <1>6, <2>1 DEF Knowledge
<1>8. root \notin counted => (root \in seen[t] <=> n = Main)
  <2>1. root \in Node
    BY DEF TypeOK, CallType, Roots
  <2> QED
    BY <1>2, <1>6, <2>1 DEF Delivery
<1>9. calls' > 0
  BY <1>4
<1>10. Tidy'
  <2>1. pc'[Main] = "idle" => FALSE
    <3>1. pc[Main] = "idle" => ctr = 0
      BY DEF Tidy
    <3> QED
      BY <1>2, <1>5, <3>1, ThreadFacts
  <2> QED
    BY <1>4, <1>5, <2>1 DEF Tidy, Thread
<1>11. Stages(S, D, P)'
  BY <1>4 DEF Stages, Waits, KidsOf, Shared
<1>12. Storages(S, D, P)'
  BY <1>4 DEF Storages, Shared, KidsOf, Arity
<1>13. EnteringFresh(S, D)'
  BY <1>4, <1>6 DEF EnteringFresh, KidsOf
<1>14. StartingFresh(S)'
  BY <1>4, <1>6 DEF StartingFresh
<1>15. LeavingDone(D, P)'
  BY <1>5, <1>6 DEF LeavingDone
<1>16. EndingOver(P)'
  <2>1. ASSUME NEW u \in Thread, NEW m \in Node, Ending(u, m)'
        PROVE  Ending(u, m) /\ seen[u] \subseteq seen'[u]
    BY <1>5, <1>6, <2>1
  <2> QED
    BY <1>4, <2>1 DEF EndingOver, KidsOf
<1>17. CountingOver(S)'
  BY <1>4, <1>5, <1>6 DEF CountingOver, KidsOf
<1>18. CountingOutput(P)'
  <2>1. ASSUME NEW u \in Thread \ {t}, Counting(u, Main)
        PROVE  root \notin seen[t]
    <3>1. root \notin counted
      BY <2>1 DEF CountingOutput
    <3>2. n # Main
      BY <1>1, <2>1 DEF Alone
    <3> QED
      BY <1>8, <3>1, <3>2
  <2> QED
    BY <1>4, <1>5, <1>6, <2>1 DEF CountingOutput
<1>19. TasksStarted(S)'
  BY <1>1, <1>5 DEF TasksStarted, Thread
<1>20. Alone'
  <2>1. \A u \in Thread :
            /\ \A i, j \in DOMAIN rest'[u] : rest'[u][i] = rest'[u][j] => i = j
            /\ pc'[u] = "last" => cur'[u] \notin Pending(u)'
    BY <1>3, <1>5 DEF Unwound, Alone, Pending
  <2> QED
    BY <1>6, <2>1 DEF Alone
<1>21. Knowledge(P)'
  <2>1. Closed(seen[t] \union counted) /\ Closed({})
    BY DEF Knowledge, Closed
  <2>2. ASSUME NEW u \in Thread \ {t}
        PROVE  (\A m \in seen'[u] : m \in P \/ Leaving(u, m)') /\ Closed(seen'[u])
    BY <1>5, <2>2 DEF Knowledge, Leaving
  <2>3. (\A m \in seen'[t] : m \in P \/ Leaving(t, m)') /\ Closed(seen'[t])
    BY <1>5, <1>7, <2>1 DEF Knowledge
  <2>4. counted' \subseteq P /\ Closed(counted')
    <3>1. counted' = seen[t] \union counted
      BY <1>4
    <3> QED
      BY <1>7, <2>1, <3>1 DEF Knowledge
  <2> QED
    BY <1>4, <2>2, <2>3, <2>4 DEF Knowledge, Closed, Waits, KidsOf
<1>22. Informed'
  <2>1. ASSUME NEW u \in Thread, NEW m \in Node,
               \/ Entering(u, m)' \/ Starting(u, m)' \/ Leaving(u, m)'
               \/ Kind[m] = "all" /\ Ending(u, m)'
        PROVE  /\ seen[u] \subseteq seen'[u]
               /\ \/ Entering(u, m) \/ Starting(u, m) \/ Leaving(u, m)
                  \/ Kind[m] = "all" /\ Ending(u, m)
    BY <1>5, <1>6, <2>1
  <2> QED
    BY <2>1 DEF Informed
<1>23. Cleanups(P)'
  <2>1. ASSUME NEW m \in Node, Kind[m] = "any", KidsOf(m) \intersect P # {}
        PROVE  \/ engaged[m]
               \/ \E u \in Thread : Counting(u, m)'
               \/ KidsOf(m) \subseteq counted'
    <3>1. CASE m = n
      BY <1>2, <1>4, <3>1
    <3>2. CASE m # n
      BY <1>4, <1>6, <2>1, <3>2 DEF Cleanups
    <3> QED
      BY <3>1, <3>2
  <2> QED
    BY <1>4, <2>1 DEF Cleanups, KidsOf
<1>24. Delivery(P)'
  <2>1. ASSUME root \notin counted', NEW u \in Thread, root \in seen'[u]
        PROVE  Leaving(u, root)' \/ Counting(u, Main)'
    <3>1. root \notin counted /\ root \notin seen[t] /\ u # t
      BY <1>4, <1>5, <2>1
    <3>2. Leaving(u, root) \/ Counting(u, Main)
      BY <1>5, <2>1, <3>1 DEF Delivery
    <3> QED
      BY <1>4, <1>5, <3>1, <3>2 DEF Leaving, Counting
  <2> QED
    BY <1>4, <2>1 DEF Delivery, Leaving, Counting
<1>25. LatchBalance'
  <2>1. /\ Owing \subseteq Tree[root] /\ Tree[root] \subseteq Node
        /\ IsFiniteSet(Owing) /\ Cardinality(Owing) \in Nat
        /\ ctr = Cardinality(Owing) + IF root \in counted THEN 0 ELSE 1
    BY OwingCount
  <2>2. ASSUME NEW m \in Node, Kind[m] = "any", m # n
        PROVE  (m \in Owing)' <=> m \in Owing
    <3>1. (\E u \in Thread : Counting(u, m)')
          <=> (\E u \in Thread : Counting(u, m))
      BY <1>6, <2>2
    <3>2. KidsOf(m) \subseteq counted => KidsOf(m) \subseteq counted'
      BY <1>4
    <3>3. ASSUME KidsOf(m) \subseteq counted', ~engaged[m],
                 ~ \E u \in Thread : Counting(u, m)
          PROVE  KidsOf(m) \subseteq counted
      <4>1. KidsOf(m) \subseteq P
        BY <1>4, <1>7, <3>3 DEF Knowledge
      <4>2. KidsOf(m) # {}
        <5>1. Shared(m)
          BY <2>2 DEF Shared
        <5> QED
          BY <5>1, ArityFacts DEF KidsOf
      <4> QED
        BY <2>2, <3>3, <4>1, <4>2 DEF Cleanups
    <3> QED
      BY <1>4, <2>1, <2>2, <3>1, <3>2, <3>3 DEF Owing, Counting, KidsOf
  <2>3. n \in Node => n \notin Owing'
    <3>1. ASSUME n \in Node PROVE \A u \in Thread : ~Counting(u, n)'
      BY <1>1, <1>6, <3>1 DEF Alone
    <3>2. n \in Node => KidsOf(n) \subseteq counted'
      BY <1>2, <1>4
    <3> QED
      BY <1>2, <1>4, <3>1, <3>2 DEF Owing, Counting, KidsOf
  <2>4. Owing' \subseteq Node /\ \A m \in Owing \union Owing' : Kind[m] = "any"
    BY <1>4, <2>1 DEF Owing
  <2>5. CASE n = Main
    <3>1. Owing' = Owing
      BY <2>1, <2>2, <2>4, <2>5, ThreadFacts
    <3>2. root \notin counted /\ root \in counted'
      BY <1>2, <1>4, <2>5
    <3> QED
      BY <1>4, <2>1, <3>1, <3>2 DEF LatchBalance
  <2>6. CASE n \in Node
    <3>1. Owing' = Owing \ {n}
      BY <2>1, <2>2, <2>3, <2>4
    <3>2. Cardinality(Owing') = Cardinality(Owing) - 1
      BY <1>2, <2>1, <2>6, <3>1, FS_RemoveElement
    <3>3. root \in counted' <=> root \in counted
      BY <1>4, <1>8, <2>6, ThreadFacts
    <3> QED
      BY <1>4, <2>1, <3>2, <3>3 DEF LatchBalance
  <2> QED
    BY <1>1, <2>5, <2>6
<1> QED
  BY <1>9, <1>10, <1>11, <1>12, <1>13, <1>14, <1>15, <1>16, <1>17, <1>18,
     <1>19, <1>20, <1>21, <1>22, <1>23, <1>24, <1>25

\* sync_execute returns, or nothing happens.
LEMMA RestKeeps ==
    ASSUME NEW S, NEW D, NEW P, Account(S, D, P), TypeOK',
           Return \/ UNCHANGED vars
    PROVE  Account(S, D, P)'
<1>1. /\ engaged' = engaged /\ left' = left /\ joined' = joined
      /\ counted' = counted /\ ctr' = ctr /\ rest' = rest
      /\ calls' = calls /\ root' = root /\ results' = results
  BY DEF Return, vars, threadVars, storageVars, latchVars, callVars
<1>2. Return => /\ pc[Main] = "wait" /\ pc'[Main] = "idle"
                /\ seen'[Main] = seen[Main] \union counted /\ ctr = 0
  BY ThreadFacts DEF Return, Goto, Account, TypeOK, ThreadType
<1>3. \A u \in Thread :
          \/ pc'[u] = pc[u] /\ cur'[u] = cur[u] /\ seen'[u] = seen[u]
          \/ u = Main /\ Return
  BY DEF Return, Goto, Account, TypeOK, ThreadType, vars, threadVars
<1>4. Return => root \in counted
  <2>1. ASSUME Return PROVE root \in counted
    <3>1. ctr <= 0
      BY <1>2, <2>1
    <3>2. root \in Node
      BY DEF Account, TypeOK, CallType, Roots
    <3> QED
      BY <3>1, <3>2, OpenIsQuiet, TreeSelf DEF Quiet
  <2> QED
    BY <2>1
<1> USE DEF Account, Positions
<1>5. /\ \A u \in Thread, m \in Node :
             /\ Entering(u, m)' <=> Entering(u, m)
             /\ Starting(u, m)' <=> Starting(u, m)
             /\ Leaving(u, m)' <=> Leaving(u, m)
             /\ Ending(u, m)' <=> Ending(u, m)
      /\ \A u \in Thread, m \in Node \union {Main} :
             Counting(u, m)' <=> Counting(u, m)
      /\ \A u \in Thread :
             /\ seen[u] \subseteq seen'[u] /\ seen'[u] \subseteq seen[u] \union counted
             /\ Closed(seen'[u])
             /\ pc'[u] = "last" => pc[u] = "last" /\ cur'[u] = cur[u]
  <2>1. ASSUME NEW u \in Thread, NEW m \in Node \union {Main}
        PROVE  /\ Entering(u, m)' <=> Entering(u, m)
               /\ Starting(u, m)' <=> Starting(u, m)
               /\ Leaving(u, m)' <=> Leaving(u, m)
               /\ Ending(u, m)' <=> Ending(u, m)
               /\ Counting(u, m)' <=> Counting(u, m)
    BY <1>1, <1>2, <1>3
       DEF Entering, Starting, Leaving, Ending, Pending, Counting
  <2>2. ASSUME NEW u \in Thread
        PROVE  /\ seen[u] \subseteq seen'[u] /\ seen'[u] \subseteq seen[u] \union counted
               /\ Closed(seen'[u])
               /\ pc'[u] = "last" => pc[u] = "last" /\ cur'[u] = cur[u]
    <3>1. Closed(seen[u]) /\ Closed(seen[u] \union counted)
      BY DEF Knowledge, Closed
    <3> QED
      BY <1>2, <1>3, <3>1
  <2> QED
    BY <2>1, <2>2
<1>6. calls' > 0
  BY <1>1
<1>7. Tidy'
  <2>1. \A u \in Thread : pc'[u] \in {"idle", "queued", "wait"} => rest'[u] = <<>>
    BY <1>1, <1>2, <1>3 DEF Tidy
  <2>2. \A u \in Task : pc'[u] = "idle" => seen'[u] = {}
    BY <1>3, ThreadFacts DEF Tidy, Thread
  <2>3. pc'[Main] = "idle" => ctr = 0 /\ counted \subseteq seen'[Main]
    BY <1>2, <1>3, ThreadFacts DEF Tidy
  <2> QED
    BY <1>1, <2>1, <2>2, <2>3 DEF Tidy
<1>8. Stages(S, D, P)'
  BY <1>1 DEF Stages, Waits, KidsOf, Shared
<1>9. Storages(S, D, P)'
  BY <1>1 DEF Storages, Shared, KidsOf, Arity
<1>10. EnteringFresh(S, D)'
  BY <1>1, <1>5 DEF EnteringFresh, KidsOf
<1>11. StartingFresh(S)'
  BY <1>1, <1>5 DEF StartingFresh
<1>12. LeavingDone(D, P)'
  BY <1>5 DEF LeavingDone
<1>13. EndingOver(P)'
  BY <1>1, <1>5 DEF EndingOver, KidsOf
<1>14. CountingOver(S)'
  BY <1>1, <1>5 DEF CountingOver, KidsOf
<1>15. CountingOutput(P)'
  BY <1>1, <1>5 DEF CountingOutput
<1>16. TasksStarted(S)'
  BY <1>3, ThreadFacts DEF TasksStarted, Thread
<1>17. Alone'
  <2>1. \A u \in Thread :
            /\ \A i, j \in DOMAIN rest'[u] : rest'[u][i] = rest'[u][j] => i = j
            /\ pc'[u] = "last" => cur'[u] \notin Pending(u)'
    BY <1>1, <1>5 DEF Alone, Pending
  <2> QED
    BY <1>5, <2>1 DEF Alone
<1>18. Knowledge(P)'
  <2>1. ASSUME NEW u \in Thread
        PROVE  \A m \in seen'[u] : m \in P \/ Leaving(u, m)'
    <3>1. seen[u] \subseteq Node
      BY DEF TypeOK, ThreadType
    <3> QED
      BY <1>5, <3>1 DEF Knowledge
  <2> QED
    BY <1>1, <1>5, <2>1 DEF Knowledge, Closed, Waits, KidsOf
<1>19. Informed'
  BY <1>5 DEF Informed
<1>20. Cleanups(P)'
  BY <1>1, <1>5 DEF Cleanups, KidsOf
<1>21. Delivery(P)'
  <2>1. ASSUME root \notin counted, NEW u \in Thread, root \in seen'[u]
        PROVE  Leaving(u, root)' \/ Counting(u, Main)'
    <3>1. root \in Node
      BY DEF TypeOK, CallType, Roots
    <3>2. Leaving(u, root) \/ Counting(u, Main)
      BY <1>5, <2>1 DEF Delivery
    <3> QED
      BY <1>1, <1>5, <3>1, <3>2 DEF Leaving
  <2> QED
    BY <1>1, <2>1 DEF Delivery, Leaving, Counting
<1>22. LatchBalance'
  <2>1. root \in Node
    BY DEF TypeOK, CallType, Roots
  <2>2. \A m \in Node : (\E u \in Thread : Counting(u, m))
                        <=> (\E u \in Thread : Counting(u, m)')
    BY <1>5
  <2> QED
    BY <1>1, <2>1, <2>2, LatchKept
<1> QED
  BY <1>6, <1>7, <1>8, <1>9, <1>10, <1>11, <1>12, <1>13, <1>14, <1>15, <1>16,
     <1>17, <1>18, <1>19, <1>20, <1>21, <1>22

\* Between two calls, as before the first, everything is as new.
LEMMA CallerIdle ==
    ASSUME Inv, pc[Main] = "idle"
    PROVE  /\ TypeOK
           /\ \A t \in Thread : pc[t] = "idle" /\ rest[t] = <<>>
           /\ \A t \in Task : seen[t] = {}
           /\ \A n \in Node : ~engaged[n] /\ joined[n] = {}
<1>1. TypeOK /\ Tidy
  BY DEF Inv, Unused, Account
<1>2. /\ \A t \in Thread : pc[t] = "idle"
      /\ \A n \in Node : ~engaged[n]
  <2>1. CASE Unused
    BY <2>1 DEF Unused
  <2>2. CASE ~Unused
    <3>1. PICK S, D, P \in SUBSET Node : Account(S, D, P)
      BY <2>2 DEF Inv
    <3>2. ctr <= 0
      BY <3>1 DEF Account, Tidy
    <3>3. Quiet
      BY <3>1, <3>2, OpenIsQuiet
    <3> QED
      BY <1>1, <3>3 DEF Quiet, TypeOK, ThreadType, Place
  <2> QED
    BY <2>1, <2>2
<1> QED
  BY <1>1, <1>2 DEF Tidy, Thread

LEMMA CallKeeps ==
    ASSUME Inv, TypeOK', NEW r \in Roots, Call(r)
    PROVE  Account({r}, {}, {})'
<1>1. pc[Main] = "idle"
  BY DEF Call
<1>2. /\ TypeOK
      /\ \A t \in Thread : pc[t] = "idle" /\ rest[t] = <<>>
      /\ \A t \in Task : seen[t] = {}
      /\ \A n \in Node : ~engaged[n] /\ joined[n] = {}
  BY <1>1, CallerIdle
<1>3. r \in Node /\ \A m \in Node : r \notin KidsOf(m)
  BY DEF Roots
<1>4. /\ pc'[Main] = "exec" /\ cur'[Main] = r
      /\ \A t \in Task : pc'[t] = "idle"
      /\ \A t \in Thread : rest'[t] = <<>> /\ seen'[t] = {}
      /\ \A n \in Node : ~engaged'[n] /\ joined'[n] = {}
  BY <1>2, ThreadFacts
     DEF Call, Goto, TypeOK, ThreadType, Thread, storageVars
<1>5. /\ counted' = {} /\ results' = <<>> /\ root' = r /\ calls' > 0
      /\ ctr' = CleanupCount[r] + 1
  BY <1>2 DEF Call, TypeOK, CallType
<1>6. \A t \in Thread, n \in Node :
          /\ Entering(t, n)' <=> t = Main /\ n = r
          /\ ~Starting(t, n)' /\ ~Leaving(t, n)' /\ ~Ending(t, n)'
          /\ ~Counting(t, n)'
  <2>1. \A n \in Node :
            /\ Entering(Main, n)' <=> n = r
            /\ ~Starting(Main, n)' /\ ~Leaving(Main, n)' /\ ~Ending(Main, n)'
            /\ ~Counting(Main, n)'
    BY <1>4, ThreadFacts
       DEF Entering, Starting, Leaving, Ending, Pending, Counting
  <2>2. \A t \in Task, n \in Node :
            /\ ~Entering(t, n)' /\ t # Main
            /\ ~Starting(t, n)' /\ ~Leaving(t, n)' /\ ~Ending(t, n)'
            /\ ~Counting(t, n)'
    BY <1>4, ThreadFacts
       DEF Entering, Starting, Leaving, Ending, Pending, Counting, Thread
  <2> QED
    BY <2>1, <2>2 DEF Thread
<1>7. \A t \in Thread : ~Counting(t, Main)'
  BY <1>4 DEF Counting, Thread
<1>8. \A n \in Node : n \notin KidsOf(n)
  <2>1. \A n \in Node : \A k \in KidsOf(n) : n < k /\ n \in Nat
    BY KidsAreLarger, NodeBound
  <2> QED
    BY <2>1
<1>9. Tidy'
  BY <1>4 DEF Tidy, Thread
<1>10. Stages({r}, {}, {})'
  <2>1. \A n \in Node : Kind[n] = "seq" => Kids[n][2] # r
    BY <1>3, ArityFacts DEF KidsOf
  <2> QED
    BY <1>3, <1>5, <2>1, TreeSelf DEF Stages
<1>11. Storages({r}, {}, {})'
  BY <1>4 DEF Storages
<1>12. Positions({r}, {}, {})'
  <2>1. EnteringFresh({r}, {})'
    BY <1>3, <1>4, <1>6 DEF EnteringFresh, KidsOf
  <2>2. StartingFresh({r})' /\ LeavingDone({}, {})' /\ CountingOver({r})'
    BY <1>6 DEF StartingFresh, LeavingDone, CountingOver
  <2>3. EndingOver({})'
    BY <1>6 DEF EndingOver
  <2>4. CountingOutput({})'
    BY <1>7 DEF CountingOutput
  <2>5. TasksStarted({r})'
    BY <1>4 DEF TasksStarted
  <2> QED
    BY <2>1, <2>2, <2>3, <2>4, <2>5 DEF Positions
<1>13. Alone'
  <2>1. \A t \in Thread : pc'[t] # "last" /\ DOMAIN rest'[t] = {}
    BY <1>4 DEF Thread
  <2> QED
    BY <1>6, <1>7, <2>1 DEF Alone
<1>14. Knowledge({})'
  <2>1. Closed({})
    BY DEF Closed
  <2> QED
    BY <1>4, <1>5, <2>1 DEF Knowledge, Closed, Waits, KidsOf
<1>15. Informed'
  <2>1. ASSUME NEW n \in Node, Kind[n] = "seq", r \in Tree[Kids[n][2]]
        PROVE  FALSE
    <3>1. Kids[n][2] \in Node \ Roots
      BY <2>1, ArityFacts, KidFacts
    <3> QED
      BY <2>1, <3>1, TreeUp
  <2> QED
    BY <1>6, <2>1 DEF Informed
<1>16. Cleanups({})'
  BY DEF Cleanups, KidsOf
<1>17. Delivery({})'
  BY <1>4, <1>5 DEF Delivery
<1>18. LatchBalance'
  <2>1. Owing' = {m \in Tree[r] : Kind[m] = "any"}
    <3>1. \A m \in Tree[r] : Kind[m] = "any" => ~ (KidsOf(m) \subseteq {})
      <4>1. ASSUME NEW m \in Tree[r], Kind[m] = "any" PROVE ~ (KidsOf(m) \subseteq {})
        <5>1. m \in Node /\ Shared(m)
          BY <1>3, <4>1, TreeSelf DEF Shared
        <5> QED
          BY <5>1, ArityFacts DEF KidsOf
      <4> QED
        BY <4>1
    <3> QED
      BY <1>5, <3>1 DEF Owing, KidsOf
  <2>2. CleanupCount[r] = Cardinality(Owing')
    BY <1>3, <2>1, CleanupCountCountsAnys
  <2> QED
    BY <1>5, <2>2 DEF LatchBalance
<1> QED
  BY <1>5, <1>9, <1>10, <1>11, <1>12, <1>13, <1>14, <1>15, <1>16, <1>17,
     <1>18 DEF Account

-----------------------------------------------------------------------------
\* The invariant holds initially, and every step preserves it.

LEMMA InitInv == Init => Inv
<1> SUFFICES ASSUME Init PROVE Unused
  BY DEF Inv
<1>1. TypeOK
  BY InitType
<1>2. /\ calls = 0
      /\ \A t \in Thread : pc[t] = "idle" /\ rest[t] = <<>> /\ seen[t] = {}
      /\ \A n \in Node : ~engaged[n] /\ joined[n] = {}
  BY DEF Init
<1>3. Tidy
  BY <1>2, ThreadFacts DEF Tidy, Thread
<1> QED
  BY <1>1, <1>2, <1>3 DEF Unused

\* The sets of nodes that account for a state are what the invariant asks for.
LEMMA Accounted ==
    ASSUME NEW S, NEW D, NEW P, Account(S, D, P)'
    PROVE  Inv'
<1>1. root' \in Node /\ S \subseteq Tree[root'] /\ D \subseteq S /\ P \subseteq D
  BY DEF Account, Stages, TypeOK, CallType, Roots
<1>2. S \in SUBSET Node /\ D \in SUBSET Node /\ P \in SUBSET Node
  BY <1>1, TreeSelf
<1> QED
  BY <1>2 DEF Inv

\* Before the first call no thread takes a step.
LEMMA UnusedWaits ==
    ASSUME Unused, [Next]_vars
    PROVE  (\E r \in Roots : Call(r)) \/ UNCHANGED vars
<1>1. /\ \A t \in Thread : pc[t] = "idle"
      /\ Main \in Thread /\ \A k \in Task : k \in Thread
  BY ThreadFacts DEF Unused, Thread
<1>2. ASSUME NEW t \in Thread, Step(t) PROVE FALSE
  BY <1>1, <1>2
     DEF Step, Execute, ExecLeaf, ExecSeq, ExecShared, Fan, Schedule, RunInline,
         Continue, SeqFirst, SeqSecond, Deliver, AllStore, AllJoin, AllLast,
         AllFinish, AnyFirst, AnyLose, AnyLast, AnyFinish, CountDown
<1>3. ASSUME NEW k \in Task, Start(k) PROVE FALSE
  BY <1>1, <1>3 DEF Start
<1>4. ~Return
  BY <1>1 DEF Return
<1> QED
  BY <1>2, <1>3, <1>4 DEF Next, Terminating

LEMMA ExecuteKeepsInv ==
    ASSUME NEW S, NEW D, NEW P, Account(S, D, P), TypeOK',
           NEW t \in Thread, Execute(t) \/ Fan(t)
    PROVE  Inv'
<1> DEFINE k == cur[t]
<1>1. ASSUME ExecLeaf(t) PROVE Inv'
  <2>1. PICK n : n = cur[t]
    OBVIOUS
  <2>2. Account(S, D \union {n}, P)'
    BY <1>1, <2>1, ExecLeafKeeps
  <2> QED
    BY <2>2, Accounted
<1>2. ASSUME ExecSeq(t) PROVE Inv'
  <2>1. PICK l : l = Kids[cur[t]][1]
    OBVIOUS
  <2>2. Account(S \union {l}, D, P)'
    BY <1>2, <2>1, ExecSeqKeeps
  <2> QED
    BY <2>2, Accounted
<1>3. ASSUME ExecShared(t) PROVE Inv'
  <2>1. Account(S, D, P)'
    BY <1>3, ExecSharedKeeps
  <2> QED
    BY <2>1, Accounted
<1>4. ASSUME Schedule(t) PROVE Inv'
  <2>1. PICK l : l = cur[t]
    OBVIOUS
  <2>2. Account(S \union {l}, D, P)'
    BY <1>4, <2>1, ScheduleKeeps
  <2> QED
    BY <2>2, Accounted
<1>5. ASSUME RunInline(t) PROVE Inv'
  <2>1. PICK l : l = cur[t]
    OBVIOUS
  <2>2. Account(S \union {l}, D, P)'
    BY <1>5, <2>1, RunInlineKeeps
  <2> QED
    BY <2>2, Accounted
<1> QED
  BY <1>1, <1>2, <1>3, <1>4, <1>5 DEF Execute, Fan

LEMMA ContinueKeepsInv ==
    ASSUME NEW S, NEW D, NEW P, Account(S, D, P), TypeOK',
           NEW t \in Thread, Continue(t)
    PROVE  Inv'
<1>1. PICK k : k = cur[t]
  OBVIOUS
<1>2. PICK n : n = Parent[k]
  OBVIOUS
<1>3. PICK l : l = Kids[Parent[k]][2]
  OBVIOUS
<1>4. ASSUME SeqFirst(t) PROVE Inv'
  <2>1. Account(S \union {l}, D, P \union {k})'
    BY <1>1, <1>3, <1>4, SeqFirstKeeps
  <2> QED
    BY <2>1, Accounted
<1>5. ASSUME SeqSecond(t) PROVE Inv'
  <2>1. Account(S, D \union {n}, P \union {k})'
    BY <1>1, <1>2, <1>5, SeqSecondKeeps
  <2> QED
    BY <2>1, Accounted
<1>6. ASSUME Deliver(t) PROVE Inv'
  <2>1. Account(S, D, P \union {k})'
    BY <1>1, <1>6, DeliverKeeps
  <2> QED
    BY <2>1, Accounted
<1>7. ASSUME AllStore(t) PROVE Inv'
  <2>1. Account(S, D, P)'
    BY <1>7, AllStoreKeeps
  <2> QED
    BY <2>1, Accounted
<1>8. ASSUME AllJoin(t) \/ AllLast(t) \/ AnyLose(t) \/ AnyLast(t) PROVE Inv'
  <2>1. Account(S, D, P \union {k})'
    BY <1>1, <1>8, AllJoinKeeps, AllLastKeeps, AnyLoseKeeps, AnyLastKeeps
  <2> QED
    BY <2>1, Accounted
<1>9. ASSUME AllFinish(t) PROVE Inv'
  <2>1. Account(S, D \union {k}, P)'
    BY <1>1, <1>9, AllFinishKeeps
  <2> QED
    BY <2>1, Accounted
<1>10. ASSUME AnyFirst(t) PROVE Inv'
  <2>1. Account(S, D \union {n}, P \union {k})'
    BY <1>1, <1>2, <1>10, AnyFirstKeeps
  <2> QED
    BY <2>1, Accounted
<1>11. ASSUME AnyFinish(t) PROVE Inv'
  <2>1. Account(S, D, P)'
    BY <1>11, AnyFinishKeeps
  <2> QED
    BY <2>1, Accounted
<1>12. ASSUME CountDown(t) PROVE Inv'
  <2>1. Account(S, D, P)'
    BY <1>12, CountDownKeeps
  <2> QED
    BY <2>1, Accounted
<1> QED
  BY <1>4, <1>5, <1>6, <1>7, <1>8, <1>9, <1>10, <1>11, <1>12 DEF Continue

LEMMA StepKeepsInv ==
    ASSUME Inv, [Next]_vars
    PROVE  Inv'
<1>1. TypeOK
  BY DEF Inv, Unused, Account
<1>2. TypeOK'
  BY <1>1, StepKeepsType
<1>3. ASSUME NEW r \in Roots, Call(r) PROVE Inv'
  <2>1. Account({r}, {}, {})'
    BY <1>2, <1>3, CallKeeps
  <2> QED
    BY <2>1, Accounted
<1>4. CASE Unused
  <2>1. ASSUME UNCHANGED vars PROVE Inv'
    <3>1. Tidy'
      BY <1>4, <2>1 DEF Unused, Tidy, vars, threadVars, storageVars, latchVars,
                        callVars
    <3> QED
      BY <1>2, <1>4, <2>1, <3>1
         DEF Inv, Unused, vars, threadVars, storageVars, callVars
  <2> QED
    BY <1>3, <1>4, <2>1, UnusedWaits
<1>5. CASE ~Unused
  <2>1. PICK S, D, P \in SUBSET Node : Account(S, D, P)
    BY <1>5 DEF Inv
  <2>2. ASSUME NEW t \in Thread, Step(t) PROVE Inv'
    BY <1>2, <2>1, <2>2, ExecuteKeepsInv, ContinueKeepsInv DEF Step
  <2>3. ASSUME NEW k \in Task, Start(k) PROVE Inv'
    <3>1. Account(S, D, P)'
      BY <1>2, <2>1, <2>3, StartKeeps
    <3> QED
      BY <3>1, Accounted
  <2>4. ASSUME Return \/ Terminating \/ UNCHANGED vars PROVE Inv'
    <3>1. Return \/ UNCHANGED vars
      BY <2>4 DEF Terminating
    <3>2. Account(S, D, P)'
      BY <1>2, <2>1, <3>1, RestKeeps
    <3> QED
      BY <3>2, Accounted
  <2> QED
    BY <1>3, <2>2, <2>3, <2>4 DEF Next
<1> QED
  BY <1>4, <1>5

-----------------------------------------------------------------------------
\* What the invariant says of the properties of module Graph.

LEMMA InvJoinCount == Inv => JoinCount
<1> SUFFICES ASSUME Inv, NEW n \in Node, engaged[n]
             PROVE  left[n] = Cardinality(KidsOf(n) \ joined[n])
  BY DEF JoinCount
<1>1. PICK S, D, P \in SUBSET Node : Account(S, D, P)
  BY DEF Inv, Unused
<1>2. /\ joined[n] \intersect KidsOf(n) = P \intersect KidsOf(n)
      /\ left[n] = Cardinality(KidsOf(n) \ P)
  BY <1>1 DEF Account, Storages
<1>3. KidsOf(n) \ joined[n] = KidsOf(n) \ P
  BY <1>2
<1> QED
  BY <1>2, <1>3

\* A node that is started and not done finds the input it was lent alive.
LEMMA LenderAlive ==
    ASSUME NEW S, NEW D, NEW P, Account(S, D, P),
           NEW n \in Node, n \in S, n \notin D, Lender[n] # Main
    PROVE  engaged[Lender[n]]
<1> DEFINE T == {m \in Node : m \in S /\ m \notin D /\ Lender[m] # Main
                              => engaged[Lender[m]]}
<1>1. ASSUME NEW m \in Node, \A k \in Node : k < m => k \in T
      PROVE  m \in T
  <2>1. SUFFICES ASSUME m \in S, m \notin D, Lender[m] # Main
                 PROVE  engaged[Lender[m]]
    OBVIOUS
  <2>2. m \in Node \ Roots
    BY <2>1, LenderDef
  <2>3. Parent[m] \in Node /\ m \in KidsOf(Parent[m]) /\ Parent[m] < m
    BY <2>2, ParentIsSmaller
  <2>4. m \notin P /\ m # root
    BY <2>1, <2>2 DEF Account, Stages, TypeOK, CallType
  <2>5. CASE Shared(Parent[m])
    BY <2>1, <2>2, <2>4, <2>5, LenderDef DEF Account, Stages
  <2>6. CASE ~Shared(Parent[m])
    <3>1. Lender[m] = Lender[Parent[m]]
      BY <2>1, <2>2, <2>6, LenderDef
    <3>2. Kind[Parent[m]] = "seq"
      <4>1. Kind[Parent[m]] # "leaf"
        <5>1. Kind[Parent[m]] = "leaf" => DOMAIN Kids[Parent[m]] = {}
          BY <2>3, KidsAssumption
        <5> QED
          BY <2>3, <5>1 DEF KidsOf
      <4> QED
        BY <2>3, <2>6, <4>1, NodeAssumption DEF Shared
    <3>3. Parent[m] \in S /\ Parent[m] \notin D
      BY <2>1, <2>2, <2>3, <2>4, <3>2 DEF Account, Stages, Waits
    <3>4. Parent[m] \in T
      BY <1>1, <2>3
    <3> QED
      BY <2>1, <3>1, <3>3, <3>4
  <2> QED
    BY <2>5, <2>6
<1>2. Node \subseteq T
  <2> HIDE DEF T
  <2> QED
    BY <1>1, NodeBound, Ascending
<1> QED
  BY <1>2

LEMMA InvStorageDiscipline == Inv => StorageDiscipline
<1> SUFFICES ASSUME Inv, NEW t \in Thread
             PROVE  LET n == cur[t] IN
                    /\ pc[t] = "exec" =>
                        /\ Shared(n) => ~engaged[n]
                        /\ Lender[n] # Main => engaged[Lender[n]]
                    /\ pc[t] = "join" \/ (pc[t] = "out" /\ ChildOf(n, "any"))
                        => engaged[Parent[n]]
                    /\ pc[t] = "last" => engaged[n]
  BY DEF StorageDiscipline
<1>1. CASE Unused
  BY <1>1 DEF Unused
<1>2. CASE ~Unused
  <2>1. PICK S, D, P \in SUBSET Node : Account(S, D, P)
    BY <1>2 DEF Inv
  <2> DEFINE n == cur[t]
  <2>2. pc[t] \in {"exec", "join", "out", "last"} => n \in Node
    BY <2>1, AtNode DEF Account, TypeOK
  <2>3. ASSUME pc[t] = "exec"
        PROVE  ~engaged[n] /\ (Lender[n] # Main => engaged[Lender[n]])
    <3>1. n \in Node /\ n \in S /\ n \notin D /\ ~engaged[n]
      BY <2>1, <2>2, <2>3 DEF Account, Positions, EnteringFresh, Entering
    <3> QED
      BY <2>1, <3>1, LenderAlive
  <2>4. ASSUME pc[t] = "join" \/ (pc[t] = "out" /\ ChildOf(n, "any"))
        PROVE  engaged[Parent[n]]
    BY <2>1, <2>2, <2>4, AtParent
  <2>5. ASSUME pc[t] = "last" PROVE engaged[n]
    BY <2>1, <2>2, <2>5 DEF Account, Positions, EndingOver, Ending
  <2> QED
    BY <2>3, <2>4, <2>5
<1> QED
  BY <1>1, <1>2

LEMMA InvLatch == Inv => LatchOpensLast /\ LatchBalance /\ ReturnSeesAll
<1> SUFFICES ASSUME Inv PROVE LatchOpensLast /\ LatchBalance /\ ReturnSeesAll
  OBVIOUS
<1>1. CASE Unused
  BY <1>1 DEF Unused, LatchOpensLast, LatchBalance, ReturnSeesAll
<1>2. CASE ~Unused
  <2>1. PICK S, D, P \in SUBSET Node : Account(S, D, P)
    BY <1>2 DEF Inv
  <2>2. ctr <= 0 => Quiet
    BY <2>1, OpenIsQuiet
  <2>3. LatchOpensLast
    <3>1. \A t \in Thread : pc[t] = "wait" => t = Main
      BY <2>1 DEF Account, TypeOK, ThreadType, Place
    <3> QED
      BY <2>2, <3>1, ThreadFacts DEF Quiet, LatchOpensLast, Thread
  <2>4. LatchBalance
    BY <2>1 DEF Account
  <2>5. ReturnSeesAll
    BY <2>1, <2>2 DEF Account, Tidy, Quiet, ReturnSeesAll
  <2> QED
    BY <2>3, <2>4, <2>5
<1> QED
  BY <1>1, <1>2

LEMMA InvLastSeesAll == Inv => LastSeesAll
<1> SUFFICES ASSUME Inv, NEW t \in Thread, pc[t] = "last"
             PROVE  KidsOf(cur[t]) \subseteq seen[t]
  BY DEF LastSeesAll
<1>1. PICK S, D, P \in SUBSET Node : Account(S, D, P)
  BY DEF Inv, Unused
<1>2. cur[t] \in Node
  BY <1>1, AtNode DEF Account, TypeOK
<1> QED
  BY <1>1, <1>2 DEF Account, Positions, EndingOver, Ending

-----------------------------------------------------------------------------
\* At any time the nodes that are started, done and passed on account for where
\* the threads are, what the storages hold, what everybody knows and what the
\* latch's counter is: the invariant that the others follow from.
THEOREM Accounting == Spec => []Inv
<1>1. Init => Inv
  BY InitInv
<1>2. Inv /\ [Next]_vars => Inv'
  BY StepKeepsInv
<1> QED
  BY <1>1, <1>2, PTL DEF Spec

\* all::execute and any::execute: the counter in a storage that holds something
\* is the number of children whose fetch_sub is still to come, whatever the
\* order in which the children are through.
THEOREM CounterCountsChildren == Spec => []JoinCount
  BY Accounting, InvJoinCount, PTL

\* aligned_storage_for: its assertions hold, no node touches the counter of a
\* storage that was destroyed, and every node finds the input it was handed by
\* reference alive.
THEOREM StoragesAreDisciplined == Spec => []StorageDiscipline
  BY Accounting, InvStorageDiscipline, PTL

\* sync_execute: cleanup_count() + 1, computed before anything runs, is at any
\* time what was counted down so far and what is still to be counted down.
THEOREM LatchIsBalanced == Spec => []LatchBalance
  BY Accounting, InvLatch, PTL

\* sync_execute: the count_down() that opens the latch is the last thing that
\* happens to the graph, also for the losers of an any.
THEOREM LatchIsOpenedLast == Spec => []LatchOpensLast
  BY Accounting, InvLatch, PTL

\* fetch_sub(acq_rel): the thread that finds itself the last child's sees the
\* completion of every child.
THEOREM LastChildSeesAll == Spec => []LastSeesAll
  BY Accounting, InvLastSeesAll, PTL

\* sync_execute: once it has returned, its caller sees the completion of every
\* node of the graph, and may destroy the graph.
THEOREM CallerSeesAll == Spec => []ReturnSeesAll
  BY Accounting, InvLatch, PTL

=============================================================================
