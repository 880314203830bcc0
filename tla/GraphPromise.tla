----------------------------- MODULE GraphPromise -----------------------------
(***************************************************************************)
(* Proofs of what the caller of sync_execute is promised, for every finite *)
(* forest of graphs, any number of workers and any number of calls.        *)
(*                                                                         *)
(* First, that no step drops what is left to do: the invariant AttendedInv *)
(* of GraphInvariant, from which it follows that the caller never waits    *)
(* for nobody.                                                             *)
(*                                                                         *)
(* Then, that module Graph implements the steps of module Future.  While a *)
(* call runs, the outputs of the nodes that are done are collected in a    *)
(* function: no step changes the output of such a node, or brings anything *)
(* else to the nodes that it feeds.  When the root is done, the function   *)
(* is part of the evaluation in which each any has the output of the child *)
(* that it had in this call.                                               *)
(***************************************************************************)
EXTENDS GraphSafety, GraphOutcome

-----------------------------------------------------------------------------
\* Thread t makes a step that is not a count_down(): it may hand a task to the
\* scheduler, construct the storage of the node it is entering, and leave for the
\* latch, but it touches nothing else that others look at.
Advances(t) ==
    /\ \A u \in Thread \ {t} :
           \/ pc'[u] = pc[u] /\ cur'[u] = cur[u]
           \/ pc[u] = "idle" /\ pc'[u] = "queued" /\ u \in Task
    /\ pc[t] \notin {"idle", "queued", "wait"}
    /\ pc'[t] = "idle" => t # Main
    /\ pc'[t] = "count" =>
           cur'[t] = Main \/ (cur'[t] \in Node /\ engaged[cur'[t]])
    /\ \A n \in Node : engaged'[n] => engaged[n] \/ Entering(t, n)
    /\ UNCHANGED <<counted, calls, root>>

LEMMA ExecuteAdvances ==
    ASSUME TypeOK, NEW t \in Thread, Execute(t)
    PROVE  Advances(t)
<1> USE DEF TypeOK, ThreadType, StorageType, Goto, storageVars, latchVars, callVars
<1>1. CASE ExecLeaf(t)
  BY <1>1 DEF ExecLeaf, Advances
<1>2. CASE ExecSeq(t)
  BY <1>2 DEF ExecSeq, Advances
<1>3. CASE ExecShared(t)
  BY <1>3, AtNode DEF ExecShared, Construct, Advances, Entering
<1> QED
  BY <1>1, <1>2, <1>3 DEF Execute

LEMMA FanAdvances ==
    ASSUME NEW S, NEW D, NEW P, Account(S, D, P), NEW t \in Thread, Fan(t)
    PROVE  Advances(t)
<1> USE DEF TypeOK, ThreadType, StorageType, Goto, storageVars, latchVars, callVars
<1>0. TypeOK
  BY DEF Account
<1>1. CASE RunInline(t)
  BY <1>0, <1>1 DEF RunInline, Advances
<1>2. CASE Schedule(t)
  <2> DEFINE k == cur[t]
  <2>1. pc[t] = "fan" /\ k \in Node /\ k \notin Roots /\ Shared(Parent[k])
        /\ ~IsLast(k)
    BY <1>0, <1>2, AtNode DEF Schedule, Place
  <2>2. k \in Task /\ k \in Thread
    BY <2>1 DEF Task, Thread
  <2>3. Starting(t, k) /\ Position[k] \in DOMAIN Kids[Parent[k]]
        /\ Kids[Parent[k]][Position[k]] = k
    BY <2>1, ParentFacts DEF Starting
  <2>4. k \notin S
    <3>1. StartingFresh(S)
      BY DEF Account, Positions
    <3>2. Position[k] <= Position[k]
      BY <2>3, KidsAssumption, ParentFacts, <2>1
    <3> QED
      BY <2>1, <2>3, <3>1, <3>2 DEF StartingFresh
  <2>5. pc[k] = "idle" /\ k # t
    BY <2>1, <2>2, <2>4 DEF Account, Positions, TasksStarted
  <2> QED
    BY <1>0, <1>2, <2>1, <2>2, <2>5 DEF Schedule, Advances
<1> QED
  BY <1>1, <1>2 DEF Fan

LEMMA ContinueAdvances ==
    ASSUME NEW S, NEW D, NEW P, Account(S, D, P),
           NEW t \in Thread, Continue(t), pc[t] # "count"
    PROVE  Advances(t)
<1>0. TypeOK /\ Alone
  BY DEF Account
<1>u. ASSUME NEW known, Unwind(t, known), pc[t] \in {"out", "join"},
             UNCHANGED <<engaged, counted, calls, root>>
      PROVE  Advances(t)
  BY <1>0, <1>u, UnwindFacts DEF Unwound, Advances
<1> USE DEF TypeOK, ThreadType, StorageType, Goto, storageVars, latchVars, callVars
<1>1. CASE SeqFirst(t) \/ SeqSecond(t) \/ Deliver(t) \/ AllStore(t)
  BY <1>0, <1>1 DEF SeqFirst, SeqSecond, Deliver, AllStore, Advances
<1>2. CASE AllJoin(t)
  BY <1>2, <1>u DEF AllJoin, FetchSub
<1>3. CASE AnyLose(t)
  BY <1>3, <1>u DEF AnyLose, FetchSub
<1>4. CASE AllLast(t) \/ AnyFirst(t) \/ AnyLast(t)
  BY <1>0, <1>4 DEF AllLast, AnyFirst, AnyLast, FetchSub, Advances
<1>5. CASE AllFinish(t) \/ AnyFinish(t)
  <2>1. cur[t] \in Node /\ Ending(t, cur[t])
    BY <1>0, <1>5, AtNode DEF AllFinish, AnyFinish, Ending
  <2>2. engaged[cur[t]]
    BY <2>1 DEF Account, Positions, EndingOver
  <2> QED
    BY <1>0, <1>5, <2>1, <2>2 DEF AllFinish, AnyFinish, Destroy, Advances
<1>6. ~CountDown(t)
  BY DEF CountDown
<1> QED
  BY <1>1, <1>2, <1>3, <1>4, <1>5, <1>6 DEF Continue

\* Every step of a thread but a count_down() is of this kind.
LEMMA StepAdvances ==
    ASSUME NEW S, NEW D, NEW P, Account(S, D, P),
           NEW t \in Thread, Step(t), pc[t] # "count"
    PROVE  Advances(t)
<1>0. TypeOK
  BY DEF Account
<1> QED
  BY <1>0, ExecuteAdvances, FanAdvances, ContinueAdvances DEF Step

\* An any that the latch was told of.
Over(n) ==
    /\ Kind[n] = "any" /\ KidsOf(n) \subseteq counted /\ ~engaged[n]
    /\ \A u \in Thread : ~Counting(u, n)

\* It stays so, and whoever is in a count_down() stays there, whatever another
\* thread does.
LEMMA AdvancesLeave ==
    ASSUME NEW S, NEW D, NEW P, Account(S, D, P), NEW t \in Thread, Advances(t)
    PROVE  /\ \A u \in Thread, n \in Node \union {Main} :
                  u # t /\ Counting(u, n) => Counting(u, n)'
           /\ \A n \in Node : Over(n) => Over(n)'
<1>1. ASSUME NEW u \in Thread, NEW n \in Node \union {Main}, u # t, Counting(u, n)
      PROVE  Counting(u, n)'
  BY <1>1 DEF Advances, Counting
<1>2. ASSUME NEW n \in Node, Over(n) PROVE Over(n)'
  <2>1. ~engaged'[n]
    <3>1. ASSUME Entering(t, n) PROVE FALSE
      <4>1. KidsOf(n) \intersect S = {}
        BY <3>1 DEF Account, Positions, EnteringFresh
      <4>2. KidsOf(n) \subseteq S
        BY <1>2 DEF Over, Account, Knowledge, Stages
      <4>3. 1 \in DOMAIN Kids[n]
        BY <1>2, ArityFacts DEF Over, Shared
      <4> QED
        BY <4>1, <4>2, <4>3 DEF KidsOf
    <3> QED
      BY <1>2, <3>1 DEF Over, Advances
  <2>2. ASSUME NEW u \in Thread, Counting(u, n)' PROVE FALSE
    <3>1. Main \notin Node
      BY ThreadFacts
    <3> QED
      BY <1>2, <2>2, <3>1 DEF Over, Advances, Counting
  <2> QED
    BY <1>2, <2>1, <2>2 DEF Over, Advances
<1> QED
  BY <1>1, <1>2

-----------------------------------------------------------------------------
\* Progress: whatever is left to do, a thread is on its way to it (Attended).

LEMMA StagesAreNodes ==
    ASSUME NEW S, NEW D, NEW P, Account(S, D, P)
    PROVE  root \in Node /\ S \subseteq Node /\ D \subseteq Node /\ P \subseteq Node
<1>1. root \in Node /\ S \subseteq Tree[root] /\ D \subseteq S /\ P \subseteq D
  BY DEF Account, Stages, TypeOK, CallType, Roots
<1> QED
  BY <1>1, TreeSelf

\* Thread u goes on with all that it was at.
KeepsOn(u) ==
    /\ \A n \in Node :
           /\ Entering(u, n) => Entering(u, n)'
           /\ Leaving(u, n) => Leaving(u, n)'
           /\ Starting(u, n) <=> Starting(u, n)'
           /\ Ending(u, n) => Ending(u, n)'
    /\ Counting(u, Main) => Counting(u, Main)'

\* A step takes thread t from what it was at to what has to be done next, and
\* the stages of the nodes from S, D and P to S2, D2 and P2: what was t's to do,
\* and what is new, is attended by t, or has become another's.
Covers(t, S, D, P, S2, D2, P2) ==
    /\ S \subseteq S2 /\ D \subseteq D2 /\ P \subseteq P2
    /\ \A n \in D2 \ P2 : n \notin D \/ Leaving(t, n) => Leaving(t, n)'
    /\ \A n \in S2 \ D2 :
           n \notin S \/ Entering(t, n) \/ (engaged[n] /\ ~engaged'[n])
           => AtWorkOn(S2, n)'
    /\ \A n \in Node : Kind[n] = "seq" =>
           /\ Kids[n][1] \in P2 \ P => Kids[n][2] \in S2
           /\ Kids[n][2] \in P2 \ P => n \in D2
    /\ \A k \in Node : Starting(t, k)' =>
           \A i \in DOMAIN Kids[Parent[k]] :
               i < Position[k] => Kids[Parent[k]][i] \in S2
    /\ \A n \in Node :
           engaged'[n] /\ (~engaged[n] \/ \E k \in KidsOf(n) : Starting(t, k))
           => KidsOf(n) \subseteq S2 \/ \E k \in KidsOf(n) : Starting(t, k)'
    /\ \A n \in Node :
           /\ engaged'[n] /\ KidsOf(n) \subseteq P2
           /\ ~engaged[n] \/ ~(KidsOf(n) \subseteq P) \/ Ending(t, n)
           => Ending(t, n)'
    /\ \A n \in Node : Kind[n] = "any" =>
           /\ n \in D2 \ D => KidsOf(n) \intersect P2 # {}
           /\ KidsOf(n) \intersect (P2 \ P) # {} => n \in D2
    /\ root' = root /\ counted \subseteq counted'
    /\ root \in P2 /\ (root \notin P \/ Counting(t, Main))
           => root \in counted' \/ Counting(t, Main)'

LEMMA AttendedStep ==
    ASSUME NEW S, NEW D, NEW P, Attended(S, D, P),
           NEW S2, NEW D2, NEW P2, NEW t \in Thread,
           \A u \in Thread \ {t} : KeepsOn(u), S2 \subseteq Node,
           D2 \subseteq Node, Covers(t, S, D, P, S2, D2, P2)
    PROVE  Attended(S2, D2, P2)'
<1> USE DEF Covers
<1>1. Carried(D2, P2)'
  <2> SUFFICES ASSUME NEW n \in D2 \ P2 PROVE \E u \in Thread : Leaving(u, n)'
    BY DEF Carried, Thread, Task, Main
  <2>1. CASE n \notin D \/ Leaving(t, n)
    BY <2>1
  <2>2. CASE n \in D /\ ~Leaving(t, n)
    <3>1. PICK u \in Thread : Leaving(u, n)
      BY <2>2 DEF Attended, Carried
    <3> QED
      BY <2>2, <3>1 DEF KeepsOn
  <2> QED
    BY <2>1, <2>2
<1>2. Pursued(S2, D2)'
  <2> SUFFICES ASSUME NEW n \in S2 \ D2 PROVE AtWorkOn(S2, n)'
    BY DEF Pursued
  <2>1. CASE n \notin S \/ Entering(t, n) \/ (engaged[n] /\ ~engaged'[n])
    BY <2>1
  <2>2. CASE n \in S /\ ~Entering(t, n) /\ (engaged[n] => engaged'[n])
    <3>1. AtWorkOn(S, n)
      BY <2>2 DEF Attended, Pursued
    <3>2. ASSUME NEW u \in Thread, Entering(u, n) PROVE Entering(u, n)'
      BY <2>2, <3>2 DEF KeepsOn
    <3> QED
      BY <2>2, <3>1, <3>2 DEF AtWorkOn
  <2> QED
    BY <2>1, <2>2
<1>3. Sequenced(S2, D2, P2)'
  BY DEF Attended, Sequenced
<1>4. Begun(S2)'
  <2>1. ASSUME NEW u \in Thread, NEW k \in Node, Starting(u, k)',
               NEW i \in DOMAIN Kids[Parent[k]], i < Position[k]
        PROVE  Kids[Parent[k]][i] \in S2
    <3>1. CASE u = t
      BY <2>1, <3>1
    <3>2. CASE u # t
      <4>1. Starting(u, k)
        BY <2>1, <3>2 DEF KeepsOn
      <4> QED
        BY <2>1, <4>1 DEF Attended, Begun
    <3> QED
      BY <3>1, <3>2
  <2>2. ASSUME NEW n \in Node, engaged'[n]
        PROVE  \/ KidsOf(n) \subseteq S2
               \/ \E u \in Thread, k \in KidsOf(n) : Starting(u, k)'
    <3>1. CASE ~engaged[n] \/ \E k \in KidsOf(n) : Starting(t, k)
      BY <2>2, <3>1
    <3>2. CASE engaged[n] /\ ~\E k \in KidsOf(n) : Starting(t, k)
      <4>1. \A k \in KidsOf(n) : k \in Node
        BY KidsAreLarger
      <4>2. ASSUME NEW u \in Thread, NEW k \in KidsOf(n), Starting(u, k)
            PROVE  Starting(u, k)'
        BY <3>2, <4>1, <4>2 DEF KeepsOn
      <4> QED
        BY <3>2, <4>2 DEF Attended, Begun
    <3> QED
      BY <3>1, <3>2
  <2> QED
    BY <2>1, <2>2 DEF Begun, KidsOf
<1>5. Ended(P2)'
  <2> SUFFICES ASSUME NEW n \in Node, engaged'[n], KidsOf(n) \subseteq P2
               PROVE  \E u \in Thread : Ending(u, n)'
    BY DEF Ended, KidsOf
  <2>1. CASE ~engaged[n] \/ ~(KidsOf(n) \subseteq P) \/ Ending(t, n)
    BY <2>1
  <2>2. CASE engaged[n] /\ KidsOf(n) \subseteq P /\ ~Ending(t, n)
    <3>1. PICK u \in Thread : Ending(u, n)
      BY <2>2 DEF Attended, Ended
    <3> QED
      BY <2>2, <3>1 DEF KeepsOn
  <2> QED
    BY <2>1, <2>2
<1>6. Decided(D2, P2)'
  BY DEF Attended, Decided, KidsOf
<1>7. Delivered(P2)'
  <2> SUFFICES ASSUME root \in P2
               PROVE  root \in counted' \/ \E u \in Thread : Counting(u, Main)'
    BY DEF Delivered
  <2>1. CASE root \notin P \/ Counting(t, Main)
    BY <2>1
  <2>2. CASE root \in P /\ ~Counting(t, Main)
    BY <2>2 DEF Attended, Delivered, KeepsOn
  <2> QED
    BY <2>1, <2>2
<1> QED
  BY <1>1, <1>2, <1>3, <1>4, <1>5, <1>6, <1>7 DEF Attended

-----------------------------------------------------------------------------
\* One lemma per action: what is left to do is attended after it, with the
\* stages that account for it (the lemmas of GraphSafety).

LEMMA OthersStay ==
    ASSUME NEW u \in Thread, pc'[u] = pc[u], cur'[u] = cur[u], rest'[u] = rest[u]
    PROVE  KeepsOn(u)
  BY DEF KeepsOn, Entering, Leaving, Starting, Ending, Pending, Counting

\* Thread t goes on to the step `label` of node n, and to no other; what it has
\* to return to stays.
LEMMA OneMoves ==
    ASSUME NEW t \in Thread, NEW label, NEW n \in Node, Moves(t, label, n)
    PROVE  /\ \A u \in Thread \ {t} : KeepsOn(u)
           /\ \A m \in Node : Entering(t, m)' <=> label \in {"queued", "exec"} /\ m = n
           /\ \A m \in Node : Leaving(t, m)' <=> label \in {"out", "join"} /\ m = n
           /\ \A m \in Node : Starting(t, m)' <=> label = "fan" /\ m = n
           /\ rest'[t] = rest[t] => \A m \in Node : m \in Pending(t) => Ending(t, m)'
<1>1. \A u \in Thread \ {t} : KeepsOn(u)
  BY OthersStay DEF Moves
<1>2. rest'[t] = rest[t] => Pending(t)' = Pending(t)
  BY DEF Pending
<1> QED
  BY <1>1, <1>2 DEF Moves, Entering, Leaving, Starting, Ending

LEMMA ExecLeafGoesOn ==
    ASSUME NEW S, NEW D, NEW P, Account(S, D, P), Attended(S, D, P),
           NEW t \in Thread, ExecLeaf(t), NEW n, n = cur[t]
    PROVE  Attended(S, D \union {n}, P)'
<1>1. /\ n \in Node /\ Kind[n] = "leaf" /\ pc[t] = "exec" /\ n \notin D
      /\ KidsOf(n) = {}
  <2>1. n \in Node /\ Kind[n] = "leaf" /\ Entering(t, n) /\ pc[t] = "exec"
    BY AtNode DEF ExecLeaf, Entering, Account, TypeOK
  <2> QED
    BY <2>1, KidsAssumption DEF Account, Positions, EnteringFresh, KidsOf
<1>2. Moves(t, "out", n) /\ rest'[t] = rest[t]
  BY <1>1 DEF ExecLeaf, Goto, Moves, Account, TypeOK, ThreadType
<1>3. engaged' = engaged /\ root' = root /\ counted' = counted
  BY DEF ExecLeaf, storageVars, latchVars, callVars
<1>4. S \subseteq Node /\ D \subseteq Node
  BY StagesAreNodes
<1>5. Covers(t, S, D, P, S, D \union {n}, P)
  BY <1>1, <1>2, <1>3, OneMoves
     DEF Covers, Entering, Leaving, Starting, Counting, Ending
<1> QED
  BY <1>1, <1>2, <1>4, <1>5, OneMoves, AttendedStep

LEMMA ExecSeqGoesOn ==
    ASSUME NEW S, NEW D, NEW P, Account(S, D, P), Attended(S, D, P),
           NEW t \in Thread, ExecSeq(t), NEW k, k = Kids[cur[t]][1]
    PROVE  Attended(S \union {k}, D, P)'
<1> DEFINE n == cur[t]
<1>1. /\ n \in Node /\ Kind[n] = "seq" /\ pc[t] = "exec"
      /\ k \in Node /\ 1 \in DOMAIN Kids[n]
  BY AtNode, ArityFacts, KidFacts DEF ExecSeq, Account, TypeOK
<1>2. Moves(t, "exec", k) /\ rest'[t] = rest[t]
  BY <1>1 DEF ExecSeq, Goto, Moves, Account, TypeOK, ThreadType
<1>3. engaged' = engaged /\ root' = root /\ counted' = counted
  BY DEF ExecSeq, storageVars, latchVars, callVars
<1>4. S \subseteq Node /\ D \subseteq Node
  BY StagesAreNodes
<1>5. Covers(t, S, D, P, S \union {k}, D, P)
  BY <1>1, <1>2, <1>3, OneMoves
     DEF Covers, AtWorkOn, Entering, Leaving, Starting, Counting, Ending
<1> QED
  BY <1>1, <1>2, <1>4, <1>5, OneMoves, AttendedStep

LEMMA ExecSharedGoesOn ==
    ASSUME NEW S, NEW D, NEW P, Account(S, D, P), Attended(S, D, P),
           NEW t \in Thread, ExecShared(t)
    PROVE  Attended(S, D, P)'
<1>0. PICK n : n = cur[t]
  OBVIOUS
<1>1. PICK k : k = Kids[n][1]
  OBVIOUS
<1>2. /\ n \in Node /\ Shared(n) /\ pc[t] = "exec" /\ Entering(t, n)
      /\ 1 \in DOMAIN Kids[n]
  BY <1>0, AtNode, ArityFacts DEF ExecShared, Entering, Account, TypeOK
<1>3. /\ k \in Node \ Roots /\ Parent[k] = n /\ k \in KidsOf(n)
      /\ Position[k] = 1 /\ \A i \in DOMAIN Kids[n] : ~(i < 1)
  BY <1>1, <1>2, KidFacts, ArityFacts DEF KidsOf
<1>4. Moves(t, "fan", k) /\ rest'[t] = rest[t]
  BY <1>0, <1>1, <1>2 DEF ExecShared, Goto, Moves, Account, TypeOK, ThreadType
<1>5. /\ root' = root /\ counted' = counted
      /\ engaged' = [engaged EXCEPT ![n] = TRUE] /\ DOMAIN engaged = Node
  BY <1>0 DEF ExecShared, Construct, latchVars, callVars, Account, TypeOK,
              StorageType
<1>6. k \notin P
  BY <1>2, <1>3 DEF Account, Positions, EnteringFresh, Stages
<1>7. S \subseteq Node /\ D \subseteq Node
  BY StagesAreNodes
<1>8. Covers(t, S, D, P, S, D, P)
  BY <1>2, <1>3, <1>4, <1>5, <1>6, OneMoves
     DEF Covers, AtWorkOn, Entering, Leaving, Starting, Counting, Ending
<1> QED
  BY <1>3, <1>4, <1>7, <1>8, OneMoves, AttendedStep

LEMMA RunInlineGoesOn ==
    ASSUME NEW S, NEW D, NEW P, Account(S, D, P), Attended(S, D, P),
           NEW t \in Thread, RunInline(t), NEW k, k = cur[t]
    PROVE  Attended(S \union {k}, D, P)'
<1> DEFINE n == Parent[k]
<1>1. k \in Node \ Roots /\ pc[t] = "fan" /\ Starting(t, k)
  BY AtNode DEF RunInline, Starting, Account, TypeOK, ThreadType, Place
<1>2. /\ n \in Node /\ DOMAIN Kids[n] = 1 .. Arity(n) /\ Arity(n) \in Nat
      /\ Position[k] = Arity(n) /\ Kids[n][Position[k]] = k
  BY <1>1, ParentFacts, ArityFacts DEF RunInline, IsLast
<1>3. KidsOf(n) \subseteq S \union {k}
  <2>1. ASSUME NEW i \in DOMAIN Kids[n] PROVE Kids[n][i] \in S \union {k}
    <3>1. i < Position[k] \/ i = Position[k]
      BY <1>2
    <3> QED
      BY <1>1, <1>2, <3>1 DEF Attended, Begun
  <2> QED
    BY <2>1 DEF KidsOf
<1>4. \A m \in Node : k \in KidsOf(m) => m = n
  BY KidsAreLarger
<1>5. Moves(t, "exec", k) /\ rest'[t] = rest[t]
  BY <1>1 DEF RunInline, Goto, Moves, Account, TypeOK, ThreadType
<1>6. engaged' = engaged /\ root' = root /\ counted' = counted
  BY DEF RunInline, storageVars, latchVars, callVars
<1>7. S \subseteq Node /\ D \subseteq Node
  BY StagesAreNodes
<1>8. Covers(t, S, D, P, S \union {k}, D, P)
  BY <1>1, <1>3, <1>4, <1>5, <1>6, OneMoves
     DEF Covers, AtWorkOn, Entering, Leaving, Starting, Counting, Ending
<1> QED
  BY <1>1, <1>5, <1>7, <1>8, OneMoves, AttendedStep

LEMMA ScheduleGoesOn ==
    ASSUME NEW S, NEW D, NEW P, Account(S, D, P), Attended(S, D, P),
           NEW t \in Thread, Schedule(t), NEW k, k = cur[t]
    PROVE  Attended(S \union {k}, D, P)'
<1> DEFINE n == Parent[k]
           l == NextKid(k)
<1>1. k \in Node \ Roots /\ pc[t] = "fan" /\ Starting(t, k) /\ ~IsLast(k)
      /\ Shared(n)
  BY AtNode DEF Schedule, Starting, Account, TypeOK, ThreadType, Place
<1>2. /\ n \in Node /\ DOMAIN Kids[n] = 1 .. Arity(n) /\ Arity(n) \in Nat
      /\ Position[k] \in 1 .. Arity(n) /\ Kids[n][Position[k]] = k
      /\ k \in KidsOf(n)
  BY <1>1, ParentFacts, ArityFacts
<1>3. /\ l \in Node /\ Parent[l] = n /\ l \in KidsOf(n)
      /\ Position[l] = Position[k] + 1
  <2>1. Position[k] + 1 \in DOMAIN Kids[n]
    BY <1>1, <1>2 DEF IsLast
  <2>2. l = Kids[n][Position[k] + 1]
    BY DEF NextKid
  <2>3. l \in KidsOf(n)
    BY <2>1, <2>2 DEF KidsOf
  <2> QED
    BY <1>2, <2>1, <2>2, <2>3, KidFacts
<1>4. /\ k \in Task /\ k \in Thread /\ k # t /\ pc[k] = "idle"
      /\ rest[k] = <<>> /\ k \notin S
  <2>1. k \in Task /\ k \in Thread
    BY <1>1 DEF Task, Thread
  <2>2. k \notin S
    <3>1. Position[k] <= Position[k]
      BY <1>2
    <3> QED
      BY <1>1, <1>2, <3>1 DEF Account, Positions, StartingFresh
  <2> QED
    BY <1>1, <2>1, <2>2 DEF Account, Positions, TasksStarted, Tidy
<1>5. /\ pc' = [pc EXCEPT ![k] = "queued"]
      /\ cur' = [cur EXCEPT ![t] = l, ![k] = k] /\ rest' = rest
  BY DEF Schedule
<1>6. pc \in [Thread -> Label] /\ cur \in [Thread -> Node \union {Main}]
  BY DEF Account, TypeOK, ThreadType
<1>7. \A u \in Thread \ {t} : KeepsOn(u)
  <2>1. ASSUME NEW u \in Thread \ {t}, u # k PROVE KeepsOn(u)
    BY <1>5, <1>6, <2>1, OthersStay
  <2>2. KeepsOn(k)
    BY <1>4, <1>5, <1>6
       DEF KeepsOn, Entering, Leaving, Starting, Ending, Pending, Counting
  <2> QED
    BY <2>1, <2>2
<1>8. /\ pc'[t] = "fan" /\ cur'[t] = l /\ Entering(k, k)'
      /\ \A m \in Node : Starting(t, m)' <=> m = l
      /\ \A m \in Node : m \in Pending(t) => Ending(t, m)'
  BY <1>1, <1>4, <1>5, <1>6 DEF Entering, Starting, Ending, Pending
<1>9. \A i \in DOMAIN Kids[n] : i < Position[l] => Kids[n][i] \in S \union {k}
  <2>1. ASSUME NEW i \in DOMAIN Kids[n], i < Position[l]
        PROVE  Kids[n][i] \in S \union {k}
    <3>1. i < Position[k] \/ i = Position[k]
      BY <1>2, <1>3, <2>1
    <3> QED
      BY <1>1, <1>2, <3>1 DEF Attended, Begun
  <2> QED
    BY <2>1
<1>10. \A m \in Node : k \in KidsOf(m) => m = n
  BY KidsAreLarger
<1>11. engaged' = engaged /\ root' = root /\ counted' = counted
  BY DEF Schedule, storageVars, latchVars, callVars
<1>12. S \subseteq Node /\ D \subseteq Node
  BY StagesAreNodes
<1>13. Covers(t, S, D, P, S \union {k}, D, P)
  BY <1>1, <1>3, <1>4, <1>8, <1>9, <1>10, <1>11
     DEF Covers, AtWorkOn, Entering, Leaving, Starting, Counting, Ending
<1> QED
  BY <1>1, <1>7, <1>12, <1>13, AttendedStep

LEMMA StartGoesOn ==
    ASSUME NEW S, NEW D, NEW P, Account(S, D, P), Attended(S, D, P),
           NEW k \in Task, Start(k)
    PROVE  Attended(S, D, P)'
<1>1. k \in Thread /\ k \in Node /\ pc[k] = "queued" /\ cur[k] = k
  BY ThreadFacts DEF Start, Account, TypeOK, ThreadType, Place, Thread
<1>2. Moves(k, "exec", k) /\ rest'[k] = rest[k]
  BY <1>1 DEF Start, Goto, Moves, Account, TypeOK, ThreadType
<1>3. engaged' = engaged /\ root' = root /\ counted' = counted
  BY DEF Start, storageVars, latchVars, callVars
<1>4. S \subseteq Node /\ D \subseteq Node
  BY StagesAreNodes
<1>5. Covers(k, S, D, P, S, D, P)
  BY <1>1, <1>2, <1>3, OneMoves
     DEF Covers, AtWorkOn, Entering, Leaving, Starting, Counting, Ending
<1> QED
  BY <1>1, <1>2, <1>4, <1>5, OneMoves, AttendedStep

LEMMA AllStoreGoesOn ==
    ASSUME NEW S, NEW D, NEW P, Account(S, D, P), Attended(S, D, P),
           NEW t \in Thread, AllStore(t)
    PROVE  Attended(S, D, P)'
<1>0. PICK k : k = cur[t]
  OBVIOUS
<1>1. k \in Node /\ pc[t] = "out" /\ Leaving(t, k)
  BY <1>0, AtNode DEF AllStore, Leaving, Account, TypeOK
<1>2. Moves(t, "join", k) /\ rest'[t] = rest[t]
  BY <1>0, <1>1 DEF AllStore, Goto, Moves, Account, TypeOK, ThreadType
<1>3. engaged' = engaged /\ root' = root /\ counted' = counted
  BY DEF AllStore, storageVars, latchVars, callVars
<1>4. S \subseteq Node /\ D \subseteq Node
  BY StagesAreNodes
<1>5. Covers(t, S, D, P, S, D, P)
  BY <1>1, <1>2, <1>3, OneMoves
     DEF Covers, AtWorkOn, Entering, Leaving, Starting, Counting, Ending
<1> QED
  BY <1>1, <1>2, <1>4, <1>5, OneMoves, AttendedStep

LEMMA SeqFirstGoesOn ==
    ASSUME NEW S, NEW D, NEW P, Account(S, D, P), Attended(S, D, P),
           NEW t \in Thread, SeqFirst(t),
           NEW k, k = cur[t], NEW l, l = Kids[Parent[k]][2]
    PROVE  Attended(S \union {l}, D, P \union {k})'
<1> DEFINE n == Parent[k]
<1>1. k \in Node \ Roots /\ Kind[n] = "seq" /\ pc[t] = "out" /\ Leaving(t, k)
      /\ Position[k] = 1
  BY AtNode DEF SeqFirst, Leaving, Account, TypeOK, ChildOf
<1>2. /\ n \in Node /\ Kids[n][1] = k /\ 1 \in DOMAIN Kids[n]
      /\ 2 \in DOMAIN Kids[n] /\ l \in Node /\ ~Shared(n)
      /\ k \in KidsOf(n) /\ l # k
  BY <1>1, ParentFacts, ArityFacts, KidFacts DEF Shared
<1>3. /\ \A m \in Node : k \in KidsOf(m) => m = n
      /\ \A m \in Node : Kind[m] = "seq" =>
             Kids[m][1] \in KidsOf(m) /\ Kids[m][2] \in KidsOf(m)
      /\ \A m \in Node : engaged[m] => Shared(m)
  <2>1. \A m \in Node : Kind[m] = "seq" =>
            Kids[m][1] \in KidsOf(m) /\ Kids[m][2] \in KidsOf(m)
    BY ArityFacts DEF KidsOf
  <2> QED
    BY <2>1, KidsAreLarger DEF Account, Storages
<1>4. k # root
  BY <1>1 DEF Account, TypeOK, CallType
<1>5. Moves(t, "exec", l) /\ rest'[t] = rest[t]
  BY <1>1 DEF SeqFirst, Goto, Moves, Account, TypeOK, ThreadType
<1>6. engaged' = engaged /\ root' = root /\ counted' = counted
  BY DEF SeqFirst, storageVars, latchVars, callVars
<1>7. S \subseteq Node /\ D \subseteq Node
  BY StagesAreNodes
<1>8. Covers(t, S, D, P, S \union {l}, D, P \union {k})
  <2>1. /\ \A m \in Node : Starting(t, m) <=> FALSE
        /\ \A m \in Node : Starting(t, m)' <=> FALSE
        /\ \A m \in Node : Entering(t, m) <=> FALSE
        /\ \A m \in Node : Entering(t, m)' <=> m = l
        /\ \A m \in Node : Leaving(t, m) <=> m = k
        /\ \A m \in Node : Ending(t, m) => Ending(t, m)'
    BY <1>1, <1>2, <1>5, OneMoves DEF Entering, Leaving, Starting, Ending
  <2>2. ~Counting(t, Main)
    BY <1>1 DEF Counting
  <2>3. \A m \in Node : KidsOf(m) \subseteq P \union {k} =>
            KidsOf(m) \subseteq P \/ m = n
    BY <1>3
  <2>4. AtWorkOn(S \union {l}, l)'
    BY <1>2, <2>1 DEF AtWorkOn
  <2>5. \A m \in Node : engaged'[m] => m # n
    BY <1>2, <1>3, <1>6
  <2>6. \A m \in Node : Kind[m] = "seq" =>
            /\ Kids[m][1] \in {k} => Kids[m][2] \in S \union {l}
            /\ Kids[m][2] \notin {k}
    BY <1>1, <1>2, <1>3
  <2>7. \A m \in Node : Kind[m] = "any" => KidsOf(m) \intersect {k} = {}
    BY <1>1, <1>3
  <2>8. \A m \in (S \union {l}) \ D :
            m \notin S \/ Entering(t, m) \/ (engaged[m] /\ ~engaged'[m])
            => AtWorkOn(S \union {l}, m)'
    BY <1>2, <1>6, <1>7, <2>1, <2>4
  <2>9. \A m \in Node :
            /\ engaged'[m] /\ KidsOf(m) \subseteq P \union {k}
            /\ ~engaged[m] \/ ~(KidsOf(m) \subseteq P) \/ Ending(t, m)
            => Ending(t, m)'
    BY <1>6, <2>1, <2>3, <2>5
  <2>10. \A m \in D \ (P \union {k}) :
             m \notin D \/ Leaving(t, m) => Leaving(t, m)'
    BY <1>7, <2>1
  <2>11. \A m : ~Starting(t, m)
    BY <1>1 DEF Starting
  <2> QED
    BY <1>4, <1>6, <2>1, <2>2, <2>6, <2>7, <2>8, <2>9, <2>10, <2>11 DEF Covers
<1> QED
  BY <1>2, <1>5, <1>7, <1>8, OneMoves, AttendedStep

LEMMA SeqSecondGoesOn ==
    ASSUME NEW S, NEW D, NEW P, Account(S, D, P), Attended(S, D, P),
           NEW t \in Thread, SeqSecond(t),
           NEW k, k = cur[t], NEW n, n = Parent[k]
    PROVE  Attended(S, D \union {n}, P \union {k})'
<1>1. k \in Node \ Roots /\ Kind[n] = "seq" /\ pc[t] = "out" /\ Leaving(t, k)
      /\ Position[k] = 2
  BY AtNode DEF SeqSecond, Leaving, Account, TypeOK, ChildOf
<1>2. /\ n \in Node /\ Kids[n][2] = k /\ k \in KidsOf(n) /\ ~Shared(n)
      /\ Kids[n][1] # k
  BY <1>1, ParentFacts, ArityFacts, KidFacts DEF Shared
<1>3. /\ \A m \in Node : k \in KidsOf(m) => m = n
      /\ \A m \in Node : Kind[m] = "seq" =>
             Kids[m][1] \in KidsOf(m) /\ Kids[m][2] \in KidsOf(m)
      /\ \A m \in Node : engaged[m] => Shared(m)
  <2>1. \A m \in Node : Kind[m] = "seq" =>
            Kids[m][1] \in KidsOf(m) /\ Kids[m][2] \in KidsOf(m)
    BY ArityFacts DEF KidsOf
  <2> QED
    BY <2>1, KidsAreLarger DEF Account, Storages
<1>4. k # root
  BY <1>1 DEF Account, TypeOK, CallType
<1>5. Moves(t, "out", n) /\ rest'[t] = rest[t]
  BY <1>1 DEF SeqSecond, Goto, Moves, Account, TypeOK, ThreadType
<1>6. engaged' = engaged /\ root' = root /\ counted' = counted
  BY DEF SeqSecond, storageVars, latchVars, callVars
<1>7. S \subseteq Node /\ D \subseteq Node
  BY StagesAreNodes
<1>8. Covers(t, S, D, P, S, D \union {n}, P \union {k})
  BY <1>1, <1>2, <1>3, <1>4, <1>5, <1>6, OneMoves
     DEF Covers, AtWorkOn, Entering, Leaving, Starting, Counting, Ending, Shared
<1> QED
  BY <1>2, <1>5, <1>7, <1>8, OneMoves, AttendedStep

LEMMA DeliverGoesOn ==
    ASSUME NEW S, NEW D, NEW P, Account(S, D, P), Attended(S, D, P),
           NEW t \in Thread, Deliver(t), NEW k, k = cur[t]
    PROVE  Attended(S, D, P \union {k})'
<1>1. k \in Node /\ k \in Roots /\ pc[t] = "out" /\ Leaving(t, k)
  BY AtNode DEF Deliver, Leaving, Account, TypeOK
<1>2. k = root /\ \A m \in Node : k \notin KidsOf(m)
  BY <1>1, LeavingFacts DEF Roots
<1>3. \A m \in Node : Kind[m] = "seq" =>
          Kids[m][1] \in KidsOf(m) /\ Kids[m][2] \in KidsOf(m)
  BY ArityFacts DEF KidsOf
<1>4. /\ pc'[t] = "count" /\ cur'[t] = Main /\ rest' = rest
      /\ \A u \in Thread \ {t} : KeepsOn(u)
  BY OthersStay DEF Deliver, Goto, Account, TypeOK, ThreadType
<1>5. /\ Counting(t, Main)' /\ \A m : ~Starting(t, m)'
      /\ \A m \in Node : m \in Pending(t) => Ending(t, m)'
  BY <1>4 DEF Counting, Starting, Ending, Pending
<1>6. engaged' = engaged /\ root' = root /\ counted' = counted
  BY DEF Deliver, storageVars, latchVars
<1>7. S \subseteq Node /\ D \subseteq Node
  BY StagesAreNodes
<1>8. Covers(t, S, D, P, S, D, P \union {k})
  BY <1>1, <1>2, <1>3, <1>5, <1>6
     DEF Covers, Entering, Leaving, Starting, Counting, Ending
<1> QED
  BY <1>4, <1>7, <1>8, AttendedStep

\* A thread that is through goes on with what it has to return to.
LEMMA UnwindGoesOn ==
    ASSUME TypeOK, Alone, NEW t \in Thread, NEW known, Unwind(t, known)
    PROVE  /\ \A u \in Thread \ {t} : KeepsOn(u)
           /\ pc'[t] \in {"last", "wait", "idle"}
           /\ \A m \in Node : m \in Pending(t) => Ending(t, m)'
<1>1. Unwound(t, known)
  BY UnwindFacts
<1>2. \A u \in Thread \ {t} : KeepsOn(u)
  BY <1>1, OthersStay DEF Unwound
<1>3. ASSUME NEW m \in Node, m \in Pending(t) PROVE Ending(t, m)'
  <2>1. rest[t] \in Seq(Only) /\ rest[t] # <<>>
    BY <1>3 DEF TypeOK, ThreadType, Pending
  <2>2. {Tail(rest[t])[i] : i \in DOMAIN Tail(rest[t])}
        = Pending(t) \ {Head(rest[t])}
    BY <2>1, HeadAndTail DEF Alone, Pending
  <2>3. pc'[t] = "last" /\ cur'[t] = Head(rest[t]) /\ rest'[t] = Tail(rest[t])
    BY <2>1 DEF Unwind, Goto, TypeOK, ThreadType
  <2>4. Pending(t)' = Pending(t) \ {Head(rest[t])}
    BY <2>2, <2>3 DEF Pending
  <2> QED
    BY <1>3, <2>3, <2>4 DEF Ending
<1> QED
  BY <1>1, <1>2, <1>3 DEF Unwound

\* Thread t, on its way out of child k of n, has subtracted it from the counter
\* of n, and goes on to what that makes it.
Joins(D, D2, t, k, n) ==
    /\ Leaving(t, k) /\ pc[t] \in {"out", "join"}
    /\ k \in Node \ Roots /\ n = Parent[k] /\ Shared(n)
    /\ engaged' = engaged /\ counted' = counted /\ root' = root
    /\ \A u \in Thread \ {t} : KeepsOn(u)
    /\ \/ /\ D2 = D /\ pc'[t] \in {"last", "wait", "idle"}
          /\ Kind[n] = "any" => left[n] # Arity(n)
       \/ D2 = D \union {n} /\ pc'[t] = "out" /\ cur'[t] = n /\ Kind[n] = "any"
    /\ \A m \in Node : m \in Pending(t) => Ending(t, m)'
    /\ left[n] = 1 => Ending(t, n)'

LEMMA JoiningGoesOn ==
    ASSUME NEW S, NEW D, NEW P, Account(S, D, P), Attended(S, D, P), NEW D2,
           NEW t \in Thread, NEW k, NEW n, Joins(D, D2, t, k, n)
    PROVE  Attended(S, D2, P \union {k})'
<1>1. /\ k \in Node \ Roots /\ n = Parent[k] /\ n \in Node /\ Leaving(t, k)
      /\ k \in KidsOf(n) /\ Shared(n) /\ pc[t] \in {"out", "join"}
      /\ \A m \in Node : k \in KidsOf(m) => m = n
  BY ParentFacts, KidsAreLarger DEF Joins
<1>2. engaged[n] /\ k \notin P /\ k # root
  BY <1>1, LeavingFacts
<1>3. left[n] = Cardinality(KidsOf(n) \ P)
  BY <1>1, <1>2 DEF Account, Storages
<1>4. KidsOf(n) \subseteq P \union {k} => left[n] = 1
  <2>1. ASSUME KidsOf(n) \subseteq P \union {k} PROVE KidsOf(n) \ P = {k}
    BY <1>1, <1>2, <2>1
  <2> QED
    BY <1>3, <2>1, FS_Singleton
<1>5. Kind[n] = "any" /\ left[n] # Arity(n) => n \in D
  <2>1. ASSUME KidsOf(n) \intersect P = {} PROVE left[n] = Arity(n)
    <3>1. KidsOf(n) \ P = KidsOf(n)
      BY <2>1
    <3> QED
      BY <1>1, <1>3, <3>1, KidsCount
  <2> QED
    BY <1>1, <2>1 DEF Attended, Decided
<1>6. /\ n \in D2 \/ Kind[n] # "any"
      /\ D \subseteq D2 /\ D2 \subseteq D \union {n}
      /\ Kind[n] # "any" => D2 = D
      /\ D2 # D => Leaving(t, n)'
      /\ \A m : ~Starting(t, m)'
  BY <1>5 DEF Joins, Leaving, Starting
<1>7. \A m \in Node : Kind[m] = "seq" =>
          Kids[m][1] \in KidsOf(m) /\ Kids[m][2] \in KidsOf(m) /\ m # n
  BY <1>1, ArityFacts DEF KidsOf, Shared
<1>8. S \subseteq Node /\ D2 \subseteq Node
  BY <1>1, <1>6, StagesAreNodes
<1>9. \A m \in Node : Ending(t, m) => m \in Pending(t)
  BY <1>1 DEF Ending
<1>10. engaged' = engaged /\ root' = root /\ counted' = counted
  BY DEF Joins
<1>11. \A m \in Node : KidsOf(m) \subseteq P \union {k} /\ ~(KidsOf(m) \subseteq P)
                       => m = n
  BY <1>1
<1>12. \A m \in D2 : m \notin D \/ m = k \/ m \in P \/ ~Leaving(t, m)
  BY <1>1 DEF Leaving
<1>13. \A m \in Node : m \in Pending(t) \/ (m = n /\ left[n] = 1) => Ending(t, m)'
  BY <1>1 DEF Joins
<1>14. ~Counting(t, Main) /\ \A m : ~Entering(t, m) /\ ~Starting(t, m)
  BY <1>1 DEF Entering, Starting, Counting
<1>15. Covers(t, S, D, P, S, D2, P \union {k})
  <2> DEFINE P2 == P \union {k}
  <2>1. \A m \in D2 \ P2 : m \notin D \/ Leaving(t, m) => Leaving(t, m)'
    BY <1>6, <1>12
  <2>2. \A m \in Node : Kind[m] = "seq" =>
            Kids[m][1] \notin P2 \ P /\ Kids[m][2] \notin P2 \ P
    BY <1>1, <1>7
  <2>3. \A m \in Node : Kind[m] = "any" =>
            /\ m \in D2 \ D => KidsOf(m) \intersect P2 # {}
            /\ KidsOf(m) \intersect (P2 \ P) # {} => m \in D2
    BY <1>1, <1>6
  <2>4. \A m \in Node :
            /\ engaged'[m] /\ KidsOf(m) \subseteq P2
            /\ ~engaged[m] \/ ~(KidsOf(m) \subseteq P) \/ Ending(t, m)
            => Ending(t, m)'
    BY <1>4, <1>9, <1>10, <1>11, <1>13
  <2> QED
    BY <1>2, <1>6, <1>8, <1>10, <1>14, <2>1, <2>2, <2>3, <2>4 DEF Covers
<1> QED
  BY <1>8, <1>15, AttendedStep DEF Joins

LEMMA AllJoinGoesOn ==
    ASSUME NEW S, NEW D, NEW P, Account(S, D, P), Attended(S, D, P),
           NEW t \in Thread, AllJoin(t) \/ AnyLose(t), NEW k, k = cur[t]
    PROVE  Attended(S, D, P \union {k})'
<1>0. PICK n : n = Parent[k]
  OBVIOUS
<1>1. /\ k \in Node
      /\ pc[t] = "join" \/ (pc[t] = "out" /\ ChildOf(k, "any"))
      /\ pc[t] = "join" => AllJoin(t)
  BY AtNode DEF AllJoin, AnyLose, Account, TypeOK
<1>2. /\ Leaving(t, k) /\ k \in Node \ Roots /\ Shared(n)
      /\ pc[t] = "join" => Kind[n] = "all"
  BY <1>0, <1>1, AtParent
<1>3. /\ FetchSub(t, n) /\ Unwind(t, Acquire(t, n)) /\ left[n] # 1
      /\ Kind[n] = "any" => left[n] # Arity(n)
  BY <1>0, <1>1, <1>2 DEF AllJoin, AnyLose
<1>4. PICK known : known = Acquire(t, n)
  OBVIOUS
<1>5. TypeOK /\ Alone
  BY DEF Account
<1>6. Joins(D, D, t, k, n)
  BY <1>0, <1>1, <1>2, <1>3, <1>4, <1>5, UnwindGoesOn
     DEF Joins, FetchSub, latchVars, callVars
<1> QED
  BY <1>6, JoiningGoesOn

LEMMA AllLastGoesOn ==
    ASSUME NEW S, NEW D, NEW P, Account(S, D, P), Attended(S, D, P),
           NEW t \in Thread, AllLast(t) \/ AnyLast(t), NEW k, k = cur[t]
    PROVE  Attended(S, D, P \union {k})'
<1>0. PICK n : n = Parent[k]
  OBVIOUS
<1>1. /\ k \in Node
      /\ pc[t] = "join" \/ (pc[t] = "out" /\ ChildOf(k, "any"))
      /\ pc[t] = "join" => AllLast(t)
  BY AtNode DEF AllLast, AnyLast, Account, TypeOK
<1>2. /\ Leaving(t, k) /\ k \in Node \ Roots /\ Shared(n) /\ n \in Node
      /\ pc[t] = "join" => Kind[n] = "all"
  BY <1>0, <1>1, AtParent
<1>3. /\ FetchSub(t, n)
      /\ Kind[n] = "any" => left[n] # Arity(n)
  BY <1>0, <1>1, <1>2 DEF AllLast, AnyLast
<1>4. Moves(t, "last", n) /\ rest'[t] = rest[t]
  BY <1>0 DEF AllLast, AnyLast, Goto, Moves, Account, TypeOK, ThreadType
<1>5. Joins(D, D, t, k, n)
  BY <1>0, <1>1, <1>2, <1>3, <1>4, OneMoves
     DEF Joins, Ending, Moves, FetchSub, latchVars, callVars
<1> QED
  BY <1>5, JoiningGoesOn

LEMMA AnyFirstGoesOn ==
    ASSUME NEW S, NEW D, NEW P, Account(S, D, P), Attended(S, D, P),
           NEW t \in Thread, AnyFirst(t),
           NEW k, k = cur[t], NEW n, n = Parent[k]
    PROVE  Attended(S, D \union {n}, P \union {k})'
<1>1. k \in Node /\ pc[t] = "out" /\ ChildOf(k, "any")
  BY AtNode DEF AnyFirst, Account, TypeOK
<1>2. /\ Leaving(t, k) /\ k \in Node \ Roots /\ Shared(n) /\ n \in Node
      /\ Kind[n] = "any"
  BY <1>1, AtParent
<1>3. /\ FetchSub(t, n)
      /\ rest'[t] = IF left[n] = 1 THEN <<n>> \o rest[t] ELSE rest[t]
      /\ pc'[t] = "out" /\ cur'[t] = n /\ rest[t] \in Seq(Only)
      /\ \A u \in Thread \ {t} : KeepsOn(u)
  BY OthersStay DEF AnyFirst, Goto, Account, TypeOK, ThreadType
<1>4. /\ \A m \in Node : m \in Pending(t) => Ending(t, m)'
      /\ left[n] = 1 => Ending(t, n)'
  <2>1. CASE left[n] = 1
    <3>1. PICK s \in Seq(Node) : s = rest[t]
      BY <1>3 DEF Only
    <3>2. /\ rest'[t][1] = n /\ 1 \in DOMAIN rest'[t]
          /\ \A i \in DOMAIN s : i + 1 \in DOMAIN rest'[t] /\ rest'[t][i + 1] = s[i]
      BY <1>2, <1>3, <2>1, <3>1
    <3> QED
      BY <3>1, <3>2 DEF Pending, Ending
  <2>2. CASE left[n] # 1
    BY <1>3, <2>2 DEF Pending, Ending
  <2> QED
    BY <2>1, <2>2
<1>5. Joins(D, D \union {n}, t, k, n)
  BY <1>1, <1>2, <1>3, <1>4 DEF Joins, FetchSub, latchVars, callVars
<1> QED
  BY <1>5, JoiningGoesOn

LEMMA AllFinishGoesOn ==
    ASSUME NEW S, NEW D, NEW P, Account(S, D, P), Attended(S, D, P),
           NEW t \in Thread, AllFinish(t), NEW n, n = cur[t]
    PROVE  Attended(S, D \union {n}, P)'
<1>1. n \in Node /\ Kind[n] = "all" /\ pc[t] = "last"
  BY AtNode DEF AllFinish, Account, TypeOK
<1>2. Moves(t, "out", n) /\ rest'[t] = rest[t]
  BY <1>1 DEF AllFinish, Goto, Moves, Account, TypeOK, ThreadType
<1>3. /\ engaged' = [engaged EXCEPT ![n] = FALSE] /\ DOMAIN engaged = Node
      /\ root' = root /\ counted' = counted
  BY DEF AllFinish, Destroy, latchVars, callVars, Account, TypeOK, StorageType
<1>4. S \subseteq Node /\ D \subseteq Node
  BY StagesAreNodes
<1>5. Covers(t, S, D, P, S, D \union {n}, P)
  BY <1>1, <1>2, <1>3, OneMoves
     DEF Covers, Entering, Leaving, Starting, Counting, Ending
<1> QED
  BY <1>1, <1>2, <1>4, <1>5, OneMoves, AttendedStep

LEMMA AnyFinishGoesOn ==
    ASSUME NEW S, NEW D, NEW P, Account(S, D, P), Attended(S, D, P),
           NEW t \in Thread, AnyFinish(t)
    PROVE  Attended(S, D, P)'
<1>0. PICK n : n = cur[t]
  OBVIOUS
<1>1. n \in Node /\ Kind[n] = "any" /\ pc[t] = "last" /\ Ending(t, n)
  BY <1>0, AtNode DEF AnyFinish, Ending, Account, TypeOK
<1>2. n \in D
  <2>1. KidsOf(n) \subseteq P
    BY <1>1 DEF Account, Positions, EndingOver
  <2>2. Kids[n][1] \in KidsOf(n)
    BY <1>1, ArityFacts DEF Shared, KidsOf
  <2> QED
    BY <1>1, <2>1, <2>2 DEF Attended, Decided
<1>3. /\ pc'[t] = "count" /\ rest' = rest
      /\ \A u \in Thread \ {t} : KeepsOn(u)
  BY OthersStay DEF AnyFinish, Goto, Account, TypeOK, ThreadType
<1>4. \A m \in Node : m \in Pending(t) => Ending(t, m)'
  BY <1>3 DEF Pending, Ending
<1>5. /\ engaged' = [engaged EXCEPT ![n] = FALSE] /\ DOMAIN engaged = Node
      /\ root' = root /\ counted' = counted
  BY <1>0 DEF AnyFinish, Destroy, latchVars, callVars, Account, TypeOK,
              StorageType
<1>6. S \subseteq Node /\ D \subseteq Node
  BY StagesAreNodes
<1>7. Covers(t, S, D, P, S, D, P)
  BY <1>0, <1>1, <1>2, <1>3, <1>4, <1>5
     DEF Covers, Entering, Leaving, Starting, Counting, Ending
<1> QED
  BY <1>3, <1>6, <1>7, AttendedStep

LEMMA CountDownGoesOn ==
    ASSUME NEW S, NEW D, NEW P, Account(S, D, P), Attended(S, D, P),
           NEW t \in Thread, CountDown(t)
    PROVE  Attended(S, D, P)'
<1>1. /\ pc[t] = "count" /\ engaged' = engaged /\ root' = root
      /\ counted' = counted \union seen[t]
      /\ Unwind(t, seen[t] \union counted)
  BY DEF CountDown, storageVars, callVars
<1>2. Counting(t, Main) => root \in seen[t]
  BY DEF Account, Positions, CountingOutput
<1>3. TypeOK /\ Alone
  BY DEF Account
<1>4. PICK known : known = seen[t] \union counted
  OBVIOUS
<1>5. /\ \A u \in Thread \ {t} : KeepsOn(u)
      /\ pc'[t] \in {"last", "wait", "idle"}
      /\ \A m \in Node : m \in Pending(t) => Ending(t, m)'
  BY <1>1, <1>3, <1>4, UnwindGoesOn
<1>6. S \subseteq Node /\ D \subseteq Node
  BY StagesAreNodes
<1>7. Covers(t, S, D, P, S, D, P)
  BY <1>1, <1>2, <1>5 DEF Covers, Entering, Leaving, Starting, Ending
<1> QED
  BY <1>5, <1>6, <1>7, AttendedStep

LEMMA RestGoesOn ==
    ASSUME NEW S, NEW D, NEW P, Account(S, D, P), Attended(S, D, P),
           Return \/ UNCHANGED vars
    PROVE  Attended(S, D, P)'
<1>1. /\ engaged' = engaged /\ counted' = counted /\ rest' = rest
      /\ root' = root
  BY DEF Return, vars, threadVars, storageVars, latchVars, callVars
<1>2. \A u \in Thread \ {Main} : pc'[u] = pc[u] /\ cur'[u] = cur[u]
  BY DEF Return, Goto, Account, TypeOK, ThreadType, vars, threadVars
<1>3. \/ pc'[Main] = pc[Main] /\ cur'[Main] = cur[Main]
      \/ pc[Main] = "wait" /\ pc'[Main] = "idle"
  BY ThreadFacts DEF Return, Goto, Account, TypeOK, ThreadType, vars, threadVars
<1>4. \A u \in Thread : KeepsOn(u)
  <2>1. CASE pc'[Main] = pc[Main] /\ cur'[Main] = cur[Main]
    BY <1>1, <1>2, <2>1, OthersStay
  <2>2. CASE pc[Main] = "wait" /\ pc'[Main] = "idle"
    <3>1. KeepsOn(Main)
      BY <1>1, <2>2
         DEF KeepsOn, Entering, Leaving, Starting, Ending, Pending, Counting
    <3> QED
      BY <1>1, <1>2, <3>1, OthersStay
  <2> QED
    BY <1>3, <2>1, <2>2
<1>5. S \subseteq Node /\ D \subseteq Node /\ Main \in Thread
  BY StagesAreNodes, ThreadFacts
<1>6. Covers(Main, S, D, P, S, D, P)
  <2>1. \A n \in D \ P : Leaving(Main, n) => Leaving(Main, n)'
    BY <1>4, <1>5 DEF KeepsOn
  <2>2. \A n \in S \ D : Entering(Main, n) => AtWorkOn(S, n)'
    BY <1>4, <1>5 DEF KeepsOn, AtWorkOn
  <2>3. \A k \in Node : Starting(Main, k) <=> Starting(Main, k)'
    BY <1>4, <1>5 DEF KeepsOn
  <2>4. \A n \in Node : KidsOf(n) \subseteq Node
    BY KidsAreLarger
  <2>5. \A n \in Node : Ending(Main, n) => Ending(Main, n)'
    BY <1>4, <1>5 DEF KeepsOn
  <2>6. Counting(Main, Main) => Counting(Main, Main)'
    BY <1>4, <1>5 DEF KeepsOn
  <2>7. Begun(S)
    BY DEF Attended
  <2> QED
    BY <1>1, <1>5, <2>1, <2>2, <2>3, <2>4, <2>5, <2>6, <2>7 DEF Covers, Begun
<1> QED
  BY <1>4, <1>5, <1>6, AttendedStep

LEMMA CallGoesOn ==
    ASSUME Inv, NEW r \in Roots, Call(r)
    PROVE  Attended({r}, {}, {})'
<1>1. pc[Main] = "idle"
  BY DEF Call
<1>2. /\ TypeOK
      /\ \A t \in Thread : pc[t] = "idle" /\ rest[t] = <<>>
      /\ \A n \in Node : ~engaged[n]
  BY <1>1, CallerIdle
<1>3. /\ pc'[Main] = "exec" /\ cur'[Main] = r /\ Main \in Thread
      /\ \A t \in Thread : pc'[t] \in {"idle", "exec"}
      /\ \A n \in Node : ~engaged'[n]
  BY <1>2, ThreadFacts DEF Call, Goto, TypeOK, ThreadType, storageVars
<1>4. Entering(Main, r)' /\ \A t \in Thread : \A k : ~Starting(t, k)'
  BY <1>3 DEF Entering, Starting
<1>5. \A n \in Node : Kind[n] = "seq" => Kids[n][1] \in KidsOf(n)
  BY ArityFacts DEF KidsOf
<1>6. Main' = Main /\ Thread' = Thread
  BY DEF Main, Thread, Task
<1>7. Pursued({r}, {})'
  BY <1>3, <1>4, <1>6 DEF Pursued, AtWorkOn
<1>8. Begun({r})' /\ Ended({})' /\ Carried({}, {})'
  BY <1>3, <1>4, <1>6 DEF Begun, Ended, Carried
<1>9. Sequenced({r}, {}, {})' /\ Decided({}, {})' /\ Delivered({})'
  BY DEF Sequenced, Decided, Delivered
<1> QED
  BY <1>7, <1>8, <1>9 DEF Attended

-----------------------------------------------------------------------------
\* The invariant.

LEMMA AttendedAccounted ==
    ASSUME NEW S, NEW D, NEW P, Account(S, D, P)', Attended(S, D, P)'
    PROVE  AttendedInv'
<1>1. root' \in Node /\ S \subseteq Tree[root'] /\ D \subseteq S /\ P \subseteq D
  BY DEF Account, Stages, TypeOK, CallType, Roots
<1>2. S \in SUBSET Node /\ D \in SUBSET Node /\ P \in SUBSET Node
  BY <1>1, TreeSelf
<1> QED
  BY <1>2 DEF AttendedInv

LEMMA AttendedIsInv == AttendedInv => Inv
  BY DEF AttendedInv, Inv

LEMMA ExecuteGoesOn ==
    ASSUME NEW S, NEW D, NEW P, Account(S, D, P), Attended(S, D, P), TypeOK',
           NEW t \in Thread, Execute(t) \/ Fan(t)
    PROVE  AttendedInv'
<1>1. PICK k : k = cur[t]
  OBVIOUS
<1>2. PICK l : l = Kids[cur[t]][1]
  OBVIOUS
<1>3. PICK n : n = Kids[k][1]
  OBVIOUS
<1>4. ASSUME ExecLeaf(t) PROVE AttendedInv'
  <2>1. Account(S, D \union {k}, P)' /\ Attended(S, D \union {k}, P)'
    BY <1>1, <1>4, ExecLeafKeeps, ExecLeafGoesOn
  <2> QED
    BY <2>1, AttendedAccounted
<1>5. ASSUME ExecSeq(t) PROVE AttendedInv'
  <2>1. Account(S \union {l}, D, P)' /\ Attended(S \union {l}, D, P)'
    BY <1>2, <1>5, ExecSeqKeeps, ExecSeqGoesOn
  <2> QED
    BY <2>1, AttendedAccounted
<1>6. ASSUME ExecShared(t) PROVE AttendedInv'
  <2>1. Account(S, D, P)' /\ Attended(S, D, P)'
    BY <1>1, <1>3, <1>6, ExecSharedKeeps, ExecSharedGoesOn
  <2> QED
    BY <2>1, AttendedAccounted
<1>7. ASSUME Schedule(t) \/ RunInline(t) PROVE AttendedInv'
  <2>1. Account(S \union {k}, D, P)' /\ Attended(S \union {k}, D, P)'
    BY <1>1, <1>7, ScheduleKeeps, ScheduleGoesOn, RunInlineKeeps, RunInlineGoesOn
  <2> QED
    BY <2>1, AttendedAccounted
<1> QED
  BY <1>4, <1>5, <1>6, <1>7 DEF Execute, Fan

LEMMA ContinueGoesOn ==
    ASSUME NEW S, NEW D, NEW P, Account(S, D, P), Attended(S, D, P), TypeOK',
           NEW t \in Thread, Continue(t)
    PROVE  AttendedInv'
<1>1. PICK k : k = cur[t]
  OBVIOUS
<1>2. PICK n : n = Parent[k]
  OBVIOUS
<1>3. PICK l : l = Kids[Parent[k]][2]
  OBVIOUS
<1>4. ASSUME SeqFirst(t) PROVE AttendedInv'
  <2>1. /\ Account(S \union {l}, D, P \union {k})'
        /\ Attended(S \union {l}, D, P \union {k})'
    BY <1>1, <1>3, <1>4, SeqFirstKeeps, SeqFirstGoesOn
  <2> QED
    BY <2>1, AttendedAccounted
<1>5. ASSUME SeqSecond(t) \/ AnyFirst(t) PROVE AttendedInv'
  <2>1. /\ Account(S, D \union {n}, P \union {k})'
        /\ Attended(S, D \union {n}, P \union {k})'
    BY <1>1, <1>2, <1>5, SeqSecondKeeps, SeqSecondGoesOn, AnyFirstKeeps,
       AnyFirstGoesOn
  <2> QED
    BY <2>1, AttendedAccounted
<1>6. ASSUME Deliver(t) PROVE AttendedInv'
  <2>1. Account(S, D, P \union {k})' /\ Attended(S, D, P \union {k})'
    BY <1>1, <1>6, DeliverKeeps, DeliverGoesOn
  <2> QED
    BY <2>1, AttendedAccounted
<1>7. ASSUME AllJoin(t) \/ AnyLose(t) \/ AllLast(t) \/ AnyLast(t)
      PROVE  AttendedInv'
  <2>1. Account(S, D, P \union {k})'
    BY <1>1, <1>7, AllJoinKeeps, AllLastKeeps, AnyLoseKeeps, AnyLastKeeps
  <2>2. Attended(S, D, P \union {k})'
    BY <1>1, <1>7, AllJoinGoesOn, AllLastGoesOn
  <2> QED
    BY <2>1, <2>2, AttendedAccounted
<1>8. ASSUME AllFinish(t) PROVE AttendedInv'
  <2>1. Account(S, D \union {k}, P)' /\ Attended(S, D \union {k}, P)'
    BY <1>1, <1>8, AllFinishKeeps, AllFinishGoesOn
  <2> QED
    BY <2>1, AttendedAccounted
<1>9. ASSUME AllStore(t) \/ AnyFinish(t) \/ CountDown(t) PROVE AttendedInv'
  <2>1. Account(S, D, P)'
    BY <1>1, <1>9, AllStoreKeeps, AnyFinishKeeps, CountDownKeeps
  <2>2. Attended(S, D, P)'
    BY <1>9, AllStoreGoesOn, AnyFinishGoesOn, CountDownGoesOn
  <2> QED
    BY <2>1, <2>2, AttendedAccounted
<1> QED
  BY <1>4, <1>5, <1>6, <1>7, <1>8, <1>9 DEF Continue

LEMMA StepKeepsAttendedInv ==
    ASSUME AttendedInv, [Next]_vars
    PROVE  AttendedInv'
<1>1. Inv /\ Inv'
  BY AttendedIsInv, StepKeepsInv
<1>2. TypeOK'
  BY <1>1 DEF Inv, Unused, Account
<1>3. ASSUME NEW r \in Roots, Call(r) PROVE AttendedInv'
  <2>1. Account({r}, {}, {})' /\ Attended({r}, {}, {})'
    BY <1>1, <1>2, <1>3, CallKeeps, CallGoesOn
  <2> QED
    BY <2>1, AttendedAccounted
<1>4. CASE Unused
  <2>1. ASSUME UNCHANGED vars PROVE AttendedInv'
    <3>1. calls' = 0
      BY <1>4, <2>1 DEF Unused, vars, callVars
    <3> QED
      BY <1>1, <3>1 DEF Inv, Account, AttendedInv
  <2> QED
    BY <1>3, <1>4, <2>1, UnusedWaits
<1>5. CASE ~Unused
  <2>1. PICK S, D, P \in SUBSET Node : Account(S, D, P) /\ Attended(S, D, P)
    BY <1>5 DEF AttendedInv
  <2>2. ASSUME NEW t \in Thread, Step(t) PROVE AttendedInv'
    BY <1>2, <2>1, <2>2, ExecuteGoesOn, ContinueGoesOn DEF Step
  <2>3. ASSUME NEW k \in Task, Start(k) PROVE AttendedInv'
    <3>1. Account(S, D, P)' /\ Attended(S, D, P)'
      BY <1>2, <2>1, <2>3, StartKeeps, StartGoesOn
    <3> QED
      BY <3>1, AttendedAccounted
  <2>4. ASSUME Return \/ Terminating \/ UNCHANGED vars PROVE AttendedInv'
    <3>1. Return \/ UNCHANGED vars
      BY <2>4 DEF Terminating
    <3>2. Account(S, D, P)' /\ Attended(S, D, P)'
      BY <1>2, <2>1, <3>1, RestKeeps, RestGoesOn
    <3> QED
      BY <3>2, AttendedAccounted
  <2> QED
    BY <1>3, <2>2, <2>3, <2>4 DEF Next
<1> QED
  BY <1>4, <1>5

LEMMA InitAttendedInv == Init => AttendedInv
<1> SUFFICES ASSUME Init PROVE AttendedInv
  OBVIOUS
<1>1. Inv /\ calls = 0
  BY InitInv DEF Init
<1> QED
  BY <1>1 DEF Inv, Account, AttendedInv

-----------------------------------------------------------------------------
\* If no thread is at work, nothing is left to do: every node that was started
\* is done and passed on, from the leaves up, ...
LEMMA AllPassedOn ==
    ASSUME NEW S, NEW D, NEW P, Account(S, D, P), Attended(S, D, P),
           \A t \in Thread : pc[t] \in {"idle", "wait"}
    PROVE  S \subseteq P /\ \A n \in Node : ~engaged[n]
<1>1. \A t \in Thread : \A n :
          /\ ~Entering(t, n) /\ ~Leaving(t, n) /\ ~Starting(t, n)
          /\ ~Ending(t, n) /\ ~Counting(t, n)
  BY DEF Account, Tidy, Entering, Leaving, Starting, Ending, Pending, Counting
<1>2. D \subseteq P
  BY <1>1 DEF Attended, Carried
<1>3. S \subseteq Node /\ S \in SUBSET Nat
  BY StagesAreNodes, NodeBound
<1>4. PICK b \in Nat : \A n \in Node : n < b
  BY NodeBound
<1>5. \A n \in Node : engaged[n] => KidsOf(n) \subseteq S /\ ~(KidsOf(n) \subseteq P)
  BY <1>1 DEF Attended, Begun, Ended
<1>6. ASSUME NEW n \in S, \A k \in S : n < k => k \in P
      PROVE  n \in P
  <2>1. SUFFICES ASSUME n \notin D PROVE FALSE
    BY <1>2
  <2>2. \A k \in KidsOf(n) : n < k
    BY <1>3, KidsAreLarger
  <2>3. CASE Kind[n] = "seq" /\ Kids[n][1] \in S
    <3>1. Kids[n][1] \in KidsOf(n) /\ Kids[n][2] \in KidsOf(n)
      BY <1>3, <2>3, ArityFacts DEF KidsOf
    <3> QED
      BY <1>3, <1>6, <2>1, <2>2, <2>3, <3>1 DEF Attended, Sequenced
  <2>4. CASE engaged[n]
    BY <1>3, <1>5, <1>6, <2>2, <2>4
  <2> QED
    BY <1>1, <2>1, <2>3, <2>4 DEF Attended, Pursued, AtWorkOn
<1>7. S \subseteq P
  BY <1>3, <1>4, <1>6, Descending
<1> QED
  BY <1>5, <1>7

\* ... so that the latch is open.
LEMMA NothingLeft ==
    ASSUME NEW S, NEW D, NEW P, Account(S, D, P), Attended(S, D, P),
           \A t \in Thread : pc[t] \in {"idle", "wait"}
    PROVE  ctr = 0
<1>1. S \subseteq P /\ \A n \in Node : ~engaged[n]
  BY AllPassedOn
<1>2. \A t \in Thread : \A n : ~Counting(t, n)
  BY DEF Counting
<1>3. root \in S /\ P \subseteq D /\ counted \subseteq P /\ root \in Node
  BY StagesAreNodes DEF Account, Stages, Knowledge
<1>4. root \in counted
  BY <1>1, <1>2, <1>3 DEF Attended, Delivered
<1>5. ASSUME NEW n \in S, Kind[n] = "any" PROVE KidsOf(n) \subseteq counted
  BY <1>1, <1>2, <1>3, <1>5, StagesAreNodes
     DEF Attended, Decided, Account, Cleanups
<1>6. ASSUME NEW n \in S, NEW k \in KidsOf(n) PROVE k \in S
  <2>1. n \in D /\ D \subseteq S /\ n \in Node
    BY <1>1, <1>3, StagesAreNodes DEF Account, Stages
  <2>2. CASE Waits(n)
    BY <1>3, <2>1, <2>2 DEF Account, Stages
  <2>3. CASE Kind[n] = "any"
    BY <1>3, <1>5, <2>1, <2>3
  <2>4. CASE Kind[n] = "leaf"
    BY <2>1, <2>4, KidsAssumption DEF KidsOf
  <2> QED
    BY <2>1, <2>2, <2>3, <2>4, NodeAssumption DEF Waits
<1>7. Tree[root] \subseteq S
  <2>1. Tree[root] \in SUBSET Nat
    BY <1>3, TreeSelf, NodeBound
  <2>2. ASSUME NEW m \in Tree[root], \A k \in Tree[root] : k < m => k \in S
        PROVE  m \in S
    <3>1. CASE m = root
      BY <1>3, <3>1
    <3>2. CASE m # root
      <4>1. m \in Node \ Roots /\ Parent[m] \in Tree[root]
        BY <1>3, <3>2, TreeUp
      <4>2. m \in KidsOf(Parent[m]) /\ Parent[m] < m
        BY <4>1, ParentIsSmaller
      <4> QED
        BY <1>6, <2>2, <4>1, <4>2
    <3> QED
      BY <3>1, <3>2
  <2> QED
    BY <2>1, <2>2, Ascending
<1>8. Owing = {}
  <2>1. Tree[root] \subseteq Node
    BY <1>3, TreeSelf
  <2> QED
    BY <1>1, <1>2, <1>5, <1>7, <2>1 DEF Owing, Counting
<1>9. calls > 0 /\ LatchBalance
  BY DEF Account
<1> QED
  BY <1>4, <1>8, <1>9, FS_EmptySet DEF LatchBalance

LEMMA AttendedWaiter == AttendedInv => WaiterHasWorker
<1> SUFFICES ASSUME AttendedInv, calls > 0,
                    \A t \in Thread : pc[t] \in {"idle", "wait"}
             PROVE  ctr = 0
  BY DEF WaiterHasWorker
<1>1. PICK S, D, P \in SUBSET Node : Account(S, D, P) /\ Attended(S, D, P)
  BY DEF AttendedInv, Unused
<1> QED
  BY <1>1, NothingLeft

\* sync_execute: as long as the latch is not open, somebody is at work on the
\* graph or waits for a worker.  No continuation, no child and no cleanup is ever
\* dropped, so the caller does not wait for nobody.
THEOREM CallerWaitsForSomebody == Spec => []WaiterHasWorker
<1>1. Init => AttendedInv
  BY InitAttendedInv
<1>2. AttendedInv /\ [Next]_vars => AttendedInv'
  BY StepKeepsAttendedInv
<1> QED
  BY <1>1, <1>2, AttendedWaiter, PTL DEF Spec

-----------------------------------------------------------------------------
\* Feeder.

LEMMA FeederDef ==
    /\ Feeder \in [Node -> Node \union {Main}]
    /\ \A n \in Node :
           Feeder[n] = IF n \in Roots THEN Main
                       ELSE IF Kind[Parent[n]] = "seq" /\ Position[n] = 2
                       THEN Kids[Parent[n]][1]
                       ELSE Feeder[Parent[n]]
<1> DEFINE V == Node \union {Main}
           Body(n, f) == IF n \in Roots THEN Main
                         ELSE IF Kind[Parent[n]] = "seq" /\ Position[n] = 2
                         THEN Kids[Parent[n]][1]
                         ELSE f[Parent[n]]
           G == [n \in Node |-> [f \in [Node -> V] |-> Body(n, f)]]
<1>1. ASSUME NEW n \in Node, NEW f \in [Node -> V] PROVE Body(n, f) \in V
  <2>1. CASE n \in Roots
    BY <2>1
  <2>2. CASE n \notin Roots
    <3>1. Parent[n] \in Node
      BY <2>2, ParentIsSmaller
    <3>2. Kind[Parent[n]] = "seq" => Kids[Parent[n]][1] \in Node
      BY <3>1, ArityFacts, KidFacts
    <3> QED
      BY <2>2, <3>1, <3>2
  <2> QED
    BY <2>1, <2>2
<1>2. ASSUME NEW n \in Node, NEW f \in [Node -> V], NEW g \in [Node -> V],
             \A k \in Node : k < n => f[k] = g[k]
      PROVE  Body(n, f) = Body(n, g)
  BY <1>2, ParentIsSmaller
<1>3. PICK b \in Nat : \A n \in Node : n < b
  BY NodeBound
<1>4. \A n \in Node : \A f \in [Node -> V] : G[n][f] = Body(n, f)
  OBVIOUS
<1>5. \E f \in [Node -> V] : \A n \in Node : f[n] = G[n][f]
  <2>1. V # {}
    OBVIOUS
  <2> HIDE DEF V, G, Body
  <2>2. \A n \in Node : \A f, g \in [Node -> V] :
            (\A k \in Node : k < n => f[k] = g[k]) => G[n][f] = G[n][g]
    BY <1>2, <1>4
  <2>3. FromBelow(Node, b, V, G)
    BY <1>1, <1>3, <1>4, <2>1, <2>2, NodeBound DEF FromBelow
  <2> QED
    BY <2>3, RecursionUp
<1>6. PICK f \in [Node -> V] : \A n \in Node : f[n] = Body(n, f)
  <2> HIDE DEF V, G, Body
  <2> QED
    BY <1>4, <1>5
<1>7. f = [n \in Node |-> IF n \in Roots THEN Main
                          ELSE IF Kind[Parent[n]] = "seq" /\ Position[n] = 2
                          THEN Kids[Parent[n]][1]
                          ELSE f[Parent[n]]]
  BY <1>6
<1> DEFINE Solves(g) ==
               g = [n \in Node |-> IF n \in Roots THEN Main
                                   ELSE IF Kind[Parent[n]] = "seq"
                                           /\ Position[n] = 2
                                   THEN Kids[Parent[n]][1]
                                   ELSE g[Parent[n]]]
<1>8. Solves(Feeder)
  BY <1>7 DEF Feeder
<1>9. \A n \in Node : Feeder[n] = Body(n, Feeder)
  BY <1>8
<1> DEFINE T == {n \in Node : Feeder[n] \in V}
<1>10. Node \subseteq T
  <2>1. ASSUME NEW n \in Node, \A k \in Node : k < n => k \in T
        PROVE  n \in T
    <3>1. CASE n \in Roots
      BY <1>9, <3>1
    <3>2. CASE n \notin Roots
      <4>1. Parent[n] \in Node /\ Parent[n] < n
        BY <3>2, ParentIsSmaller
      <4>2. Kind[Parent[n]] = "seq" => Kids[Parent[n]][1] \in Node
        BY <4>1, ArityFacts, KidFacts
      <4>3. Feeder[Parent[n]] \in V
        BY <2>1, <4>1
      <4> QED
        BY <1>9, <3>2, <4>2, <4>3
    <3> QED
      BY <3>1, <3>2
  <2> HIDE DEF T
  <2>2. \A n \in Node : (\A k \in Node : k < n => k \in T) => n \in T
    BY <2>1
  <2> QED
    BY <2>2, NodeBound, Ascending
<1>11. Feeder \in [Node -> V]
  BY <1>8, <1>10
<1> QED
  BY <1>9, <1>11

\* A node is fed by the first node of a seq that it is in the second node of.
LEMMA FeederFacts ==
    ASSUME NEW n \in Node, Feeder[n] # Main
    PROVE  \E a \in Node : /\ Kind[a] = "seq"
                           /\ Feeder[n] = Kids[a][1]
                           /\ n \in Tree[Kids[a][2]]
<1> DEFINE Fact(m) == \E a \in Node : /\ Kind[a] = "seq"
                                      /\ Feeder[m] = Kids[a][1]
                                      /\ m \in Tree[Kids[a][2]]
           T == {m \in Node : Feeder[m] # Main => Fact(m)}
<1>1. ASSUME NEW m \in Node, \A k \in Node : k < m => k \in T
      PROVE  m \in T
  <2>1. SUFFICES ASSUME Feeder[m] # Main PROVE Fact(m)
    OBVIOUS
  <2>2. m \in Node \ Roots
    BY <2>1, FeederDef
  <2>3. /\ Parent[m] \in Node /\ Parent[m] < m
        /\ Kids[Parent[m]][Position[m]] = m
    BY <2>2, ParentIsSmaller, ParentFacts
  <2>4. CASE Kind[Parent[m]] = "seq" /\ Position[m] = 2
    <3>1. Feeder[m] = Kids[Parent[m]][1] /\ m = Kids[Parent[m]][2]
      BY <2>2, <2>3, <2>4, FeederDef
    <3>2. m \in Tree[Kids[Parent[m]][2]]
      BY <3>1, TreeSelf
    <3> QED
      BY <2>3, <2>4, <3>1, <3>2
  <2>5. CASE ~(Kind[Parent[m]] = "seq" /\ Position[m] = 2)
    <3>1. Feeder[m] = Feeder[Parent[m]]
      BY <2>2, <2>5, FeederDef
    <3>2. Fact(Parent[m])
      BY <1>1, <2>1, <2>3, <3>1
    <3>3. PICK a \in Node : /\ Kind[a] = "seq"
                            /\ Feeder[Parent[m]] = Kids[a][1]
                            /\ Parent[m] \in Tree[Kids[a][2]]
      BY <3>2
    <3>4. m \in Tree[Kids[a][2]]
      BY <2>2, <3>3, SecondUp
    <3> QED
      BY <3>1, <3>3, <3>4
  <2> QED
    BY <2>4, <2>5
<1>2. Node \subseteq T
  <2> HIDE DEF T
  <2>1. \A m \in Node : (\A k \in Node : k < m => k \in T) => m \in T
    BY <1>1
  <2> QED
    BY <2>1, NodeBound, Ascending
<1> QED
  BY <1>2

\* It is of the same graph, ...
LEMMA FeederInTree ==
    ASSUME NEW r \in Roots, NEW n \in Tree[r]
    PROVE  n \in Node /\ Feeder[n] \in Tree[r] \union {Main}
<1> DEFINE T == {m \in Node : m \in Tree[r] => Feeder[m] \in Tree[r] \union {Main}}
<1>0. r \in Node
  BY DEF Roots
<1>1. ASSUME NEW m \in Node, \A k \in Node : k < m => k \in T
      PROVE  m \in T
  <2>1. SUFFICES ASSUME m \in Tree[r], m \notin Roots
                 PROVE  Feeder[m] \in Tree[r]  \union {Main}
    BY FeederDef
  <2>2. Parent[m] \in Tree[r] /\ Parent[m] \in Node /\ Parent[m] < m
    BY <1>0, <2>1, TreeUp, ParentIsSmaller
  <2>3. CASE Kind[Parent[m]] = "seq" /\ Position[m] = 2
    <3>1. Kids[Parent[m]][1] \in KidsOf(Parent[m])
      BY <2>2, <2>3, ArityFacts DEF KidsOf
    <3>2. Kids[Parent[m]][1] \in Tree[r]
      BY <1>0, <2>2, <3>1, TreeDown
    <3> QED
      BY <2>1, <2>3, <3>2, FeederDef
  <2>4. CASE ~(Kind[Parent[m]] = "seq" /\ Position[m] = 2)
    BY <1>1, <2>1, <2>2, <2>4, FeederDef
  <2> QED
    BY <2>3, <2>4
<1>2. Node \subseteq T
  <2> HIDE DEF T
  <2>1. \A m \in Node : (\A k \in Node : k < m => k \in T) => m \in T
    BY <1>1
  <2> QED
    BY <2>1, NodeBound, Ascending
<1> QED
  BY <1>0, <1>2, TreeSelf

\* ... and its output is passed on before the node is started.
LEMMA FeederPassedOn ==
    ASSUME NEW S, NEW D, NEW P, Account(S, D, P), NEW n \in S
    PROVE  n \in Node /\ (Feeder[n] = Main \/ Feeder[n] \in P)
<1> DEFINE T == {m \in Node : m \in S => Feeder[m] = Main \/ Feeder[m] \in P}
<1>0. S \subseteq Node /\ root \in Node
  BY TreeSelf DEF Account, Stages, TypeOK, CallType, Roots
<1>1. ASSUME NEW m \in Node, \A k \in Node : k < m => k \in T
      PROVE  m \in T
  <2>1. SUFFICES ASSUME m \in S, m \notin Roots
                 PROVE  Feeder[m] = Main \/ Feeder[m] \in P
    BY FeederDef
  <2>2. /\ Parent[m] \in S /\ Parent[m] \in Node /\ Parent[m] < m
        /\ Kids[Parent[m]][Position[m]] = m
    BY <2>1, ParentIsSmaller, ParentFacts
       DEF Account, Stages, TypeOK, CallType
  <2>3. CASE Kind[Parent[m]] = "seq" /\ Position[m] = 2
    <3>1. Kids[Parent[m]][1] \in P
      BY <2>1, <2>2, <2>3 DEF Account, Stages
    <3> QED
      BY <2>1, <2>3, <3>1, FeederDef
  <2>4. CASE ~(Kind[Parent[m]] = "seq" /\ Position[m] = 2)
    BY <1>1, <2>1, <2>2, <2>4, FeederDef
  <2> QED
    BY <2>3, <2>4
<1>2. Node \subseteq T
  <2> HIDE DEF T
  <2>1. \A m \in Node : (\A k \in Node : k < m => k \in T) => m \in T
    BY <1>1
  <2> QED
    BY <2>1, NodeBound, Ascending
<1> QED
  BY <1>0, <1>2

-----------------------------------------------------------------------------
\* The order in which the nodes of a graph are evaluated.

\* What a node's output may depend on: its own tree, and those of the first nodes
\* of all seqs that it is in the second node of.
Needs(n) ==
    {m \in Node :
        \/ m \in Tree[n]
        \/ \E a \in Node : /\ Kind[a] = "seq"
                           /\ m \in Tree[Kids[a][1]]
                           /\ n \in Tree[Kids[a][2]]}

Rank(n) == Cardinality(Needs(n))

\* The two nodes of a seq.
LEMMA SeqFacts ==
    ASSUME NEW a \in Node, Kind[a] = "seq"
    PROVE  LET k == Kids[a][1]
               l == Kids[a][2]
           IN  /\ k \in Node \ Roots /\ l \in Node \ Roots
               /\ k \in KidsOf(a) /\ l \in KidsOf(a)
               /\ Parent[k] = a /\ Parent[l] = a
               /\ Position[k] = 1 /\ Position[l] = 2 /\ k # l
               /\ Tree[k] \intersect Tree[l] = {}
               /\ Tree[k] \subseteq Tree[a] /\ Tree[l] \subseteq Tree[a]
               /\ a \notin Tree[k] /\ a \notin Tree[l]
<1> DEFINE k == Kids[a][1]
           l == Kids[a][2]
<1>1. /\ k \in Node \ Roots /\ l \in Node \ Roots
      /\ k \in KidsOf(a) /\ l \in KidsOf(a)
      /\ Parent[k] = a /\ Parent[l] = a
      /\ Position[k] = 1 /\ Position[l] = 2
  BY ArityFacts, KidFacts DEF KidsOf
<1>2. k # l
  BY <1>1
<1>3. /\ Tree[k] \intersect Tree[l] = {}
      /\ Tree[k] \subseteq Tree[a] /\ Tree[l] \subseteq Tree[a]
  BY <1>1, <1>2, TreesApart, TreeKids
<1>4. a < k /\ a < l /\ a \in Nat /\ k \in Nat /\ l \in Nat
  BY <1>1, KidsAreLarger, NodeBound
<1>5. a \notin Tree[k] /\ a \notin Tree[l]
  BY <1>1, <1>4, TreeOrder
<1> QED
  BY <1>1, <1>2, <1>3, <1>5

\* A node's tree is within that of any node it is in the tree of.
LEMMA TreeWithin ==
    ASSUME NEW n \in Node, NEW m \in Tree[n]
    PROVE  m \in Node /\ Tree[m] \subseteq Tree[n]
<1> DEFINE T == {c \in Node : c \in Tree[m] => c \in Tree[n]}
<1>1. m \in Node
  BY TreeSelf
<1>2. ASSUME NEW c \in Node, \A k \in Node : k < c => k \in T
      PROVE  c \in T
  <2>1. SUFFICES ASSUME c \in Tree[m], c # m PROVE c \in Tree[n]
    OBVIOUS
  <2>2. c \in Node \ Roots /\ Parent[c] \in Tree[m]
    BY <1>1, <2>1, TreeUp
  <2>3. Parent[c] \in Node /\ c \in KidsOf(Parent[c]) /\ Parent[c] < c
    BY <2>2, ParentIsSmaller
  <2>4. Parent[c] \in Tree[n]
    BY <1>2, <2>2, <2>3
  <2> QED
    BY <2>3, <2>4, TreeDown
<1>3. Node \subseteq T
  <2> HIDE DEF T
  <2>1. \A c \in Node : (\A k \in Node : k < c => k \in T) => c \in T
    BY <1>2
  <2> QED
    BY <2>1, NodeBound, Ascending
<1> QED
  BY <1>1, <1>3, TreeSelf

LEMMA RankIsNat == \A n \in Node : Rank(n) \in Nat /\ IsFiniteSet(Needs(n))
<1> SUFFICES ASSUME NEW n \in Node
             PROVE  Rank(n) \in Nat /\ IsFiniteSet(Needs(n))
  OBVIOUS
<1>1. Needs(n) \in SUBSET Node
  BY DEF Needs
<1> QED
  BY <1>1, NodesAreFinite, FS_CardinalityType DEF Rank

LEMMA FewerNeeds ==
    ASSUME NEW n \in Node, NEW m \in Node, Needs(m) \subseteq Needs(n),
           n \notin Needs(m)
    PROVE  Rank(m) < Rank(n)
<1>1. n \in Needs(n)
  BY TreeSelf DEF Needs
<1>2. /\ Rank(m) \in Nat /\ Rank(n) \in Nat
      /\ IsFiniteSet(Needs(m)) /\ IsFiniteSet(Needs(n))
  BY RankIsNat
<1>3. Rank(m) <= Rank(n) /\ (Rank(m) = Rank(n) => Needs(m) = Needs(n))
  BY <1>2, FS_Subset DEF Rank
<1> QED
  BY <1>1, <1>2, <1>3

\* A node is evaluated after its children ...
LEMMA KidRank ==
    ASSUME NEW n \in Node, NEW k \in KidsOf(n)
    PROVE  k \in Node /\ Rank(k) < Rank(n)
<1>1. k \in Node \ Roots /\ Parent[k] = n /\ n < k /\ n \in Nat /\ k \in Nat
  BY KidsAreLarger, NodeBound
<1>2. Tree[k] \subseteq Tree[n]
  BY TreeKids
<1>3. ASSUME NEW a \in Node, Kind[a] = "seq", k \in Tree[Kids[a][2]]
      PROVE  (a = n /\ k = Kids[a][2]) \/ n \in Tree[Kids[a][2]]
  BY <1>1, <1>3, SecondDown, SeqFacts
<1>4. Needs(k) \subseteq Needs(n)
  <2>1. ASSUME NEW m \in Needs(k) PROVE m \in Needs(n)
    <3>1. CASE m \in Tree[k]
      BY <1>2, <3>1 DEF Needs
    <3>2. ASSUME NEW a \in Node, Kind[a] = "seq", m \in Tree[Kids[a][1]],
                 k \in Tree[Kids[a][2]]
          PROVE  m \in Needs(n)
      <4>1. Tree[Kids[a][1]] \subseteq Tree[a]
        BY <3>2, SeqFacts
      <4> QED
        BY <1>3, <3>2, <4>1 DEF Needs
    <3> QED
      BY <2>1, <3>1, <3>2 DEF Needs
  <2> QED
    BY <2>1
<1>5. n \notin Needs(k)
  <2>1. n \notin Tree[k]
    BY <1>1, TreeOrder
  <2>2. ASSUME NEW a \in Node, Kind[a] = "seq", n \in Tree[Kids[a][1]],
               k \in Tree[Kids[a][2]]
        PROVE  FALSE
    <3>1. a \notin Tree[Kids[a][1]]
          /\ Tree[Kids[a][1]] \intersect Tree[Kids[a][2]] = {}
      BY <2>2, SeqFacts
    <3> QED
      BY <1>3, <2>2, <3>1
  <2> QED
    BY <2>1, <2>2 DEF Needs
<1> QED
  BY <1>1, <1>4, <1>5, FewerNeeds

\* ... and after the node that feeds it.
LEMMA FeederRank ==
    ASSUME NEW n \in Node, Feeder[n] # Main
    PROVE  Feeder[n] \in Node /\ Rank(Feeder[n]) < Rank(n)
<1>1. PICK a \in Node : /\ Kind[a] = "seq"
                        /\ Feeder[n] = Kids[a][1]
                        /\ n \in Tree[Kids[a][2]]
  BY FeederFacts
<1> DEFINE f == Kids[a][1]
<1>2. /\ f \in Node \ Roots /\ Parent[f] = a /\ Position[f] = 1
      /\ Tree[f] \intersect Tree[Kids[a][2]] = {}
      /\ Kids[a][2] \in Node /\ Tree[Kids[a][2]] \subseteq Tree[a]
  BY <1>1, SeqFacts
<1>3. ASSUME NEW b \in Node, Kind[b] = "seq", f \in Tree[Kids[b][2]]
      PROVE  n \in Tree[Kids[b][2]]
  <2>1. f # Kids[b][2]
    BY <1>2, <1>3, SeqFacts
  <2>2. a \in Tree[Kids[b][2]] /\ Kids[b][2] \in Node
    BY <1>2, <1>3, <2>1, SecondDown, SeqFacts
  <2>3. Tree[a] \subseteq Tree[Kids[b][2]]
    BY <2>2, TreeWithin
  <2> QED
    BY <1>1, <1>2, <2>3
<1>4. Needs(f) \subseteq Needs(n)
  <2>1. ASSUME NEW m \in Needs(f) PROVE m \in Needs(n)
    <3>1. CASE m \in Tree[f]
      BY <1>1, <2>1, <3>1 DEF Needs
    <3>2. ASSUME NEW b \in Node, Kind[b] = "seq", m \in Tree[Kids[b][1]],
                 f \in Tree[Kids[b][2]]
          PROVE  m \in Needs(n)
      BY <1>3, <2>1, <3>2 DEF Needs
    <3> QED
      BY <2>1, <3>1, <3>2 DEF Needs
  <2> QED
    BY <2>1
<1>5. n \notin Needs(f)
  <2>1. n \notin Tree[f]
    BY <1>1, <1>2
  <2>2. ASSUME NEW b \in Node, Kind[b] = "seq", n \in Tree[Kids[b][1]],
               f \in Tree[Kids[b][2]]
        PROVE  FALSE
    BY <1>3, <2>2, SeqFacts
  <2> QED
    BY <2>1, <2>2 DEF Needs
<1> QED
  BY <1>1, <1>2, <1>4, <1>5, FewerNeeds

-----------------------------------------------------------------------------
\* Evaluation.

\* What a node evaluates to, given the outputs of the others and who wins.
Value(f, c, win, n) == IF Kind[n] = "any" THEN f[win[n]] ELSE Made(f, c, n)

\* The nodes whose output a node's output is made of.
Sources(win, n) ==
    {m \in Node :
        \/ Kind[n] = "leaf" /\ m = Feeder[n]
        \/ Kind[n] = "any" /\ m = win[n]
        \/ Waits(n) /\ m \in KidsOf(n)}

LEMMA ValueIsLocal ==
    ASSUME NEW n \in Node, NEW f, NEW g, NEW c, NEW win,
           Kind[n] = "any" => win[n] \in Node,
           \A m \in Sources(win, n) : f[m] = g[m]
    PROVE  Value(f, c, win, n) = Value(g, c, win, n)
<1>1. CASE Kind[n] = "leaf"
  <2>1. Feeder[n] # Main => f[Feeder[n]] = g[Feeder[n]]
    BY <1>1, FeederDef DEF Sources
  <2> QED
    BY <1>1, <2>1 DEF Value, Made, Fed
<1>2. CASE Kind[n] = "any"
  BY <1>2 DEF Value, Sources
<1>3. CASE Kind[n] = "seq"
  <2>1. Kids[n][2] \in Sources(win, n)
    BY <1>3, SeqFacts DEF Sources, Waits
  <2> QED
    BY <1>3, <2>1 DEF Value, Made
<1>4. CASE Kind[n] = "all"
  <2>1. \A i \in DOMAIN Kids[n] : Kids[n][i] \in KidsOf(n) /\ Kids[n][i] \in Node
    BY KidFacts DEF KidsOf
  <2>2. \A i \in DOMAIN Kids[n] : f[Kids[n][i]] = g[Kids[n][i]]
    BY <1>4, <2>1 DEF Sources, Waits
  <2>3. [i \in DOMAIN Kids[n] |-> f[Kids[n][i]]]
        = [i \in DOMAIN Kids[n] |-> g[Kids[n][i]]]
    BY <2>2
  <2> QED
    BY <1>4, <2>3 DEF Value, Made
<1> QED
  BY <1>1, <1>2, <1>3, <1>4, NodeAssumption

\* They are in the graph, and evaluated before it.
LEMMA SourcesFirst ==
    ASSUME NEW r \in Roots, NEW win \in Winners(r), NEW n \in Tree[r]
    PROVE  /\ n \in Node
           /\ Kind[n] = "any" => win[n] \in KidsOf(n) /\ win[n] \in Node
           /\ \A m \in Sources(win, n) : m \in Tree[r] /\ Rank(m) < Rank(n)
<1>1. r \in Node /\ n \in Node /\ Main \notin Node
  BY TreeSelf, ThreadFacts DEF Roots
<1>2. Kind[n] = "any" => win[n] \in KidsOf(n) /\ win[n] \in Node
  BY <1>1, KidsAreLarger DEF Winners, Anys
<1>3. ASSUME NEW m \in Sources(win, n) PROVE m \in Tree[r] /\ Rank(m) < Rank(n)
  <2>1. CASE m \in KidsOf(n)
    BY <1>1, <2>1, TreeDown, KidRank
  <2>2. CASE m = Feeder[n] /\ m # Main
    BY <1>1, <2>2, FeederInTree, FeederRank
  <2> QED
    BY <1>1, <1>2, <1>3, <2>1, <2>2 DEF Sources
<1> QED
  BY <1>1, <1>2, <1>3

\* There are outputs that solve the equations of all nodes, by induction on their
\* ranks; so the evaluation is one.
LEMMA EvaluationDef ==
    ASSUME NEW r \in Roots, NEW c, NEW win \in Winners(r)
    PROVE  LET ev == Evaluation(r, c, win) IN
           \A n \in Tree[r] : ev[n] = Value(ev, c, win, n)
<1> DEFINE Function(f) == f = [n \in Tree[r] |-> f[n]]
           Solves(f, a) ==
               \A n \in Tree[r] : Rank(n) < a => f[n] = Value(f, c, win, n)
           T == {a \in Nat : \E f : Function(f) /\ Solves(f, a)}
<1>1. \A n \in Tree[r] : n \in Node /\ Rank(n) \in Nat
  BY SourcesFirst, RankIsNat
<1>2. ASSUME NEW a \in Nat, \A b \in Nat : b < a => b \in T PROVE a \in T
  <2>1. CASE a = 0
    <3> DEFINE f == [n \in Tree[r] |-> 0]
    <3>1. Solves(f, 0)
      BY <1>1
    <3>2. Function(f)
      OBVIOUS
    <3> QED
      BY <2>1, <3>1, <3>2
  <2>2. CASE a # 0
    <3>1. a - 1 \in Nat /\ a - 1 < a
      BY <2>2
    <3>2. PICK f : Function(f) /\ Solves(f, a - 1)
      BY <1>2, <3>1
    <3> DEFINE g == [n \in Tree[r] |-> Value(f, c, win, n)]
    <3>3. Function(g)
      OBVIOUS
    <3>4. ASSUME NEW n \in Tree[r], Rank(n) < a
          PROVE  g[n] = Value(g, c, win, n)
      <4>1. ASSUME NEW m \in Sources(win, n) PROVE f[m] = g[m]
        <5>1. m \in Tree[r] /\ Rank(m) < Rank(n)
          BY <4>1, SourcesFirst
        <5>2. Rank(m) < a - 1
          BY <1>1, <3>1, <3>4, <5>1
        <5>3. f[m] = Value(f, c, win, m)
          BY <3>2, <5>1, <5>2
        <5> QED
          BY <5>1, <5>3
      <4>2. n \in Node /\ (Kind[n] = "any" => win[n] \in Node)
        BY SourcesFirst
      <4> HIDE DEF g
      <4>3. Value(f, c, win, n) = Value(g, c, win, n)
        BY <4>1, <4>2, ValueIsLocal
      <4> QED
        BY <4>3 DEF g
    <3>5. Solves(g, a)
      BY <3>4
    <3> HIDE DEF Function, Solves, g
    <3> QED
      BY <3>3, <3>5
  <2> QED
    BY <2>1, <2>2
<1>3. Nat \subseteq T
  <2> HIDE DEF T
  <2>1. \A a \in Nat : (\A b \in Nat : b < a => b \in T) => a \in T
    BY <1>2
  <2> QED
    BY <2>1, Ascending
<1>4. PICK b \in Nat : \A n \in Tree[r] : Rank(n) < b
  <2>1. \A n \in Tree[r] : Rank(n) <= Cardinality(Node)
    <3>1. \A n \in Tree[r] : Needs(n) \in SUBSET Node
      BY DEF Needs
    <3> QED
      BY <3>1, NodeAssumption, FS_Subset DEF Rank
  <2>2. Cardinality(Node) \in Nat
    BY NodeAssumption, FS_CardinalityType
  <2>3. /\ Cardinality(Node) + 1 \in Nat
        /\ \A n \in Tree[r] : Rank(n) < Cardinality(Node) + 1
    BY <1>1, <2>1, <2>2
  <2> QED
    BY <2>3
<1>5. PICK f : Function(f) /\ Solves(f, b)
  <2>1. b \in T
    <3> HIDE DEF T
    <3> QED
      BY <1>3
  <2> QED
    BY <2>1
<1> DEFINE Equation(g) ==
               g = [n \in Tree[r] |-> IF Kind[n] = "any" THEN g[win[n]]
                                      ELSE Made(g, c, n)]
<1>6. \A n \in Tree[r] : f[n] = Value(f, c, win, n)
  BY <1>4, <1>5
<1>7. Equation(f)
  BY <1>5, <1>6 DEF Value
<1>8. Equation(Evaluation(r, c, win))
  BY <1>7 DEF Evaluation
<1> QED
  BY <1>8 DEF Value

\* Outputs of some of the nodes that solve the equations of these, and depend on
\* each other only, are the ones of the evaluation.
LEMMA EvaluationIsOnlyOne ==
    ASSUME NEW r \in Roots, NEW c, NEW win \in Winners(r),
           NEW D \in SUBSET Tree[r], NEW out,
           \A n \in D : Sources(win, n) \subseteq D,
           \A n \in D : out[n] = Value(out, c, win, n)
    PROVE  \A n \in D : out[n] = Evaluation(r, c, win)[n]
<1> DEFINE ev == Evaluation(r, c, win)
           T == {a \in Nat : \A n \in D : Rank(n) = a => out[n] = ev[n]}
<1>1. \A n \in D : n \in Node /\ Rank(n) \in Nat
  BY SourcesFirst, RankIsNat
<1>2. ASSUME NEW a \in Nat, \A b \in Nat : b < a => b \in T PROVE a \in T
  <2>1. SUFFICES ASSUME NEW n \in D, Rank(n) = a PROVE out[n] = ev[n]
    OBVIOUS
  <2>2. ASSUME NEW m \in Sources(win, n) PROVE out[m] = ev[m]
    <3>1. m \in D /\ Rank(m) \in Nat /\ Rank(m) < a
      BY <1>1, <2>1, <2>2, SourcesFirst
    <3> QED
      BY <1>2, <3>1
  <2>3. ev[n] = Value(ev, c, win, n)
    BY EvaluationDef
  <2> HIDE DEF ev
  <2>4. Value(out, c, win, n) = Value(ev, c, win, n)
    BY <2>2, SourcesFirst, ValueIsLocal
  <2> QED
    BY <2>3, <2>4
<1>3. Nat \subseteq T
  <2> HIDE DEF T
  <2>1. \A a \in Nat : (\A b \in Nat : b < a => b \in T) => a \in T
    BY <1>2
  <2> QED
    BY <2>1, Ascending
<1> QED
  BY <1>1, <1>3

-----------------------------------------------------------------------------
\* The values of a state.

\* Where the invariant puts the nodes it speaks of.
LEMMA StageFacts ==
    ASSUME NEW S, NEW D, NEW P, Account(S, D, P)
    PROVE  /\ P \subseteq D /\ D \subseteq S /\ S \subseteq Tree[root]
           /\ S \subseteq Node /\ root \in Roots /\ root \in S
           /\ \A n \in D : Waits(n) => KidsOf(n) \subseteq P
           /\ \A t \in Thread :
                  /\ pc[t] = "exec" => cur[t] \in S \ D
                  /\ pc[t] \in {"out", "join"} => cur[t] \in D \ P
           /\ \A n \in Node : engaged[n] => n \in S
<1>1. /\ P \subseteq D /\ D \subseteq S /\ S \subseteq Tree[root]
      /\ S \subseteq Node /\ root \in Roots /\ root \in S
      /\ \A n \in D : Waits(n) => KidsOf(n) \subseteq P
  BY TreeSelf DEF Account, Stages, TypeOK, CallType, Roots
<1>2. \A t \in Thread : pc[t] \in {"exec", "out", "join"} => cur[t] \in Node
  BY AtNode DEF Account, TypeOK
<1>3. \A t \in Thread : /\ pc[t] = "exec" => cur[t] \in S \ D
                        /\ pc[t] \in {"out", "join"} => cur[t] \in D \ P
  BY <1>2 DEF Account, Positions, EnteringFresh, LeavingDone, Entering, Leaving
<1>4. \A n \in Node : engaged[n] => n \in S
  BY DEF Account, Storages
<1> QED
  BY <1>1, <1>3, <1>4

\* A new output of a node that is not done changes nothing for the others.
LEMMA NewOutput ==
    ASSUME NEW S, NEW D, NEW P, Account(S, D, P), NEW out, Valued(D, P, out),
           NEW n \in Node, n \notin D, NEW v,
           NEW o, o = [m \in Node |-> IF m = n THEN v ELSE out[m]]
    PROVE  /\ Valued(D, P, o) /\ o[n] = v
           /\ \A m \in D : o[m] = out[m]
           /\ \A m \in S : Fed(o, calls, m) = Fed(out, calls, m)
<1>1. o[n] = v /\ \A m \in D : o[m] = out[m]
  BY StageFacts
<1>2. ASSUME NEW m \in S PROVE Fed(o, calls, m) = Fed(out, calls, m)
  <2>1. Feeder[m] = Main \/ Feeder[m] \in D
    BY FeederPassedOn, StageFacts
  <2> QED
    BY <1>1, <2>1 DEF Fed
<1>3. Evaluated(D, o)
  <2>1. ASSUME NEW m \in D, Kind[m] = "any"
        PROVE  \E k \in KidsOf(m) \intersect D : o[m] = o[k]
    BY <1>1, <2>1 DEF Valued, Evaluated
  <2>2. ASSUME NEW m \in D, Kind[m] # "any" PROVE o[m] = Made(o, calls, m)
    <3>1. m \in Node /\ m \in S
      BY StageFacts
    <3>2. \A a \in Sources(out, m) : o[a] = out[a]
      <4>1. ASSUME NEW a \in Sources(out, m) PROVE a \in D
        <5>1. a \in Node /\ a # Main
          BY ThreadFacts DEF Sources
        <5> QED
          BY <2>2, <3>1, <4>1, <5>1, FeederPassedOn, StageFacts DEF Sources
      <4> QED
        BY <1>1, <4>1
    <3>3. Value(o, calls, out, m) = Value(out, calls, out, m)
      BY <2>2, <3>1, <3>2, ValueIsLocal
    <3>4. Made(o, calls, m) = Made(out, calls, m)
      BY <2>2, <3>3 DEF Value
    <3> QED
      BY <1>1, <2>2, <3>4 DEF Valued, Evaluated
  <2> QED
    BY <2>1, <2>2 DEF Evaluated
<1>4. ASSUME NEW t \in Thread PROVE Carries(t, o)
  <2>1. Carries(t, out)
    BY DEF Valued
  <2>2. /\ pc[t] = "exec" => cur[t] \in S
        /\ pc[t] \in {"out", "join"} => cur[t] \in D
    BY StageFacts
  <2> QED
    BY <1>1, <1>2, <2>1, <2>2 DEF Carries
<1>5. Holds(P, o)
  <2>1. ASSUME NEW m \in Node, engaged[m]
        PROVE  /\ input[m] = Fed(o, calls, m)
               /\ Kind[m] = "all" =>
                      \A k \in KidsOf(m) \intersect P : slot[k] = o[k]
    BY <1>1, <1>2, <2>1, StageFacts DEF Valued, Holds
  <2> QED
    BY <2>1 DEF Holds
<1> QED
  BY <1>1, <1>2, <1>3, <1>4, <1>5 DEF Valued

\* When the root is done, its output is one that the graph can have.
LEMMA RootOutcome ==
    ASSUME NEW S, NEW D, NEW P, Account(S, D, P), NEW out, Evaluated(D, out),
           root \in D
    PROVE  out[root] \in Outcome(root, calls)
<1>1. PICK r : r = root
  OBVIOUS
<1>2. PICK c : c = calls
  OBVIOUS
<1> DEFINE win == [n \in Anys(r) |->
                      IF n \in D
                      THEN CHOOSE k \in KidsOf(n) \intersect D : out[n] = out[k]
                      ELSE Kids[n][1]]
<1>3. r \in Roots /\ D \subseteq Tree[r]
  BY <1>1, StageFacts
<1>4. ASSUME NEW n \in Anys(r)
      PROVE  /\ win[n] \in KidsOf(n)
             /\ n \in D => win[n] \in D /\ out[n] = out[win[n]]
  <2>1. n \in Node /\ Kind[n] = "any"
    BY <1>3, SourcesFirst, TreeSelf DEF Anys, Roots
  <2>2. CASE n \in D
    <3>1. \E k \in KidsOf(n) \intersect D : out[n] = out[k]
      BY <2>1, <2>2 DEF Evaluated
    <3>2. win[n] = CHOOSE k \in KidsOf(n) \intersect D : out[n] = out[k]
      BY <2>2
    <3> QED
      BY <3>1, <3>2
  <2>3. CASE n \notin D
    <3>1. Kids[n][1] \in KidsOf(n)
      BY <2>1, ArityFacts DEF KidsOf, Shared
    <3> QED
      BY <2>3, <3>1
  <2> QED
    BY <2>2, <2>3
<1>5. win \in Winners(r)
  BY <1>4 DEF Winners
<1> HIDE DEF win
<1>6. ASSUME NEW n \in D PROVE out[n] = Value(out, c, win, n)
  <2>1. Kind[n] = "any" => n \in Anys(r)
    BY <1>3 DEF Anys
  <2> QED
    BY <1>2, <1>4, <2>1 DEF Evaluated, Value
<1>7. ASSUME NEW n \in D, NEW m \in Sources(win, n) PROVE m \in D
  <2>1. m # Main /\ n \in S
    BY ThreadFacts, StageFacts DEF Sources
  <2>2. Kind[n] = "any" => n \in Anys(r)
    BY <1>3 DEF Anys
  <2> QED
    BY <1>4, <1>7, <2>1, <2>2, FeederPassedOn, StageFacts DEF Sources
<1>8. out[r] = Evaluation(r, c, win)[r]
  BY <1>1, <1>3, <1>5, <1>6, <1>7, EvaluationIsOnlyOne
<1> QED
  BY <1>1, <1>2, <1>5, <1>8 DEF Outcome

-----------------------------------------------------------------------------
\* A step of the graph keeps the values.

\* Only thread t moves, and what the others are going to read stays: the storages
\* of nodes that children are still to read, and the tuples' components of the
\* children at a join.
StaysReadable(P, out, t) ==
    /\ calls' = calls
    /\ \A u \in Thread \ {t} :
           \/ pc'[u] = "queued"
           \/ pc'[u] = pc[u] /\ cur'[u] = cur[u] /\ val'[u] = val[u]
    /\ \A n \in Node : engaged[n] => input'[n] = input[n] \/ KidsOf(n) \subseteq P
    /\ \A k \in Node : slot'[k] = slot[k] \/ slot'[k] = out[k] \/ k \in P

LEMMA ValuedStep ==
    ASSUME NEW S, NEW D, NEW P, Account(S, D, P), NEW out, Valued(D, P, out),
           NEW D2, NEW P2, NEW t \in Thread, StaysReadable(P, out, t),
           Evaluated(D2, out), Carries(t, out)', Holds(P2, out)'
    PROVE  Valued(D2, P2, out)'
<1>1. Evaluated(D2, out)'
  BY DEF Evaluated, StaysReadable
<1>2. ASSUME NEW u \in Thread \ {t} PROVE Carries(u, out)'
  <2>1. CASE pc'[u] = "queued"
    BY <2>1 DEF Carries
  <2>2. CASE pc'[u] = pc[u] /\ cur'[u] = cur[u] /\ val'[u] = val[u]
    <3>1. Carries(u, out)
      BY DEF Valued
    <3>2. ASSUME pc[u] = "exec"
          PROVE  Input(u, cur[u])' = Fed(out, calls, cur[u])
      <4>1. cur[u] \in S \ P /\ cur[u] \in Node
        BY <3>2, StageFacts
      <4>2. CASE cur[u] \notin Roots /\ Shared(Parent[cur[u]])
        <5>1. engaged[Parent[cur[u]]]
          BY <4>1, <4>2 DEF Account, Stages
        <5>2. Parent[cur[u]] \in Node /\ cur[u] \in KidsOf(Parent[cur[u]])
          BY <4>1, <4>2, ParentFacts
        <5>3. input'[Parent[cur[u]]] = input[Parent[cur[u]]]
          BY <4>1, <5>1, <5>2 DEF StaysReadable
        <5> QED
          BY <2>2, <3>1, <3>2, <4>2, <5>3 DEF Carries, Input, Shared
      <4>3. CASE ~(cur[u] \notin Roots /\ Shared(Parent[cur[u]]))
        BY <2>2, <3>1, <3>2, <4>3 DEF Carries, Input, Shared
      <4> QED
        BY <4>2, <4>3
    <3>3. ASSUME pc[u] = "join" PROVE slot'[cur[u]] = out[cur[u]]
      <4>1. cur[u] \in Node /\ cur[u] \notin P
        BY <3>3, StageFacts
      <4> QED
        BY <3>1, <3>3, <4>1 DEF Carries, StaysReadable
    <3>4. pc[u] = "out" => val[u] = out[cur[u]]
      BY <3>1 DEF Carries
    <3> QED
      BY <2>2, <3>2, <3>3, <3>4 DEF Carries, StaysReadable
  <2> QED
    BY <2>1, <2>2 DEF StaysReadable
<1> QED
  BY <1>1, <1>2 DEF Valued

\* No storage is constructed or destroyed, and no tuple of an all lacks what was
\* passed on.
LEMMA HoldsOn ==
    ASSUME NEW P, NEW out, Holds(P, out), NEW P2,
           calls' = calls, engaged' = engaged, input' = input,
           \A k \in Node : slot'[k] = slot[k] \/ slot'[k] = out[k],
           \A k \in P2 \ P : ChildOf(k, "all") => slot'[k] = out[k]
    PROVE  Holds(P2, out)'
<1>1. SUFFICES ASSUME NEW n \in Node, engaged[n]
               PROVE  /\ input[n] = Fed(out, calls, n)
                      /\ Kind[n] = "all" =>
                             \A k \in KidsOf(n) \intersect P2 : slot'[k] = out[k]
  BY DEF Holds
<1>2. input[n] = Fed(out, calls, n)
  BY <1>1 DEF Holds
<1>3. ASSUME Kind[n] = "all", NEW k \in KidsOf(n) \intersect P2
      PROVE  slot'[k] = out[k]
  <2>1. k \in Node \ Roots /\ Parent[k] = n
    BY KidsAreLarger
  <2>2. k \in P => slot[k] = out[k]
    BY <1>1, <1>3 DEF Holds
  <2> QED
    BY <1>3, <2>1, <2>2 DEF ChildOf
<1> QED
  BY <1>2, <1>3

\* What a node and its first or shared child are fed by is the same.
LEMMA FeederOfKid ==
    ASSUME NEW k \in Node \ Roots, NEW out, NEW c,
           Kind[Parent[k]] # "seq" \/ Position[k] # 2
    PROVE  Fed(out, c, k) = Fed(out, c, Parent[k])
  BY FeederDef DEF Fed

LEMMA ExecLeafValues ==
    ASSUME NEW S, NEW D, NEW P, Account(S, D, P), NEW out, Valued(D, P, out),
           NEW t \in Thread, ExecLeaf(t), NEW n, n = cur[t]
    PROVE  \E o : Valued(D \union {n}, P, o)'
<1> USE DEF TypeOK, ThreadType, StorageType, Goto, storageVars, latchVars, callVars
<1>0. TypeOK
  BY DEF Account
<1>1. n \in S /\ n \in Node /\ n \notin D /\ Kind[n] = "leaf" /\ pc[t] = "exec"
  BY StageFacts DEF ExecLeaf
<1>2. PICK v : v = Output(n, Fed(out, calls, n))
  OBVIOUS
<1>3. PICK o : o = [m \in Node |-> IF m = n THEN v ELSE out[m]]
  OBVIOUS
<1>4. /\ Valued(D, P, o) /\ o[n] = v /\ \A m \in D : o[m] = out[m]
      /\ Fed(o, calls, n) = Fed(out, calls, n)
  BY <1>1, <1>3, NewOutput
<1>5. Evaluated(D \union {n}, o)
  <2>1. o[n] = Made(o, calls, n)
    BY <1>1, <1>2, <1>4 DEF Made
  <2> QED
    BY <1>1, <1>4, <2>1 DEF Valued, Evaluated
<1>6. StaysReadable(P, o, t)
  BY <1>0 DEF ExecLeaf, StaysReadable
<1>7. pc'[t] = "out" /\ cur'[t] = n /\ val'[t] = o[n]
  <2>1. Input(t, n) = Fed(out, calls, n)
    BY <1>1 DEF Valued, Carries
  <2> QED
    BY <1>0, <1>2, <1>4, <2>1 DEF ExecLeaf
<1>8. Holds(P, o)'
  BY <1>4, HoldsOn DEF ExecLeaf, Valued
<1>9. Carries(t, o)'
  BY <1>7 DEF Carries
<1>10. Valued(D \union {n}, P, o)'
  BY <1>4, <1>5, <1>6, <1>8, <1>9, ValuedStep
<1> QED
  BY <1>10

LEMMA ExecSeqValues ==
    ASSUME NEW S, NEW D, NEW P, Account(S, D, P), NEW out, Valued(D, P, out),
           NEW t \in Thread, ExecSeq(t)
    PROVE  Valued(D, P, out)'
<1> USE DEF TypeOK, ThreadType, StorageType, Goto, storageVars, latchVars, callVars
<1>0. TypeOK
  BY DEF Account
<1>1. PICK n : n = cur[t]
  OBVIOUS
<1>2. PICK k : k = Kids[n][1]
  OBVIOUS
<1>3. n \in Node /\ Kind[n] = "seq" /\ pc[t] = "exec"
  BY <1>1, StageFacts DEF ExecSeq
<1>4. k \in Node \ Roots /\ Parent[k] = n /\ Position[k] = 1
  BY <1>2, <1>3, SeqFacts
<1>5. StaysReadable(P, out, t)
  BY <1>0 DEF ExecSeq, StaysReadable
<1>6. Holds(P, out)'
  BY HoldsOn DEF ExecSeq, Valued
<1>7. Carries(t, out)'
  <2>1. pc'[t] = "exec" /\ cur'[t] = k /\ val'[t] = Input(t, n) /\ calls' = calls
    BY <1>1, <1>2, <1>0 DEF ExecSeq
  <2>2. Input(t, n) = Fed(out, calls, n)
    BY <1>1, <1>3 DEF Valued, Carries
  <2>3. Fed(out, calls, k) = Fed(out, calls, n)
    BY <1>4, FeederOfKid
  <2>4. Input(t, k)' = val'[t]
    BY <1>3, <1>4 DEF Input, Shared
  <2> QED
    BY <2>1, <2>2, <2>3, <2>4 DEF Carries
<1> QED
  BY <1>5, <1>6, <1>7, ValuedStep DEF Valued

LEMMA ExecSharedValues ==
    ASSUME NEW S, NEW D, NEW P, Account(S, D, P), NEW out, Valued(D, P, out),
           NEW t \in Thread, ExecShared(t)
    PROVE  Valued(D, P, out)'
<1> USE DEF TypeOK, ThreadType, StorageType, Goto, storageVars, latchVars, callVars
<1>0. TypeOK
  BY DEF Account
<1>1. PICK n : n = cur[t]
  OBVIOUS
<1>2. n \in Node /\ pc[t] = "exec" /\ ~engaged[n] /\ KidsOf(n) \intersect P = {}
  <2>1. n \in Node /\ pc[t] = "exec"
    BY <1>1, StageFacts DEF ExecShared
  <2>2. ~engaged[n] /\ KidsOf(n) \intersect S = {}
    BY <1>1, <2>1 DEF Account, Positions, EnteringFresh, Entering
  <2> QED
    BY <2>1, <2>2, StageFacts
<1>3. Input(t, n) = Fed(out, calls, n)
  BY <1>1, <1>2 DEF Valued, Carries
<1>4. /\ engaged' = [engaged EXCEPT ![n] = TRUE]
      /\ input' = [input EXCEPT ![n] = Fed(out, calls, n)]
      /\ pc'[t] = "fan" /\ slot' = slot /\ calls' = calls
  BY <1>0, <1>1, <1>3 DEF ExecShared, Construct
<1>5. StaysReadable(P, out, t)
  BY <1>0, <1>2, <1>4 DEF ExecShared, StaysReadable
<1>6. Holds(P, out)'
  <2>1. ASSUME NEW m \in Node, engaged'[m]
        PROVE  /\ input'[m] = Fed(out, calls, m)
               /\ Kind[m] = "all" =>
                      \A k \in KidsOf(m) \intersect P : slot[k] = out[k]
    BY <1>0, <1>2, <1>4, <2>1 DEF Valued, Holds
  <2> QED
    BY <1>4, <2>1 DEF Holds
<1>7. Carries(t, out)'
  BY <1>4 DEF Carries
<1> QED
  BY <1>5, <1>6, <1>7, ValuedStep DEF Valued

LEMMA ScheduleValues ==
    ASSUME NEW S, NEW D, NEW P, Account(S, D, P), NEW out, Valued(D, P, out),
           NEW t \in Thread, Schedule(t)
    PROVE  Valued(D, P, out)'
<1> USE DEF TypeOK, ThreadType, StorageType, storageVars, latchVars, callVars
<1>0. TypeOK
  BY DEF Account
<1>1. \A u \in Thread : pc'[u] = "queued"
                        \/ (pc'[u] = pc[u] /\ u # cur[t])
  BY <1>0 DEF Schedule
<1>2. StaysReadable(P, out, t)
  BY <1>0, <1>1 DEF Schedule, StaysReadable
<1>3. Holds(P, out)'
  BY HoldsOn DEF Schedule, Valued
<1>4. Carries(t, out)'
  BY <1>1 DEF Carries, Schedule
<1> QED
  BY <1>2, <1>3, <1>4, ValuedStep DEF Valued

\* A child of an all or an any finds its input in their storage.
LEMMA InputInStorage ==
    ASSUME NEW P, NEW out, Holds(P, out), NEW k \in Node \ Roots,
           Shared(Parent[k]), engaged[Parent[k]]
    PROVE  input[Parent[k]] = Fed(out, calls, k)
<1>1. Parent[k] \in Node
  BY ParentFacts
<1>2. Fed(out, calls, k) = Fed(out, calls, Parent[k])
  BY FeederOfKid DEF Shared
<1> QED
  BY <1>1, <1>2 DEF Holds

LEMMA RunInlineValues ==
    ASSUME NEW S, NEW D, NEW P, Account(S, D, P), NEW out, Valued(D, P, out),
           NEW t \in Thread, RunInline(t)
    PROVE  Valued(D, P, out)'
<1> USE DEF TypeOK, ThreadType, StorageType, Goto, storageVars, latchVars, callVars
<1>0. TypeOK
  BY DEF Account
<1>1. PICK k : k = cur[t]
  OBVIOUS
<1>2. /\ k \in Node \ Roots /\ Shared(Parent[k]) /\ engaged[Parent[k]]
      /\ pc[t] = "fan"
  <2>1. k \in Node \ Roots /\ Shared(Parent[k]) /\ pc[t] = "fan"
    BY <1>0, <1>1, AtNode DEF RunInline, Place
  <2> QED
    BY <1>1, <2>1 DEF Account, Positions, StartingFresh, Starting
<1>3. StaysReadable(P, out, t)
  BY <1>0 DEF RunInline, StaysReadable
<1>4. Holds(P, out)'
  BY HoldsOn DEF RunInline, Valued
<1>5. Carries(t, out)'
  <2>1. input[Parent[k]] = Fed(out, calls, k)
    BY <1>2, InputInStorage DEF Valued
  <2>2. pc'[t] = "exec" /\ cur'[t] = k /\ calls' = calls /\ input' = input
    BY <1>0, <1>1 DEF RunInline
  <2>3. Input(t, k)' = input[Parent[k]]
    BY <1>2, <2>2 DEF Input, Shared
  <2> QED
    BY <2>1, <2>2, <2>3 DEF Carries
<1> QED
  BY <1>3, <1>4, <1>5, ValuedStep DEF Valued

LEMMA StartValues ==
    ASSUME NEW S, NEW D, NEW P, Account(S, D, P), NEW out, Valued(D, P, out),
           NEW k \in Task, Start(k)
    PROVE  Valued(D, P, out)'
<1> USE DEF TypeOK, ThreadType, StorageType, Goto, storageVars, latchVars, callVars
<1>0. TypeOK /\ k \in Thread
  BY DEF Account, Thread
<1>1. /\ k \in Node \ Roots /\ Shared(Parent[k]) /\ engaged[Parent[k]]
      /\ pc[k] = "queued"
  <2>1. k \in Node \ Roots /\ Shared(Parent[k]) /\ pc[k] = "queued" /\ cur[k] = k
    BY <1>0 DEF Start, Task, Place
  <2>2. k \in S \ D
    BY <1>0, <2>1 DEF Account, Positions, EnteringFresh, Entering
  <2> QED
    BY <2>1, <2>2, StageFacts DEF Account, Stages
<1>2. StaysReadable(P, out, k)
  BY <1>0 DEF Start, StaysReadable
<1>3. Holds(P, out)'
  BY HoldsOn DEF Start, Valued
<1>4. Carries(k, out)'
  <2>1. input[Parent[k]] = Fed(out, calls, k)
    BY <1>1, InputInStorage DEF Valued
  <2>2. pc'[k] = "exec" /\ cur'[k] = k /\ calls' = calls /\ input' = input
    BY <1>0 DEF Start
  <2>3. Input(k, k)' = input[Parent[k]]
    BY <1>1, <2>2 DEF Input, Shared
  <2> QED
    BY <2>1, <2>2, <2>3 DEF Carries
<1> QED
  BY <1>0, <1>2, <1>3, <1>4, ValuedStep DEF Valued

LEMMA SeqFirstValues ==
    ASSUME NEW S, NEW D, NEW P, Account(S, D, P), NEW out, Valued(D, P, out),
           NEW t \in Thread, SeqFirst(t), NEW k, k = cur[t]
    PROVE  Valued(D, P \union {k}, out)'
<1> USE DEF TypeOK, ThreadType, StorageType, Goto, storageVars, latchVars, callVars
<1>0. TypeOK
  BY DEF Account
<1>1. k \in Node \ Roots /\ Kind[Parent[k]] = "seq" /\ Position[k] = 1 /\ pc[t] = "out"
  BY StageFacts DEF SeqFirst, ChildOf
<1>2. PICK n : n = Parent[k]
  OBVIOUS
<1>3. PICK l : l = Kids[n][2]
  OBVIOUS
<1>4. n \in Node /\ k = Kids[n][1]
  BY <1>1, <1>2, ParentFacts
<1>5. l \in Node \ Roots /\ Parent[l] = n /\ Position[l] = 2
  BY <1>1, <1>2, <1>3, <1>4, SeqFacts
<1>6. Fed(out, calls, l) = out[k]
  <2>1. Feeder[l] = k /\ k # Main
    BY <1>1, <1>2, <1>4, <1>5, FeederDef, ThreadFacts
  <2> QED
    BY <2>1 DEF Fed
<1>7. StaysReadable(P, out, t)
  BY <1>0 DEF SeqFirst, StaysReadable
<1>8. Holds(P \union {k}, out)'
  BY <1>1, HoldsOn DEF SeqFirst, ChildOf, Valued
<1>9. Carries(t, out)'
  <2>1. pc'[t] = "exec" /\ cur'[t] = l /\ val' = val /\ calls' = calls
    BY <1>0, <1>2, <1>3 DEF SeqFirst
  <2>2. val[t] = out[k]
    BY <1>1 DEF Valued, Carries
  <2>3. Input(t, l)' = val[t]
    BY <1>1, <1>2, <1>5, <2>1 DEF Input, Shared
  <2> QED
    BY <1>6, <2>1, <2>2, <2>3 DEF Carries
<1> QED
  BY <1>7, <1>8, <1>9, ValuedStep DEF Valued

LEMMA SeqSecondValues ==
    ASSUME NEW S, NEW D, NEW P, Account(S, D, P), NEW out, Valued(D, P, out),
           NEW t \in Thread, SeqSecond(t), NEW k, k = cur[t],
           NEW n, n = Parent[k]
    PROVE  \E o : Valued(D \union {n}, P \union {k}, o)'
<1> USE DEF TypeOK, ThreadType, StorageType, Goto, storageVars, latchVars, callVars
<1>0. TypeOK
  BY DEF Account
<1>1. /\ k \in Node \ Roots /\ k \in D /\ Kind[n] = "seq" /\ Position[k] = 2
      /\ pc[t] = "out"
  BY StageFacts DEF SeqSecond, ChildOf
<1>2. n \in Node
  BY <1>1, ParentFacts
<1>3. n \notin D
  BY <1>1, LeavingFacts DEF Leaving, Waits
<1>4. PICK v : v = out[k]
  OBVIOUS
<1>5. PICK o : o = [m \in Node |-> IF m = n THEN v ELSE out[m]]
  OBVIOUS
<1>6. Valued(D, P, o) /\ o[n] = v /\ \A m \in D : o[m] = out[m]
  BY <1>2, <1>3, <1>5, NewOutput
<1>7. Evaluated(D \union {n}, o)
  <2>1. k = Kids[n][2]
    BY <1>1, ParentFacts
  <2>2. o[n] = Made(o, calls, n)
    BY <1>1, <1>4, <1>6, <2>1 DEF Made
  <2> QED
    BY <1>1, <1>6, <2>2 DEF Valued, Evaluated
<1>8. StaysReadable(P, o, t)
  BY <1>0 DEF SeqSecond, StaysReadable
<1>9. Holds(P \union {k}, o)'
  BY <1>1, <1>6, HoldsOn DEF SeqSecond, ChildOf, Valued
<1>10. Carries(t, o)'
  <2>1. pc'[t] = "out" /\ cur'[t] = n /\ val' = val
    BY <1>0 DEF SeqSecond
  <2>2. val[t] = out[k]
    BY <1>1 DEF Valued, Carries
  <2> QED
    BY <1>4, <1>6, <2>1, <2>2 DEF Carries
<1>11. Valued(D \union {n}, P \union {k}, o)'
  BY <1>6, <1>7, <1>8, <1>9, <1>10, ValuedStep
<1> QED
  BY <1>11

LEMMA AllStoreValues ==
    ASSUME NEW S, NEW D, NEW P, Account(S, D, P), NEW out, Valued(D, P, out),
           NEW t \in Thread, AllStore(t)
    PROVE  Valued(D, P, out)'
<1> USE DEF TypeOK, ThreadType, StorageType, Goto, storageVars, latchVars, callVars
<1>0. TypeOK
  BY DEF Account
<1>1. PICK k : k = cur[t]
  OBVIOUS
<1>2. k \in Node /\ val[t] = out[k]
  BY <1>1, StageFacts DEF AllStore, Valued, Carries
<1>3. \A l \in Node : slot'[l] = IF l = k THEN out[k] ELSE slot[l]
  BY <1>0, <1>1, <1>2 DEF AllStore
<1>4. StaysReadable(P, out, t)
  BY <1>0, <1>3 DEF AllStore, StaysReadable
<1>5. Holds(P, out)'
  BY <1>3, HoldsOn DEF AllStore, Valued
<1>6. Carries(t, out)'
  <2>1. pc'[t] = "join" /\ cur'[t] = k
    BY <1>0, <1>1 DEF AllStore
  <2> QED
    BY <1>2, <1>3, <2>1 DEF Carries
<1> QED
  BY <1>4, <1>5, <1>6, ValuedStep DEF Valued

\* A thread leaves a node, and takes no value with it.
Leaves(t) ==
    /\ pc'[t] \in {"last", "wait", "idle", "count"}
    /\ \A u \in Thread \ {t} :
           pc'[u] = pc[u] /\ cur'[u] = cur[u] /\ val'[u] = val[u]
    /\ UNCHANGED <<engaged, input, slot, calls>>

LEMMA LeavingValues ==
    ASSUME NEW S, NEW D, NEW P, Account(S, D, P), NEW out, Valued(D, P, out),
           NEW t \in Thread, Leaves(t), NEW P2,
           \A k \in P2 \ P : ChildOf(k, "all") => pc[t] = "join" /\ k = cur[t]
    PROVE  Valued(D, P2, out)'
<1>1. StaysReadable(P, out, t)
  BY DEF Leaves, StaysReadable
<1>2. Holds(P2, out)'
  <2>1. \A k \in P2 \ P : ChildOf(k, "all") => slot[k] = out[k]
    BY DEF Valued, Carries
  <2> QED
    BY <2>1, HoldsOn DEF Leaves, Valued
<1>3. Carries(t, out)'
  BY DEF Leaves, Carries
<1> QED
  BY <1>1, <1>2, <1>3, ValuedStep DEF Valued

LEMMA UnwindLeaves ==
    ASSUME TypeOK, NEW t \in Thread, NEW known, Unwind(t, known)
    PROVE  /\ pc'[t] \in {"last", "wait", "idle"}
           /\ \A u \in Thread \ {t} :
                  pc'[u] = pc[u] /\ cur'[u] = cur[u] /\ val'[u] = val[u]
           /\ t = Main => pc'[t] # "idle"
  BY DEF Unwind, Goto, TypeOK, ThreadType

LEMMA JoinValues ==
    ASSUME NEW S, NEW D, NEW P, Account(S, D, P), NEW out, Valued(D, P, out),
           NEW t \in Thread,
           AllJoin(t) \/ AllLast(t) \/ AnyLose(t) \/ AnyLast(t) \/ Deliver(t),
           NEW k, k = cur[t]
    PROVE  Valued(D, P \union {k}, out)'
<1> USE DEF TypeOK, ThreadType, StorageType, Goto, storageVars, latchVars, callVars
<1>0. TypeOK
  BY DEF Account
<1>1. Leaves(t)
  <2>1. CASE AllJoin(t)
    BY <1>0, <2>1, UnwindLeaves DEF AllJoin, FetchSub, Leaves
  <2>2. CASE AnyLose(t)
    BY <1>0, <2>2, UnwindLeaves DEF AnyLose, FetchSub, Leaves
  <2>3. CASE AllLast(t)
    BY <1>0, <2>3 DEF AllLast, FetchSub, Leaves
  <2>4. CASE AnyLast(t)
    BY <1>0, <2>4 DEF AnyLast, FetchSub, Leaves
  <2>5. CASE Deliver(t)
    BY <1>0, <2>5 DEF Deliver, Leaves
  <2> QED
    BY <2>1, <2>2, <2>3, <2>4, <2>5
<1>2. ChildOf(k, "all") => pc[t] = "join"
  BY DEF AllJoin, AllLast, AnyLose, AnyLast, Deliver, ChildOf
<1> QED
  BY <1>1, <1>2, LeavingValues

LEMMA CountDownValues ==
    ASSUME NEW S, NEW D, NEW P, Account(S, D, P), NEW out, Valued(D, P, out),
           NEW t \in Thread, CountDown(t)
    PROVE  Valued(D, P, out)'
<1>1. Leaves(t)
  BY UnwindLeaves DEF Account, CountDown, Leaves, storageVars, callVars
<1> QED
  BY <1>1, LeavingValues

LEMMA AnyFirstValues ==
    ASSUME NEW S, NEW D, NEW P, Account(S, D, P), NEW out, Valued(D, P, out),
           NEW t \in Thread, AnyFirst(t), NEW k, k = cur[t],
           NEW n, n = Parent[k]
    PROVE  \E o : Valued(D \union {n}, P \union {k}, o)'
<1> USE DEF TypeOK, ThreadType, StorageType, Goto, storageVars, latchVars, callVars
<1>0. TypeOK
  BY DEF Account
<1>1. k \in Node \ Roots /\ k \in D /\ Kind[n] = "any" /\ pc[t] = "out"
  BY StageFacts DEF AnyFirst, ChildOf
<1>2. n \in Node /\ k \in KidsOf(n)
  BY <1>1, ParentFacts
<1>3. n \notin D
  <2>1. engaged[n]
    BY <1>1, LeavingFacts DEF Leaving, Shared
  <2>2. left[n] = Arity(n) /\ Arity(n) \in Nat
    BY <1>2, ArityFacts DEF AnyFirst
  <2>3. n \in D => left[n] < Arity(n)
    BY <1>2, <2>1 DEF Account, Storages
  <2> QED
    BY <2>2, <2>3
<1>4. PICK v : v = out[k]
  OBVIOUS
<1>5. PICK o : o = [m \in Node |-> IF m = n THEN v ELSE out[m]]
  OBVIOUS
<1>6. Valued(D, P, o) /\ o[n] = v /\ \A m \in D : o[m] = out[m]
  BY <1>2, <1>3, <1>5, NewOutput
<1>7. Evaluated(D \union {n}, o)
  <2>1. o[n] = o[k]
    BY <1>1, <1>4, <1>6
  <2> QED
    BY <1>1, <1>2, <1>6, <2>1 DEF Valued, Evaluated
<1>8. StaysReadable(P, o, t)
  BY <1>0 DEF AnyFirst, FetchSub, StaysReadable
<1>9. Holds(P \union {k}, o)'
  BY <1>1, <1>6, HoldsOn DEF AnyFirst, FetchSub, ChildOf, Valued
<1>10. Carries(t, o)'
  <2>1. pc'[t] = "out" /\ cur'[t] = n /\ val' = val
    BY <1>0 DEF AnyFirst
  <2>2. val[t] = out[k]
    BY <1>1 DEF Valued, Carries
  <2> QED
    BY <1>4, <1>6, <2>1, <2>2 DEF Carries
<1>11. Valued(D \union {n}, P \union {k}, o)'
  BY <1>6, <1>7, <1>8, <1>9, <1>10, ValuedStep
<1> QED
  BY <1>11

\* Whoever destroys a storage finds all children of its node passed on.
LEMMA LastFacts ==
    ASSUME NEW S, NEW D, NEW P, Account(S, D, P),
           NEW t \in Thread, pc[t] = "last", NEW n, n = cur[t]
    PROVE  /\ n \in Node /\ n \in S /\ engaged[n] /\ KidsOf(n) \subseteq P
           /\ Kind[n] = "all" => n \notin D
<1>1. n \in Node
  BY AtNode DEF Account, TypeOK
<1>2. engaged[n] /\ KidsOf(n) \subseteq P
  BY <1>1 DEF Account, Positions, EndingOver, Ending
<1>3. n \in S /\ (n \in D => Kind[n] = "any")
  BY <1>1, <1>2 DEF Account, Storages
<1> QED
  BY <1>1, <1>2, <1>3

LEMMA DestroyedHolds ==
    ASSUME TypeOK, NEW P, NEW out, Holds(P, out), NEW n \in Node, Destroy(n),
           calls' = calls, \A k \in Node \ KidsOf(n) : slot'[k] = slot[k]
    PROVE  Holds(P, out)'
<1>1. SUFFICES ASSUME NEW m \in Node, engaged'[m]
               PROVE  /\ input'[m] = Fed(out, calls, m)
                      /\ Kind[m] = "all" =>
                             \A k \in KidsOf(m) \intersect P : slot'[k] = out[k]
  BY DEF Holds
<1>2. m # n /\ engaged[m] /\ input'[m] = input[m]
  BY <1>1 DEF Destroy, TypeOK, StorageType
<1>3. \A k \in KidsOf(m) : k \in Node /\ k \notin KidsOf(n)
  BY <1>2, KidsAreLarger
<1>4. /\ input[m] = Fed(out, calls, m)
      /\ Kind[m] = "all" => \A k \in KidsOf(m) \intersect P : slot[k] = out[k]
  BY <1>2 DEF Holds
<1> QED
  BY <1>2, <1>3, <1>4

LEMMA AllFinishValues ==
    ASSUME NEW S, NEW D, NEW P, Account(S, D, P), NEW out, Valued(D, P, out),
           NEW t \in Thread, AllFinish(t), NEW n, n = cur[t]
    PROVE  \E o : Valued(D \union {n}, P, o)'
<1>0. TypeOK
  BY DEF Account
<1>1. /\ n \in Node /\ n \in S /\ engaged[n] /\ KidsOf(n) \subseteq P
      /\ Kind[n] = "all" /\ n \notin D
  BY LastFacts DEF AllFinish
<1>2. PICK v : v = Output(n, [i \in DOMAIN Kids[n] |-> out[Kids[n][i]]])
  OBVIOUS
<1>3. PICK o : o = [m \in Node |-> IF m = n THEN v ELSE out[m]]
  OBVIOUS
<1>4. Valued(D, P, o) /\ o[n] = v /\ \A m \in D : o[m] = out[m]
  BY <1>1, <1>3, NewOutput
<1>5. Output(n, [i \in DOMAIN Kids[n] |-> slot[Kids[n][i]]]) = v
  <2>1. \A i \in DOMAIN Kids[n] : Kids[n][i] \in KidsOf(n)
    BY DEF KidsOf
  <2>2. \A k \in KidsOf(n) : slot[k] = out[k]
    BY <1>1 DEF Valued, Holds
  <2>3. [i \in DOMAIN Kids[n] |-> slot[Kids[n][i]]]
        = [i \in DOMAIN Kids[n] |-> out[Kids[n][i]]]
    BY <2>1, <2>2
  <2> QED
    BY <1>2, <2>3
<1>6. Evaluated(D \union {n}, o)
  <2>1. \A i \in DOMAIN Kids[n] : o[Kids[n][i]] = out[Kids[n][i]]
    BY <1>1, <1>4, StageFacts DEF KidsOf
  <2>2. [i \in DOMAIN Kids[n] |-> o[Kids[n][i]]]
        = [i \in DOMAIN Kids[n] |-> out[Kids[n][i]]]
    BY <2>1
  <2>3. o[n] = Made(o, calls, n)
    BY <1>1, <1>2, <1>4, <2>2 DEF Made
  <2> QED
    BY <1>1, <1>4, <2>3 DEF Valued, Evaluated
<1>7. /\ pc'[t] = "out" /\ cur'[t] = n /\ val'[t] = v
      /\ \A u \in Thread \ {t} :
             pc'[u] = pc[u] /\ cur'[u] = cur[u] /\ val'[u] = val[u]
      /\ Destroy(n) /\ calls' = calls
      /\ \A k \in Node : slot'[k] = IF k \in KidsOf(n) THEN Nothing ELSE slot[k]
  BY <1>0, <1>5
     DEF AllFinish, Goto, callVars, TypeOK, ThreadType
<1>8. StaysReadable(P, o, t)
  <2>1. \A m \in Node : input'[m] = input[m] \/ KidsOf(m) \subseteq P
    BY <1>0, <1>1, <1>7 DEF Destroy, TypeOK, StorageType
  <2>2. \A k \in Node : slot'[k] = slot[k] \/ k \in P
    BY <1>1, <1>7
  <2> QED
    BY <1>7, <2>1, <2>2 DEF StaysReadable
<1>9. Holds(P, o)'
  BY <1>0, <1>1, <1>4, <1>7, DestroyedHolds DEF Valued
<1>10. Carries(t, o)'
  BY <1>4, <1>7 DEF Carries
<1>11. Valued(D \union {n}, P, o)'
  BY <1>4, <1>6, <1>8, <1>9, <1>10, ValuedStep
<1> QED
  BY <1>11

LEMMA AnyFinishValues ==
    ASSUME NEW S, NEW D, NEW P, Account(S, D, P), NEW out, Valued(D, P, out),
           NEW t \in Thread, AnyFinish(t)
    PROVE  Valued(D, P, out)'
<1>0. TypeOK
  BY DEF Account
<1>1. PICK n : n = cur[t]
  OBVIOUS
<1>2. n \in Node /\ KidsOf(n) \subseteq P
  BY <1>1, LastFacts DEF AnyFinish
<1>3. /\ pc'[t] = "count" /\ Destroy(n) /\ slot' = slot /\ calls' = calls
      /\ \A u \in Thread \ {t} :
             pc'[u] = pc[u] /\ cur'[u] = cur[u] /\ val'[u] = val[u]
  BY <1>0, <1>1 DEF AnyFinish, Goto, callVars, TypeOK, ThreadType
<1>4. StaysReadable(P, out, t)
  <2>1. \A m \in Node : input'[m] = input[m] \/ KidsOf(m) \subseteq P
    BY <1>0, <1>2, <1>3 DEF Destroy, TypeOK, StorageType
  <2> QED
    BY <1>3, <2>1 DEF StaysReadable
<1>5. Holds(P, out)'
  BY <1>0, <1>2, <1>3, DestroyedHolds DEF Valued
<1>6. Carries(t, out)'
  BY <1>3 DEF Carries
<1> QED
  BY <1>4, <1>5, <1>6, ValuedStep DEF Valued

LEMMA RestValues ==
    ASSUME NEW S, NEW D, NEW P, Account(S, D, P), NEW out, Valued(D, P, out),
           Return \/ UNCHANGED vars
    PROVE  Valued(D, P, out)'
<1>1. CASE Return
  <2>1. Main \in Thread /\ Leaves(Main)
    BY <1>1, ThreadFacts
       DEF Account, TypeOK, ThreadType, Return, Goto, Leaves, storageVars,
           callVars
  <2> QED
    BY <2>1, LeavingValues
<1>2. CASE UNCHANGED vars
  BY <1>2 DEF Valued, Evaluated, Carries, Input, Holds, vars, threadVars,
              storageVars, callVars
<1> QED
  BY <1>1, <1>2

\* A call begins with its own input, and with no value left of an earlier one.
LEMMA CallValues ==
    ASSUME Inv, NEW r \in Roots, Call(r), NEW out
    PROVE  Valued({}, {}, out)'
<1>1. /\ TypeOK /\ \A t \in Thread : pc[t] = "idle"
      /\ \A n \in Node : ~engaged[n]
  BY CallerIdle DEF Call
<1>2. /\ pc'[Main] = "exec" /\ cur'[Main] = r
      /\ val'[Main] = CallInput(calls')
      /\ \A t \in Thread : t # Main => pc'[t] = "idle"
      /\ engaged' = engaged
  BY <1>1, ThreadFacts
     DEF Call, Goto, TypeOK, ThreadType, storageVars
<1>3. Feeder[r] = Main
  BY FeederDef DEF Roots
<1>4. ASSUME NEW t \in Thread PROVE Carries(t, out)'
  BY <1>2, <1>3 DEF Carries, Input, Fed
<1>5. Evaluated({}, out)' /\ Holds({}, out)'
  BY <1>1, <1>2 DEF Evaluated, Holds
<1> QED
  BY <1>4, <1>5 DEF Valued

-----------------------------------------------------------------------------
\* The invariant holds initially, and every step preserves it.

LEMMA ValuesAccounted ==
    ASSUME NEW S, NEW D, NEW P, Account(S, D, P)', \E o : Valued(D, P, o)'
    PROVE  ValuedInv'
<1>1. root' \in Node /\ S \subseteq Tree[root'] /\ D \subseteq S /\ P \subseteq D
  BY DEF Account, Stages, TypeOK, CallType, Roots
<1>2. S \in SUBSET Node /\ D \in SUBSET Node /\ P \in SUBSET Node
  BY <1>1, TreeSelf
<1> QED
  BY <1>2 DEF ValuedInv

LEMMA ExecuteKeepsValues ==
    ASSUME NEW S, NEW D, NEW P, Account(S, D, P), TypeOK',
           NEW out, Valued(D, P, out), NEW t \in Thread, Execute(t) \/ Fan(t)
    PROVE  ValuedInv'
<1>1. PICK n : n = cur[t]
  OBVIOUS
<1>2. PICK l : l = Kids[cur[t]][1]
  OBVIOUS
<1>3. ASSUME ExecLeaf(t) PROVE ValuedInv'
  <2>1. Account(S, D \union {n}, P)'
    BY <1>1, <1>3, ExecLeafKeeps
  <2>2. \E o : Valued(D \union {n}, P, o)'
    BY <1>1, <1>3, ExecLeafValues
  <2> QED
    BY <2>1, <2>2, ValuesAccounted
<1>4. ASSUME ExecSeq(t) PROVE ValuedInv'
  <2>1. Account(S \union {l}, D, P)'
    BY <1>2, <1>4, ExecSeqKeeps
  <2>2. Valued(D, P, out)'
    BY <1>4, ExecSeqValues
  <2> QED
    BY <2>1, <2>2, ValuesAccounted
<1>5. ASSUME ExecShared(t) PROVE ValuedInv'
  <2>1. Account(S, D, P)'
    BY <1>5, ExecSharedKeeps
  <2>2. Valued(D, P, out)'
    BY <1>5, ExecSharedValues
  <2> QED
    BY <2>1, <2>2, ValuesAccounted
<1>6. ASSUME Schedule(t) \/ RunInline(t) PROVE ValuedInv'
  <2>1. Account(S \union {n}, D, P)'
    BY <1>1, <1>6, ScheduleKeeps, RunInlineKeeps
  <2>2. Valued(D, P, out)'
    BY <1>6, ScheduleValues, RunInlineValues
  <2> QED
    BY <2>1, <2>2, ValuesAccounted
<1> QED
  BY <1>3, <1>4, <1>5, <1>6 DEF Execute, Fan

LEMMA ContinueKeepsValues ==
    ASSUME NEW S, NEW D, NEW P, Account(S, D, P), TypeOK',
           NEW out, Valued(D, P, out), NEW t \in Thread, Continue(t)
    PROVE  ValuedInv'
<1>1. PICK k : k = cur[t]
  OBVIOUS
<1>2. PICK n : n = Parent[k]
  OBVIOUS
<1>3. PICK l : l = Kids[Parent[k]][2]
  OBVIOUS
<1>4. ASSUME SeqFirst(t) PROVE ValuedInv'
  <2>1. Account(S \union {l}, D, P \union {k})'
    BY <1>1, <1>3, <1>4, SeqFirstKeeps
  <2>2. Valued(D, P \union {k}, out)'
    BY <1>1, <1>4, SeqFirstValues
  <2> QED
    BY <2>1, <2>2, ValuesAccounted
<1>5. ASSUME SeqSecond(t) PROVE ValuedInv'
  <2>1. Account(S, D \union {n}, P \union {k})'
    BY <1>1, <1>2, <1>5, SeqSecondKeeps
  <2>2. \E o : Valued(D \union {n}, P \union {k}, o)'
    BY <1>1, <1>2, <1>5, SeqSecondValues
  <2> QED
    BY <2>1, <2>2, ValuesAccounted
<1>6. ASSUME AllStore(t) PROVE ValuedInv'
  <2>1. Account(S, D, P)'
    BY <1>6, AllStoreKeeps
  <2>2. Valued(D, P, out)'
    BY <1>6, AllStoreValues
  <2> QED
    BY <2>1, <2>2, ValuesAccounted
<1>7. ASSUME AllJoin(t) \/ AllLast(t) \/ AnyLose(t) \/ AnyLast(t) \/ Deliver(t)
      PROVE  ValuedInv'
  <2>1. Account(S, D, P \union {k})'
    BY <1>1, <1>7, AllJoinKeeps, AllLastKeeps, AnyLoseKeeps, AnyLastKeeps,
       DeliverKeeps
  <2>2. Valued(D, P \union {k}, out)'
    BY <1>1, <1>7, JoinValues
  <2> QED
    BY <2>1, <2>2, ValuesAccounted
<1>8. ASSUME AllFinish(t) PROVE ValuedInv'
  <2>1. Account(S, D \union {k}, P)'
    BY <1>1, <1>8, AllFinishKeeps
  <2>2. \E o : Valued(D \union {k}, P, o)'
    BY <1>1, <1>8, AllFinishValues
  <2> QED
    BY <2>1, <2>2, ValuesAccounted
<1>9. ASSUME AnyFirst(t) PROVE ValuedInv'
  <2>1. Account(S, D \union {n}, P \union {k})'
    BY <1>1, <1>2, <1>9, AnyFirstKeeps
  <2>2. \E o : Valued(D \union {n}, P \union {k}, o)'
    BY <1>1, <1>2, <1>9, AnyFirstValues
  <2> QED
    BY <2>1, <2>2, ValuesAccounted
<1>10. ASSUME AnyFinish(t) \/ CountDown(t) PROVE ValuedInv'
  <2>1. Account(S, D, P)'
    BY <1>10, AnyFinishKeeps, CountDownKeeps
  <2>2. Valued(D, P, out)'
    BY <1>10, AnyFinishValues, CountDownValues
  <2> QED
    BY <2>1, <2>2, ValuesAccounted
<1> QED
  BY <1>4, <1>5, <1>6, <1>7, <1>8, <1>9, <1>10 DEF Continue

LEMMA ValuedIsInv == ValuedInv => Inv /\ TypeOK
  BY DEF ValuedInv, Inv, Unused, Account

LEMMA StepKeepsValues ==
    ASSUME ValuedInv, [Next]_vars
    PROVE  ValuedInv'
<1>1. Inv /\ TypeOK /\ TypeOK'
  BY ValuedIsInv, StepKeepsType
<1>2. ASSUME NEW r \in Roots, Call(r) PROVE ValuedInv'
  <2>1. Account({r}, {}, {})'
    BY <1>1, <1>2, CallKeeps
  <2>2. Valued({}, {}, 0)'
    BY <1>1, <1>2, CallValues
  <2> QED
    BY <2>1, <2>2, ValuesAccounted
<1>3. CASE Unused
  <2>1. ASSUME UNCHANGED vars PROVE ValuedInv'
    <3>1. Tidy'
      BY <1>3, <2>1 DEF Unused, Tidy, vars, threadVars, storageVars, latchVars,
                        callVars
    <3> QED
      BY <1>1, <1>3, <2>1, <3>1
         DEF ValuedInv, Unused, vars, threadVars, storageVars, callVars
  <2> QED
    BY <1>2, <1>3, <2>1, UnusedWaits
<1>4. CASE ~Unused
  <2>1. PICK S, D, P \in SUBSET Node : /\ Account(S, D, P)
                                       /\ \E out : Valued(D, P, out)
    BY <1>4 DEF ValuedInv
  <2>2. PICK out : Valued(D, P, out)
    BY <2>1
  <2>3. ASSUME NEW t \in Thread, Step(t) PROVE ValuedInv'
    BY <1>1, <2>1, <2>2, <2>3, ExecuteKeepsValues, ContinueKeepsValues DEF Step
  <2>4. ASSUME NEW k \in Task, Start(k) PROVE ValuedInv'
    <3>1. Account(S, D, P)'
      BY <1>1, <2>1, <2>4, StartKeeps
    <3>2. Valued(D, P, out)'
      BY <2>1, <2>2, <2>4, StartValues
    <3> QED
      BY <3>1, <3>2, ValuesAccounted
  <2>5. ASSUME Return \/ Terminating \/ UNCHANGED vars PROVE ValuedInv'
    <3>1. Return \/ UNCHANGED vars
      BY <2>5 DEF Terminating
    <3>2. Account(S, D, P)'
      BY <1>1, <2>1, <3>1, RestKeeps
    <3>3. Valued(D, P, out)'
      BY <2>1, <2>2, <3>1, RestValues
    <3> QED
      BY <3>2, <3>3, ValuesAccounted
  <2> QED
    BY <1>2, <2>3, <2>4, <2>5 DEF Next
<1> QED
  BY <1>3, <1>4

LEMMA InitValues == Init => ValuedInv
<1>1. Init => Inv /\ calls = 0
  BY InitInv DEF Init
<1> QED
  BY <1>1 DEF Inv, Account, ValuedInv

\* At any time of any call all values, in threads, storages and tuples, are those
\* of one evaluation of the graph with the input of that call: no value gets lost,
\* is mixed up with one of another node, or is left from an earlier call.
THEOREM ValuesAreOfOneEvaluation == Spec => []ValuedInv
<1>1. Init => ValuedInv
  BY InitValues
<1>2. ValuedInv /\ [Next]_vars => ValuedInv'
  BY StepKeepsValues
<1> QED
  BY <1>1, <1>2, PTL DEF Spec

-----------------------------------------------------------------------------
\* Every step is one of what the caller is promised, or none.

\* Whether the caller is in a call changes with the call's begin and end only.
LEMMA CallerStays ==
    ASSUME TypeOK, NEW t \in Thread, Step(t)
    PROVE  /\ (pc'[Main] = "idle") <=> (pc[Main] = "idle")
           /\ calls' = calls /\ root' = root
           /\ Deliver(t) \/ results' = results
<1> USE DEF TypeOK, ThreadType, Goto, callVars, latchVars
<1>1. Main \in Thread /\ Main \notin Node
  BY ThreadFacts
<1>2. CASE Execute(t)
  BY <1>1, <1>2 DEF Execute, ExecLeaf, ExecSeq, ExecShared
<1>3. CASE Fan(t)
  <2>1. pc[t] = "fan" /\ cur[t] # Main
    BY <1>1, <1>3, AtNode DEF Fan, Schedule, RunInline
  <2> QED
    BY <1>1, <1>3, <2>1 DEF Fan, Schedule, RunInline
<1>4. CASE SeqFirst(t) \/ SeqSecond(t) \/ Deliver(t) \/ AllStore(t)
  BY <1>1, <1>4 DEF SeqFirst, SeqSecond, Deliver, AllStore
<1>5. CASE AllLast(t) \/ AnyFirst(t) \/ AnyLast(t)
  BY <1>1, <1>5 DEF AllLast, AnyFirst, AnyLast, FetchSub
<1>6. CASE AllFinish(t) \/ AnyFinish(t)
  BY <1>1, <1>6 DEF AllFinish, AnyFinish
<1>7. CASE AllJoin(t) \/ AnyLose(t) \/ CountDown(t)
  <2>1. /\ pc[t] # "idle" /\ calls' = calls /\ root' = root /\ results' = results
        /\ \E known : Unwind(t, known)
    BY <1>7 DEF AllJoin, AnyLose, CountDown, FetchSub
  <2>2. /\ pc'[t] \in {"last", "wait", "idle"}
        /\ \A u \in Thread \ {t} : pc'[u] = pc[u]
        /\ t = Main => pc'[t] # "idle"
    BY <2>1, UnwindLeaves
  <2> QED
    BY <1>1, <2>1, <2>2
<1> QED
  BY <1>2, <1>3, <1>4, <1>5, <1>6, <1>7 DEF Step, Continue

\* What reaches the end of the graph is its output, and the first in this call.
LEMMA WhatIsDelivered ==
    ASSUME ValuedInv, NEW t \in Thread, pc[t] = "out", cur[t] \in Roots
    PROVE  results = <<>> /\ val[t] \in Outcome(root, calls)
<1>1. PICK S, D, P \in SUBSET Node : /\ Account(S, D, P)
                                     /\ \E out : Valued(D, P, out)
  BY DEF ValuedInv, Unused
<1>2. PICK out : Valued(D, P, out)
  BY <1>1
<1>3. cur[t] = root /\ root \in D /\ root \notin P
  BY <1>1, StageFacts, LeavingFacts DEF Leaving, Roots
<1>4. results = <<>>
  BY <1>1, <1>3 DEF Account, Delivery
<1>5. val[t] = out[root]
  BY <1>2, <1>3 DEF Valued, Carries
<1> QED
  BY <1>1, <1>2, <1>3, <1>4, <1>5, RootOutcome DEF Valued

LEMMA PromiseStep ==
    ASSUME ValuedInv, [Next]_vars
    PROVE  [Promise!Next]_(Promise!vars)
<1> USE DEF Promise!vars
<1>0. Inv /\ TypeOK /\ Main \in Thread
  BY ValuedIsInv, ThreadFacts
<1>1. ASSUME NEW r \in Roots, Call(r) PROVE Promise!Call(r)
  <2>1. pc'[Main] = "exec"
    BY <1>0, <1>1 DEF Call, Goto, TypeOK, ThreadType
  <2> QED
    BY <1>1, <2>1 DEF Call, Promise!Call
<1>2. ASSUME NEW t \in Thread, Deliver(t) PROVE Promise!Deliver
  <2>3. pc[t] = "out" /\ cur[t] \in Roots
    BY <1>2 DEF Deliver
  <2>4. results = <<>> /\ val[t] \in Outcome(root, calls)
    BY <2>3, WhatIsDelivered
  <2>6. results' = <<val[t]>>
    BY <1>2, <2>4 DEF Deliver
  <2>7. pc[Main] # "idle"
    BY <1>0, <2>3, CallerIdle
  <2>8. pc'[Main] # "idle" /\ calls' = calls /\ root' = root
    BY <1>0, <1>2, <2>7, CallerStays DEF Step, Continue
  <2> QED
    BY <2>4, <2>6, <2>7, <2>8 DEF Promise!Deliver
<1>3. ASSUME NEW t \in Thread, Step(t), ~Deliver(t) PROVE UNCHANGED Promise!vars
  BY <1>0, <1>3, CallerStays
<1>4. ASSUME NEW k \in Task, Start(k) PROVE UNCHANGED Promise!vars
  <2>1. k \in Thread /\ k # Main
    BY ThreadFacts DEF Thread
  <2> QED
    BY <1>0, <1>4, <2>1 DEF Start, Goto, TypeOK, ThreadType, callVars
<1>5. CASE Return
  <2>1. LatchOpensLast /\ pc[Main] = "wait" /\ ctr = 0
    BY <1>0, <1>5, InvLatch DEF Return
  <2>2. calls > 0
    BY <1>0, <2>1 DEF Inv, Account, Unused
  <2>3. Len(results) = 1
    BY <2>1, <2>2 DEF LatchOpensLast
  <2>4. pc'[Main] = "idle" /\ UNCHANGED callVars
    BY <1>0, <1>5 DEF Return, Goto, TypeOK, ThreadType
  <2>5. Promise!Return
    BY <2>1, <2>3, <2>4 DEF Promise!Return, callVars
  <2> QED
    BY <2>5 DEF Promise!Next
<1>6. CASE Terminating \/ UNCHANGED vars
  BY <1>6 DEF Terminating, vars, threadVars, callVars
<1> QED
  BY <1>1, <1>2, <1>3, <1>4, <1>5, <1>6 DEF Next, Promise!Next

LEMMA InitPromise == Init => Promise!Init
  BY ThreadFacts DEF Init, Promise!Init

\* sync_execute keeps what module Future promises, for every forest of graphs,
\* every number of workers and of calls: the caller's `then` is invoked once in
\* each call, with an output that the graph can have with the input of that call,
\* and sync_execute returns after that.
THEOREM PromiseIsKept == Spec => ImplementsFuture
<1>1. Init => Promise!Init
  BY InitPromise
<1>2. ValuedInv /\ [Next]_vars => [Promise!Next]_(Promise!vars)
  BY PromiseStep
<1> QED
  BY <1>1, <1>2, ValuesAreOfOneEvaluation, PTL DEF Spec, ImplementsFuture

=============================================================================
