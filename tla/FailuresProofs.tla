--------------------------- MODULE FailuresProofs ---------------------------
(***************************************************************************)
(* Proofs about module Failures: a call that fails is, to everybody else, a *)
(* call whose thread has stopped.                                          *)
(*                                                                         *)
(* The exception takes the caller's thread from its place in the graph to   *)
(* the destructor of the latch.  In module Graph nothing makes a thread    *)
(* move on; so if the caller is taken to stand for ever where it was when  *)
(* it threw, all other threads move as they do there, and the invariant of *)
(* GraphSafety holds of them.  It also holds of the latch, which is not    *)
(* open while any thread is in the graph.                                  *)
(***************************************************************************)
EXTENDS Failures, GraphProofs, GraphOutcome

\* The caller was counted as the first child of an any when it threw, or had
\* invoked `then`; at any other place the step that threw has done nothing.
Won == site.label = "out" /\ ChildOf(site.node, "any")
Told == site.label = "out" /\ site.node \in Roots

\* Where the threads are if the caller stands where it threw.
Stands(t) == thrown /\ t = Main

StandsPc ==
    IF ~thrown THEN pc
    ELSE [pc EXCEPT ![Main] = IF Told THEN "count" ELSE site.label]

StandsCur ==
    IF ~thrown THEN cur
    ELSE [cur EXCEPT ![Main] =
              IF Told THEN Main
              ELSE IF Won THEN Parent[site.node] ELSE site.node]

StandsVal ==
    IF ~thrown THEN val
    ELSE [val EXCEPT ![Main] = IF Told THEN Nothing ELSE site.val]

StandsRest ==
    IF ~thrown THEN rest
    ELSE [rest EXCEPT ![Main] =
              IF Won /\ Arity(Parent[site.node]) = 1
              THEN <<Parent[site.node]>> \o site.rest ELSE site.rest]

StandsSeen ==
    IF ~(thrown /\ Won) THEN seen
    ELSE [seen EXCEPT ![Main] = @ \union {Parent[site.node]}]

Stopped == INSTANCE GraphPromise WITH
    pc <- StandsPc, cur <- StandsCur, val <- StandsVal, rest <- StandsRest,
    seen <- StandsSeen

-----------------------------------------------------------------------------
\* The modules Graph that Failures extends and Stopped instantiates agree.

LEMMA SameFinite == \A X : Stopped!IsFiniteSet(X) <=> IsFiniteSet(X)
  BY DEF Stopped!IsFiniteSet, IsFiniteSet

\* The assumptions of Graph, as its instance states them.
LEMMA StoppedAssumption ==
    /\ Node \subseteq Nat \ {0}
    /\ Stopped!IsFiniteSet(Node)
    /\ Kind \in [Node -> {"leaf", "seq", "all", "any"}]
  BY SameFinite, NodeAssumption

LEMMA StoppedShape ==
    /\ Stopped!Main = Main /\ Stopped!Thread = Thread /\ Stopped!Task = Task
    /\ Stopped!Roots = Roots /\ Stopped!Parent = Parent
    /\ Stopped!Position = Position
    /\ Stopped!CleanupCount = CleanupCount /\ Stopped!Lender = Lender
    /\ \A n : Stopped!KidsOf(n) = KidsOf(n) /\ Stopped!Arity(n) = Arity(n)
    /\ \A n : Stopped!Shared(n) <=> Shared(n)
    /\ \A n, kind : Stopped!ChildOf(n, kind) <=> ChildOf(n, kind)
  BY DEF Stopped!Main, Main, Stopped!Thread, Thread, Stopped!Task, Task,
         Stopped!Roots, Roots, Stopped!Parent, Parent, Stopped!Position,
         Position, Stopped!CleanupCount, CleanupCount, Stopped!Lender, Lender,
         Stopped!KidsOf, KidsOf, Stopped!Arity, Arity, Stopped!Shared, Shared,
         Stopped!IsLast, IsLast, Stopped!ChildOf, ChildOf

LEMMA Threads ==
    /\ Main \in Thread /\ Main \notin Node /\ Main \notin Task
    /\ \A k \in Task : k \in Thread /\ k # Main
    /\ \A t \in Thread : t # Main => t \in Task
  BY NodeAssumption DEF Main, Task, Thread

\* Before an exception is thrown everybody is where they are, ...
LEMMA NobodyStands ==
    ASSUME ~thrown
    PROVE  /\ StandsPc = pc /\ StandsCur = cur /\ StandsVal = val
           /\ StandsRest = rest /\ StandsSeen = seen
  BY DEF StandsPc, StandsCur, StandsVal, StandsRest, StandsSeen

\* ... and after that everybody but the caller is.
LEMMA OthersMove ==
    ASSUME ThreadType, NEW t \in Thread, ~Stands(t)
    PROVE  /\ StandsPc[t] = pc[t] /\ StandsCur[t] = cur[t]
           /\ StandsVal[t] = val[t] /\ StandsRest[t] = rest[t]
           /\ StandsSeen[t] = seen[t]
  BY Threads
     DEF Stands, StandsPc, StandsCur, StandsVal, StandsRest, StandsSeen, ThreadType

\* What they do does not move the caller.
LEMMA Elsewhere ==
    ASSUME NEW f, NEW m, NEW t, t # m, NEW x, NEW y
    PROVE  [[f EXCEPT ![t] = x] EXCEPT ![m] = y]
           = [[f EXCEPT ![m] = y] EXCEPT ![t] = x]
  OBVIOUS

LEMMA CallerSees ==
    ASSUME UNCHANGED <<thrown, site>>, NEW t, ~Stands(t), NEW x,
           seen' = [seen EXCEPT ![t] = x]
    PROVE  StandsSeen' = [StandsSeen EXCEPT ![t] = x]
<1>1. (Won <=> Won') /\ (thrown => t # Main)
  BY DEF Won, Stands
<1>2. thrown => seen'[Main] = seen[Main]
  BY <1>1
<1> QED
  BY <1>1, <1>2, Elsewhere DEF StandsSeen

LEMMA CallerStands ==
    ASSUME UNCHANGED <<thrown, site>>, NEW t, ~Stands(t), NEW x
    PROVE  /\ pc' = [pc EXCEPT ![t] = x] =>
                  StandsPc' = [StandsPc EXCEPT ![t] = x]
           /\ cur' = [cur EXCEPT ![t] = x] =>
                  StandsCur' = [StandsCur EXCEPT ![t] = x]
           /\ val' = [val EXCEPT ![t] = x] =>
                  StandsVal' = [StandsVal EXCEPT ![t] = x]
           /\ rest' = [rest EXCEPT ![t] = x] =>
                  StandsRest' = [StandsRest EXCEPT ![t] = x]
           /\ seen' = [seen EXCEPT ![t] = x] =>
                  StandsSeen' = [StandsSeen EXCEPT ![t] = x]
<1>1. (Told <=> Told') /\ (Won <=> Won') /\ (thrown => t # Main)
  BY DEF Told, Won, Stands
<1>2. pc' = [pc EXCEPT ![t] = x] => StandsPc' = [StandsPc EXCEPT ![t] = x]
  BY <1>1, Elsewhere DEF StandsPc
<1>3. cur' = [cur EXCEPT ![t] = x] => StandsCur' = [StandsCur EXCEPT ![t] = x]
  BY <1>1, Elsewhere DEF StandsCur
<1>4. val' = [val EXCEPT ![t] = x] => StandsVal' = [StandsVal EXCEPT ![t] = x]
  BY <1>1, Elsewhere DEF StandsVal
<1>5. rest' = [rest EXCEPT ![t] = x] => StandsRest' = [StandsRest EXCEPT ![t] = x]
  BY <1>1, Elsewhere DEF StandsRest
<1>6. seen' = [seen EXCEPT ![t] = x] => StandsSeen' = [StandsSeen EXCEPT ![t] = x]
  BY CallerSees
<1> QED
  BY <1>2, <1>3, <1>4, <1>5, <1>6

-----------------------------------------------------------------------------
\* The steps of Graph are steps of the graph whose caller may stand.

\* What a thread does with itself, ...
LEMMA MovesMap ==
    ASSUME ThreadType, UNCHANGED <<thrown, site>>, NEW t \in Thread, ~Stands(t)
    PROVE  /\ \A label, n : Goto(t, label, n) => Stopped!Goto(t, label, n)
           /\ \A known : Unwind(t, known) => Stopped!Unwind(t, known)
           /\ \A n : Stopped!Input(t, n) = Input(t, n)
           /\ \A n : Stopped!Acquire(t, n) = Acquire(t, n)
           /\ \A n : Release(t, n) => Stopped!Release(t, n)
           /\ UNCHANGED val => UNCHANGED StandsVal
           /\ UNCHANGED rest => UNCHANGED StandsRest
           /\ UNCHANGED seen => UNCHANGED StandsSeen
<1>1. ASSUME NEW label, NEW n, Goto(t, label, n)
      PROVE  Stopped!Goto(t, label, n)
  <2>1. pc' = [pc EXCEPT ![t] = label] /\ cur' = [cur EXCEPT ![t] = n]
    BY <1>1 DEF Goto
  <2>2. StandsPc' = [StandsPc EXCEPT ![t] = label]
    BY <2>1, CallerStands
  <2>3. StandsCur' = [StandsCur EXCEPT ![t] = n]
    BY <2>1, CallerStands
  <2> QED
    BY <2>2, <2>3 DEF Stopped!Goto
<1>2. /\ UNCHANGED val => UNCHANGED StandsVal
      /\ UNCHANGED rest => UNCHANGED StandsRest
      /\ UNCHANGED seen => UNCHANGED StandsSeen
  BY DEF StandsVal, StandsRest, StandsSeen, Told, Won
<1>3. ASSUME NEW known, Unwind(t, known) PROVE Stopped!Unwind(t, known)
  <2>1. StandsRest[t] = rest[t]
    BY OthersMove
  <2>2. CASE rest[t] # <<>>
    <3>1. /\ Goto(t, "last", Head(rest[t]))
          /\ val' = [val EXCEPT ![t] = Nothing]
          /\ rest' = [rest EXCEPT ![t] = Tail(rest[t])]
          /\ seen' = [seen EXCEPT ![t] = known]
      BY <1>3, <2>2 DEF Unwind
    <3>2. Stopped!Goto(t, "last", Head(rest[t]))
      BY <1>1, <3>1
    <3>3. StandsVal' = [StandsVal EXCEPT ![t] = Nothing]
      BY <3>1, CallerStands
    <3>4. StandsRest' = [StandsRest EXCEPT ![t] = Tail(rest[t])]
      BY <3>1, CallerStands
    <3>5. StandsSeen' = [StandsSeen EXCEPT ![t] = known]
      <4>1. seen' = [seen EXCEPT ![t] = known]
        BY <3>1
      <4> QED
        BY <4>1, CallerSees
    <3> QED
      BY <2>1, <2>2, <3>2, <3>3, <3>4, <3>5 DEF Stopped!Unwind
  <2>3. CASE rest[t] = <<>>
    <3>0. PICK label, known2 : /\ label = IF t = Main THEN "wait" ELSE "idle"
                              /\ known2 = IF t = Main THEN known ELSE {}
      OBVIOUS
    <3>1. /\ Goto(t, label, t)
          /\ val' = [val EXCEPT ![t] = Nothing]
          /\ seen' = [seen EXCEPT ![t] = known2]
          /\ UNCHANGED rest
      BY <1>3, <2>3, <3>0 DEF Unwind
    <3>2. Stopped!Goto(t, label, t) /\ UNCHANGED StandsRest
      BY <1>1, <1>2, <3>1
    <3>3. StandsVal' = [StandsVal EXCEPT ![t] = Nothing]
      BY <3>1, CallerStands
    <3>4. StandsSeen' = [StandsSeen EXCEPT ![t] = known2]
      BY <3>1, CallerSees
    <3> QED
      BY <2>1, <2>3, <3>0, <3>2, <3>3, <3>4, StoppedShape DEF Stopped!Unwind
  <2> QED
    BY <2>2, <2>3
<1>4. StandsVal[t] = val[t] /\ StandsSeen[t] = seen[t]
  BY OthersMove
<1> QED
  BY <1>1, <1>2, <1>3, <1>4, StoppedShape
     DEF Input, Stopped!Input, Acquire, Stopped!Acquire, Release,
         Stopped!Release

\* ... the steps of execute, ...
LEMMA ExecuteMaps ==
    ASSUME ThreadType, UNCHANGED <<thrown, site>>, NEW t \in Thread, ~Stands(t),
           Execute(t)
    PROVE  Stopped!Execute(t)
<1>1. /\ StandsPc[t] = pc[t] /\ StandsCur[t] = cur[t]
      /\ StandsVal[t] = val[t] /\ StandsSeen[t] = seen[t]
  BY OthersMove
<1>2. PICK k : k = cur[t]
  OBVIOUS
<1>3. Stopped!Input(t, k) = Input(t, k)
  BY MovesMap
<1>4. ASSUME UNCHANGED rest PROVE UNCHANGED StandsRest
  BY <1>4, MovesMap
<1>5. ASSUME UNCHANGED seen PROVE UNCHANGED StandsSeen
  BY <1>5, MovesMap
<1>6. ASSUME NEW label, NEW n, Goto(t, label, n)
      PROVE  Stopped!Goto(t, label, n)
  BY <1>6, MovesMap
<1>7. ASSUME NEW x, val' = [val EXCEPT ![t] = x]
      PROVE  StandsVal' = [StandsVal EXCEPT ![t] = x]
  BY <1>7, CallerStands
<1>8. CASE ExecLeaf(t)
  <2>1. seen' = [seen EXCEPT ![t] = seen[t] \union {k}]
    BY <1>2, <1>8 DEF ExecLeaf
  <2>2. StandsSeen' = [StandsSeen EXCEPT ![t] = seen[t] \union {k}]
    <3>1. PICK known : known = seen[t] \union {k}
      OBVIOUS
    <3>2. seen' = [seen EXCEPT ![t] = known]
      BY <2>1, <3>1
    <3>3. StandsSeen' = [StandsSeen EXCEPT ![t] = known]
      BY <3>2, CallerSees
    <3> QED
      BY <3>1, <3>3
  <2>3. val' = [val EXCEPT ![t] = Output(k, Input(t, k))] /\ Goto(t, "out", k)
    BY <1>2, <1>8 DEF ExecLeaf
  <2>4. StandsVal' = [StandsVal EXCEPT ![t] = Output(k, Input(t, k))]
    BY <1>7, <2>3
  <2>5. Stopped!Goto(t, "out", k)
    BY <1>6, <2>3
  <2>6. UNCHANGED StandsRest
    BY <1>4, <1>8 DEF ExecLeaf
  <2> QED
    BY <1>1, <1>2, <1>3, <1>8, <2>2, <2>4, <2>5, <2>6
       DEF ExecLeaf, Stopped!Execute, Stopped!ExecLeaf, Output, Stopped!Output,
           storageVars, latchVars, callVars, Stopped!storageVars,
           Stopped!latchVars, Stopped!callVars
<1>9. CASE ExecSeq(t)
  <2>1. /\ val' = [val EXCEPT ![t] = Input(t, k)]
        /\ Goto(t, "exec", Kids[k][1])
    BY <1>2, <1>9 DEF ExecSeq
  <2>2. StandsVal' = [StandsVal EXCEPT ![t] = Input(t, k)]
    BY <1>7, <2>1
  <2>3. Stopped!Goto(t, "exec", Kids[k][1])
    BY <1>6, <2>1
  <2>4. UNCHANGED <<StandsRest, StandsSeen>>
    BY <1>4, <1>5, <1>9 DEF ExecSeq
  <2> QED
    BY <1>1, <1>2, <1>3, <1>9, <2>2, <2>3, <2>4
       DEF ExecSeq, Stopped!Execute, Stopped!ExecSeq,
           storageVars, latchVars, callVars, Stopped!storageVars,
           Stopped!latchVars, Stopped!callVars
<1>10. CASE ExecShared(t)
  <2>1. val' = [val EXCEPT ![t] = Nothing] /\ Goto(t, "fan", Kids[k][1])
    BY <1>2, <1>10 DEF ExecShared
  <2>2. StandsVal' = [StandsVal EXCEPT ![t] = Nothing]
    BY <1>7, <2>1
  <2>3. Stopped!Goto(t, "fan", Kids[k][1])
    BY <1>6, <2>1
  <2>4. UNCHANGED <<StandsRest, StandsSeen>>
    BY <1>4, <1>5, <1>10 DEF ExecShared
  <2>5. Construct(t, k, Arity(k)) => Stopped!Construct(t, k, Arity(k))
    BY <1>1, <1>3 DEF Construct, Stopped!Construct
  <2> QED
    BY <1>1, <1>2, <1>10, <2>2, <2>3, <2>4, <2>5, StoppedShape
       DEF ExecShared, Stopped!Execute, Stopped!ExecShared, latchVars, callVars,
           Stopped!latchVars, Stopped!callVars
<1> QED
  BY <1>8, <1>9, <1>10 DEF Execute

\* ... the loop over the children, ...
LEMMA FanMaps ==
    ASSUME ThreadType, UNCHANGED <<thrown, site>>, NEW t \in Thread, ~Stands(t),
           Fan(t)
    PROVE  Stopped!Fan(t)
<1>1. StandsPc[t] = pc[t] /\ StandsCur[t] = cur[t] /\ StandsSeen[t] = seen[t]
  BY OthersMove
<1>2. PICK k : k = cur[t]
  OBVIOUS
<1>3. UNCHANGED <<StandsVal, StandsRest>>
  BY MovesMap DEF Fan, Schedule, RunInline
<1>4. CASE Schedule(t)
  <2>1. pc[t] = "fan" /\ k \in Node \ Roots /\ Shared(Parent[k]) /\ ~IsLast(k)
    BY <1>2, <1>4, AtNode DEF Schedule, ThreadType, Place
  <2>2. k # Main /\ ~Stands(k)
    BY <2>1, Threads DEF Stands
  <2>3. StandsPc' = [StandsPc EXCEPT ![k] = "queued"]
    <3>1. pc' = [pc EXCEPT ![k] = "queued"]
      BY <1>2, <1>4 DEF Schedule
    <3> QED
      BY <2>2, <3>1, CallerStands
  <2>4. StandsSeen' = [StandsSeen EXCEPT ![k] = seen[t]]
    <3>1. seen' = [seen EXCEPT ![k] = seen[t]]
      BY <1>2, <1>4 DEF Schedule
    <3> QED
      BY <2>2, <3>1, CallerSees
  <2>5. StandsCur' = [StandsCur EXCEPT ![t] = NextKid(k), ![k] = k]
    <3>1. cur' = [[cur EXCEPT ![t] = NextKid(k)] EXCEPT ![k] = k]
      BY <1>2, <1>4 DEF Schedule
    <3>2. CASE ~thrown
      BY <3>1, <3>2 DEF StandsCur
    <3>3. CASE thrown
      <4>1. PICK y : y = IF Told THEN Main
                         ELSE IF Won THEN Parent[site.node] ELSE site.node
        OBVIOUS
      <4>2. StandsCur = [cur EXCEPT ![Main] = y]
        BY <3>3, <4>1 DEF StandsCur
      <4>3. StandsCur' = [cur' EXCEPT ![Main] = y]
        BY <3>3, <4>1 DEF StandsCur, Told, Won
      <4>4. t # Main
        BY <3>3 DEF Stands
      <4>5. [[cur EXCEPT ![t] = NextKid(k)] EXCEPT ![Main] = y]
            = [StandsCur EXCEPT ![t] = NextKid(k)]
        BY <4>2, <4>4, Elsewhere
      <4> QED
        BY <2>2, <3>1, <4>3, <4>5, Elsewhere
    <3> QED
      BY <3>2, <3>3
  <2> QED
    BY <1>1, <1>2, <1>3, <1>4, <2>3, <2>4, <2>5, StoppedShape
       DEF Schedule, Stopped!Fan, Stopped!Schedule, IsLast, Stopped!IsLast,
           NextKid, Stopped!NextKid, storageVars, latchVars, callVars,
           Stopped!storageVars, Stopped!latchVars, Stopped!callVars
<1>5. CASE RunInline(t)
  <2>1. Stopped!Goto(t, "exec", k)
    BY <1>2, <1>5, MovesMap DEF RunInline
  <2>2. UNCHANGED StandsSeen
    BY <1>5, MovesMap DEF RunInline
  <2> QED
    BY <1>1, <1>2, <1>3, <1>5, <2>1, <2>2, StoppedShape
       DEF RunInline, Stopped!Fan, Stopped!RunInline, IsLast, Stopped!IsLast,
           storageVars, latchVars, callVars, Stopped!storageVars,
           Stopped!latchVars, Stopped!callVars
<1> QED
  BY <1>4, <1>5 DEF Fan

\* ... the continuation of a seq or of the root, ...
LEMMA SeqMaps ==
    ASSUME ThreadType, UNCHANGED <<thrown, site>>, NEW t \in Thread, ~Stands(t),
           SeqFirst(t) \/ SeqSecond(t) \/ Deliver(t)
    PROVE  Stopped!Continue(t)
<1>1. /\ StandsPc[t] = pc[t] /\ StandsCur[t] = cur[t]
      /\ StandsVal[t] = val[t] /\ StandsSeen[t] = seen[t]
  BY OthersMove
<1>2. PICK k : k = cur[t]
  OBVIOUS
<1>3. UNCHANGED StandsRest
  BY MovesMap DEF SeqFirst, SeqSecond, Deliver
<1> USE DEF Stopped!Continue, storageVars, latchVars, callVars,
            Stopped!storageVars, Stopped!latchVars, Stopped!callVars
<1>4. CASE SeqFirst(t)
  <2>1. Stopped!Goto(t, "exec", Kids[Parent[k]][2])
    BY <1>2, <1>4, MovesMap DEF SeqFirst
  <2>2. UNCHANGED <<StandsVal, StandsSeen>>
    BY <1>4, MovesMap DEF SeqFirst
  <2> QED
    BY <1>1, <1>2, <1>3, <1>4, <2>1, <2>2, StoppedShape
       DEF SeqFirst, Stopped!SeqFirst
<1>5. CASE SeqSecond(t)
  <2>1. Stopped!Goto(t, "out", Parent[k])
    BY <1>2, <1>5, MovesMap DEF SeqSecond
  <2>2. UNCHANGED StandsVal
    BY <1>5, MovesMap DEF SeqSecond
  <2>3. StandsSeen' = [StandsSeen EXCEPT ![t] = seen[t] \union {Parent[k]}]
    <3>1. PICK known : known = seen[t] \union {Parent[k]}
      OBVIOUS
    <3>2. seen' = [seen EXCEPT ![t] = known]
      BY <1>2, <1>5, <3>1 DEF SeqSecond
    <3>3. StandsSeen' = [StandsSeen EXCEPT ![t] = known]
      BY <3>2, CallerSees
    <3> QED
      BY <3>1, <3>3
  <2> QED
    BY <1>1, <1>2, <1>3, <1>5, <2>1, <2>2, <2>3, StoppedShape
       DEF SeqSecond, Stopped!SeqSecond
<1>6. CASE Deliver(t)
  <2>1. Stopped!Goto(t, "count", Main)
    BY <1>6, MovesMap DEF Deliver
  <2>2. StandsVal' = [StandsVal EXCEPT ![t] = Nothing]
    <3>1. val' = [val EXCEPT ![t] = Nothing]
      BY <1>6 DEF Deliver
    <3> QED
      BY <3>1, CallerStands
  <2>3. UNCHANGED StandsSeen
    BY <1>6, MovesMap DEF Deliver
  <2> QED
    BY <1>1, <1>2, <1>3, <1>6, <2>1, <2>2, <2>3, StoppedShape
       DEF Deliver, Stopped!Deliver
<1> QED
  BY <1>4, <1>5, <1>6

\* ... what the child of an all or an any and their last child do, ...
LEMMA AllMaps ==
    ASSUME ThreadType, UNCHANGED <<thrown, site>>, NEW t \in Thread, ~Stands(t),
           AllStore(t) \/ AllJoin(t) \/ AllLast(t) \/ AllFinish(t)
    PROVE  Stopped!Continue(t)
<1>1. StandsPc[t] = pc[t] /\ StandsCur[t] = cur[t]
      /\ StandsVal[t] = val[t] /\ StandsSeen[t] = seen[t]
  BY OthersMove
<1>2. PICK k : k = cur[t]
  OBVIOUS
<1>3. PICK n : n = Parent[k]
  OBVIOUS
<1>4. PICK known : known = Acquire(t, n)
  OBVIOUS
<1>5. Stopped!Acquire(t, n) = known
  BY <1>4, MovesMap
<1>6. FetchSub(t, n) => Stopped!FetchSub(t, n)
  BY MovesMap DEF FetchSub, Stopped!FetchSub, latchVars, callVars,
     Stopped!latchVars, Stopped!callVars
<1> USE DEF Stopped!Continue, storageVars, latchVars, callVars,
            Stopped!storageVars, Stopped!latchVars, Stopped!callVars
<1>7. CASE AllStore(t)
  <2>1. Stopped!Goto(t, "join", k) /\ UNCHANGED <<StandsRest, StandsSeen>>
    BY <1>2, <1>7, MovesMap DEF AllStore
  <2>2. StandsVal' = [StandsVal EXCEPT ![t] = Nothing]
    <3>1. val' = [val EXCEPT ![t] = Nothing]
      BY <1>7 DEF AllStore
    <3> QED
      BY <3>1, CallerStands
  <2> QED
    BY <1>1, <1>2, <1>7, <2>1, <2>2, StoppedShape DEF AllStore, Stopped!AllStore
<1>8. CASE AllJoin(t)
  <2>1. Stopped!Unwind(t, known)
    BY <1>2, <1>3, <1>4, <1>8, MovesMap DEF AllJoin
  <2> QED
    BY <1>1, <1>2, <1>3, <1>5, <1>6, <1>8, <2>1, StoppedShape
       DEF AllJoin, Stopped!AllJoin
<1>9. CASE AllLast(t)
  <2>1. Stopped!Goto(t, "last", n) /\ UNCHANGED <<StandsVal, StandsRest>>
    BY <1>2, <1>3, <1>9, MovesMap DEF AllLast
  <2>2. seen' = [seen EXCEPT ![t] = known]
    BY <1>2, <1>3, <1>4, <1>9 DEF AllLast
  <2>3. StandsSeen' = [StandsSeen EXCEPT ![t] = known]
    BY <2>2, CallerSees
  <2> QED
    BY <1>1, <1>2, <1>3, <1>5, <1>6, <1>9, <2>1, <2>3, StoppedShape
       DEF AllLast, Stopped!AllLast
<1>10. CASE AllFinish(t)
  <2>1. PICK v : v = Output(k, [i \in DOMAIN Kids[k] |-> slot[Kids[k][i]]])
    OBVIOUS
  <2>2. val' = [val EXCEPT ![t] = v]
    BY <1>2, <1>10, <2>1 DEF AllFinish
  <2>3. StandsVal' = [StandsVal EXCEPT ![t] = v]
    BY <2>2, CallerStands
  <2>4. Stopped!Goto(t, "out", k) /\ UNCHANGED StandsRest
    BY <1>2, <1>10, MovesMap DEF AllFinish
  <2>5. PICK all : all = seen[t] \union {k}
    OBVIOUS
  <2>6. seen' = [seen EXCEPT ![t] = all]
    BY <1>2, <1>10, <2>5 DEF AllFinish
  <2>7. StandsSeen' = [StandsSeen EXCEPT ![t] = all]
    BY <2>6, CallerSees
  <2>8. v = Stopped!Output(k, [i \in DOMAIN Kids[k] |-> slot[Kids[k][i]]])
    BY <2>1 DEF Output, Stopped!Output
  <2>9. slot' = [l \in Node |->
                     IF l \in Stopped!KidsOf(k) THEN Nothing ELSE slot[l]]
    BY <1>2, <1>10, StoppedShape DEF AllFinish
  <2>10. Stopped!Destroy(k)
    BY <1>2, <1>10 DEF AllFinish, Destroy, Stopped!Destroy
  <2> QED
    BY <1>1, <1>2, <1>10, <2>3, <2>4, <2>5, <2>7, <2>8, <2>9, <2>10
       DEF AllFinish, Stopped!AllFinish
<1> QED
  BY <1>7, <1>8, <1>9, <1>10

LEMMA AnyMaps ==
    ASSUME ThreadType, UNCHANGED <<thrown, site>>, NEW t \in Thread, ~Stands(t),
           AnyFirst(t) \/ AnyLose(t) \/ AnyLast(t) \/ AnyFinish(t)
    PROVE  Stopped!Continue(t)
<1>1. /\ StandsPc[t] = pc[t] /\ StandsCur[t] = cur[t]
      /\ StandsRest[t] = rest[t] /\ StandsSeen[t] = seen[t]
  BY OthersMove
<1>2. PICK k : k = cur[t]
  OBVIOUS
<1>3. PICK n : n = Parent[k]
  OBVIOUS
<1>4. PICK known : known = Acquire(t, n)
  OBVIOUS
<1>5. Stopped!Acquire(t, n) = known
  BY <1>4, MovesMap
<1>6. FetchSub(t, n) => Stopped!FetchSub(t, n)
  BY MovesMap DEF FetchSub, Stopped!FetchSub, latchVars, callVars,
     Stopped!latchVars, Stopped!callVars
<1> USE DEF Stopped!Continue, storageVars, latchVars, callVars,
            Stopped!storageVars, Stopped!latchVars, Stopped!callVars
<1>7. CASE AnyFirst(t)
  <2>1. Stopped!Goto(t, "out", n) /\ UNCHANGED StandsVal
    BY <1>2, <1>3, <1>7, MovesMap DEF AnyFirst
  <2>2. PICK all : all = known \union {n}
    OBVIOUS
  <2>3. seen' = [seen EXCEPT ![t] = all]
    BY <1>2, <1>3, <1>4, <1>7, <2>2 DEF AnyFirst
  <2>4. StandsSeen' = [StandsSeen EXCEPT ![t] = all]
    BY <2>3, CallerSees
  <2>5. PICK stack : stack = IF left[n] = 1 THEN <<n>> \o rest[t] ELSE rest[t]
    OBVIOUS
  <2>6. rest' = [rest EXCEPT ![t] = stack]
    BY <1>2, <1>3, <1>7, <2>5 DEF AnyFirst
  <2>7. StandsRest' = [StandsRest EXCEPT ![t] = stack]
    BY <2>6, CallerStands
  <2> QED
    BY <1>1, <1>2, <1>3, <1>5, <1>6, <1>7, <2>1, <2>2, <2>4, <2>5, <2>7,
       StoppedShape
       DEF AnyFirst, Stopped!AnyFirst
<1>8. CASE AnyLose(t)
  <2>1. Stopped!Unwind(t, known)
    BY <1>2, <1>3, <1>4, <1>8, MovesMap DEF AnyLose
  <2> QED
    BY <1>1, <1>2, <1>3, <1>5, <1>6, <1>8, <2>1, StoppedShape
       DEF AnyLose, Stopped!AnyLose
<1>9. CASE AnyLast(t)
  <2>1. Stopped!Goto(t, "last", n) /\ UNCHANGED StandsRest
    BY <1>2, <1>3, <1>9, MovesMap DEF AnyLast
  <2>2. seen' = [seen EXCEPT ![t] = known]
    BY <1>2, <1>3, <1>4, <1>9 DEF AnyLast
  <2>3. StandsSeen' = [StandsSeen EXCEPT ![t] = known]
    BY <2>2, CallerSees
  <2>4. StandsVal' = [StandsVal EXCEPT ![t] = Nothing]
    BY <1>9, CallerStands DEF AnyLast
  <2> QED
    BY <1>1, <1>2, <1>3, <1>5, <1>6, <1>9, <2>1, <2>3, <2>4, StoppedShape
       DEF AnyLast, Stopped!AnyLast
<1>10. CASE AnyFinish(t)
  <2>1. /\ Stopped!Goto(t, "count", k)
        /\ UNCHANGED <<StandsVal, StandsRest, StandsSeen>>
    BY <1>2, <1>10, MovesMap DEF AnyFinish
  <2> QED
    BY <1>1, <1>2, <1>10, <2>1
       DEF AnyFinish, Stopped!AnyFinish, Destroy, Stopped!Destroy
<1> QED
  BY <1>7, <1>8, <1>9, <1>10

\* ... the latch, and the scheduler.
LEMMA CountDownMaps ==
    ASSUME ThreadType, UNCHANGED <<thrown, site>>, NEW t \in Thread, ~Stands(t),
           CountDown(t)
    PROVE  Stopped!Continue(t)
<1>1. StandsPc[t] = pc[t] /\ StandsSeen[t] = seen[t]
  BY OthersMove
<1>2. PICK known : known = seen[t] \union counted
  OBVIOUS
<1>3. Stopped!Unwind(t, known)
  BY <1>2, MovesMap DEF CountDown
<1> QED
  BY <1>1, <1>2, <1>3
     DEF CountDown, Stopped!Continue, Stopped!CountDown, storageVars, callVars,
         Stopped!storageVars, Stopped!callVars

LEMMA StartMaps ==
    ASSUME ThreadType, UNCHANGED <<thrown, site>>, NEW k \in Task, Start(k)
    PROVE  Stopped!Start(k)
<1>1. k \in Thread /\ ~Stands(k)
  BY Threads DEF Stands
<1>2. \A l \in Task : StandsPc[l] = pc[l]
  BY Threads, OthersMove DEF Stands
<1>3. Stopped!Running = Running
  BY <1>2, StoppedShape DEF Running, Stopped!Running
<1>4. Stopped!Goto(k, "exec", k)
      /\ UNCHANGED <<StandsVal, StandsRest, StandsSeen>>
  BY <1>1, MovesMap DEF Start
<1>5. \A X : Stopped!Cardinality(X) = Cardinality(X)
  BY DEF Stopped!Cardinality, Cardinality
<1> QED
  BY <1>2, <1>3, <1>4, <1>5
     DEF Start, Stopped!Start, storageVars, latchVars, callVars,
         Stopped!storageVars, Stopped!latchVars, Stopped!callVars

\* A call and its return are steps of a call that does not fail.
LEMMA CallMaps ==
    ASSUME ~thrown, UNCHANGED thrown, NEW r \in Roots, Call(r)
    PROVE  r \in Stopped!Roots /\ Stopped!Call(r)
<1>1. /\ StandsPc = pc /\ StandsCur = cur /\ StandsVal = val
      /\ StandsRest = rest /\ StandsSeen = seen
  BY NobodyStands
<1>2. /\ StandsPc' = pc' /\ StandsCur' = cur' /\ StandsVal' = val'
      /\ StandsRest' = rest' /\ StandsSeen' = seen'
  BY DEF StandsPc, StandsCur, StandsVal, StandsRest, StandsSeen
<1> QED
  BY <1>1, <1>2, StoppedShape
     DEF Call, Stopped!Call, Goto, Stopped!Goto, CallInput, Stopped!CallInput,
         storageVars, Stopped!storageVars

LEMMA ReturnMaps ==
    ASSUME ~thrown, UNCHANGED thrown, Return
    PROVE  Stopped!Return
<1>1. /\ StandsPc = pc /\ StandsCur = cur /\ StandsVal = val
      /\ StandsRest = rest /\ StandsSeen = seen
  BY NobodyStands
<1>2. /\ StandsPc' = pc' /\ StandsCur' = cur' /\ StandsVal' = val'
      /\ StandsRest' = rest' /\ StandsSeen' = seen'
  BY DEF StandsPc, StandsCur, StandsVal, StandsRest, StandsSeen
<1> QED
  BY <1>1, <1>2, StoppedShape
     DEF Return, Stopped!Return, Goto, Stopped!Goto, storageVars, latchVars,
         callVars, Stopped!storageVars, Stopped!latchVars, Stopped!callVars

-----------------------------------------------------------------------------
\* A caller that throws has done nothing, or what it does when it wins an any or
\* when it invokes `then`.

LEMMA ThrowStands ==
    ASSUME ThreadType, ~thrown, NEW known, Throw(Main, known)
    PROVE  /\ thrown' /\ UNCHANGED ended
           /\ site' = [label |-> pc[Main], node |-> cur[Main],
                       val |-> val[Main], rest |-> rest[Main]]
           /\ pc' = [pc EXCEPT ![Main] = "wait"]
           /\ StandsPc' = [StandsPc EXCEPT ![Main] =
                               IF Told' THEN "count" ELSE pc[Main]]
           /\ StandsCur' = [StandsCur EXCEPT ![Main] =
                  IF Told' THEN Main
                  ELSE IF Won' THEN Parent[cur[Main]] ELSE cur[Main]]
           /\ StandsVal' = [StandsVal EXCEPT ![Main] =
                                IF Told' THEN Nothing ELSE val[Main]]
           /\ StandsRest' = [StandsRest EXCEPT ![Main] =
                  IF Won' /\ Arity(Parent[cur[Main]]) = 1
                  THEN <<Parent[cur[Main]]>> \o rest[Main] ELSE rest[Main]]
           /\ StandsSeen' = [StandsSeen EXCEPT ![Main] =
                  IF Won' THEN known \union {Parent[cur[Main]]} ELSE known]
           /\ Told' <=> pc[Main] = "out" /\ cur[Main] \in Roots
           /\ Won' <=> pc[Main] = "out" /\ ChildOf(cur[Main], "any")
<1>1. /\ thrown' /\ UNCHANGED ended
      /\ site' = [label |-> pc[Main], node |-> cur[Main],
                  val |-> val[Main], rest |-> rest[Main]]
      /\ pc' = [pc EXCEPT ![Main] = "wait"]
      /\ cur' = [cur EXCEPT ![Main] = Main]
      /\ val' = [val EXCEPT ![Main] = Nothing]
      /\ rest' = [rest EXCEPT ![Main] = <<>>]
      /\ seen' = [seen EXCEPT ![Main] = known]
  BY DEF Throw, Goto
<1>2. /\ site'.label = pc[Main] /\ site'.node = cur[Main]
      /\ site'.val = val[Main] /\ site'.rest = rest[Main]
  BY <1>1
<1>3. /\ Told' <=> pc[Main] = "out" /\ cur[Main] \in Roots
      /\ Won' <=> pc[Main] = "out" /\ ChildOf(cur[Main], "any")
  BY <1>2 DEF Told, Won
<1>4. /\ StandsPc = pc /\ StandsCur = cur /\ StandsVal = val
      /\ StandsRest = rest /\ StandsSeen = seen
  BY NobodyStands
<1>5. StandsPc' = [pc EXCEPT ![Main] = IF Told' THEN "count" ELSE pc[Main]]
  BY <1>1, <1>2 DEF StandsPc
<1>6. StandsCur' = [cur EXCEPT ![Main] =
          IF Told' THEN Main
          ELSE IF Won' THEN Parent[cur[Main]] ELSE cur[Main]]
  BY <1>1, <1>2 DEF StandsCur
<1>7. StandsVal' = [val EXCEPT ![Main] = IF Told' THEN Nothing ELSE val[Main]]
  BY <1>1, <1>2 DEF StandsVal
<1>8. StandsRest' = [rest EXCEPT ![Main] =
          IF Won' /\ Arity(Parent[cur[Main]]) = 1
          THEN <<Parent[cur[Main]]>> \o rest[Main] ELSE rest[Main]]
  BY <1>1, <1>2 DEF StandsRest
<1>9. StandsSeen' = [seen EXCEPT ![Main] =
          IF Won' THEN known \union {Parent[cur[Main]]} ELSE known]
  <2>1. CASE Won'
    BY <1>1, <1>2, <2>1, Threads DEF StandsSeen, ThreadType
  <2>2. CASE ~Won'
    BY <1>1, <2>2 DEF StandsSeen
  <2> QED
    BY <2>1, <2>2
<1> QED
  BY <1>1, <1>3, <1>4, <1>5, <1>6, <1>7, <1>8, <1>9

\* The caller leaves its place without having done anything.
LEMMA ThrowStutters ==
    ASSUME ThreadType, NEW k, k = cur[Main],
           val = [t \in Thread |-> val[t]],
           ~thrown, Throw(Main, seen[Main]),
           UNCHANGED <<storageVars, slot, latchVars, callVars>>,
           pc[Main] = "out" => k \notin Roots /\ ~ChildOf(k, "any")
    PROVE  UNCHANGED Stopped!vars
<1>1. ~Told' /\ ~Won'
  BY ThrowStands
<1>2. /\ StandsPc = pc /\ StandsCur = cur /\ StandsVal = val
      /\ StandsRest = rest /\ StandsSeen = seen
  BY NobodyStands
<1>3. /\ StandsPc' = [pc EXCEPT ![Main] = pc[Main]]
      /\ StandsCur' = [cur EXCEPT ![Main] = cur[Main]]
      /\ StandsRest' = [rest EXCEPT ![Main] = rest[Main]]
      /\ StandsSeen' = [seen EXCEPT ![Main] = seen[Main]]
      /\ StandsVal' = [val EXCEPT ![Main] = val[Main]]
  BY <1>1, <1>2, ThrowStands
<1>4. /\ StandsPc' = pc /\ StandsCur' = cur /\ StandsRest' = rest
      /\ StandsSeen' = seen
  BY <1>3 DEF ThreadType
<1>5. StandsVal' = val
  BY <1>3
<1> QED
  BY <1>2, <1>4, <1>5
     DEF storageVars, latchVars, callVars, Stopped!vars, Stopped!threadVars,
         Stopped!storageVars, Stopped!latchVars, Stopped!callVars

\* The caller is first in an any.
LEMMA WinMaps ==
    ASSUME ThreadType, val = [t \in Thread |-> val[t]], ~thrown, WinThrows(Main)
    PROVE  Stopped!AnyFirst(Main)
<1>1. PICK k : k = cur[Main]
  OBVIOUS
<1>2. PICK n : n = Parent[k]
  OBVIOUS
<1>3. PICK known : known = Acquire(Main, n)
  OBVIOUS
<1>4. /\ pc[Main] = "out" /\ ChildOf(k, "any") /\ left[n] = Arity(n)
      /\ FetchSub(Main, n) /\ Throw(Main, known)
  BY <1>1, <1>2, <1>3 DEF WinThrows
<1>5. ~Told' /\ Won'
  BY <1>1, <1>4, ThrowStands DEF ChildOf
<1>6. /\ StandsPc = pc /\ StandsCur = cur /\ StandsVal = val
      /\ StandsRest = rest /\ StandsSeen = seen
  BY NobodyStands
<1>7. /\ StandsPc' = [pc EXCEPT ![Main] = "out"]
      /\ StandsCur' = [cur EXCEPT ![Main] = n]
      /\ StandsVal' = [val EXCEPT ![Main] = val[Main]]
      /\ StandsSeen' = [seen EXCEPT ![Main] = known \union {n}]
  BY <1>1, <1>2, <1>4, <1>5, <1>6, ThrowStands
<1>8. StandsRest' = [rest EXCEPT ![Main] =
                         IF left[n] = 1 THEN <<n>> \o rest[Main] ELSE rest[Main]]
  BY <1>1, <1>2, <1>4, <1>5, <1>6, ThrowStands
<1>9. StandsVal' = val
  BY <1>7
<1>10. Stopped!Acquire(Main, n) = known
  BY <1>3, <1>6 DEF Acquire, Stopped!Acquire
<1>11. Stopped!FetchSub(Main, n)
  BY <1>4, <1>6
     DEF FetchSub, Stopped!FetchSub, Release, Stopped!Release, latchVars,
         callVars, Stopped!latchVars, Stopped!callVars
<1> QED
  BY <1>1, <1>2, <1>4, <1>6, <1>7, <1>8, <1>9, <1>10, <1>11, StoppedShape
     DEF Stopped!AnyFirst, Stopped!Goto

\* The caller has invoked `then`.
LEMMA ThenMaps ==
    ASSUME ThreadType, val = [t \in Thread |-> val[t]], ~thrown, ThenThrows(Main)
    PROVE  Stopped!Deliver(Main)
<1>1. /\ pc[Main] = "out" /\ cur[Main] \in Roots /\ Throw(Main, seen[Main])
  BY DEF ThenThrows
<1>2. Told' /\ ~Won'
  BY <1>1, ThrowStands DEF ChildOf
<1>3. /\ StandsPc = pc /\ StandsCur = cur /\ StandsVal = val
      /\ StandsRest = rest /\ StandsSeen = seen
  BY NobodyStands
<1>4. /\ StandsPc' = [pc EXCEPT ![Main] = "count"]
      /\ StandsCur' = [cur EXCEPT ![Main] = Main]
      /\ StandsVal' = [val EXCEPT ![Main] = Nothing]
      /\ StandsRest' = [rest EXCEPT ![Main] = rest[Main]]
      /\ StandsSeen' = [seen EXCEPT ![Main] = seen[Main]]
  BY <1>1, <1>2, <1>3, ThrowStands
<1>5. StandsRest' = rest /\ StandsSeen' = seen
  BY <1>4 DEF ThreadType
<1> QED
  BY <1>1, <1>3, <1>4, <1>5, StoppedShape
     DEF ThenThrows, Stopped!Deliver, Stopped!Goto, storageVars, latchVars,
         Stopped!storageVars, Stopped!latchVars

\* So every failure of the caller's is a step that Graph allows, or none.
LEMMA CallerFails ==
    ASSUME ThreadType, val = [t \in Thread |-> val[t]], ~thrown, Failure(Main)
    PROVE  Stopped!Next \/ UNCHANGED Stopped!vars
<1>1. PICK k : k = cur[Main]
  OBVIOUS
<1>2. CASE LeafThrows(Main)
  BY <1>1, <1>2, ThrowStutters DEF LeafThrows
<1>3. CASE CopyThrows(Main)
  BY <1>1, <1>3, ThrowStutters DEF CopyThrows
<1>4. CASE SchedulerThrows(Main)
  BY <1>1, <1>4, ThrowStutters DEF SchedulerThrows
<1>5. CASE StoreThrows(Main)
  BY <1>1, <1>5, ThrowStutters DEF StoreThrows, ChildOf
<1>6. CASE WinThrows(Main)
  BY <1>6, WinMaps, Threads, StoppedShape
     DEF Stopped!Next, Stopped!Step, Stopped!Continue
<1>7. CASE ThenThrows(Main)
  BY <1>7, ThenMaps, Threads, StoppedShape
     DEF Stopped!Next, Stopped!Step, Stopped!Continue
<1> QED
  BY <1>2, <1>3, <1>4, <1>5, <1>6, <1>7 DEF Failure

-----------------------------------------------------------------------------
\* The inductive invariant: the caller stands in the graph, at a step, and unless
\* the program is over the graph is as it would be then.

FailureInv ==
    /\ TypeOK
    /\ val = [t \in Thread |-> val[t]]
    /\ thrown \in BOOLEAN /\ ended \in BOOLEAN
    /\ thrown => pc[Main] = "wait" /\ StandsPc[Main] \notin {"idle", "wait"}
    /\ thrown /\ ended => ctr > 0
    /\ ended \/ Stopped!Inv

\* The latch is not open while a thread is in the graph.
LEMMA StandingHoldsLatch ==
    ASSUME Stopped!Inv, StandsPc[Main] \notin {"idle", "wait"}
    PROVE  calls > 0 /\ ctr > 0
<1>1. ~Stopped!Unused
  BY Threads, StoppedShape DEF Stopped!Unused
<1>2. PICK S, D, P \in SUBSET Node : Stopped!Account(S, D, P)
  BY <1>1 DEF Stopped!Inv
<1>3. calls > 0
  BY <1>2 DEF Stopped!Account
<1>4. ctr \in Int
  <2>1. /\ Stopped!Cardinality(Stopped!Owing) \in Nat
        /\ ctr = Stopped!Cardinality(Stopped!Owing)
                 + IF root \in counted THEN 0 ELSE 1
    BY <1>2, Stopped!OwingCount, StoppedAssumption, KidsAssumption,
       BoundsAssumption
  <2> QED
    BY <2>1
<1>5. ~(calls > 0 /\ ctr <= 0)
  <2>1. Stopped!LatchOpensLast
    BY Stopped!InvLatch, StoppedAssumption, KidsAssumption, BoundsAssumption
  <2> QED
    BY <2>1, StoppedShape DEF Stopped!LatchOpensLast
<1> QED
  BY <1>3, <1>4, <1>5

\* Whoever takes a step is at one.
LEMMA AtStep ==
    ASSUME NEW t, Step(t) \/ Failure(t)
    PROVE  pc[t] \notin {"idle", "queued", "wait"}
<1>1. CASE Execute(t) \/ Fan(t)
  BY <1>1 DEF Execute, ExecLeaf, ExecSeq, ExecShared, Fan, Schedule, RunInline
<1>2. CASE Continue(t)
  BY <1>2 DEF Continue, SeqFirst, SeqSecond, Deliver, AllStore, AllJoin, AllLast,
     AllFinish, AnyFirst, AnyLose, AnyLast, AnyFinish, CountDown
<1>3. CASE Failure(t)
  BY <1>3 DEF Failure, LeafThrows, CopyThrows, SchedulerThrows, StoreThrows,
     WinThrows, ThenThrows
<1> QED
  BY <1>1, <1>2, <1>3 DEF Step

\* A step of a thread that does not stand is one of Graph.
LEMMA StepMaps ==
    ASSUME ThreadType, UNCHANGED <<thrown, site>>, NEW t \in Thread, ~Stands(t),
           Step(t)
    PROVE  Stopped!Next
<1>1. CASE Execute(t)
  BY <1>1, ExecuteMaps, StoppedShape DEF Stopped!Next, Stopped!Step
<1>2. CASE Fan(t)
  BY <1>2, FanMaps, StoppedShape DEF Stopped!Next, Stopped!Step
<1>3. CASE Continue(t)
  BY <1>3, SeqMaps, AllMaps, AnyMaps, CountDownMaps, StoppedShape
     DEF Continue, Stopped!Next, Stopped!Step
<1> QED
  BY <1>1, <1>2, <1>3 DEF Step

LEMMA FailureStepMaps ==
    ASSUME FailureInv, [FailuresNext]_failureVars, ~ended'
    PROVE  ~ended /\ (Stopped!Next \/ UNCHANGED Stopped!vars)
<1>1. ThreadType /\ val = [t \in Thread |-> val[t]]
  BY DEF FailureInv, TypeOK
<1>2. ended => UNCHANGED failureVars
  BY DEF FailuresNext, Undisturbed
<1>3. ~ended
  BY <1>2 DEF failureVars
<1>4. Stopped!Inv /\ (thrown => pc[Main] = "wait" /\ ctr > 0)
  BY <1>3, StandingHoldsLatch DEF FailureInv
<1>5. ASSUME NEW r \in Roots, Undisturbed(Call(r)) PROVE Stopped!Next
  <2>1. ~thrown /\ UNCHANGED thrown /\ Call(r)
    BY <1>4, <1>5 DEF Undisturbed, Call
  <2> QED
    BY <2>1, CallMaps DEF Stopped!Next
<1>6. ASSUME NEW t \in Thread, Undisturbed(Step(t)) PROVE Stopped!Next
  <2>1. UNCHANGED <<thrown, site>> /\ Step(t)
    BY <1>6 DEF Undisturbed
  <2>2. ~Stands(t)
    BY <1>4, <2>1, AtStep DEF Stands
  <2> QED
    BY <1>1, <2>1, <2>2, StepMaps
<1>7. ASSUME NEW t \in Thread, Failure(t)
      PROVE  Stopped!Next \/ UNCHANGED Stopped!vars
  <2>1. t = Main
    BY <1>7 DEF Failure, LeafThrows, CopyThrows, SchedulerThrows, StoreThrows,
       WinThrows, ThenThrows, Throw
  <2>2. ~thrown
    BY <1>4, <1>7, <2>1, AtStep
  <2> QED
    BY <1>1, <1>7, <2>1, <2>2, CallerFails
<1>8. ASSUME NEW k \in Task, Undisturbed(Start(k)) PROVE Stopped!Next
  <2>1. UNCHANGED <<thrown, site>> /\ Start(k)
    BY <1>8 DEF Undisturbed
  <2> QED
    BY <1>1, <2>1, StartMaps, StoppedShape DEF Stopped!Next
<1>9. ASSUME Undisturbed(Return) PROVE Stopped!Next
  <2>1. ~thrown /\ UNCHANGED thrown /\ Return
    BY <1>4, <1>9 DEF Undisturbed, Return
  <2> QED
    BY <2>1, ReturnMaps DEF Stopped!Next
<1>10. ASSUME UNCHANGED failureVars PROVE UNCHANGED Stopped!vars
  BY <1>10
     DEF failureVars, vars, threadVars, storageVars, latchVars, callVars,
         StandsPc, StandsCur, StandsVal, StandsRest, StandsSeen, Told, Won,
         Stopped!vars, Stopped!threadVars, Stopped!storageVars,
         Stopped!latchVars, Stopped!callVars
<1> QED
  BY <1>3, <1>5, <1>6, <1>7, <1>8, <1>9, <1>10 DEF FailuresNext

-----------------------------------------------------------------------------
\* The invariant is preserved.

\* No step puts anything but a function of the threads into val.
LEMMA ValuesKept ==
    ASSUME val = [t \in Thread |-> val[t]], [FailuresNext]_failureVars
    PROVE  val' = [t \in Thread |-> val'[t]]
<1> DEFINE Kept == val' = val \/ \E t, x : val' = [val EXCEPT ![t] = x]
<1>1. ASSUME NEW t, Execute(t) \/ Fan(t) PROVE Kept
  BY <1>1 DEF Execute, ExecLeaf, ExecSeq, ExecShared, Fan, Schedule, RunInline
<1>2. ASSUME NEW t, SeqFirst(t) \/ SeqSecond(t) \/ Deliver(t) \/ CountDown(t)
      PROVE  Kept
  BY <1>2 DEF SeqFirst, SeqSecond, Deliver, CountDown, Unwind
<1>3. ASSUME NEW t, AllStore(t) \/ AllJoin(t) \/ AllLast(t) \/ AllFinish(t)
      PROVE  Kept
  BY <1>3 DEF AllStore, AllJoin, AllLast, AllFinish, Unwind
<1>4. ASSUME NEW t, AnyFirst(t) \/ AnyLose(t) \/ AnyLast(t) \/ AnyFinish(t)
      PROVE  Kept
  BY <1>4 DEF AnyFirst, AnyLose, AnyLast, AnyFinish, Unwind
<1>5. ASSUME NEW t, Failure(t) PROVE Kept
  <2>1. PICK known : Throw(t, known)
    BY <1>5 DEF Failure, LeafThrows, CopyThrows, SchedulerThrows, StoreThrows,
       WinThrows, ThenThrows
  <2> QED
    BY <2>1 DEF Throw, threadVars
<1>6. ASSUME (\E r \in Roots : Call(r)) \/ (\E k \in Task : Start(k)) \/ Return
      PROVE  Kept
  BY <1>6 DEF Call, Start, Return
<1>7. Kept
  BY <1>1, <1>2, <1>3, <1>4, <1>5, <1>6
     DEF FailuresNext, Undisturbed, Step, Continue, failureVars, vars, threadVars
<1> QED
  BY <1>7

\* What is thrown leaves the threads at places of theirs.
LEMMA ThrowType ==
    ASSUME ThreadType, NEW t \in Thread, NEW known \in SUBSET Node,
           Throw(t, known)
    PROVE  ThreadType'
<1>1. CASE t = Main
  <2>0. <<>> \in Seq(Only)
    OBVIOUS
  <2>1. DOMAIN val' = Thread /\ seen' \in [Thread -> SUBSET Node]
    BY <1>1 DEF Throw, ThreadType
  <2>2. rest' \in [Thread -> Seq(Only)]
    BY <1>1, <2>0 DEF Throw, ThreadType
  <2>3. Place(Main, "wait", Main)
    BY DEF Place
  <2>4. Goto(Main, "wait", Main)
    BY <1>1 DEF Throw
  <2> QED
    BY <2>1, <2>2, <2>3, <2>4, Threads, GotoType DEF ThreadType, Label
<1>2. CASE t # Main
  BY <1>2 DEF Throw, ThreadType, threadVars, Place, ChildOf, Shared
<1> QED
  BY <1>1, <1>2

LEMMA FailureKeepsType ==
    ASSUME TypeOK, NEW t \in Thread, Failure(t)
    PROVE  TypeOK' /\ UNCHANGED <<ctr, calls>>
<1>1. seen[t] \in SUBSET Node
  BY DEF TypeOK, ThreadType
<1>2. CASE LeafThrows(t) \/ CopyThrows(t) \/ SchedulerThrows(t) \/ StoreThrows(t)
  <2>1. /\ Throw(t, seen[t])
        /\ UNCHANGED <<storageVars, slot, latchVars, callVars>>
    BY <1>2 DEF LeafThrows, CopyThrows, SchedulerThrows, StoreThrows
  <2>2. ThreadType'
    BY <1>1, <2>1, ThrowType DEF TypeOK
  <2> QED
    BY <2>1, <2>2
       DEF TypeOK, StorageType, CallType, storageVars, latchVars, callVars
<1>3. CASE WinThrows(t)
  <2>1. PICK n : n = Parent[cur[t]]
    OBVIOUS
  <2>2. /\ pc[t] = "out" /\ ChildOf(cur[t], "any")
        /\ FetchSub(t, n) /\ Throw(t, Acquire(t, n))
    BY <1>3, <2>1 DEF WinThrows
  <2>3. n \in Node
    <3>1. cur[t] \in Node \ Roots
      BY <2>2, AtNode DEF TypeOK, ChildOf
    <3> QED
      BY <2>1, <3>1, ParentFacts
  <2>4. Acquire(t, n) \in SUBSET Node
    BY <1>1, <2>3 DEF Acquire, TypeOK, StorageType
  <2>5. ThreadType'
    BY <2>2, <2>4, ThrowType DEF TypeOK
  <2>6. StorageType' /\ CallType'
    BY <2>2, <2>3, FetchSubType
  <2> QED
    BY <2>2, <2>5, <2>6 DEF TypeOK, FetchSub, latchVars, callVars
<1>4. CASE ThenThrows(t)
  <2>1. /\ Throw(t, seen[t])
        /\ UNCHANGED <<storageVars, slot, latchVars, calls, root>>
    BY <1>4 DEF ThenThrows
  <2>2. ThreadType'
    BY <1>1, <2>1, ThrowType DEF TypeOK
  <2> QED
    BY <2>1, <2>2 DEF TypeOK, StorageType, CallType, storageVars, latchVars
<1> QED
  BY <1>2, <1>3, <1>4 DEF Failure

\* No step of another thread moves the caller.
LEMMA CallerStays ==
    ASSUME ThreadType, NEW t \in Thread, t # Main, Step(t)
    PROVE  pc'[Main] = pc[Main]
<1>1. ASSUME NEW label, NEW n, Goto(t, label, n) PROVE pc'[Main] = pc[Main]
  BY <1>1, Threads DEF Goto, ThreadType
<1>2. ASSUME NEW known, Unwind(t, known) PROVE pc'[Main] = pc[Main]
  BY <1>1, <1>2 DEF Unwind
<1>3. CASE Execute(t) \/ RunInline(t)
  BY <1>1, <1>3 DEF Execute, ExecLeaf, ExecSeq, ExecShared, RunInline
<1>4. CASE Schedule(t)
  <2>1. pc[t] = "fan" /\ pc' = [pc EXCEPT ![cur[t]] = "queued"]
    BY <1>4 DEF Schedule
  <2>2. cur[t] # Main
    BY <2>1, AtNode, Threads
  <2> QED
    BY <2>1, <2>2, Threads DEF ThreadType
<1>5. CASE Continue(t)
  BY <1>1, <1>2, <1>5
     DEF Continue, SeqFirst, SeqSecond, Deliver, AllStore, AllJoin, AllLast,
         AllFinish, AnyFirst, AnyLose, AnyLast, AnyFinish, CountDown
<1> QED
  BY <1>3, <1>4, <1>5 DEF Step, Fan

LEMMA FailureStep ==
    ASSUME FailureInv, [FailuresNext]_failureVars
    PROVE  FailureInv'
<1>1. TypeOK /\ ThreadType /\ thrown \in BOOLEAN /\ ended \in BOOLEAN
  BY DEF FailureInv, TypeOK
<1>2. val' = [t \in Thread |-> val'[t]]
  BY ValuesKept DEF FailureInv
<1>3. ended' \/ Stopped!Inv'
  <2>1. SUFFICES ASSUME ~ended' PROVE Stopped!Inv'
    OBVIOUS
  <2>2. ~ended /\ (Stopped!Next \/ UNCHANGED Stopped!vars)
    BY <2>1, FailureStepMaps
  <2>3. Stopped!Inv /\ [Stopped!Next]_(Stopped!vars)
    BY <2>2 DEF FailureInv
  <2> QED
    BY <2>3, Stopped!StepKeepsInv, StoppedAssumption, KidsAssumption,
       BoundsAssumption
<1>4. ~ended => (thrown => ctr > 0)
  BY StandingHoldsLatch DEF FailureInv
<1>5. ASSUME NEW t \in Thread, ~ended, Failure(t) PROVE FailureInv'
  <2>1. TypeOK' /\ UNCHANGED ctr
    BY <1>1, <1>5, FailureKeepsType
  <2>2. PICK known : Throw(t, known)
    BY <1>5 DEF Failure, LeafThrows, CopyThrows, SchedulerThrows, StoreThrows,
       WinThrows, ThenThrows
  <2>3. CASE t = Main
    <3>1. ~thrown /\ pc[Main] \notin {"idle", "queued", "wait"}
      BY <1>5, <2>3, AtStep DEF FailureInv
    <3>2. thrown' /\ UNCHANGED ended /\ pc'[Main] = "wait"
      BY <1>1, <2>2, <2>3, <3>1, Threads, ThrowStands DEF ThreadType
    <3>3. StandsPc'[Main] = IF Told' THEN "count" ELSE pc[Main]
      <4>1. /\ StandsPc' = [StandsPc EXCEPT ![Main] =
                                IF Told' THEN "count" ELSE pc[Main]]
            /\ StandsPc = pc
        BY <1>1, <2>2, <2>3, <3>1, ThrowStands, NobodyStands
      <4> QED
        BY <1>1, <4>1, Threads DEF ThreadType
    <3> QED
      BY <1>1, <1>2, <1>3, <1>5, <2>1, <3>1, <3>2, <3>3 DEF FailureInv
  <2>4. CASE t # Main
    <3>1. ended' /\ UNCHANGED <<threadVars, thrown, site>>
      BY <2>2, <2>4 DEF Throw
    <3>2. StandsPc' = StandsPc
      BY <3>1 DEF threadVars, StandsPc, Told
    <3> QED
      BY <1>1, <1>2, <1>3, <1>4, <1>5, <2>1, <3>1, <3>2 DEF FailureInv, threadVars
  <2> QED
    BY <2>3, <2>4
<1>6. ASSUME ~ended, Next, UNCHANGED <<thrown, site, ended>>,
             thrown => pc'[Main] = pc[Main]
      PROVE  FailureInv'
  <2>1. TypeOK'
    BY <1>1, <1>6, StepKeepsType
  <2>2. thrown => StandsPc'[Main] = StandsPc[Main]
    <3>1. Main \in DOMAIN pc /\ Main \in DOMAIN pc'
      BY <1>1, <2>1, Threads DEF TypeOK, ThreadType
    <3>2. site' = site /\ thrown' = thrown
      BY <1>6
    <3> QED
      BY <3>1, <3>2 DEF StandsPc, Told
  <2> QED
    BY <1>1, <1>2, <1>3, <1>6, <2>1, <2>2 DEF FailureInv
<1>7. ASSUME NEW t \in Thread, Undisturbed(Step(t)) PROVE FailureInv'
  <2>1. ~ended /\ UNCHANGED <<thrown, site, ended>> /\ Step(t) /\ Next
    BY <1>7 DEF Undisturbed, Next
  <2>2. ASSUME thrown PROVE pc'[Main] = pc[Main]
    <3>1. t # Main
      BY <2>1, <2>2, AtStep DEF FailureInv
    <3> QED
      BY <1>1, <2>1, <3>1, CallerStays
  <2> QED
    BY <1>6, <2>1, <2>2
<1>8. ASSUME NEW k \in Task, Undisturbed(Start(k)) PROVE FailureInv'
  <2>1. ~ended /\ UNCHANGED <<thrown, site, ended>> /\ Start(k) /\ Next
    BY <1>8 DEF Undisturbed, Next
  <2>2. pc'[Main] = pc[Main]
    BY <1>1, <2>1, Threads DEF Start, Goto, ThreadType
  <2> QED
    BY <1>6, <2>1, <2>2
<1>9. ASSUME Undisturbed(Return) \/ \E r \in Roots : Undisturbed(Call(r))
      PROVE  FailureInv'
  <2>1. ~ended /\ UNCHANGED <<thrown, site, ended>> /\ Next
    BY <1>9 DEF Undisturbed, Next
  <2>2. ~thrown
    BY <1>4, <1>9, <2>1 DEF FailureInv, Undisturbed, Return, Call
  <2> QED
    BY <1>6, <2>1, <2>2
<1>10. ASSUME UNCHANGED failureVars PROVE FailureInv'
  <2>1. TypeOK'
    BY <1>1, <1>10, StutterKeepsType DEF failureVars
  <2>2. StandsPc' = StandsPc
    BY <1>10 DEF failureVars, vars, threadVars, StandsPc, Told
  <2> QED
    BY <1>2, <1>3, <1>10, <2>1, <2>2
       DEF FailureInv, failureVars, vars, threadVars, latchVars
<1> QED
  BY <1>5, <1>7, <1>8, <1>9, <1>10 DEF FailuresNext

LEMMA FailureStart == FailuresInit => FailureInv /\ Stopped!Init
<1> SUFFICES ASSUME FailuresInit PROVE FailureInv /\ Stopped!Init
  OBVIOUS
<1>1. Init /\ ~thrown /\ thrown = FALSE /\ ended = FALSE
  BY DEF FailuresInit
<1>2. TypeOK
  BY <1>1, InitType
<1>3. Stopped!Init
  BY <1>1, NobodyStands, StoppedShape DEF Init, Stopped!Init
<1>4. Stopped!Inv
  BY <1>3, Stopped!InitInv, StoppedAssumption, KidsAssumption, BoundsAssumption
<1>5. val = [t \in Thread |-> val[t]]
  BY <1>1 DEF Init
<1> QED
  BY <1>1, <1>2, <1>3, <1>4, <1>5 DEF FailureInv

LEMMA FailureInvariant == FailuresSpec => []FailureInv
<1>1. FailuresInit => FailureInv
  BY FailureStart
<1>2. FailureInv /\ [FailuresNext]_failureVars => FailureInv'
  BY FailureStep
<1> QED
  BY <1>1, <1>2, PTL DEF FailuresSpec

\* sync_execute: a call whose thread throws never returns.  The exception is on
\* its way through the destructor of the latch, and waits there for count_down()
\* calls that the frames it has left were to make, or to lead to.
THEOREM FailedCallHangs == FailuresSpec => []FailedCallNeverReturns
<1>1. FailureInv => FailedCallNeverReturns
  BY StandingHoldsLatch DEF FailureInv, FailedCallNeverReturns
<1> QED
  BY <1>1, FailureInvariant, PTL

\* Until the program is terminated, a call that fails is to all tasks a call
\* whose caller stopped: they move as in a graph in which nothing fails.
THEOREM FailureIsAStop ==
    FailuresSpec =>
        Stopped!Init /\ [][Stopped!Next \/ UNCHANGED Stopped!vars \/ ended']_failureVars
<1>1. FailuresInit => Stopped!Init
  BY FailureStart
<1>2. ASSUME FailureInv, [FailuresNext]_failureVars
      PROVE  [Stopped!Next \/ UNCHANGED Stopped!vars \/ ended']_failureVars
  BY <1>2, FailureStepMaps
<1> QED
  BY <1>1, <1>2, FailureInvariant, PTL DEF FailuresSpec

\* aligned_storage_for: an exception on the calling thread leaves the storages
\* of the tasks alone.
THEOREM StoragesAreSpared == FailuresSpec => []FailureSparesStorages
<1>1. ASSUME FailureInv, ~ended, NEW t \in Thread
      PROVE  LET n == cur[t] IN
             /\ pc[t] = "exec" =>
                 /\ Shared(n) => ~engaged[n]
                 /\ Lender[n] # Main => engaged[Lender[n]]
             /\ pc[t] = "join" \/ (pc[t] = "out" /\ ChildOf(n, "any"))
                 => engaged[Parent[n]]
             /\ pc[t] = "last" => engaged[n]
  <2>1. CASE Stands(t)
    BY <1>1, <2>1 DEF Stands, FailureInv
  <2>2. CASE ~Stands(t)
    <3>1. Stopped!StorageDiscipline
      BY <1>1, Stopped!InvStorageDiscipline, StoppedAssumption, KidsAssumption,
         BoundsAssumption
         DEF FailureInv
    <3>2. StandsPc[t] = pc[t] /\ StandsCur[t] = cur[t]
      BY <1>1, <2>2, OthersMove DEF FailureInv, TypeOK
    <3> QED
      BY <3>1, <3>2, StoppedShape DEF Stopped!StorageDiscipline
  <2> QED
    BY <2>1, <2>2
<1>2. FailureInv => FailureSparesStorages
  BY <1>1 DEF FailureSparesStorages, StorageDiscipline
<1> QED
  BY <1>2, FailureInvariant, PTL

-----------------------------------------------------------------------------
\* What a node passes on after a failure elsewhere.

\* A set of completions that holds what each of them required.
Whole(X) == \A n \in X : Complete(n, X)

KnowWhole ==
    /\ \A t \in Thread : Whole(seen[t])
    /\ \A n \in Node : Whole(joined[n])
    /\ Whole(counted)

LEMMA WholeUnion ==
    ASSUME NEW X, NEW Y, Whole(X), Whole(Y)
    PROVE  Whole(X \union Y)
  BY DEF Whole, Complete

LEMMA WholeWith ==
    ASSUME NEW X, NEW n, Whole(X), Complete(n, X)
    PROVE  Whole(X \union {n})
  BY DEF Whole, Complete

LEMMA WholeEmpty == Whole({})
  BY DEF Whole

\* What the graph whose caller may stand tells of a thread at a step.
Says(t) ==
    /\ pc[t] \in {"out", "join"} => cur[t] \in seen[t]
    /\ pc[t] = "last" =>
           /\ KidsOf(cur[t]) \subseteq seen[t]
           /\ KidsOf(cur[t]) \subseteq joined[cur[t]]
           /\ engaged[cur[t]]
           /\ \A u \in Thread : pc[u] = "join" => cur[u] \notin KidsOf(cur[t])
    /\ pc[t] = "join" =>
           seen[t] \intersect KidsOf(Parent[cur[t]])
               \subseteq joined[Parent[cur[t]]] \union {cur[t]}
    /\ pc[t] = "exec" => seen[t] \intersect KidsOf(cur[t]) = {}

LEMMA ThreadSays ==
    ASSUME FailureInv, ~ended, NEW t \in Thread,
           pc[t] \notin {"idle", "queued", "wait"}
    PROVE  Says(t)
<1>1. TypeOK /\ ThreadType
  BY DEF FailureInv, TypeOK
<1>2. ~Stands(t)
  BY DEF Stands, FailureInv
<1>3. \A u \in Thread : ~Stands(u) => StandsPc[u] = pc[u] /\ StandsCur[u] = cur[u]
                                      /\ StandsSeen[u] = seen[u]
  BY <1>1, OthersMove
<1>4. ~Stopped!Unused
  BY <1>2, <1>3, StoppedShape DEF Stopped!Unused
<1>5. PICK S, D, P \in SUBSET Node : Stopped!Account(S, D, P)
  BY <1>4 DEF FailureInv, Stopped!Inv
<1>6. /\ Stopped!Stages(S, D, P) /\ Stopped!Storages(S, D, P)
      /\ Stopped!EnteringFresh(S, D) /\ Stopped!LeavingDone(D, P)
      /\ Stopped!EndingOver(P) /\ Stopped!Knowledge(P)
  BY <1>5 DEF Stopped!Account, Stopped!Positions
<1>7. ASSUME NEW u \in Thread, pc[u] \in {"out", "join"}
      PROVE  cur[u] \in D \ P /\ cur[u] \in seen[u] /\ cur[u] \in Node
  <2>1. ~Stands(u)
    BY <1>7 DEF Stands, FailureInv
  <2>2. cur[u] \in Node
    BY <1>1, <1>7, AtNode
  <2>3. Stopped!Leaving(u, cur[u])
    BY <1>3, <1>7, <2>1 DEF Stopped!Leaving
  <2> QED
    BY <1>3, <1>6, <2>1, <2>2, <2>3, StoppedShape DEF Stopped!LeavingDone
<1>8. \A n \in seen[t] : n \in P \/ (pc[t] \in {"out", "join"} /\ cur[t] = n)
  BY <1>2, <1>3, <1>6, StoppedShape DEF Stopped!Knowledge, Stopped!Leaving
<1>9. \A n \in Node : engaged[n] =>
          joined[n] \intersect KidsOf(n) = P \intersect KidsOf(n)
  BY <1>6, StoppedShape DEF Stopped!Storages
<1>10. ASSUME pc[t] = "last"
       PROVE  /\ KidsOf(cur[t]) \subseteq seen[t]
              /\ KidsOf(cur[t]) \subseteq joined[cur[t]]
              /\ engaged[cur[t]]
              /\ \A u \in Thread : pc[u] = "join" => cur[u] \notin KidsOf(cur[t])
  <2>1. cur[t] \in Node
    BY <1>1, <1>10, AtNode
  <2>2. Stopped!Ending(t, cur[t])
    BY <1>2, <1>3, <1>10 DEF Stopped!Ending
  <2>3. /\ engaged[cur[t]] /\ KidsOf(cur[t]) \subseteq P
        /\ KidsOf(cur[t]) \subseteq seen[t]
    BY <1>2, <1>3, <1>6, <2>1, <2>2, StoppedShape DEF Stopped!EndingOver
  <2> QED
    BY <1>7, <1>9, <2>1, <2>3
<1>11. ASSUME pc[t] = "join"
       PROVE  seen[t] \intersect KidsOf(Parent[cur[t]])
                  \subseteq joined[Parent[cur[t]]] \union {cur[t]}
  <2>1. cur[t] \in Node \ Roots /\ Parent[cur[t]] \in Node
        /\ Shared(Parent[cur[t]])
    BY <1>1, <1>11, AtNode, ParentFacts DEF ThreadType, Place, ChildOf, Shared
  <2>2. cur[t] \in S \ P
    BY <1>6, <1>7, <1>11 DEF Stopped!Stages
  <2>3. engaged[Parent[cur[t]]]
    BY <1>6, <2>1, <2>2, StoppedShape DEF Stopped!Stages
  <2> QED
    BY <1>8, <1>9, <2>1, <2>3
<1>12. ASSUME pc[t] = "exec" PROVE seen[t] \intersect KidsOf(cur[t]) = {}
  <2>1. cur[t] \in Node
    BY <1>1, <1>12, AtNode
  <2>2. Stopped!Entering(t, cur[t])
    BY <1>2, <1>3, <1>12 DEF Stopped!Entering
  <2>3. KidsOf(cur[t]) \intersect S = {}
    BY <1>6, <2>1, <2>2, StoppedShape DEF Stopped!EnteringFresh
  <2>4. P \subseteq S
    BY <1>6 DEF Stopped!Stages
  <2> QED
    BY <1>8, <1>12, <2>3, <2>4
<1> QED
  BY <1>7, <1>10, <1>11, <1>12 DEF Says

\* A step tells one thread, one counter or the latch something that is whole.
LEMMA WholeKept ==
    ASSUME TypeOK, KnowWhole,
           \/ UNCHANGED seen
           \/ \E t, X : Whole(X) /\ seen' = [seen EXCEPT ![t] = X],
           \/ UNCHANGED joined
           \/ \E n, X : Whole(X) /\ joined' = [joined EXCEPT ![n] = X],
           Whole(counted')
    PROVE  KnowWhole'
<1>1. \A t \in Thread : Whole(seen'[t])
  BY DEF KnowWhole, TypeOK, ThreadType
<1>2. \A n \in Node : Whole(joined'[n])
  BY DEF KnowWhole, TypeOK, StorageType
<1> QED
  BY <1>1, <1>2 DEF KnowWhole, Whole, Complete, KidsOf

\* What an unwinding thread is told.
LEMMA UnwindWhole ==
    ASSUME NEW t, NEW known, Whole(known), Unwind(t, known)
    PROVE  \E X : Whole(X) /\ seen' = [seen EXCEPT ![t] = X]
<1>1. CASE rest[t] # <<>> \/ t = Main
  <2>1. seen' = [seen EXCEPT ![t] = known]
    BY <1>1 DEF Unwind
  <2> QED
    BY <2>1
<1>2. CASE ~(rest[t] # <<>> \/ t = Main)
  <2>1. PICK X : X = {}
    OBVIOUS
  <2>2. seen' = [seen EXCEPT ![t] = X]
    BY <1>2, <2>1 DEF Unwind
  <2> QED
    BY <2>1, <2>2, WholeEmpty
<1> QED
  BY <1>1, <1>2

\* What the fetch_sub of t tells t and the counter.
LEMMA FetchSubWhole ==
    ASSUME KnowWhole, NEW t \in Thread, NEW n \in Node, FetchSub(t, n)
    PROVE  /\ Whole(Acquire(t, n))
           /\ \E X : Whole(X) /\ joined' = [joined EXCEPT ![n] = X]
           /\ Whole(counted')
<1>1. Whole(joined[n] \union seen[t]) /\ Whole(seen[t] \union joined[n])
  BY WholeUnion DEF KnowWhole
<1>2. joined' = [joined EXCEPT ![n] = joined[n] \union seen[t]]
      /\ counted' = counted
  BY DEF FetchSub, Release, latchVars
<1> QED
  BY <1>1, <1>2 DEF Acquire, KnowWhole

LEMMA ExecuteWhole ==
    ASSUME TypeOK, KnowWhole, NEW t \in Thread, Execute(t) \/ Fan(t)
    PROVE  KnowWhole'
<1>1. PICK k : k = cur[t]
  OBVIOUS
<1>2. Whole(seen[t]) /\ Whole(counted)
  BY DEF KnowWhole
<1>3. CASE ExecLeaf(t)
  <2>1. Complete(k, seen[t])
    BY <1>1, <1>3 DEF ExecLeaf, Complete
  <2>2. PICK X : X = seen[t] \union {k}
    OBVIOUS
  <2>3. Whole(X) /\ seen' = [seen EXCEPT ![t] = X]
    BY <1>1, <1>2, <1>3, <2>1, <2>2, WholeWith DEF ExecLeaf
  <2>4. UNCHANGED <<joined, counted>>
    BY <1>3 DEF ExecLeaf, storageVars, latchVars
  <2> QED
    BY <1>2, <2>3, <2>4, WholeKept
<1>4. CASE ExecSeq(t) \/ RunInline(t)
  <2>1. UNCHANGED <<seen, joined, counted>>
    BY <1>4 DEF ExecSeq, RunInline, storageVars, latchVars
  <2> QED
    BY <1>2, <2>1, WholeKept
<1>5. CASE ExecShared(t)
  <2>1. joined' = [joined EXCEPT ![k] = seen[t]] /\ UNCHANGED <<seen, counted>>
    BY <1>1, <1>5 DEF ExecShared, Construct, latchVars
  <2> QED
    BY <1>2, <2>1, WholeKept
<1>6. CASE Schedule(t)
  <2>1. seen' = [seen EXCEPT ![k] = seen[t]] /\ UNCHANGED <<joined, counted>>
    BY <1>1, <1>6 DEF Schedule, storageVars, latchVars
  <2> QED
    BY <1>2, <2>1, WholeKept
<1> QED
  BY <1>3, <1>4, <1>5, <1>6 DEF Execute, Fan

LEMMA ContinueWhole ==
    ASSUME TypeOK, KnowWhole, NEW t \in Thread, Says(t), Continue(t)
    PROVE  KnowWhole'
<1>1. PICK k : k = cur[t]
  OBVIOUS
<1>2. Whole(seen[t]) /\ Whole(counted)
  BY DEF KnowWhole
<1>3. CASE SeqFirst(t) \/ Deliver(t) \/ AllStore(t)
  <2>1. UNCHANGED <<seen, joined, counted>>
    BY <1>3 DEF SeqFirst, Deliver, AllStore, storageVars, latchVars
  <2> QED
    BY <1>2, <2>1, WholeKept
<1>4. CASE SeqSecond(t)
  <2>1. /\ pc[t] = "out" /\ ChildOf(k, "seq") /\ Position[k] = 2
        /\ k \in Node \ Roots /\ k \in seen[t]
    BY <1>1, <1>4, AtNode DEF SeqSecond, ChildOf, Says, TypeOK
  <2>2. Complete(Parent[k], seen[t])
    BY <2>1, ParentFacts DEF Complete, ChildOf
  <2>3. PICK X : X = seen[t] \union {Parent[k]}
    OBVIOUS
  <2>4. Whole(X) /\ seen' = [seen EXCEPT ![t] = X]
    BY <1>1, <1>2, <1>4, <2>2, <2>3, WholeWith DEF SeqSecond
  <2>5. UNCHANGED <<joined, counted>>
    BY <1>4 DEF SeqSecond, storageVars, latchVars
  <2> QED
    BY <1>2, <2>4, <2>5, WholeKept
<1>5. PICK n : n = Parent[k]
  OBVIOUS
<1>6. PICK known : known = Acquire(t, n)
  OBVIOUS
<1>7. ASSUME pc[t] = "join" \/ (pc[t] = "out" /\ ChildOf(k, "any")),
             FetchSub(t, n)
      PROVE  /\ n \in Node /\ k \in KidsOf(n) /\ k \in seen[t]
             /\ Whole(known) /\ Whole(counted')
             /\ \E X : Whole(X) /\ joined' = [joined EXCEPT ![n] = X]
  <2>1. k \in Node \ Roots
    BY <1>1, <1>7, AtNode DEF TypeOK, ThreadType, Place, ChildOf
  <2>2. n \in Node /\ k \in KidsOf(n)
    BY <1>5, <2>1, ParentFacts
  <2> QED
    BY <1>1, <1>6, <1>7, <2>2, FetchSubWhole DEF Says
<1>8. CASE AllJoin(t) \/ AnyLose(t)
  <2>1. /\ pc[t] = "join" \/ (pc[t] = "out" /\ ChildOf(k, "any"))
        /\ FetchSub(t, n) /\ Unwind(t, known)
    BY <1>1, <1>5, <1>6, <1>8 DEF AllJoin, AnyLose
  <2>2. \E X : Whole(X) /\ seen' = [seen EXCEPT ![t] = X]
    BY <1>7, <2>1, UnwindWhole
  <2> QED
    BY <1>7, <2>1, <2>2, WholeKept
<1>9. CASE AllLast(t) \/ AnyLast(t)
  <2>1. /\ pc[t] = "join" \/ (pc[t] = "out" /\ ChildOf(k, "any"))
        /\ FetchSub(t, n) /\ seen' = [seen EXCEPT ![t] = known]
    BY <1>1, <1>5, <1>6, <1>9 DEF AllLast, AnyLast
  <2> QED
    BY <1>7, <2>1, WholeKept
<1>10. CASE AnyFirst(t)
  <2>1. /\ pc[t] = "out" /\ ChildOf(k, "any") /\ FetchSub(t, n)
        /\ seen' = [seen EXCEPT ![t] = known \union {n}]
    BY <1>1, <1>5, <1>6, <1>10 DEF AnyFirst
  <2>2. k \in known
    BY <1>6, <1>7, <2>1 DEF Acquire
  <2>3. Complete(n, known)
    BY <1>5, <1>7, <2>1, <2>2 DEF Complete, ChildOf
  <2>4. PICK X : X = known \union {n}
    OBVIOUS
  <2>5. Whole(X)
    BY <1>7, <2>1, <2>3, <2>4, WholeWith
  <2> QED
    BY <1>7, <2>1, <2>4, <2>5, WholeKept
<1>11. CASE AllFinish(t) \/ AnyFinish(t)
  <2>1. pc[t] = "last" /\ KidsOf(k) \subseteq seen[t] /\ k \in Node
    BY <1>1, <1>11, AtNode DEF AllFinish, AnyFinish, Says, TypeOK
  <2>2. PICK none : none = {}
    OBVIOUS
  <2>3. Whole(none) /\ joined' = [joined EXCEPT ![k] = none]
        /\ UNCHANGED counted
    BY <1>1, <1>11, <2>2, WholeEmpty
       DEF AllFinish, AnyFinish, Destroy, latchVars
  <2>4. CASE AllFinish(t)
    <3>1. Complete(k, seen[t])
      BY <1>1, <2>1, <2>4 DEF AllFinish, Complete
    <3>2. PICK X : X = seen[t] \union {k}
      OBVIOUS
    <3>3. Whole(X) /\ seen' = [seen EXCEPT ![t] = X]
      BY <1>1, <1>2, <2>4, <3>1, <3>2, WholeWith DEF AllFinish
    <3> QED
      BY <1>2, <2>3, <3>3, WholeKept
  <2>5. CASE AnyFinish(t)
    <3>1. UNCHANGED seen
      BY <2>5 DEF AnyFinish
    <3> QED
      BY <1>2, <2>3, <3>1, WholeKept
  <2> QED
    BY <1>11, <2>4, <2>5
<1>12. CASE CountDown(t)
  <2>1. PICK all : all = seen[t] \union counted
    OBVIOUS
  <2>2. PICK new : new = counted \union seen[t]
    OBVIOUS
  <2>3. Whole(all) /\ Whole(new) /\ counted' = new /\ Unwind(t, all)
    BY <1>2, <1>12, <2>1, <2>2, WholeUnion DEF CountDown
  <2>4. \E X : Whole(X) /\ seen' = [seen EXCEPT ![t] = X]
    BY <2>3, UnwindWhole
  <2>5. UNCHANGED joined
    BY <1>12 DEF CountDown, storageVars
  <2> QED
    BY <2>3, <2>4, <2>5, WholeKept
<1> QED
  BY <1>3, <1>4, <1>8, <1>9, <1>10, <1>11, <1>12 DEF Continue

LEMMA FailureWhole ==
    ASSUME TypeOK, KnowWhole, NEW t \in Thread, Failure(t)
    PROVE  KnowWhole'
<1>1. Whole(seen[t]) /\ Whole(counted)
  BY DEF KnowWhole
<1>2. ASSUME NEW known, Whole(known), Throw(t, known)
      PROVE  UNCHANGED seen \/ \E u, X : Whole(X) /\ seen' = [seen EXCEPT ![u] = X]
  BY <1>2 DEF Throw, threadVars
<1>3. CASE \/ LeafThrows(t) \/ CopyThrows(t) \/ SchedulerThrows(t)
           \/ StoreThrows(t) \/ ThenThrows(t)
  <2>1. Throw(t, seen[t]) /\ UNCHANGED <<joined, counted>>
    BY <1>3 DEF LeafThrows, CopyThrows, SchedulerThrows, StoreThrows, ThenThrows,
       storageVars, latchVars
  <2> QED
    BY <1>1, <1>2, <2>1, WholeKept
<1>4. CASE WinThrows(t)
  <2>1. PICK n : n = Parent[cur[t]]
    OBVIOUS
  <2>2. PICK known : known = Acquire(t, n)
    OBVIOUS
  <2>3. /\ pc[t] = "out" /\ ChildOf(cur[t], "any")
        /\ FetchSub(t, n) /\ Throw(t, known)
    BY <1>4, <2>1, <2>2 DEF WinThrows
  <2>4. n \in Node
    <3>1. cur[t] \in Node \ Roots
      BY <2>3, AtNode DEF TypeOK, ChildOf
    <3> QED
      BY <2>1, <3>1, ParentFacts
  <2>5. /\ Whole(known) /\ Whole(counted')
        /\ \E X : Whole(X) /\ joined' = [joined EXCEPT ![n] = X]
    BY <2>2, <2>3, <2>4, FetchSubWhole
  <2> QED
    BY <1>2, <2>3, <2>5, WholeKept
<1> QED
  BY <1>3, <1>4 DEF Failure

LEMMA KnowWholeStep ==
    ASSUME FailureInv, KnowWhole, [FailuresNext]_failureVars
    PROVE  KnowWhole'
<1>1. TypeOK
  BY DEF FailureInv
<1>2. ASSUME NEW t \in Thread, ~ended, Step(t) PROVE KnowWhole'
  <2>1. Says(t)
    BY <1>2, AtStep, ThreadSays
  <2> QED
    BY <1>1, <1>2, <2>1, ExecuteWhole, ContinueWhole DEF Step
<1>3. ASSUME NEW t \in Thread, Failure(t) PROVE KnowWhole'
  BY <1>1, <1>3, FailureWhole
<1>4. ASSUME NEW r \in Roots, Call(r) PROVE KnowWhole'
  <2>1. PICK none : none = {}
    OBVIOUS
  <2>2. Whole(none) /\ seen' = [seen EXCEPT ![Main] = none]
        /\ counted' = none /\ UNCHANGED joined
    BY <1>4, <2>1, WholeEmpty DEF Call, storageVars
  <2> QED
    BY <1>1, <2>2, WholeKept
<1>5. ASSUME NEW k \in Task, Start(k) PROVE KnowWhole'
  BY <1>1, <1>5, WholeKept DEF Start, storageVars, latchVars, KnowWhole
<1>6. ASSUME Return PROVE KnowWhole'
  <2>1. PICK all : all = seen[Main] \union counted
    OBVIOUS
  <2>2. seen' = [seen EXCEPT ![Main] = all] /\ UNCHANGED <<joined, counted>>
    BY <1>6, <2>1 DEF Return, storageVars, latchVars
  <2>3. Whole(all) /\ Whole(counted)
    BY <2>1, Threads, WholeUnion DEF KnowWhole
  <2> QED
    BY <1>1, <2>2, <2>3, WholeKept
<1>7. ASSUME UNCHANGED failureVars PROVE KnowWhole'
  BY <1>1, <1>7, WholeKept
     DEF failureVars, vars, threadVars, storageVars, latchVars, KnowWhole
<1> QED
  BY <1>2, <1>3, <1>4, <1>5, <1>6, <1>7 DEF FailuresNext, Undisturbed

-----------------------------------------------------------------------------
\* A tuple has all its components.

\* What the continuation of n is called with.
Sent(n, v) ==
    /\ v # Nothing
    /\ Kind[n] = "all" => \A i \in DOMAIN Kids[n] : v[2][i] # Nothing

Outputs ==
    /\ \A t \in Thread : pc[t] = "out" => Sent(cur[t], val[t])
    /\ \A t \in Thread : pc[t] = "join" => slot[cur[t]] # Nothing
    /\ \A n \in Node : Kind[n] = "all" /\ engaged[n] =>
           \A k \in KidsOf(n) \intersect joined[n] : slot[k] # Nothing

\* A step after which its threads are not calling a continuation.
LEMMA OutputsKept ==
    ASSUME Outputs,
           \A u \in Thread :
               \/ pc'[u] \notin {"out", "join"}
               \/ pc'[u] = pc[u] /\ cur'[u] = cur[u] /\ val'[u] = val[u],
           UNCHANGED slot,
           \A n \in Node : Kind[n] = "all" /\ engaged'[n] =>
               /\ engaged[n]
               /\ joined'[n] \intersect KidsOf(n) \subseteq
                      joined[n] \union {k \in KidsOf(n) : slot[k] # Nothing}
    PROVE  Outputs'
<1>1. \A t \in Thread : pc'[t] = "out" => Sent(cur'[t], val'[t])
  BY DEF Outputs
<1>2. \A t \in Thread : pc'[t] = "join" => slot'[cur'[t]] # Nothing
  BY DEF Outputs
<1>3. \A n \in Node : Kind[n] = "all" /\ engaged'[n] =>
          \A k \in KidsOf(n) \intersect joined'[n] : slot'[k] # Nothing
  BY DEF Outputs
<1> QED
  BY <1>1, <1>2, <1>3 DEF Outputs, Sent, KidsOf

\* The values of a program are no moved-from tuples.
ValuesAreSomething == \A n \in Node : \A of : Output(n, of) # Nothing

\* What a thread does to itself it does to no other.
Moved(t, label, n, v) ==
    /\ pc'[t] = label /\ cur'[t] = n /\ val'[t] = v
    /\ \A u \in Thread :
           u # t => pc'[u] = pc[u] /\ cur'[u] = cur[u] /\ val'[u] = val[u]

LEMMA GotoMoves ==
    ASSUME ThreadType, NEW t \in Thread, NEW label, NEW n, Goto(t, label, n)
    PROVE  /\ \A v : val' = [val EXCEPT ![t] = v] => Moved(t, label, n, v)
           /\ UNCHANGED val => Moved(t, label, n, val[t])
  BY DEF Goto, Moved, ThreadType

LEMMA UnwindMoves ==
    ASSUME ThreadType, NEW t \in Thread, NEW known, Unwind(t, known)
    PROVE  \E label \in {"last", "idle", "wait"} : \E n : Moved(t, label, n, Nothing)
<1>1. val' = [val EXCEPT ![t] = Nothing]
  BY DEF Unwind
<1>2. \E label \in {"last", "idle", "wait"} : \E n : Goto(t, label, n)
  BY DEF Unwind
<1> QED
  BY <1>1, <1>2, GotoMoves

LEMMA MovedKeeps ==
    ASSUME Outputs, NEW t \in Thread, NEW label, NEW n, NEW v,
           Moved(t, label, n, v), label \notin {"out", "join"},
           UNCHANGED slot,
           \A m \in Node : Kind[m] = "all" /\ engaged'[m] =>
               /\ engaged[m]
               /\ joined'[m] \intersect KidsOf(m) \subseteq
                      joined[m] \union {k \in KidsOf(m) : slot[k] # Nothing}
    PROVE  Outputs'
<1>1. \A u \in Thread :
          \/ pc'[u] \notin {"out", "join"}
          \/ pc'[u] = pc[u] /\ cur'[u] = cur[u] /\ val'[u] = val[u]
  BY DEF Moved
<1> QED
  BY <1>1, OutputsKept

\* A thread that calls a continuation calls it with something.
LEMMA SentKeeps ==
    ASSUME Outputs, NEW t \in Thread, NEW n, NEW v,
           Moved(t, "out", n, v), Sent(n, v),
           UNCHANGED slot,
           \A m \in Node : Kind[m] = "all" =>
               engaged'[m] = engaged[m] /\ joined'[m] = joined[m]
    PROVE  Outputs'
<1>1. \A u \in Thread : pc'[u] = "out" => Sent(cur'[u], val'[u])
  BY DEF Outputs, Moved
<1>2. \A u \in Thread : pc'[u] = "join" => slot'[cur'[u]] # Nothing
  BY DEF Outputs, Moved
<1>3. \A m \in Node : Kind[m] = "all" /\ engaged'[m] =>
          \A k \in KidsOf(m) \intersect joined'[m] : slot'[k] # Nothing
  BY DEF Outputs
<1> QED
  BY <1>1, <1>2, <1>3 DEF Outputs, Sent, KidsOf

LEMMA ExecuteOutputs ==
    ASSUME ValuesAreSomething, TypeOK, Outputs, NEW t \in Thread, Says(t),
           Execute(t) \/ Fan(t)
    PROVE  Outputs'
<1>1. PICK k : k = cur[t]
  OBVIOUS
<1>2. ThreadType
  BY DEF TypeOK
<1>3. CASE ExecLeaf(t)
  <2>1. PICK v : v = Output(k, Input(t, k))
    OBVIOUS
  <2>2. pc[t] = "exec" /\ Kind[k] = "leaf" /\ Goto(t, "out", k)
        /\ val' = [val EXCEPT ![t] = v]
        /\ UNCHANGED <<slot, engaged, joined>>
    BY <1>1, <1>3, <2>1 DEF ExecLeaf, storageVars
  <2>3. k \in Node
    BY <1>1, <1>2, <2>2, AtNode
  <2>4. Moved(t, "out", k, v)
    BY <1>2, <2>2, GotoMoves
  <2>5. Sent(k, v)
    BY <2>1, <2>2, <2>3 DEF Sent, ValuesAreSomething
  <2> QED
    BY <2>2, <2>4, <2>5, SentKeeps
<1>4. CASE ExecSeq(t)
  <2>1. PICK v : v = Input(t, k)
    OBVIOUS
  <2>2. Goto(t, "exec", Kids[k][1]) /\ val' = [val EXCEPT ![t] = v]
        /\ UNCHANGED <<slot, engaged, joined>>
    BY <1>1, <1>4, <2>1 DEF ExecSeq, storageVars
  <2>3. Moved(t, "exec", Kids[k][1], v)
    BY <1>2, <2>2, GotoMoves
  <2> QED
    BY <2>2, <2>3, MovedKeeps
<1>5. CASE ExecShared(t)
  <2>1. /\ pc[t] = "exec" /\ Goto(t, "fan", Kids[k][1])
        /\ val' = [val EXCEPT ![t] = Nothing] /\ UNCHANGED slot
        /\ engaged' = [engaged EXCEPT ![k] = TRUE]
        /\ joined' = [joined EXCEPT ![k] = seen[t]]
    BY <1>1, <1>5 DEF ExecShared, Construct
  <2>2. Moved(t, "fan", Kids[k][1], Nothing)
    BY <1>2, <2>1, GotoMoves
  <2>3. seen[t] \intersect KidsOf(k) = {}
    BY <1>1, <2>1 DEF Says
  <2>4. ASSUME NEW m \in Node, Kind[m] = "all", engaged'[m],
               NEW l \in KidsOf(m) \intersect joined'[m]
        PROVE  slot'[l] # Nothing
    <3>1. m # k
      BY <2>1, <2>3, <2>4 DEF TypeOK, StorageType
    <3> QED
      BY <2>1, <2>4, <3>1 DEF Outputs, TypeOK, StorageType
  <2>5. \A u \in Thread : pc'[u] = "out" => Sent(cur'[u], val'[u])
    BY <2>2 DEF Moved, Outputs
  <2>6. \A u \in Thread : pc'[u] = "join" => slot'[cur'[u]] # Nothing
    BY <2>1, <2>2 DEF Moved, Outputs
  <2> QED
    BY <2>4, <2>5, <2>6 DEF Outputs, Sent, KidsOf
<1>6. CASE Schedule(t)
  <2>1. /\ pc[t] = "fan" /\ pc' = [pc EXCEPT ![k] = "queued"]
        /\ cur' = [cur EXCEPT ![t] = NextKid(k), ![k] = k]
        /\ UNCHANGED <<val, slot, engaged, joined>>
    BY <1>1, <1>6 DEF Schedule, storageVars
  <2>2. ASSUME NEW u \in Thread
        PROVE  \/ pc'[u] \notin {"out", "join"}
               \/ pc'[u] = pc[u] /\ cur'[u] = cur[u] /\ val'[u] = val[u]
    BY <1>2, <2>1 DEF ThreadType
  <2> QED
    BY <2>1, <2>2, OutputsKept
<1>7. CASE RunInline(t)
  <2>1. Goto(t, "exec", k) /\ UNCHANGED <<val, slot, engaged, joined>>
    BY <1>1, <1>7 DEF RunInline, storageVars
  <2>2. Moved(t, "exec", k, val[t])
    BY <1>2, <2>1, GotoMoves
  <2> QED
    BY <2>1, <2>2, MovedKeeps
<1> QED
  BY <1>3, <1>4, <1>5, <1>6, <1>7 DEF Execute, Fan

LEMMA ContinueOutputs ==
    ASSUME ValuesAreSomething, TypeOK, Outputs, NEW t \in Thread, Says(t),
           Continue(t)
    PROVE  Outputs'
<1>1. PICK k : k = cur[t]
  OBVIOUS
<1>2. ThreadType
  BY DEF TypeOK
<1>3. CASE SeqFirst(t)
  <2>1. /\ Goto(t, "exec", Kids[Parent[k]][2])
        /\ UNCHANGED <<val, slot, engaged, joined>>
    BY <1>1, <1>3 DEF SeqFirst, storageVars
  <2>2. Moved(t, "exec", Kids[Parent[k]][2], val[t])
    BY <1>2, <2>1, GotoMoves
  <2> QED
    BY <2>1, <2>2, MovedKeeps
<1>4. CASE SeqSecond(t)
  <2>1. /\ pc[t] = "out" /\ ChildOf(k, "seq") /\ Goto(t, "out", Parent[k])
        /\ UNCHANGED <<val, slot, engaged, joined>>
    BY <1>1, <1>4 DEF SeqSecond, storageVars
  <2>2. Moved(t, "out", Parent[k], val[t])
    BY <1>2, <2>1, GotoMoves
  <2>3. Sent(Parent[k], val[t])
    BY <2>1 DEF Sent, Outputs, ChildOf
  <2> QED
    BY <2>1, <2>2, <2>3, SentKeeps
<1>5. CASE Deliver(t)
  <2>1. /\ Goto(t, "count", Main) /\ val' = [val EXCEPT ![t] = Nothing]
        /\ UNCHANGED <<slot, engaged, joined>>
    BY <1>5 DEF Deliver, storageVars
  <2>2. Moved(t, "count", Main, Nothing)
    BY <1>2, <2>1, GotoMoves
  <2> QED
    BY <2>1, <2>2, MovedKeeps
<1>6. CASE CountDown(t)
  <2>1. /\ Unwind(t, seen[t] \union counted)
        /\ UNCHANGED <<slot, engaged, joined>>
    BY <1>6 DEF CountDown, storageVars
  <2>2. PICK label \in {"last", "idle", "wait"} : \E n : Moved(t, label, n, Nothing)
    BY <1>2, <2>1, UnwindMoves
  <2> QED
    BY <2>1, <2>2, MovedKeeps
<1>7. CASE AllStore(t)
  <2>1. /\ pc[t] = "out" /\ ChildOf(k, "all") /\ Goto(t, "join", k)
        /\ slot' = [slot EXCEPT ![k] = val[t]]
        /\ val' = [val EXCEPT ![t] = Nothing] /\ UNCHANGED <<engaged, joined>>
    BY <1>1, <1>7 DEF AllStore, storageVars
  <2>2. Moved(t, "join", k, Nothing)
    BY <1>2, <2>1, GotoMoves
  <2>3. val[t] # Nothing
    BY <2>1 DEF Outputs, Sent
  <2>4. k \in Node
    BY <1>1, <1>2, <2>1, AtNode
  <2>5. slot'[k] # Nothing /\ \A l : l # k => slot'[l] = slot[l]
    BY <2>1, <2>3, <2>4 DEF TypeOK, StorageType
  <2>6. \A u \in Thread : pc'[u] = "out" => Sent(cur'[u], val'[u])
    BY <2>2 DEF Moved, Outputs
  <2>7. \A u \in Thread : pc'[u] = "join" => slot'[cur'[u]] # Nothing
    BY <2>2, <2>5 DEF Moved, Outputs
  <2>8. \A n \in Node : Kind[n] = "all" /\ engaged'[n] =>
            \A l \in KidsOf(n) \intersect joined'[n] : slot'[l] # Nothing
    BY <2>1, <2>5 DEF Outputs
  <2> QED
    BY <2>6, <2>7, <2>8 DEF Outputs, Sent, KidsOf
<1>8. PICK n : n = Parent[k]
  OBVIOUS
<1>9. ASSUME pc[t] = "join" \/ (pc[t] = "out" /\ ChildOf(k, "any")),
             FetchSub(t, n)
      PROVE  /\ UNCHANGED <<slot, engaged>>
             /\ \A m \in Node : Kind[m] = "all" =>
                    joined'[m] \intersect KidsOf(m) \subseteq
                        joined[m] \union {l \in KidsOf(m) : slot[l] # Nothing}
             /\ pc[t] = "out" =>
                    \A m \in Node : Kind[m] = "all" => joined'[m] = joined[m]
             /\ Kind[n] = "any" \/ pc[t] = "join"
  <2>1. joined' = [joined EXCEPT ![n] = joined[n] \union seen[t]]
        /\ UNCHANGED <<slot, engaged>>
    BY <1>9 DEF FetchSub, Release
  <2>2. pc[t] = "out" => Kind[n] = "any"
    BY <1>8, <1>9 DEF ChildOf
  <2>3. pc[t] = "join" =>
            /\ seen[t] \intersect KidsOf(n) \subseteq joined[n] \union {k}
            /\ slot[k] # Nothing
    BY <1>1, <1>8 DEF Says, Outputs
  <2>4. ASSUME NEW m \in Node, Kind[m] = "all"
        PROVE  /\ joined'[m] \intersect KidsOf(m) \subseteq
                      joined[m] \union {l \in KidsOf(m) : slot[l] # Nothing}
               /\ pc[t] = "out" => joined'[m] = joined[m]
    BY <1>9, <2>1, <2>2, <2>3, <2>4 DEF TypeOK, StorageType
  <2> QED
    BY <1>9, <2>1, <2>2, <2>4
<1>10. CASE AllJoin(t) \/ AnyLose(t)
  <2>1. /\ pc[t] = "join" \/ (pc[t] = "out" /\ ChildOf(k, "any"))
        /\ FetchSub(t, n) /\ \E known : Unwind(t, known)
    BY <1>1, <1>8, <1>10 DEF AllJoin, AnyLose
  <2>2. PICK label \in {"last", "idle", "wait"} : \E m : Moved(t, label, m, Nothing)
    BY <1>2, <2>1, UnwindMoves
  <2> QED
    BY <1>9, <2>1, <2>2, MovedKeeps
<1>11. CASE AllLast(t) \/ AnyLast(t)
  <2>1. /\ pc[t] = "join" \/ (pc[t] = "out" /\ ChildOf(k, "any"))
        /\ FetchSub(t, n) /\ Goto(t, "last", n)
        /\ UNCHANGED val \/ val' = [val EXCEPT ![t] = Nothing]
    BY <1>1, <1>8, <1>11 DEF AllLast, AnyLast
  <2>2. PICK v : Moved(t, "last", n, v)
    BY <1>2, <2>1, GotoMoves
  <2> QED
    BY <1>9, <2>1, <2>2, MovedKeeps
<1>12. CASE AnyFirst(t)
  <2>1. /\ pc[t] = "out" /\ ChildOf(k, "any") /\ FetchSub(t, n)
        /\ Goto(t, "out", n) /\ UNCHANGED val
    BY <1>1, <1>8, <1>12 DEF AnyFirst
  <2>2. Moved(t, "out", n, val[t])
    BY <1>2, <2>1, GotoMoves
  <2>3. Sent(n, val[t])
    BY <1>8, <2>1 DEF Sent, Outputs, ChildOf
  <2> QED
    BY <1>9, <2>1, <2>2, <2>3, SentKeeps
<1>13. CASE AnyFinish(t)
  <2>1. /\ Goto(t, "count", k) /\ UNCHANGED <<val, slot>>
        /\ engaged' = [engaged EXCEPT ![k] = FALSE]
        /\ joined' = [joined EXCEPT ![k] = {}]
    BY <1>1, <1>13 DEF AnyFinish, Destroy
  <2>2. Moved(t, "count", k, val[t])
    BY <1>2, <2>1, GotoMoves
  <2>3. ASSUME NEW m \in Node, engaged'[m]
        PROVE  engaged[m] /\ joined'[m] = joined[m]
    BY <2>1, <2>3 DEF TypeOK, StorageType
  <2> QED
    BY <2>1, <2>2, <2>3, MovedKeeps
<1>14. CASE AllFinish(t)
  <2>1. PICK v : v = Output(k, [i \in DOMAIN Kids[k] |-> slot[Kids[k][i]]])
    OBVIOUS
  <2>2. /\ pc[t] = "last" /\ Kind[k] = "all" /\ Goto(t, "out", k)
        /\ val' = [val EXCEPT ![t] = v]
        /\ slot' = [l \in Node |-> IF l \in KidsOf(k) THEN Nothing ELSE slot[l]]
        /\ engaged' = [engaged EXCEPT ![k] = FALSE]
        /\ joined' = [joined EXCEPT ![k] = {}]
    BY <1>1, <1>14, <2>1 DEF AllFinish, Destroy
  <2>3. k \in Node
    BY <1>1, <1>2, <2>2, AtNode
  <2>4. Moved(t, "out", k, v)
    BY <1>2, <2>2, GotoMoves
  <2>5. /\ KidsOf(k) \subseteq joined[k] /\ engaged[k]
        /\ \A u \in Thread : pc[u] = "join" => cur[u] \notin KidsOf(k)
    BY <1>1, <2>2 DEF Says
  <2>6. \A l \in KidsOf(k) : slot[l] # Nothing
    BY <2>2, <2>3, <2>5 DEF Outputs
  <2>7. Sent(k, v)
    <3>1. v # Nothing
      BY <2>1, <2>3 DEF ValuesAreSomething
    <3>2. ASSUME NEW i \in DOMAIN Kids[k] PROVE v[2][i] # Nothing
      <4>1. v[2][i] = slot[Kids[k][i]]
        BY <2>1, <3>2 DEF Output
      <4> QED
        BY <2>6, <4>1 DEF KidsOf
    <3> QED
      BY <3>1, <3>2 DEF Sent
  <2>8. \A u \in Thread : pc'[u] = "out" => Sent(cur'[u], val'[u])
    BY <2>4, <2>7 DEF Moved, Outputs
  <2>9. ASSUME NEW u \in Thread, pc'[u] = "join" PROVE slot'[cur'[u]] # Nothing
    <3>1. pc[u] = "join" /\ cur'[u] = cur[u]
      BY <2>4, <2>9 DEF Moved
    <3>2. cur[u] \in Node /\ cur[u] \notin KidsOf(k)
      BY <1>2, <2>5, <3>1, AtNode
    <3> QED
      BY <2>2, <3>1, <3>2 DEF Outputs
  <2>10. ASSUME NEW m \in Node, Kind[m] = "all", engaged'[m],
                NEW l \in KidsOf(m) \intersect joined'[m]
         PROVE  slot'[l] # Nothing
    <3>1. m # k /\ engaged[m] /\ joined'[m] = joined[m]
      BY <2>2, <2>10 DEF TypeOK, StorageType
    <3>2. l \in Node /\ l \notin KidsOf(k)
      BY <2>3, <2>10, <3>1, KidFacts DEF KidsOf
    <3> QED
      BY <2>2, <2>10, <3>1, <3>2 DEF Outputs
  <2> QED
    BY <2>8, <2>9, <2>10 DEF Outputs, Sent, KidsOf
<1> QED
  BY <1>3, <1>4, <1>5, <1>6, <1>7, <1>10, <1>11, <1>12, <1>13, <1>14
     DEF Continue

LEMMA FailureOutputs ==
    ASSUME TypeOK, Outputs, NEW t \in Thread, Failure(t)
    PROVE  Outputs'
<1>1. PICK known : Throw(t, known)
  BY DEF Failure, LeafThrows, CopyThrows, SchedulerThrows, StoreThrows,
     WinThrows, ThenThrows
<1>2. \A u \in Thread :
          \/ pc'[u] \notin {"out", "join"}
          \/ pc'[u] = pc[u] /\ cur'[u] = cur[u] /\ val'[u] = val[u]
  BY <1>1 DEF Throw, Goto, threadVars, TypeOK, ThreadType
<1>3. /\ UNCHANGED <<slot, engaged>>
      /\ \A m \in Node : Kind[m] = "all" => joined'[m] = joined[m]
  <2>1. CASE \/ LeafThrows(t) \/ CopyThrows(t) \/ SchedulerThrows(t)
             \/ StoreThrows(t) \/ ThenThrows(t)
    BY <2>1 DEF LeafThrows, CopyThrows, SchedulerThrows, StoreThrows, ThenThrows,
       storageVars
  <2>2. CASE WinThrows(t)
    <3>1. PICK n : n = Parent[cur[t]]
      OBVIOUS
    <3>2. ChildOf(cur[t], "any") /\ FetchSub(t, n)
      BY <2>2, <3>1 DEF WinThrows
    <3>3. Kind[n] = "any"
      BY <3>1, <3>2 DEF ChildOf
    <3> QED
      BY <3>2, <3>3 DEF FetchSub, Release, TypeOK, StorageType
  <2> QED
    BY <2>1, <2>2 DEF Failure
<1> QED
  BY <1>2, <1>3, OutputsKept

LEMMA OutputsStep ==
    ASSUME ValuesAreSomething, FailureInv, Outputs, [FailuresNext]_failureVars
    PROVE  Outputs'
<1>1. TypeOK /\ ThreadType
  BY DEF FailureInv, TypeOK
<1>2. ASSUME NEW t \in Thread, ~ended, Step(t) PROVE Outputs'
  <2>1. Says(t)
    BY <1>2, AtStep, ThreadSays
  <2> QED
    BY <1>1, <1>2, <2>1, ExecuteOutputs, ContinueOutputs DEF Step
<1>3. ASSUME NEW t \in Thread, Failure(t) PROVE Outputs'
  BY <1>1, <1>3, FailureOutputs
<1>4. ASSUME NEW r \in Roots, Call(r) PROVE Outputs'
  <2>1. PICK v : val' = [val EXCEPT ![Main] = v]
    BY <1>4 DEF Call
  <2>2. Goto(Main, "exec", r) /\ UNCHANGED <<slot, engaged, joined>>
    BY <1>4 DEF Call, storageVars
  <2>3. Moved(Main, "exec", r, v)
    BY <1>1, <2>1, <2>2, Threads, GotoMoves
  <2> QED
    BY <2>2, <2>3, Threads, MovedKeeps
<1>5. ASSUME NEW k \in Task, Start(k) PROVE Outputs'
  <2>1. Goto(k, "exec", k) /\ UNCHANGED <<val, slot, engaged, joined>>
    BY <1>5 DEF Start, storageVars
  <2>2. Moved(k, "exec", k, val[k])
    BY <1>1, <2>1, Threads, GotoMoves
  <2> QED
    BY <2>1, <2>2, Threads, MovedKeeps
<1>6. ASSUME Return PROVE Outputs'
  <2>1. Goto(Main, "idle", Main) /\ UNCHANGED <<val, slot, engaged, joined>>
    BY <1>6 DEF Return, storageVars
  <2>2. Moved(Main, "idle", Main, val[Main])
    BY <1>1, <2>1, Threads, GotoMoves
  <2> QED
    BY <2>1, <2>2, Threads, MovedKeeps
<1>7. ASSUME UNCHANGED failureVars PROVE Outputs'
  BY <1>7, OutputsKept DEF failureVars, vars, threadVars, storageVars
<1> QED
  BY <1>2, <1>3, <1>4, <1>5, <1>6, <1>7 DEF FailuresNext, Undisturbed

\* A node one of whose children has failed passes no result on, unless it is an
\* any that had one: no continuation is invoked before what the node waits for
\* is complete, nor with a tuple that lacks a component.
THEOREM OnlyWholeResults ==
    ASSUME ValuesAreSomething
    PROVE  FailuresSpec => []NoResultOfAFailure
<1> DEFINE I == FailureInv /\ KnowWhole /\ Outputs
<1>1. FailuresInit => I
  <2> SUFFICES ASSUME FailuresInit PROVE I
    OBVIOUS
  <2>1. FailureInv
    BY FailureStart
  <2>2. /\ \A t \in Thread : pc[t] = "idle" /\ seen[t] = {}
        /\ \A n \in Node : ~engaged[n] /\ joined[n] = {}
        /\ counted = {}
    BY DEF FailuresInit, Init
  <2> QED
    BY <2>1, <2>2 DEF KnowWhole, Outputs, Whole
<1>2. I /\ [FailuresNext]_failureVars => I'
  BY FailureStep, KnowWholeStep, OutputsStep
<1>3. I => NoResultOfAFailure
  BY DEF KnowWhole, Whole, Outputs, Sent, NoResultOfAFailure
<1> QED
  BY <1>1, <1>2, <1>3, PTL DEF FailuresSpec

-----------------------------------------------------------------------------
\* What the caller gets, in spite of failures.

LEMMA SameOutcome == \A r, c : Stopped!Outcome(r, c) = Outcome(r, c)
<1>1. Stopped!Feeder = Feeder
  BY StoppedShape DEF Stopped!Feeder, Feeder
<1>2. Stopped!Tree = Tree
  BY StoppedShape DEF Stopped!Tree, Tree
<1>3. /\ \A n, x : Stopped!Output(n, x) = Output(n, x)
      /\ \A c : Stopped!CallInput(c) = CallInput(c)
  BY StoppedShape DEF Stopped!Output, Output, Stopped!CallInput, CallInput
<1>4. \A out, c, n : Stopped!Made(out, c, n) = Made(out, c, n)
  BY <1>1, <1>3, StoppedShape DEF Stopped!Made, Made, Stopped!Fed, Fed
<1>5. /\ \A r : Stopped!Winners(r) = Winners(r)
      /\ \A r, c, win : Stopped!Evaluation(r, c, win) = Evaluation(r, c, win)
  BY <1>2, <1>4, StoppedShape
     DEF Stopped!Winners, Winners, Stopped!Anys, Anys, Stopped!Evaluation,
         Evaluation
<1> QED
  BY <1>5 DEF Stopped!Outcome, Outcome

\* Until the program is terminated all values are those of one evaluation.
StillValued == ended \/ Stopped!ValuedInv

LEMMA StillValuedStep ==
    ASSUME FailureInv, StillValued, [FailuresNext]_failureVars
    PROVE  StillValued'
<1> SUFFICES ASSUME ~ended' PROVE Stopped!ValuedInv'
  BY DEF StillValued
<1>1. ~ended /\ (Stopped!Next \/ UNCHANGED Stopped!vars)
  BY FailureStepMaps
<1> QED
  BY <1>1, Stopped!StepKeepsValues, StoppedAssumption, KidsAssumption,
     BoundsAssumption DEF StillValued

\* A result that comes is the first of its call, and one its graph can have; also
\* if `then` throws, in whichever thread.
LEMMA ResultsStep ==
    ASSUME FailureInv, StillValued, ResultsAreOutcomes, [FailuresNext]_failureVars
    PROVE  ResultsAreOutcomes'
<1>1. ASSUME ~ended' PROVE ResultsAreOutcomes'
  <2>1. Stopped!ValuedInv /\ [Stopped!Next]_(Stopped!vars)
    BY <1>1, FailureStepMaps DEF StillValued
  <2>2. [Stopped!Promise!Next]_(Stopped!Promise!vars)
    BY <2>1, Stopped!PromiseStep, StoppedAssumption, KidsAssumption,
       BoundsAssumption
  <2>3. \/ results' = <<>>
        \/ UNCHANGED <<calls, root, results>>
        \/ /\ UNCHANGED <<calls, root>>
           /\ \E v \in Stopped!Outcome(root, calls) : results' = <<v>>
    BY <2>2 DEF Stopped!Promise!Next, Stopped!Promise!vars, Stopped!Promise!Call,
                Stopped!Promise!Deliver, Stopped!Promise!Return
  <2> QED
    BY <2>3, SameOutcome DEF ResultsAreOutcomes
<1>2. CASE ended'
  <2>1. CASE UNCHANGED <<calls, root, results>>
    BY <2>1 DEF ResultsAreOutcomes
  <2>2. CASE ~UNCHANGED <<calls, root, results>>
    <3>1. PICK t \in Thread : ~ended /\ ThenThrows(t)
      BY <1>2, <2>2
         DEF FailuresNext, failureVars, vars, callVars, Undisturbed, Failure,
             LeafThrows, CopyThrows, SchedulerThrows, StoreThrows, WinThrows,
             FetchSub
    <3>2. t # Main /\ pc[t] = "out" /\ cur[t] \in Roots
      BY <1>2, <3>1 DEF ThenThrows, Throw
    <3>3. ~Stands(t) /\ ThreadType
      BY <3>2 DEF Stands, FailureInv, TypeOK
    <3>4. StandsPc[t] = "out" /\ StandsCur[t] \in Stopped!Roots
          /\ StandsVal[t] = val[t] /\ t \in Stopped!Thread
      BY <3>2, <3>3, OthersMove, StoppedShape
    <3>5. results = <<>> /\ val[t] \in Stopped!Outcome(root, calls)
      BY <3>1, <3>4, Stopped!WhatIsDelivered, StoppedAssumption, KidsAssumption,
         BoundsAssumption DEF StillValued
    <3>6. results' = <<val[t]>> /\ UNCHANGED <<calls, root>>
      BY <3>1, <3>5 DEF ThenThrows
    <3> QED
      BY <3>5, <3>6, SameOutcome DEF ResultsAreOutcomes
  <2> QED
    BY <2>1, <2>2
<1> QED
  BY <1>1, <1>2

\* sync_execute: whatever fails, in whichever thread, what `then` is invoked with
\* is an output of the graph for the input of this call, never one made without
\* the parts that failed, or of an earlier call.
THEOREM FailuresFalsifyNothing == FailuresSpec => []ResultsAreOutcomes
<1> DEFINE I == FailureInv /\ StillValued /\ ResultsAreOutcomes
<1>1. FailuresInit => I
  <2> SUFFICES ASSUME FailuresInit PROVE I
    OBVIOUS
  <2>1. FailureInv /\ Stopped!Init
    BY FailureStart
  <2>2. Stopped!ValuedInv
    BY <2>1, Stopped!InitValues, StoppedAssumption, KidsAssumption,
       BoundsAssumption
  <2>3. results = <<>>
    BY DEF FailuresInit, Init
  <2> QED
    BY <2>1, <2>2, <2>3 DEF StillValued, ResultsAreOutcomes
<1>2. I /\ [FailuresNext]_failureVars => I'
  BY FailureStep, StillValuedStep, ResultsStep
<1> QED
  BY <1>1, <1>2, PTL DEF FailuresSpec

=============================================================================
