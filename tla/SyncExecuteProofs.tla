-------------------------- MODULE SyncExecuteProofs --------------------------
(***************************************************************************)
(* Proofs about module SyncExecute: that a call with the mutex and the     *)
(* condition variable of its latch moves as module Graph does, where the   *)
(* latch is a counter, and what the latch itself promises in a call.       *)
(*                                                                         *)
(* The invariant of GraphSafety holds of what SyncExecute is mapped to and *)
(* says who is still to count the latch down; the invariant here adds who  *)
(* holds the mutex and where the calls of the latch are.                   *)
(***************************************************************************)
EXTENDS SyncExecute, FiniteSetTheorems, TLAPS

\* Module Graph under the mapping of SyncExecute, with all that is proved of it.
Flat == INSTANCE GraphPromise WITH ctr <- ctr + Cardinality(Decremented)

-----------------------------------------------------------------------------
\* The inductive invariant.

LatchType ==
    /\ ctr \in Int
    /\ mtx \in Caller \union {Owner, Nobody}
    /\ DOMAIN at = Caller \union {Owner}
    /\ \A c \in Caller : at[c] \in latch!CounterLabel
    /\ at[Owner] \in latch!WaiterLabel

\* The mutex is held by exactly the call whose place says so.
MutexHeld ==
    \A x \in Caller \union {Owner} : at[x] \in latch!Holding <=> mtx = x

\* A count_down() is in the latch while its thread is at that step, and is made
\* once: after it there is nothing left that it would be made for.
CallsMade ==
    \A c \in Caller :
        /\ at[c] \in {"decrement", "notify", "unlock"}
               => \E t \in Thread : pc[t] = "count" /\ cur[t] = c
        /\ at[c] = "returned" =>
               IF c = Main THEN root \in counted ELSE Flat!Over(c)

\* Where the destructor of the latch is, given where the caller is.
OwnerPlace ==
    /\ pc[Main] \notin {"idle", "wait"} => at[Owner] = "lock"
    /\ pc[Main] = "idle" => at[Owner] = IF calls = 0 THEN "lock" ELSE "destroyed"
    /\ pc[Main] = "wait" => at[Owner] # "destroyed"

\* Once the wait has seen the latch open, nobody is left to count it down.
Opened ==
    at[Owner] \in {"leave", "returned", "destroyed"} =>
        ctr = 0 /\ Decremented = {}

\* No wakeup is lost.
Woken ==
    at[Owner] = "parked" /\ ctr = 0 => \E c \in Caller : at[c] = "notify"

LatchInv ==
    LatchType /\ MutexHeld /\ CallsMade /\ OwnerPlace /\ Opened /\ Woken

SyncInv == Flat!Inv /\ LatchInv

-----------------------------------------------------------------------------
\* The modules Graph that SyncExecute extends and instantiates agree.

LEMMA SameSets ==
    /\ \A X : Flat!IsFiniteSet(X) <=> IsFiniteSet(X)
    /\ \A X : Flat!Cardinality(X) = Cardinality(X)
<1>1. \A X : Flat!IsFiniteSet(X) <=> IsFiniteSet(X)
  BY DEF Flat!IsFiniteSet, IsFiniteSet
<1>2. \A X : Flat!Cardinality(X) = Cardinality(X)
  BY DEF Flat!Cardinality, Cardinality
<1> QED
  BY <1>1, <1>2

\* The assumptions of Graph, as its instance states them.
LEMMA FlatAssumption ==
    /\ Node \subseteq Nat \ {0}
    /\ Flat!IsFiniteSet(Node)
    /\ Kind \in [Node -> {"leaf", "seq", "all", "any"}]
  BY SameSets, NodeAssumption

LEMMA SameShape ==
    /\ Flat!Main = Main /\ Flat!Thread = Thread /\ Flat!Task = Task
    /\ Flat!Roots = Roots /\ Flat!Parent = Parent /\ Flat!Position = Position
    /\ Flat!CleanupCount = CleanupCount /\ Flat!Tree = Tree
    /\ Flat!Label = Label
    /\ \A n : Flat!KidsOf(n) = KidsOf(n)
  BY DEF Flat!Main, Main, Flat!Thread, Thread, Flat!Task, Task, Flat!Roots,
         Roots, Flat!Parent, Parent, Flat!Position, Position,
         Flat!CleanupCount, CleanupCount, Flat!Tree, Tree, Flat!Label, Label,
         Flat!KidsOf, KidsOf, Flat!Arity, Arity, Flat!Shared, Shared,
         Flat!IsLast, IsLast

LEMMA SyncThreads ==
    /\ Main \notin Node /\ Main \in Thread /\ Main \in Caller /\ Main \notin Task
    /\ Task \subseteq Node /\ \A k \in Task : k \in Thread
  BY NodeAssumption DEF Main, Task, Thread, Caller

\* The counter that module Graph sees.
Flattened == ctr + Cardinality(Decremented)

\* What the invariant of Graph tells of the latch: each count_down() to come is
\* made by one thread, for something that is over, and the counter knows of it.
Counts(t, c) ==
    /\ c \in Caller
    /\ Flattened > 0
    /\ \A u \in Thread : pc[u] = "count" /\ cur[u] = c => u = t
    /\ c = Main => root \notin counted /\ root \in seen[t]
    /\ c # Main => /\ c \in Node /\ Kind[c] = "any" /\ ~engaged[c]
                   /\ KidsOf(c) \subseteq seen[t]

LEMMA FlatSays ==
    ASSUME Flat!Inv
    PROVE  /\ pc \in [Thread -> Label] /\ cur \in [Thread -> Node \union {Main}]
           /\ DOMAIN engaged = Node
           /\ \A t \in Thread : pc[t] = "count" => Counts(t, cur[t])
           /\ \A t \in Thread : pc[t] = "wait" => t = Main
           /\ pc[Main] = "idle" => \A t \in Thread : pc[t] = "idle"
           /\ calls = 0 => \A t \in Thread : pc[t] = "idle"
           /\ calls \in Nat
<1>1. Flat!TypeOK
  BY DEF Flat!Inv, Flat!Unused, Flat!Account
<1>2. /\ pc \in [Thread -> Label] /\ cur \in [Thread -> Node \union {Main}]
      /\ DOMAIN engaged = Node
      /\ \A t \in Thread : pc[t] = "wait" => t = Main
      /\ calls \in 0 .. MaxCalls
  BY <1>1, SameShape
     DEF Flat!TypeOK, Flat!ThreadType, Flat!StorageType, Flat!CallType, Flat!Place
<1>3. pc[Main] = "idle" => \A t \in Thread : pc[t] = "idle"
  BY SameShape, Flat!CallerIdle, FlatAssumption, KidsAssumption, BoundsAssumption
<1>4. calls = 0 => \A t \in Thread : pc[t] = "idle"
  BY SameShape DEF Flat!Inv, Flat!Unused, Flat!Account
<1>5. ASSUME NEW t \in Thread, pc[t] = "count" PROVE Counts(t, cur[t])
  <2>1. ~Flat!Unused
    BY <1>5, SameShape DEF Flat!Unused
  <2>2. PICK S, D, P \in SUBSET Node : Flat!Account(S, D, P)
    BY <2>1 DEF Flat!Inv
  <2>3. Flat!Counting(t, cur[t]) /\ t \in Flat!Thread
        /\ cur[t] \in Node \union {Flat!Main}
    BY <1>2, <1>5, SameShape DEF Flat!Counting
  <2>4. /\ Flattened > 0
        /\ cur[t] \in Node =>
               /\ KidsOf(cur[t]) \subseteq seen[t]
               /\ Kind[cur[t]] = "any" /\ ~engaged[cur[t]]
        /\ cur[t] = Main => root \notin counted /\ root \in seen[t]
    <3>1. /\ Flattened > 0
          /\ cur[t] \in Node =>
                 /\ Flat!KidsOf(cur[t]) \subseteq seen[t]
                 /\ Kind[cur[t]] = "any" /\ ~engaged[cur[t]]
          /\ cur[t] = Flat!Main => root \notin counted /\ root \in seen[t]
      BY <2>2, <2>3, Flat!CountingOwes, FlatAssumption, KidsAssumption,
         BoundsAssumption
         DEF Flattened
    <3> QED
      BY <3>1, SameShape
  <2>5. \A u \in Thread : pc[u] = "count" /\ cur[u] = cur[t] => u = t
    BY <1>5, <2>2, <2>3, SameShape DEF Flat!Account, Flat!Alone, Flat!Counting
  <2>6. cur[t] \in Caller
    BY <1>2, <2>4 DEF Caller
  <2> QED
    BY <1>2, <2>4, <2>5, <2>6 DEF Counts
<1> QED
  BY <1>2, <1>3, <1>4, <1>5, BoundsAssumption

-----------------------------------------------------------------------------
\* The calls that have decremented the counter and hold the mutex: at most one.

LEMMA DecrementedSize ==
    ASSUME LatchType, MutexHeld
    PROVE  /\ Cardinality(Decremented) \in Nat
           /\ Decremented = {} => Cardinality(Decremented) = 0
           /\ \A c \in Decremented :
                  Decremented = {c} /\ Cardinality(Decremented) = 1 /\ mtx = c
<1>1. \A c \in Decremented : mtx = c
  BY DEF MutexHeld, Decremented, latch!Holding
<1>2. \A c \in Decremented : Decremented = {c}
  BY <1>1
<1>3. Decremented = {} => Cardinality(Decremented) = 0
  BY FS_EmptySet
<1>4. \A c \in Decremented : Cardinality(Decremented) = 1
  BY <1>2, FS_Singleton
<1> QED
  BY <1>1, <1>2, <1>3, <1>4

\* What a step of the latch does to them.
LEMMA SameDecremented ==
    ASSUME \A c \in Caller :
               at[c] \in {"notify", "unlock"} <=> at'[c] \in {"notify", "unlock"}
    PROVE  Decremented' = Decremented
  BY DEF Decremented, Caller, Main

\* No step of the latch is seen by module Graph unless it says so.
LEMMA Unseen ==
    ASSUME UNCHANGED <<graphVars, counted>>, Flattened' = Flattened
    PROVE  UNCHANGED Flat!vars
  BY DEF Flattened, graphVars, threadVars, storageVars, callVars, Flat!vars,
         Flat!threadVars, Flat!storageVars, Flat!latchVars, Flat!callVars

-----------------------------------------------------------------------------
\* The steps of SyncExecute that are steps of Graph: the same moves, with the
\* counter that Graph sees.

LEMMA GraphStepMaps ==
    ASSUME NEW t, GraphStep(t)
    PROVE  Flat!Step(t) /\ Decremented' = Decremented /\ ctr' = ctr
<1>1. Decremented' = Decremented
  BY SameDecremented DEF GraphStep
<1>2. (ctr + Cardinality(Decremented))' = ctr' + Cardinality(Decremented)
  BY <1>1
<1> USE SameShape, <1>2
    DEF GraphStep, latchVars, Flat!latchVars, storageVars, Flat!storageVars,
        callVars, Flat!callVars, Goto, Flat!Goto, Shared, Flat!Shared,
        ChildOf, Flat!ChildOf, Arity, Flat!Arity
<1>3. CASE Execute(t)
  <2>1. ctr' = ctr /\ Flat!Execute(t)
    BY <1>3 DEF Execute, Flat!Execute, ExecLeaf, Flat!ExecLeaf, ExecSeq,
       Flat!ExecSeq, ExecShared, Flat!ExecShared, Output, Flat!Output, Input,
       Flat!Input, Construct, Flat!Construct
  <2> QED
    BY <1>1, <2>1 DEF Flat!Step
<1>4. CASE Fan(t)
  <2>1. ctr' = ctr /\ Flat!Fan(t)
    BY <1>4 DEF Fan, Flat!Fan, Schedule, Flat!Schedule, RunInline,
       Flat!RunInline, IsLast, Flat!IsLast, NextKid, Flat!NextKid
  <2> QED
    BY <1>1, <2>1 DEF Flat!Step
<1> USE DEF FetchSub, Flat!FetchSub, Release, Flat!Release, Acquire,
            Flat!Acquire, Destroy, Flat!Destroy
<1>5. CASE SeqFirst(t) \/ SeqSecond(t) \/ Deliver(t)
  <2>1. ctr' = ctr /\ (Flat!SeqFirst(t) \/ Flat!SeqSecond(t) \/ Flat!Deliver(t))
    BY <1>5 DEF SeqFirst, Flat!SeqFirst, SeqSecond, Flat!SeqSecond, Deliver,
       Flat!Deliver
  <2> QED
    BY <1>1, <2>1 DEF Flat!Step, Flat!Continue
<1>6. CASE AllStore(t) \/ AllJoin(t) \/ AllLast(t) \/ AllFinish(t)
  <2>1. ctr' = ctr /\ \/ Flat!AllStore(t) \/ Flat!AllJoin(t)
                      \/ Flat!AllLast(t) \/ Flat!AllFinish(t)
    BY <1>6 DEF AllStore, Flat!AllStore, AllJoin, Flat!AllJoin, AllLast,
       Flat!AllLast, AllFinish, Flat!AllFinish, Unwind, Flat!Unwind, Output,
       Flat!Output
  <2> QED
    BY <1>1, <2>1 DEF Flat!Step, Flat!Continue
<1>7. CASE AnyFirst(t) \/ AnyLose(t) \/ AnyLast(t) \/ AnyFinish(t)
  <2>1. ctr' = ctr /\ \/ Flat!AnyFirst(t) \/ Flat!AnyLose(t)
                      \/ Flat!AnyLast(t) \/ Flat!AnyFinish(t)
    BY <1>7 DEF AnyFirst, Flat!AnyFirst, AnyLose, Flat!AnyLose, AnyLast,
       Flat!AnyLast, AnyFinish, Flat!AnyFinish, Unwind, Flat!Unwind
  <2> QED
    BY <1>1, <2>1 DEF Flat!Step, Flat!Continue
<1>8. ~CountDown(t)
  BY DEF CountDown
<1> QED
  BY <1>3, <1>4, <1>5, <1>6, <1>7, <1>8 DEF Step, Continue

LEMMA BeginMaps ==
    ASSUME NEW k, Begin(k)
    PROVE  Flat!Start(k) /\ Decremented' = Decremented /\ ctr' = ctr
<1>1. Decremented' = Decremented
  BY SameDecremented DEF Begin
<1>2. (ctr + Cardinality(Decremented))' = ctr' + Cardinality(Decremented)
  BY <1>1
<1>3. Flat!Running = Running
  BY SameShape DEF Flat!Running, Running
<1> QED
  BY <1>1, <1>2, <1>3, SameShape, SameSets
     DEF Begin, Start, Flat!Start, Goto, Flat!Goto, latchVars, Flat!latchVars,
         storageVars, Flat!storageVars, callVars, Flat!callVars

\* A new latch.
LEMMA UncalledLatch ==
    ASSUME at' = Uncalled
    PROVE  Decremented' = {} /\ Cardinality(Decremented)' = 0
<1>1. Decremented' = {}
  BY DEF Decremented, Uncalled, Caller
<1> QED
  BY <1>1, FS_EmptySet

LEMMA ConstructionMaps ==
    ASSUME NEW r \in Roots, Construction(r)
    PROVE  Flat!Call(r)
<1>1. Cardinality(Decremented)' = 0
  BY UncalledLatch DEF Construction
<1>2. CleanupCount[r] + 1 \in Nat
  <2>1. r \in Node /\ Flat!CleanupCount[r] \in Nat
    <3>1. r \in Node
      BY DEF Roots
    <3> QED
      BY <3>1, Flat!CleanupCountDef, FlatAssumption, KidsAssumption,
         BoundsAssumption
  <2> QED
    BY <2>1, SameShape
<1> QED
  BY <1>1, <1>2, SameShape
     DEF Construction, Call, Flat!Call, Goto, Flat!Goto, CallInput,
         Flat!CallInput, storageVars, Flat!storageVars

-----------------------------------------------------------------------------
\* One lemma per action: it preserves the invariant of the latch, and is a step
\* of Graph or none.

\* A thread in the middle of a call, by the sets it has an account of.
LEMMA InCall ==
    ASSUME Flat!Inv, pc[Main] # "idle"
    PROVE  \E S, D, P \in SUBSET Node : Flat!Account(S, D, P)
<1>1. ~Flat!Unused
  BY SameShape, SyncThreads DEF Flat!Unused
<1> QED
  BY <1>1 DEF Flat!Inv

LEMMA GraphStepKeeps ==
    ASSUME SyncInv, NEW t \in Thread, GraphStep(t)
    PROVE  LatchInv' /\ Flat!Next
<1>1. /\ Flat!Step(t) /\ Decremented' = Decremented /\ ctr' = ctr
      /\ mtx' = mtx /\ at' = at /\ pc[t] # "count"
  BY GraphStepMaps DEF GraphStep
<1>2. Flat!Next
  BY <1>1, SameShape DEF Flat!Next
<1>3. pc[Main] # "idle"
  <2>1. pc[t] # "idle"
    BY DEF GraphStep, Step, Execute, ExecLeaf, ExecSeq, ExecShared, Fan,
       Schedule, RunInline, Continue, SeqFirst, SeqSecond, Deliver, AllStore,
       AllJoin, AllLast, AllFinish, AnyFirst, AnyLose, AnyLast, AnyFinish,
       CountDown
  <2> QED
    BY <2>1, FlatSays DEF SyncInv
<1>4. PICK S, D, P \in SUBSET Node : Flat!Account(S, D, P)
  BY <1>3, InCall DEF SyncInv
<1>5. Flat!Advances(t)
  <2>1. t \in Flat!Thread
    BY SameShape
  <2> QED
    BY <1>1, <1>4, <2>1, Flat!StepAdvances, FlatAssumption, KidsAssumption,
       BoundsAssumption
<1>6. /\ \A u \in Thread, n \in Node \union {Main} :
             u # t /\ pc[u] = "count" /\ cur[u] = n
                 => pc'[u] = "count" /\ cur'[u] = n
      /\ \A n \in Node : Flat!Over(n) => Flat!Over(n)'
  <2>1. t \in Flat!Thread
    BY SameShape
  <2>2. /\ \A u \in Flat!Thread, n \in Node \union {Flat!Main} :
               u # t /\ Flat!Counting(u, n) => Flat!Counting(u, n)'
        /\ \A n \in Node : Flat!Over(n) => Flat!Over(n)'
    BY <1>4, <1>5, <2>1, Flat!AdvancesLeave, FlatAssumption, KidsAssumption,
       BoundsAssumption
  <2> QED
    BY <2>2, SameShape DEF Flat!Counting
<1>7. CallsMade'
  <2>1. ASSUME NEW c \in Caller, at[c] \in {"decrement", "notify", "unlock"}
        PROVE  \E u \in Thread : pc'[u] = "count" /\ cur'[u] = c
    <3>1. PICK u \in Thread : pc[u] = "count" /\ cur[u] = c
      BY <2>1 DEF SyncInv, LatchInv, CallsMade
    <3>2. u # t /\ c \in Node \union {Main}
      BY <1>1, <3>1 DEF Caller
    <3> QED
      BY <1>6, <3>1, <3>2
  <2>2. counted' = counted /\ root' = root
    BY <1>5 DEF Flat!Advances
  <2>3. ASSUME NEW c \in Caller, at[c] = "returned"
        PROVE  IF c = Main THEN root' \in counted' ELSE Flat!Over(c)'
    <3>1. c # Main => c \in Node
      BY DEF Caller
    <3>2. IF c = Main THEN root \in counted ELSE Flat!Over(c)
      BY <2>3 DEF SyncInv, LatchInv, CallsMade
    <3>3. CASE c = Main
      BY <2>2, <3>2, <3>3
    <3>4. CASE c # Main
      BY <1>6, <3>1, <3>2, <3>4
    <3> QED
      BY <3>3, <3>4
  <2>4. Caller' = Caller
    BY DEF Caller
  <2> HIDE DEF Caller
  <2> QED
    BY <1>1, <2>1, <2>3, <2>4 DEF CallsMade
<1>8. OwnerPlace'
  <2>1. /\ t # Main => pc'[Main] = pc[Main]
        /\ pc[t] # "wait" /\ (t = Main => pc'[t] # "idle") /\ calls' = calls
    BY <1>3, <1>5, SyncThreads, SameShape DEF Flat!Advances
  <2> QED
    BY <1>1, <1>3, <2>1 DEF SyncInv, LatchInv, OwnerPlace
<1>9. LatchType' /\ MutexHeld' /\ Opened' /\ Woken'
  BY <1>1 DEF SyncInv, LatchInv, LatchType, MutexHeld, Opened, Woken
<1> QED
  BY <1>2, <1>7, <1>8, <1>9 DEF LatchInv

LEMMA BeginKeeps ==
    ASSUME SyncInv, NEW k \in Task, Begin(k)
    PROVE  LatchInv' /\ Flat!Next
<1>1. /\ Flat!Start(k) /\ Decremented' = Decremented /\ ctr' = ctr
      /\ mtx' = mtx /\ at' = at
  BY BeginMaps DEF Begin
<1>2. Flat!Next
  BY <1>1, SameShape DEF Flat!Next
<1>3. /\ pc[k] = "queued" /\ pc' = [pc EXCEPT ![k] = "exec"]
      /\ cur' = [cur EXCEPT ![k] = k] /\ engaged' = engaged
      /\ counted' = counted /\ calls' = calls /\ root' = root
  BY DEF Begin, Start, Goto, storageVars, latchVars, callVars
<1>4. \A u \in Thread : \A n :
          pc'[u] = "count" /\ cur'[u] = n <=> pc[u] = "count" /\ cur[u] = n
  BY <1>3, FlatSays, SyncThreads DEF SyncInv
<1>5. \A n : Flat!Over(n)' <=> Flat!Over(n)
  BY <1>3, <1>4, SameShape DEF Flat!Over, Flat!Counting
<1>6. CallsMade'
  BY <1>1, <1>3, <1>4, <1>5 DEF SyncInv, LatchInv, CallsMade
<1>7. OwnerPlace'
  BY <1>1, <1>3, SyncThreads, FlatSays DEF SyncInv, LatchInv, OwnerPlace
<1>8. LatchType' /\ MutexHeld' /\ Opened' /\ Woken'
  BY <1>1 DEF SyncInv, LatchInv, LatchType, MutexHeld, Opened, Woken
<1> QED
  BY <1>2, <1>6, <1>7, <1>8 DEF LatchInv

LEMMA ConstructionKeeps ==
    ASSUME SyncInv, NEW r \in Roots, Construction(r)
    PROVE  LatchInv' /\ Flat!Next
<1>1. Flat!Next
  BY ConstructionMaps, SameShape DEF Flat!Next
<1>2. /\ mtx' = Nobody /\ at' = Uncalled /\ ctr' = CleanupCount[r] + 1
      /\ pc' = [pc EXCEPT ![Main] = "exec"]
  BY DEF Construction, Call, Goto
<1>3. ctr' \in Int
  <2>1. Flat!CleanupCount \in [Node -> Nat]
    BY Flat!CleanupCountDef, FlatAssumption, KidsAssumption, BoundsAssumption
  <2> QED
    BY <1>2, <2>1, SameShape DEF Roots
<1>4. pc'[Main] = "exec"
  BY <1>2, FlatSays, SyncThreads DEF SyncInv
<1>5. LatchType' /\ MutexHeld'
  BY <1>2, <1>3, OwnerAssumption
     DEF LatchType, MutexHeld, Uncalled, Caller, latch!CounterLabel,
         latch!WaiterLabel, latch!Holding
<1>6. CallsMade' /\ Opened' /\ Woken' /\ OwnerPlace'
  BY <1>2, <1>4 DEF CallsMade, Opened, Woken, OwnerPlace, Uncalled
<1> QED
  BY <1>1, <1>5, <1>6 DEF LatchInv

\* The steps of a count_down(): its thread t, and the call c it makes.
LEMMA Calling ==
    ASSUME SyncInv, NEW t \in Thread, pc[t] = "count"
    PROVE  /\ Counts(t, cur[t]) /\ cur[t] # Owner /\ at[cur[t]] # "returned"
           /\ at[Owner] \notin {"leave", "returned", "destroyed"}
           /\ pc[Main] # "idle"
<1>1. Counts(t, cur[t])
  BY FlatSays DEF SyncInv
<1>2. cur[t] # Owner
  BY <1>1, OwnerAssumption DEF Counts
<1>3. at[cur[t]] # "returned"
  <2>1. ASSUME Flat!Over(cur[t]) PROVE FALSE
    BY <2>1, SameShape DEF Flat!Over, Flat!Counting
  <2> QED
    BY <1>1, <2>1 DEF Counts, SyncInv, LatchInv, CallsMade
<1>4. at[Owner] \notin {"leave", "returned", "destroyed"}
  <2>1. Flattened > 0
    BY <1>1 DEF Counts
  <2>2. ctr = 0 /\ Decremented = {} => Flattened = 0
    BY FS_EmptySet DEF Flattened
  <2> QED
    BY <2>1, <2>2 DEF SyncInv, LatchInv, Opened
<1>5. pc[Main] # "idle"
  BY FlatSays DEF SyncInv
<1> QED
  BY <1>1, <1>2, <1>3, <1>4, <1>5

LEMMA CountStepKeeps ==
    ASSUME SyncInv, NEW t \in Thread, CountStep(t)
    PROVE  LatchInv' /\ UNCHANGED Flat!vars
<1> DEFINE c == cur[t]
<1>1. /\ c \in Caller /\ c # Owner /\ at[c] # "returned"
      /\ at[Owner] \notin {"leave", "returned", "destroyed"}
      /\ pc[t] = "count" /\ Owner \notin Caller
  BY Calling, OwnerAssumption DEF CountStep, Counts
<1>2. /\ UNCHANGED <<graphVars, counted>>
      /\ pc' = pc /\ cur' = cur /\ root' = root /\ counted' = counted
      /\ calls' = calls /\ engaged' = engaged
  BY DEF CountStep, graphVars, threadVars, callVars, storageVars
<1>3. LatchType /\ MutexHeld
  BY DEF SyncInv, LatchInv
<1>4. \A n : Flat!Over(n)' <=> Flat!Over(n)
  BY <1>2, SameShape DEF Flat!Over, Flat!Counting
<1> HIDE DEF c
<1>a. ASSUME \/ at[c] = "lock" /\ at'[c] = "decrement"
             \/ at[c] = "decrement" /\ at'[c] = "notify"
             \/ at[c] = "notify" /\ at'[c] = "unlock",
             \A x \in Caller : x # c => at'[x] = at[x]
      PROVE  CallsMade'
  <2>1. CallsMade
    BY DEF SyncInv, LatchInv
  <2>2. \E u \in Thread : pc[u] = "count" /\ cur[u] = c
    BY <1>1 DEF c
  <2> QED
    BY <1>2, <1>4, <1>a, <2>1, <2>2 DEF CallsMade, Caller
<1>5. CASE latch!LockToCount(c)
  <2>1. /\ at[c] = "lock" /\ mtx = Nobody /\ mtx' = c /\ ctr' = ctr
        /\ at' = [at EXCEPT ![c] = "decrement"]
    BY <1>5 DEF latch!LockToCount, latch!Goto
  <2>2. Decremented' = Decremented
    BY <1>1, <1>3, <2>1, SameDecremented DEF LatchType
  <2>3. Flattened' = Flattened
    BY <2>1, <2>2 DEF Flattened
  <2>4. LatchType' /\ MutexHeld'
    BY <1>1, <1>3, <2>1, OwnerAssumption
       DEF LatchType, MutexHeld, latch!CounterLabel, latch!Holding, Caller
  <2>5. OwnerPlace' /\ Opened' /\ Woken'
    BY <1>1, <1>2, <1>3, <2>1
       DEF SyncInv, LatchInv, LatchType, OwnerPlace, Opened, Woken, Caller
  <2>6. CallsMade'
    BY <1>1, <1>3, <1>a, <2>1 DEF LatchType
  <2> QED
    BY <1>2, <2>3, <2>4, <2>5, <2>6, Unseen DEF LatchInv
<1>6. CASE latch!Count(c)
  <2>1. /\ at[c] = "decrement" /\ mtx' = mtx /\ ctr' = ctr - 1
        /\ at' = [at EXCEPT ![c] = "notify"]
    BY <1>6 DEF latch!Count, latch!Goto, latch!Decrement,
       latch!Abstract!Decrement
  <2>2. mtx = c /\ c \notin Decremented
    BY <1>1, <1>3, <2>1 DEF MutexHeld, latch!Holding, Decremented
  <2>3. Decremented = {}
    BY <1>3, <2>2, DecrementedSize
  <2>4. Decremented' = {c}
    BY <1>1, <1>3, <2>1, <2>3 DEF LatchType, Decremented, Caller
  <2>5. Flattened' = Flattened
    <3>1. Cardinality(Decremented) = 0 /\ Cardinality(Decremented)' = 1
      BY <2>3, <2>4, FS_EmptySet, FS_Singleton
    <3> QED
      BY <1>3, <2>1, <3>1 DEF LatchType, Flattened
  <2>6. LatchType' /\ MutexHeld'
    BY <1>1, <1>3, <2>1, OwnerAssumption
       DEF LatchType, MutexHeld, latch!CounterLabel, latch!Holding, Caller
  <2>7. OwnerPlace' /\ Opened' /\ Woken'
    BY <1>1, <1>2, <1>3, <2>1
       DEF SyncInv, LatchInv, LatchType, OwnerPlace, Opened, Woken, Caller
  <2>8. CallsMade'
    BY <1>1, <1>3, <1>a, <2>1 DEF LatchType
  <2> QED
    BY <1>2, <2>5, <2>6, <2>7, <2>8, Unseen DEF LatchInv
<1>7. CASE latch!NotifyAll(c)
  <2>1. /\ at[c] = "notify" /\ mtx' = mtx /\ ctr' = ctr
        /\ at' = [x \in Caller \union {Owner} |->
                     IF x = c THEN "unlock"
                     ELSE IF at[x] = "parked" THEN "relock" ELSE at[x]]
    BY <1>7 DEF latch!NotifyAll, latch!Thread
  <2>2. /\ at'[c] = "unlock" /\ \A x \in Caller : x # c => at'[x] = at[x]
        /\ at'[Owner] = IF at[Owner] = "parked" THEN "relock" ELSE at[Owner]
    BY <1>1, <1>3, <2>1 DEF LatchType, latch!CounterLabel
  <2>3. Decremented' = Decremented
    BY <1>1, <2>1, <2>2, SameDecremented
  <2>4. Flattened' = Flattened
    BY <2>1, <2>3 DEF Flattened
  <2>5. LatchType' /\ MutexHeld'
    BY <1>1, <1>3, <2>1, <2>2
       DEF LatchType, MutexHeld, latch!CounterLabel, latch!WaiterLabel,
           latch!Holding, Caller
  <2>6. OwnerPlace' /\ Opened' /\ Woken'
    BY <1>1, <1>2, <1>3, <2>1, <2>2
       DEF SyncInv, LatchInv, LatchType, OwnerPlace, Opened, Woken, Caller
  <2>7. CallsMade'
    BY <1>1, <1>a, <2>1, <2>2
  <2> QED
    BY <1>2, <2>4, <2>5, <2>6, <2>7, Unseen DEF LatchInv
<1> QED
  BY <1>5, <1>6, <1>7 DEF CountStep, c

LEMMA CountUnlockKeeps ==
    ASSUME SyncInv, NEW t \in Thread, CountUnlock(t)
    PROVE  LatchInv' /\ Flat!Next
<1>0. PICK c : c = cur[t]
  OBVIOUS
<1>1. /\ c \in Caller /\ c # Owner /\ Counts(t, c)
      /\ at[Owner] \notin {"leave", "returned", "destroyed"}
      /\ pc[t] = "count" /\ Owner \notin Caller /\ pc[Main] # "idle"
  BY <1>0, Calling, OwnerAssumption DEF CountUnlock, Counts
<1>2. /\ at[c] = "unlock" /\ mtx' = Nobody /\ ctr' = ctr
      /\ at' = [at EXCEPT ![c] = "returned"]
      /\ counted' = counted \union seen[t]
      /\ Unwind(t, seen[t] \union counted)
      /\ engaged' = engaged /\ calls' = calls /\ root' = root
  BY <1>0 DEF CountUnlock, latch!UnlockCounted, latch!Goto, storageVars, callVars
<1>3. LatchType /\ MutexHeld /\ CallsMade
  BY DEF SyncInv, LatchInv
<1>4. c \in Decremented
  BY <1>1, <1>2 DEF Decremented
<1>5. /\ mtx = c /\ Decremented = {c} /\ Cardinality(Decremented) = 1
  BY <1>3, <1>4, DecrementedSize
<1>6. Decremented' = {}
  BY <1>1, <1>2, <1>3, <1>5 DEF LatchType, Decremented, Caller
<1>7. Flattened' = Flattened - 1
  BY <1>2, <1>3, <1>5, <1>6, FS_EmptySet DEF LatchType, Flattened
<1>8. Flat!CountDown(t)
  BY <1>1, <1>2, <1>7, SameShape
     DEF Flattened, CountUnlock, Flat!CountDown, Unwind, Flat!Unwind, Goto,
         Flat!Goto, storageVars, Flat!storageVars, callVars, Flat!callVars
<1>9. Flat!Next
  BY <1>8, SameShape DEF Flat!Next, Flat!Step, Flat!Continue
<1>10. /\ \A u \in Thread : u # t => pc'[u] = pc[u] /\ cur'[u] = cur[u]
       /\ pc'[t] # "count" /\ (t = Main => pc'[t] \in {"last", "wait"})
  BY <1>2, FlatSays DEF Unwind, Goto, SyncInv
<1>11. LatchType' /\ MutexHeld'
  BY <1>1, <1>2, <1>3, <1>5, OwnerAssumption
     DEF LatchType, MutexHeld, latch!CounterLabel, latch!Holding, Caller
<1>12. \A x \in Caller : x # c => at'[x] = at[x]
  BY <1>2, <1>3 DEF LatchType
<1>13. CallsMade'
  <2>1. ASSUME NEW x \in Caller, x # c
        PROVE  at[x] \notin {"decrement", "notify", "unlock"}
    BY <1>3, <1>5, <2>1 DEF MutexHeld, latch!Holding
  <2>2. ASSUME NEW x \in Caller, x # Main, Flat!Over(x) PROVE Flat!Over(x)'
    BY <1>2, <1>10, <2>2, SameShape DEF Flat!Over, Flat!Counting
  <2>3. c = Main => root' \in counted'
    BY <1>1, <1>2 DEF Counts
  <2>4. c # Main => Flat!Over(c)'
    <3>1. \A u \in Thread : ~(pc'[u] = "count" /\ cur'[u] = c)
      BY <1>1, <1>10 DEF Counts
    <3>2. c # Main => KidsOf(c) \subseteq counted' /\ ~engaged'[c]
                      /\ Kind[c] = "any"
      BY <1>1, <1>2 DEF Counts
    <3> QED
      BY <3>1, <3>2, SameShape DEF Flat!Over, Flat!Counting
  <2>5. at'[c] = "returned"
    BY <1>1, <1>2, <1>3 DEF LatchType
  <2>6. ASSUME NEW x \in Caller, x # c, at[x] = "returned"
        PROVE  IF x = Main THEN root' \in counted' ELSE Flat!Over(x)'
    BY <1>2, <1>3, <2>2, <2>6 DEF CallsMade
  <2>7. Caller' = Caller
    BY DEF Caller
  <2> HIDE DEF Caller
  <2> QED
    BY <1>12, <2>1, <2>3, <2>4, <2>5, <2>6, <2>7 DEF CallsMade
<1>14. at'[Owner] = at[Owner]
  BY <1>1, <1>2, <1>3 DEF LatchType
<1>15. OwnerPlace'
  <2>1. /\ pc[Main] # "wait" => at[Owner] = "lock"
    BY <1>1 DEF SyncInv, LatchInv, OwnerPlace
  <2>2. t # Main => pc'[Main] = pc[Main]
    BY <1>10, SyncThreads
  <2>3. t = Main => at[Owner] = "lock"
    BY <1>1, <2>1
  <2> QED
    BY <1>1, <1>10, <1>14, <2>1, <2>2, <2>3 DEF OwnerPlace
<1>16. Opened' /\ Woken'
  <2>1. \A x \in Caller : at[x] # "notify"
    BY <1>2, <1>3, <1>5 DEF MutexHeld, latch!Holding
  <2>2. ~(at[Owner] = "parked" /\ ctr = 0)
    BY <2>1 DEF SyncInv, LatchInv, Woken
  <2> QED
    BY <1>1, <1>2, <1>14, <2>2 DEF Opened, Woken
<1> QED
  BY <1>9, <1>11, <1>13, <1>15, <1>16 DEF LatchInv

\* The waiter's steps move only the waiter: the counter and the calls made so
\* far stay as they are.
LEMMA OwnerMoves ==
    ASSUME SyncInv, pc[Main] = "wait", UNCHANGED <<graphVars, counted>>,
           NEW label \in latch!WaiterLabel, at' = [at EXCEPT ![Owner] = label],
           NEW m \in {Owner, Nobody}, mtx' = m, mtx \in {Owner, Nobody},
           m = Owner <=> label \in latch!Holding, ctr' = ctr,
           label # "destroyed"
    PROVE  /\ LatchType' /\ MutexHeld' /\ CallsMade' /\ OwnerPlace'
           /\ UNCHANGED Flat!vars
           /\ Decremented = {} /\ Decremented' = {} /\ at'[Owner] = label
<1>1. LatchType /\ MutexHeld /\ CallsMade /\ Owner \notin Caller
  BY OwnerAssumption DEF SyncInv, LatchInv
<1>2. at'[Owner] = label /\ \A c \in Caller : at'[c] = at[c]
  BY <1>1 DEF LatchType
<1>3. Decremented' = Decremented
  BY <1>2, SameDecremented
<1>4. \A c \in Caller : at[c] \notin latch!Holding
  BY <1>1, OwnerAssumption DEF MutexHeld
<1>5. Decremented = {}
  BY <1>4 DEF Decremented, latch!Holding
<1>6. Flattened' = Flattened
  BY <1>3 DEF Flattened
<1>7. pc' = pc /\ cur' = cur /\ root' = root /\ counted' = counted
      /\ calls' = calls /\ engaged' = engaged
  BY DEF graphVars, threadVars, callVars, storageVars
<1>8. \A n : Flat!Over(n)' <=> Flat!Over(n)
  BY <1>7, SameShape DEF Flat!Over, Flat!Counting
<1>9. LatchType' /\ MutexHeld'
  BY <1>1, <1>2, <1>4, OwnerAssumption DEF LatchType, MutexHeld, Caller
<1>10. CallsMade'
  BY <1>1, <1>2, <1>7, <1>8 DEF CallsMade, Caller
<1>11. OwnerPlace'
  BY <1>2, <1>7 DEF OwnerPlace
<1> QED
  BY <1>2, <1>3, <1>5, <1>6, <1>9, <1>10, <1>11, Unseen

LEMMA WaitStepKeeps ==
    ASSUME SyncInv, WaitStep \/ SpuriousWake
    PROVE  LatchInv' /\ UNCHANGED Flat!vars
<1>1. LatchType /\ MutexHeld /\ Owner \notin Caller
  BY OwnerAssumption DEF SyncInv, LatchInv
<1>2. UNCHANGED <<graphVars, counted>>
  BY DEF WaitStep, SpuriousWake
<1>3. pc[Main] = "wait"
  <2>1. SpuriousWake => at[Owner] = "parked"
    BY DEF SpuriousWake, latch!SpuriousWake
  <2> QED
    BY <2>1 DEF WaitStep, SyncInv, LatchInv, OwnerPlace
<1>4. at[Owner] \in latch!Holding <=> mtx = Owner
  BY <1>1 DEF MutexHeld
<1> USE DEF latch!Goto, latch!WaiterLabel, latch!Holding
<1>5. CASE latch!LockToWait(Owner)
  <2>1. /\ at[Owner] \in {"lock", "relock"} /\ mtx = Nobody /\ mtx' = Owner
        /\ at' = [at EXCEPT ![Owner] = "check"] /\ ctr' = ctr
    BY <1>5 DEF latch!LockToWait
  <2>2. /\ LatchType' /\ MutexHeld' /\ CallsMade' /\ OwnerPlace'
        /\ UNCHANGED Flat!vars /\ at'[Owner] = "check"
    BY <1>2, <1>3, <2>1, OwnerMoves
  <2> QED
    BY <2>2 DEF LatchInv, Opened, Woken
<1>6. CASE latch!SeeOpen(Owner)
  <2>1. /\ at[Owner] = "check" /\ mtx' = mtx /\ ctr = 0
        /\ at' = [at EXCEPT ![Owner] = "leave"] /\ ctr' = ctr
    BY <1>6 DEF latch!SeeOpen, latch!Done, latch!Abstract!Done
  <2>2. mtx = Owner
    BY <1>4, <2>1
  <2>3. /\ LatchType' /\ MutexHeld' /\ CallsMade' /\ OwnerPlace'
        /\ UNCHANGED Flat!vars /\ at'[Owner] = "leave" /\ Decremented' = {}
    BY <1>2, <1>3, <2>1, <2>2, OwnerMoves
  <2> QED
    BY <2>1, <2>3 DEF LatchInv, Opened, Woken
<1>7. CASE latch!Park(Owner)
  <2>1. /\ at[Owner] = "check" /\ mtx' = Nobody /\ ctr # 0
        /\ at' = [at EXCEPT ![Owner] = "parked"] /\ ctr' = ctr
    BY <1>7 DEF latch!Park, latch!Done, latch!Abstract!Done
  <2>2. mtx = Owner /\ Nobody # Owner
    BY <1>4, <2>1, OwnerAssumption
  <2>3. /\ LatchType' /\ MutexHeld' /\ CallsMade' /\ OwnerPlace'
        /\ UNCHANGED Flat!vars /\ at'[Owner] = "parked"
    BY <1>2, <1>3, <2>1, <2>2, OwnerMoves
  <2> QED
    BY <2>1, <2>3 DEF LatchInv, Opened, Woken
<1>8. CASE latch!UnlockWaited(Owner)
  <2>1. /\ at[Owner] = "leave" /\ mtx' = Nobody
        /\ at' = [at EXCEPT ![Owner] = "returned"] /\ ctr' = ctr
    BY <1>8 DEF latch!UnlockWaited
  <2>2. mtx = Owner /\ Nobody # Owner /\ ctr = 0
    BY <1>4, <2>1, OwnerAssumption DEF SyncInv, LatchInv, Opened
  <2>3. /\ LatchType' /\ MutexHeld' /\ CallsMade' /\ OwnerPlace'
        /\ UNCHANGED Flat!vars /\ at'[Owner] = "returned" /\ Decremented' = {}
    BY <1>2, <1>3, <2>1, <2>2, OwnerMoves
  <2> QED
    BY <2>1, <2>2, <2>3 DEF LatchInv, Opened, Woken
<1>9. CASE latch!SpuriousWake(Owner)
  <2>1. /\ at[Owner] = "parked" /\ mtx' = mtx
        /\ at' = [at EXCEPT ![Owner] = "relock"] /\ ctr' = ctr
    BY <1>9 DEF latch!SpuriousWake
  <2>2. at'[Owner] = "relock" /\ \A c \in Caller : at'[c] = at[c]
    BY <1>1, <2>1 DEF LatchType
  <2>3. Decremented' = Decremented
    BY <2>2, SameDecremented
  <2>4. Flattened' = Flattened
    BY <2>1, <2>3 DEF Flattened
  <2>5. pc' = pc /\ cur' = cur /\ root' = root /\ counted' = counted
        /\ calls' = calls /\ engaged' = engaged
    BY <1>2 DEF graphVars, threadVars, callVars, storageVars
  <2>6. \A n : Flat!Over(n)' <=> Flat!Over(n)
    BY <2>5, SameShape DEF Flat!Over, Flat!Counting
  <2>7. LatchType' /\ MutexHeld' /\ OwnerPlace' /\ Opened' /\ Woken'
    BY <1>1, <1>3, <2>1, <2>2, <2>5
       DEF LatchType, MutexHeld, OwnerPlace, Opened, Woken, Caller
  <2>8. CallsMade'
    BY <2>2, <2>5, <2>6 DEF SyncInv, LatchInv, CallsMade, Caller
  <2> QED
    BY <1>2, <2>4, <2>7, <2>8, Unseen DEF LatchInv
<1> QED
  BY <1>5, <1>6, <1>7, <1>8, <1>9 DEF WaitStep, SpuriousWake

LEMMA DestructionKeeps ==
    ASSUME SyncInv, Destruction
    PROVE  LatchInv' /\ Flat!Next
<1>1. LatchType /\ MutexHeld /\ Owner \notin Caller
  BY OwnerAssumption DEF SyncInv, LatchInv
<1>2. /\ pc[Main] = "wait" /\ at[Owner] = "returned" /\ ctr' = ctr
      /\ at' = [at EXCEPT ![Owner] = "destroyed"] /\ mtx' = mtx
      /\ pc' = [pc EXCEPT ![Main] = "idle"]
      /\ cur' = [cur EXCEPT ![Main] = Main]
      /\ counted' = counted /\ engaged' = engaged /\ calls' = calls
      /\ root' = root
  BY DEF Destruction, latch!Destroy, latch!Goto, Goto, storageVars, callVars
<1>3. at'[Owner] = "destroyed" /\ \A c \in Caller : at'[c] = at[c]
  BY <1>1, <1>2 DEF LatchType
<1>4. ctr = 0 /\ Decremented = {} /\ Decremented' = {}
  BY <1>2, <1>3, SameDecremented DEF SyncInv, LatchInv, Opened
<1>5. Flattened = 0 /\ Flattened' = 0
  BY <1>2, <1>4, FS_EmptySet DEF Flattened
<1>6. Flat!Return
  BY <1>2, <1>5, SameShape
     DEF Flattened, Destruction, Flat!Return, Goto, Flat!Goto, storageVars,
         Flat!storageVars, latchVars, Flat!latchVars, callVars, Flat!callVars
<1>7. Flat!Next
  BY <1>6 DEF Flat!Next
<1>8. \A u \in Thread : \A n :
          pc'[u] = "count" /\ cur'[u] = n <=> pc[u] = "count" /\ cur[u] = n
  BY <1>2, FlatSays, SyncThreads DEF SyncInv
<1>9. \A n : Flat!Over(n)' <=> Flat!Over(n)
  BY <1>2, <1>8, SameShape DEF Flat!Over, Flat!Counting
<1>10. CallsMade'
  BY <1>2, <1>3, <1>8, <1>9 DEF SyncInv, LatchInv, CallsMade, Caller
<1>11. OwnerPlace'
  <2>1. pc'[Main] = "idle" /\ calls # 0
    BY <1>2, FlatSays, SyncThreads DEF SyncInv
  <2> QED
    BY <1>2, <1>3, <2>1 DEF OwnerPlace
<1>12. LatchType' /\ MutexHeld'
  BY <1>1, <1>2, <1>3
     DEF LatchType, MutexHeld, latch!WaiterLabel, latch!Holding, Caller
<1>13. Opened' /\ Woken'
  BY <1>2, <1>3, <1>4 DEF Opened, Woken
<1> QED
  BY <1>7, <1>10, <1>11, <1>12, <1>13 DEF LatchInv

LEMMA SyncStutterKeeps ==
    ASSUME SyncInv, UNCHANGED syncVars
    PROVE  LatchInv' /\ UNCHANGED Flat!vars
<1>1. /\ pc' = pc /\ cur' = cur /\ root' = root /\ counted' = counted
      /\ calls' = calls /\ engaged' = engaged /\ ctr' = ctr /\ mtx' = mtx
      /\ at' = at /\ UNCHANGED <<graphVars, counted>>
  BY DEF syncVars, vars, graphVars, threadVars, storageVars, latchVars, callVars
<1>2. Decremented' = Decremented
  BY <1>1, SameDecremented
<1>3. Flattened' = Flattened
  BY <1>1, <1>2 DEF Flattened
<1>4. \A n : Flat!Over(n)' <=> Flat!Over(n)
  BY <1>1, SameShape DEF Flat!Over, Flat!Counting
<1>5. CallsMade'
  BY <1>1, <1>4 DEF SyncInv, LatchInv, CallsMade, Caller
<1>6. LatchType' /\ MutexHeld' /\ OwnerPlace' /\ Opened' /\ Woken'
  BY <1>1, <1>2
     DEF SyncInv, LatchInv, LatchType, MutexHeld, OwnerPlace, Opened, Woken,
         Caller
<1> QED
  BY <1>1, <1>3, <1>5, <1>6, Unseen DEF LatchInv

-----------------------------------------------------------------------------
LEMMA SyncStart == SyncInit => SyncInv /\ Flat!Init
<1> SUFFICES ASSUME SyncInit PROVE SyncInv /\ Flat!Init
  OBVIOUS
<1>1. /\ mtx = Nobody /\ at = Uncalled /\ ctr = 0 /\ calls = 0
      /\ pc[Main] = "idle"
  BY SyncThreads DEF SyncInit, Init
<1>2. Decremented = {} /\ Flattened = 0
  <2>1. Decremented = {}
    BY <1>1 DEF Decremented, Uncalled, Caller
  <2> QED
    BY <1>1, <2>1, FS_EmptySet DEF Flattened
<1>3. Flat!Init
  BY <1>2, SameShape DEF Flattened, SyncInit, Init, Flat!Init
<1>4. Flat!Inv
  BY <1>3, Flat!InitInv, FlatAssumption, KidsAssumption, BoundsAssumption
<1>5. LatchType /\ MutexHeld
  BY <1>1, OwnerAssumption
     DEF LatchType, MutexHeld, Uncalled, Caller, latch!CounterLabel,
         latch!WaiterLabel, latch!Holding
<1>6. CallsMade /\ Opened /\ Woken /\ OwnerPlace
  BY <1>1 DEF CallsMade, Opened, Woken, OwnerPlace, Uncalled
<1> QED
  BY <1>3, <1>4, <1>5, <1>6 DEF SyncInv, LatchInv

LEMMA SyncStep ==
    ASSUME SyncInv, [SyncNext]_syncVars
    PROVE  SyncInv' /\ [Flat!Next]_(Flat!vars)
<1>1. LatchInv' /\ [Flat!Next]_(Flat!vars)
  <2>1. CASE \E r \in Roots : Construction(r)
    BY <2>1, ConstructionKeeps
  <2>2. CASE \E t \in Thread : ThreadStep(t)
    BY <2>2, GraphStepKeeps, CountStepKeeps, CountUnlockKeeps DEF ThreadStep
  <2>3. CASE \E k \in Task : Begin(k)
    BY <2>3, BeginKeeps
  <2>4. CASE WaitStep \/ SpuriousWake \/ Destruction
    BY <2>4, WaitStepKeeps, DestructionKeeps
  <2>5. CASE (Terminating /\ UNCHANGED <<mtx, at>>) \/ UNCHANGED syncVars
    <3>1. UNCHANGED syncVars
      BY <2>5 DEF Terminating, syncVars
    <3> QED
      BY <3>1, SyncStutterKeeps
  <2> QED
    BY <2>1, <2>2, <2>3, <2>4, <2>5 DEF SyncNext
<1>2. Flat!Inv'
  BY <1>1, Flat!StepKeepsInv, FlatAssumption, KidsAssumption, BoundsAssumption
     DEF SyncInv
<1> QED
  BY <1>1, <1>2 DEF SyncInv

\* The inductive invariant holds throughout every behaviour.
LEMMA SyncInvariant == SyncSpec => []SyncInv
<1>1. SyncInit => SyncInv
  BY SyncStart
<1>2. SyncInv /\ [SyncNext]_syncVars => SyncInv'
  BY SyncStep
<1> QED
  BY <1>1, <1>2, PTL DEF SyncSpec

\* sync_execute: when the stack frame of a call goes, and the latch with it,
\* nobody is in count_down(), on the way into it, or asleep on the latch.
THEOREM LatchOutlives == SyncSpec => []LatchOutlivesCalls
<1>1. ASSUME SyncInv PROVE LatchOutlivesCalls
  <2> SUFFICES ASSUME pc[Main] = "idle"
               PROVE  /\ InLatch = {} /\ mtx # Owner /\ at[Owner] # "parked"
                      /\ \A t \in Thread : pc[t] # "count"
    BY DEF LatchOutlivesCalls
  <2>1. \A t \in Thread : pc[t] = "idle"
    BY <1>1, FlatSays DEF SyncInv
  <2>2. InLatch = {}
    BY <1>1, <2>1 DEF SyncInv, LatchInv, CallsMade, InLatch
  <2>3. at[Owner] \in {"lock", "destroyed"}
    BY <1>1 DEF SyncInv, LatchInv, OwnerPlace
  <2>4. mtx # Owner
    BY <1>1, <2>3 DEF SyncInv, LatchInv, MutexHeld, latch!Holding
  <2> QED
    BY <2>1, <2>2, <2>3, <2>4
<1> QED
  BY <1>1, SyncInvariant, PTL

\* Whatever is left to do is attended in a call with its latch in full, too.
LEMMA SyncAttended == SyncSpec => [](SyncInv /\ Flat!AttendedInv)
<1>1. SyncInit => SyncInv /\ Flat!AttendedInv
  <2> SUFFICES ASSUME SyncInit PROVE SyncInv /\ Flat!AttendedInv
    OBVIOUS
  <2>1. SyncInv /\ Flat!Init
    BY SyncStart
  <2> QED
    BY <2>1, Flat!InitAttendedInv, FlatAssumption, KidsAssumption,
       BoundsAssumption
<1>2. SyncInv /\ Flat!AttendedInv /\ [SyncNext]_syncVars
      => (SyncInv /\ Flat!AttendedInv)'
  <2> SUFFICES ASSUME SyncInv, Flat!AttendedInv, [SyncNext]_syncVars
               PROVE  SyncInv' /\ Flat!AttendedInv'
    OBVIOUS
  <2>1. SyncInv' /\ [Flat!Next]_(Flat!vars)
    BY SyncStep
  <2> QED
    BY <2>1, Flat!StepKeepsAttendedInv, FlatAssumption, KidsAssumption,
       BoundsAssumption
<1> QED
  BY <1>1, <1>2, PTL DEF SyncSpec

\* latch_impl::wait: whoever sleeps on the latch is woken up.  A wakeup is not
\* lost, because a count_down() decrements the counter and the waiter tests it
\* under the mutex; and as long as the counter is not zero some thread is on its
\* way to a count_down(), because the graph drops nothing.
THEOREM SleeperIsWoken == SyncSpec => []SleeperHasWaker
<1>1. ASSUME SyncInv, Flat!AttendedInv PROVE SleeperHasWaker
  <2> SUFFICES ASSUME at[Owner] = "parked", \A c \in Caller : at[c] # "notify"
               PROVE  ctr > 0 /\ \E t \in Thread : pc[t] \notin {"idle", "wait"}
    BY DEF SleeperHasWaker
  <2>1. LatchType /\ MutexHeld /\ ctr \in Int /\ ctr # 0
    BY <1>1 DEF SyncInv, LatchInv, LatchType, Woken
  <2>2. calls > 0
    <3>1. calls # 0
      BY <1>1, FlatSays, SyncThreads DEF SyncInv, LatchInv, OwnerPlace
    <3> QED
      BY <1>1, <3>1, FlatSays DEF SyncInv
  <2>3. PICK S, D, P \in SUBSET Node : Flat!Account(S, D, P)
    BY <1>1, <2>2 DEF SyncInv, Flat!Inv, Flat!Unused
  <2>4. Flattened >= 0
    <3>1. Flat!LatchBalance
      BY <2>3 DEF Flat!Account
    <3>2. Cardinality(Flat!Owing) \in Nat
      <4>1. root \in Node
        BY <2>3, SameShape
           DEF Flat!Account, Flat!TypeOK, Flat!CallType, Roots
      <4>2. Flat!Owing \subseteq Node
        BY <4>1, Flat!TreeSelf, FlatAssumption, KidsAssumption,
           BoundsAssumption DEF Flat!Owing
      <4> QED
        BY <4>2, NodeAssumption, FS_Subset, FS_CardinalityType
    <3> QED
      BY <2>2, <3>1, <3>2, SameSets DEF Flat!LatchBalance, Flattened
  <2>5. Flattened # 0 /\ ctr > 0
    <3>1. CASE Decremented = {}
      BY <2>1, <2>4, <3>1, DecrementedSize DEF Flattened
    <3>2. CASE Decremented # {}
      <4>1. PICK c \in Caller : at[c] = "unlock" /\ c \in Decremented
        BY <3>2 DEF Decremented
      <4>2. Flattened = ctr + 1
        BY <2>1, <4>1, DecrementedSize DEF Flattened
      <4>3. \E t \in Thread : pc[t] = "count" /\ cur[t] = c
        BY <1>1, <4>1 DEF SyncInv, LatchInv, CallsMade
      <4>4. Flattened > 0
        BY <1>1, <4>3, FlatSays DEF SyncInv, Counts
      <4> QED
        BY <2>1, <4>2, <4>4
    <3> QED
      BY <3>1, <3>2
  <2>6. Flat!WaiterHasWorker
    BY <1>1, Flat!AttendedWaiter, FlatAssumption, KidsAssumption,
       BoundsAssumption
  <2>7. \E t \in Thread : pc[t] \notin {"idle", "wait"}
    BY <2>2, <2>5, <2>6, SameShape DEF Flat!WaiterHasWorker, Flattened
  <2> QED
    BY <2>5, <2>7
<1> QED
  BY <1>1, SyncAttended, PTL

-----------------------------------------------------------------------------
\* The two instances of Graph under this mapping say the same.
LEMMA FlatIsAbstract ==
    /\ Flat!Init <=> Abstract!Init
    /\ Flat!Next <=> Abstract!Next
    /\ UNCHANGED Flat!vars <=> UNCHANGED Abstract!vars
<1>1. /\ Flat!Main = Abstract!Main /\ Flat!Thread = Abstract!Thread
      /\ Flat!Task = Abstract!Task /\ Flat!Roots = Abstract!Roots
  BY DEF Flat!Main, Abstract!Main, Flat!Task, Abstract!Task, Flat!Thread,
         Abstract!Thread, Flat!Roots, Abstract!Roots, Flat!KidsOf,
         Abstract!KidsOf, Flat!Arity, Abstract!Arity, Flat!Shared,
         Abstract!Shared, Flat!Parent, Abstract!Parent, Flat!Position,
         Abstract!Position, Flat!IsLast, Abstract!IsLast
<1>2. Flat!Init <=> Abstract!Init
  BY <1>1 DEF Flat!Init, Abstract!Init
<1>3. UNCHANGED Flat!vars <=> UNCHANGED Abstract!vars
  BY DEF Flat!vars, Abstract!vars, Flat!threadVars, Abstract!threadVars,
         Flat!storageVars, Abstract!storageVars, Flat!latchVars,
         Abstract!latchVars, Flat!callVars, Abstract!callVars
<1>4. \A r : Flat!Call(r) <=> Abstract!Call(r)
  BY DEF Flat!Call, Abstract!Call, Flat!CleanupCount, Abstract!CleanupCount,
         Flat!CallInput, Abstract!CallInput, Flat!Goto, Abstract!Goto,
         Flat!Arity, Abstract!Arity, Flat!Main, Abstract!Main,
         Flat!storageVars, Abstract!storageVars
<1>5. \A t : Flat!Step(t) <=> Abstract!Step(t)
  <2> USE DEF Flat!Goto, Abstract!Goto, Flat!Unwind, Abstract!Unwind,
              Flat!Construct, Abstract!Construct, Flat!FetchSub,
              Abstract!FetchSub, Flat!Release, Abstract!Release, Flat!Acquire,
              Abstract!Acquire, Flat!Destroy, Abstract!Destroy, Flat!NextKid,
              Abstract!NextKid, Flat!ChildOf, Abstract!ChildOf, Flat!Output,
              Abstract!Output, Flat!Input, Abstract!Input, Flat!Main,
              Abstract!Main, Flat!Roots, Abstract!Roots, Flat!KidsOf,
              Abstract!KidsOf, Flat!Arity, Abstract!Arity, Flat!Shared,
              Abstract!Shared, Flat!Parent, Abstract!Parent, Flat!Position,
              Abstract!Position, Flat!IsLast, Abstract!IsLast,
              Flat!threadVars, Abstract!threadVars, Flat!storageVars,
              Abstract!storageVars, Flat!latchVars, Abstract!latchVars,
              Flat!callVars, Abstract!callVars
  <2>1. \A t : Flat!Execute(t) <=> Abstract!Execute(t)
    BY DEF Flat!Execute, Abstract!Execute, Flat!ExecLeaf, Abstract!ExecLeaf,
           Flat!ExecSeq, Abstract!ExecSeq, Flat!ExecShared,
           Abstract!ExecShared
  <2>2. \A t : Flat!Fan(t) <=> Abstract!Fan(t)
    BY DEF Flat!Fan, Abstract!Fan, Flat!Schedule, Abstract!Schedule,
           Flat!RunInline, Abstract!RunInline
  <2>3. \A t :
          /\ (Flat!SeqFirst(t) <=> Abstract!SeqFirst(t))
          /\ (Flat!SeqSecond(t) <=> Abstract!SeqSecond(t))
          /\ (Flat!Deliver(t) <=> Abstract!Deliver(t))
          /\ (Flat!CountDown(t) <=> Abstract!CountDown(t))
    BY DEF Flat!SeqFirst, Abstract!SeqFirst, Flat!SeqSecond,
           Abstract!SeqSecond, Flat!Deliver, Abstract!Deliver, Flat!CountDown,
           Abstract!CountDown
  <2>4. \A t :
          /\ (Flat!AllStore(t) <=> Abstract!AllStore(t))
          /\ (Flat!AllJoin(t) <=> Abstract!AllJoin(t))
          /\ (Flat!AllLast(t) <=> Abstract!AllLast(t))
          /\ (Flat!AllFinish(t) <=> Abstract!AllFinish(t))
    BY DEF Flat!AllStore, Abstract!AllStore, Flat!AllJoin, Abstract!AllJoin,
           Flat!AllLast, Abstract!AllLast, Flat!AllFinish, Abstract!AllFinish
  <2>5. \A t :
          /\ (Flat!AnyFirst(t) <=> Abstract!AnyFirst(t))
          /\ (Flat!AnyLose(t) <=> Abstract!AnyLose(t))
          /\ (Flat!AnyLast(t) <=> Abstract!AnyLast(t))
          /\ (Flat!AnyFinish(t) <=> Abstract!AnyFinish(t))
    BY DEF Flat!AnyFirst, Abstract!AnyFirst, Flat!AnyLose, Abstract!AnyLose,
           Flat!AnyLast, Abstract!AnyLast, Flat!AnyFinish, Abstract!AnyFinish
  <2>6. \A t : Flat!Continue(t) <=> Abstract!Continue(t)
    BY <2>3, <2>4, <2>5 DEF Flat!Continue, Abstract!Continue
  <2> QED
    BY <2>1, <2>2, <2>6 DEF Flat!Step, Abstract!Step
<1>6. \A k : Flat!Start(k) <=> Abstract!Start(k)
  <2>1. \A X : Abstract!Cardinality(X) = Cardinality(X)
    BY DEF Abstract!Cardinality, Cardinality
  <2>2. Flat!Running = Abstract!Running
    BY <1>1 DEF Flat!Running, Abstract!Running
  <2> QED
    BY <2>1, <2>2, SameSets
       DEF Flat!Start, Abstract!Start, Flat!Goto, Abstract!Goto,
           Flat!storageVars, Abstract!storageVars, Flat!latchVars,
           Abstract!latchVars, Flat!callVars, Abstract!callVars
<1>7. Flat!Return <=> Abstract!Return
  BY DEF Flat!Return, Abstract!Return, Flat!Goto, Abstract!Goto, Flat!Main,
         Abstract!Main, Flat!storageVars, Abstract!storageVars,
         Flat!latchVars, Abstract!latchVars, Flat!callVars, Abstract!callVars
<1>8. Flat!Terminating <=> Abstract!Terminating
  BY <1>1, <1>3 DEF Flat!Terminating, Abstract!Terminating
<1> QED
  BY <1>1, <1>2, <1>3, <1>4, <1>5, <1>6, <1>7, <1>8
     DEF Flat!Next, Abstract!Next

\* A call with its latch in full starts and moves as one whose latch is a
\* counter: the safety part of ImplementsGraph.
THEOREM LatchedGraphSafety ==
    SyncSpec => Abstract!Init /\ [][Abstract!Next]_(Abstract!vars)
<1>1. SyncInit => Abstract!Init
  BY SyncStart, FlatIsAbstract
<1>2. SyncInv /\ [SyncNext]_syncVars => [Abstract!Next]_(Abstract!vars)
  BY SyncStep, FlatIsAbstract
<1> QED
  BY <1>1, <1>2, SyncInvariant, PTL DEF SyncSpec

-----------------------------------------------------------------------------
\* What the caller is promised comes with a call whose latch is in full, too.
LEMMA SyncValued == SyncSpec => [](SyncInv /\ Flat!ValuedInv)
<1>1. SyncInit => SyncInv /\ Flat!ValuedInv
  BY SyncStart, Flat!InitValues, FlatAssumption, KidsAssumption,
     BoundsAssumption
<1>2. SyncInv /\ Flat!ValuedInv /\ [SyncNext]_syncVars
      => (SyncInv /\ Flat!ValuedInv)'
  BY SyncStep, Flat!StepKeepsValues, FlatAssumption, KidsAssumption,
     BoundsAssumption
<1> QED
  BY <1>1, <1>2, PTL DEF SyncSpec

\* sync_execute with the mutex and the condition variable of its latch: each call
\* gets its result once, one the graph can have with the input of that very call,
\* and the wait on the latch, however often the caller sleeps and wakes up, does
\* not let the call return before it.
THEOREM LatchedPromise == SyncSpec => Flat!ImplementsFuture
<1>1. SyncInit => Flat!Promise!Init
  BY SyncStart, Flat!InitPromise, FlatAssumption, KidsAssumption,
     BoundsAssumption
<1>2. SyncInv /\ Flat!ValuedInv /\ [SyncNext]_syncVars
      => [Flat!Promise!Next]_(Flat!Promise!vars)
  BY SyncStep, Flat!PromiseStep, FlatAssumption, KidsAssumption,
     BoundsAssumption
<1> QED
  BY <1>1, <1>2, SyncValued, PTL DEF SyncSpec, Flat!ImplementsFuture

=============================================================================
