-------------------------- MODULE NestedCallsProofs --------------------------
(***************************************************************************)
(* Proofs about module NestedCalls: when calls of sync_execute inside each *)
(* other can hang, and that the counting of roots and latches lets no call *)
(* return too early, for every nesting of calls and number of workers.     *)
(***************************************************************************)
EXTENDS NestedCalls, FiniteSetTheorems, WellFoundedInduction, TLAPS

-----------------------------------------------------------------------------
\* The inductive invariant.

NestedType ==
    /\ workers \in 1 .. MaxWorkers
    /\ stage \in [SyncCall -> {"idle", "fan", "inline", "wait", "returned"}]
    /\ next \in [SyncCall -> Nat]
    /\ \A c \in SyncCall : next[c] \in DOMAIN Body[c]
    /\ status \in [Child -> {"idle", "queued", "through"} \union Active]
    /\ left \in [SyncCall -> Nat]
    /\ ctr \in [SyncCall -> Int]

LastOf(c) == <<c, Len(Body[c])>>

\* A call starts its children in their order, the last one on its own thread,
\* which is in the latch after that.
Begun(c) ==
    /\ stage[c] = "idle" => next[c] = 1
    /\ stage[c] \in {"idle", "fan"} =>
           \A i \in DOMAIN Body[c] : status[<<c, i>>] = "idle" <=> i >= next[c]
    /\ stage[c] \notin {"idle", "fan"} =>
           \A i \in DOMAIN Body[c] : status[<<c, i>>] # "idle"
    /\ stage[c] = "inline" <=> status[LastOf(c)] \in Active
    /\ stage[c] \in {"wait", "returned"} <=> status[LastOf(c)] = "through"
    /\ stage[c] = "returned" =>
           \A i \in DOMAIN Body[c] : status[<<c, i>>] = "through"

\* A child that makes a call makes it once, and is there until it returns.
Called(k) ==
    /\ status[k] = "queued" => ~IsLast(k)
    /\ status[k] = "calling" => Callee(k) # None
    /\ Callee(k) # None =>
        /\ status[k] \in {"idle", "queued", "running"} => stage[Callee(k)] = "idle"
        /\ status[k] = "calling" => stage[Callee(k)] # "idle"
        /\ status[k] \in {"then", "cleanup", "through"}
               => stage[Callee(k)] = "returned"

\* The children that the root of a call has not counted yet.
Uncounted == {"idle", "queued", "running", "calling"}
Out(c) == {i \in DOMAIN Body[c] : status[<<c, i>>] \in Uncounted}

\* The children of a call that are at s.
At(c, s) == {i \in DOMAIN Body[c] : status[<<c, i>>] = s}

\* The two count_downs of a call: whether the one after `then` is still to come, and
\* the one of the cleanup.
ThenDue(c) == IF Root[c] = "any" THEN left[c] = Len(Body[c]) ELSE left[c] > 0
ThenToCome(c) == ThenDue(c) \/ At(c, "then") # {}
CleanupToCome(c) ==
    /\ Root[c] = "any"
    /\ \/ left[c] > 0
       \/ At(c, "cleanup") # {}
       \/ Len(Body[c]) = 1 /\ At(c, "then") # {}

\* _left counts the children that are not counted yet, and the latch the
\* count_downs that are still to come, each of which has one child to make it.
Counted(c) ==
    stage[c] # "idle" =>
        /\ left[c] = Cardinality(Out(c))
        /\ ctr[c] = (IF ThenToCome(c) THEN 1 ELSE 0)
                      + (IF CleanupToCome(c) THEN 1 ELSE 0)
        /\ ThenDue(c) => At(c, "then") = {}
        /\ At(c, "cleanup") # {} => Root[c] = "any" /\ left[c] = 0
        /\ \A i, j \in At(c, "then") : i = j
        /\ \A i, j \in At(c, "cleanup") : i = j

\* A worker has one task at a time.
Manned == IsFiniteSet(OnWorker) /\ Cardinality(OnWorker) <= workers

NestedInv ==
    /\ NestedType
    /\ \A c \in SyncCall : Begun(c)
    /\ \A c \in SyncCall : Counted(c)
    /\ \A k \in Child : Called(k)
    /\ \A c \in Outermost : stage[c] # "idle"
    /\ Manned

-----------------------------------------------------------------------------
\* Calls and their children.

LEMMA BodyFacts ==
    ASSUME NEW c \in SyncCall
    PROVE  /\ c \in Nat /\ Len(Body[c]) \in Nat \ {0}
           /\ DOMAIN Body[c] = 1 .. Len(Body[c])
           /\ \A i \in DOMAIN Body[c] : /\ <<c, i>> \in Child
                                        /\ Callee(<<c, i>>) = Body[c][i]
           /\ LastOf(c) \in Child /\ IsLast(LastOf(c))
<1>1. Body[c] \in Seq(SyncCall \union {None}) /\ Body[c] # <<>>
  BY BodyAssumption
<1>2. Len(Body[c]) \in Nat \ {0} /\ DOMAIN Body[c] = 1 .. Len(Body[c])
  BY <1>1
<1>3. \A i \in DOMAIN Body[c] : <<c, i>> \in {c} \X DOMAIN Body[c]
  OBVIOUS
<1>4. \A i \in DOMAIN Body[c] : <<c, i>> \in Child
  BY <1>3 DEF Child
<1> QED
  BY <1>2, <1>4, SyncCallAssumption DEF LastOf, IsLast, Callee

LEMMA ChildFacts ==
    ASSUME NEW k \in Child
    PROVE  /\ k = <<k[1], k[2]>> /\ k[1] \in SyncCall /\ k[2] \in DOMAIN Body[k[1]]
           /\ IsLast(k) <=> k = LastOf(k[1])
           /\ Callee(k) # None => Callee(k) \in SyncCall /\ k[1] < Callee(k)
<1>1. PICK c \in SyncCall : k \in {c} \X DOMAIN Body[c]
  BY DEF Child
<1>2. k = <<k[1], k[2]>> /\ k[1] \in SyncCall /\ k[2] \in DOMAIN Body[k[1]]
  BY <1>1
<1>3. Body[k[1]] \in Seq(SyncCall \union {None})
  BY <1>2, BodyAssumption
<1>4. Callee(k) \in SyncCall \union {None}
  BY <1>2, <1>3 DEF Callee
<1>5. Callee(k) # None => k[1] < Callee(k)
  BY <1>2, BodyAssumption DEF Callee
<1> QED
  BY <1>2, <1>4, <1>5 DEF IsLast, LastOf

\* A call is made by one child only.
LEMMA OneCaller ==
    ASSUME NEW k \in Child, NEW l \in Child, Callee(k) = Callee(l), Callee(k) # None
    PROVE  k = l
  BY ChildFacts, BodyAssumption DEF Callee

-----------------------------------------------------------------------------
\* Every step preserves the invariant.

\* The tasks of the scheduler that a worker is at.
Taken == {k \in Task : status[k] \in Active}

LEMMA WorkersAreAtTasks ==
    (NestedType /\ \A c \in SyncCall : Begun(c))
        => OnWorker = Taken
<1> SUFFICES ASSUME NestedType, \A c \in SyncCall : Begun(c)
             PROVE  OnWorker = Taken
  OBVIOUS
<1>1. ASSUME NEW k \in Child, status[k] \in Active, IsLast(k)
      PROVE  stage[k[1]] = "inline"
  BY <1>1, ChildFacts DEF Begun
<1> QED
  BY <1>1 DEF OnWorker, Task, Taken

\* Nobody but a worker that takes a task makes the workers busier.
LEMMA MannedStill ==
    ASSUME NestedInv, NestedType', \A c \in SyncCall : Begun(c)',
           workers' = workers,
           \A k \in Task : status'[k] \in Active => status[k] \in Active
    PROVE  Manned'
<1>1. OnWorker' = Taken'
  <2>1. ((NestedType /\ \A c \in SyncCall : Begun(c))
            => OnWorker = Taken)'
    BY WorkersAreAtTasks, PTL
  <2> QED
    BY <2>1
<1>2. OnWorker = Taken
  BY WorkersAreAtTasks DEF NestedInv
<1>3. OnWorker' \subseteq OnWorker
  BY <1>1, <1>2 DEF Taken
<1>4. Cardinality(OnWorker) \in Nat /\ Cardinality(OnWorker') \in Nat
      /\ Cardinality(OnWorker') <= Cardinality(OnWorker) /\ IsFiniteSet(OnWorker')
  BY <1>3, FS_Subset, FS_CardinalityType DEF NestedInv, Manned
<1> QED
  BY <1>4 DEF NestedInv, Manned, NestedType

\* Where a step changes one child only, of one call.
LEMMA ChildChanges ==
    ASSUME NestedInv, NEW k \in Child, NEW s,
           status' = [status EXCEPT ![k] = s]
    PROVE  /\ status'[k] = s
           /\ \A l \in Child : l # k => status'[l] = status[l]
           /\ \A c \in SyncCall : \A i \in DOMAIN Body[c] :
                  status'[<<c, i>>] = IF <<c, i>> = k THEN s ELSE status[<<c, i>>]
           /\ \A c \in SyncCall : status'[LastOf(c)] =
                  IF LastOf(c) = k THEN s ELSE status[LastOf(c)]
<1>1. \A l \in Child : status'[l] = IF l = k THEN s ELSE status[l]
  BY DEF NestedInv, NestedType
<1> QED
  BY <1>1, BodyFacts

LEMMA CountFacts ==
    ASSUME NestedInv, NEW c \in SyncCall
    PROVE  /\ Out(c) \subseteq 1 .. Len(Body[c])
           /\ IsFiniteSet(Out(c))
           /\ Cardinality(Out(c)) \in Nat /\ Cardinality(Out(c)) <= Len(Body[c])
           /\ left[c] \in Nat
           /\ stage[c] # "idle" =>
                  left[c] = Cardinality(Out(c)) /\ (left[c] = 0 <=> Out(c) = {})
<1>1. Out(c) \subseteq 1 .. Len(Body[c]) /\ Len(Body[c]) \in Nat \ {0}
  BY BodyFacts DEF Out
<1>2. /\ IsFiniteSet(1 .. Len(Body[c]))
      /\ Cardinality(1 .. Len(Body[c])) = Len(Body[c])
  <2>1. 1 \in Int /\ Len(Body[c]) \in Int
    BY <1>1
  <2>2. /\ IsFiniteSet(1 .. Len(Body[c]))
        /\ Cardinality(1 .. Len(Body[c]))
               = IF 1 > Len(Body[c]) THEN 0 ELSE Len(Body[c]) - 1 + 1
    BY <2>1, FS_Interval
  <2> QED
    BY <1>1, <2>2
<1>3. IsFiniteSet(Out(c)) /\ Cardinality(Out(c)) <= Len(Body[c])
  BY <1>1, <1>2, FS_Subset
<1>4. Cardinality(Out(c)) \in Nat /\ (Cardinality(Out(c)) = 0 <=> Out(c) = {})
  BY <1>3, FS_CardinalityType, FS_EmptySet
<1> QED
  BY <1>1, <1>3, <1>4 DEF NestedInv, NestedType, Counted

\* A call whose children stay counted, or not counted, has its counters right still.
LEMMA CountedStill ==
    ASSUME NestedInv, NEW c \in SyncCall,
           stage'[c] # "idle" => stage[c] # "idle",
           left'[c] = left[c], ctr'[c] = ctr[c],
           \A i \in DOMAIN Body[c] :
               \/ status'[<<c, i>>] = status[<<c, i>>]
               \/ status'[<<c, i>>] \in Uncounted /\ status[<<c, i>>] \in Uncounted
    PROVE  Counted(c)'
<1>1. Out(c)' = Out(c)
  BY DEF Out
<1>2. At(c, "then")' = At(c, "then") /\ At(c, "cleanup")' = At(c, "cleanup")
  BY DEF At, Uncounted
<1>3. ThenDue(c)' <=> ThenDue(c)
  BY DEF ThenDue
<1>4. (ThenToCome(c)' <=> ThenToCome(c)) /\ (CleanupToCome(c)' <=> CleanupToCome(c))
  BY <1>2, <1>3 DEF ThenToCome, CleanupToCome
<1> QED
  BY <1>1, <1>2, <1>3, <1>4 DEF NestedInv, Counted

\* A call of which nothing has come through has all before it.
FreshIsCounted ==
    \A e \in SyncCall :
        (/\ \A i \in DOMAIN Body[e] : status[<<e, i>>] = "idle"
         /\ left[e] = Len(Body[e]) /\ ctr[e] = Count(e))
        => Counted(e)

LEMMA CountedFresh == FreshIsCounted
<1> SUFFICES ASSUME NEW e \in SyncCall,
                    \A i \in DOMAIN Body[e] : status[<<e, i>>] = "idle",
                    left[e] = Len(Body[e]), ctr[e] = Count(e)
             PROVE  Counted(e)
  BY DEF FreshIsCounted
<1>1. Out(e) = 1 .. Len(Body[e]) /\ Len(Body[e]) \in Nat \ {0}
  BY BodyFacts DEF Out, Uncounted
<1>2. At(e, "then") = {} /\ At(e, "cleanup") = {}
  BY DEF At
<1>3. Cardinality(Out(e)) = Len(Body[e])
  <2>1. 1 \in Int /\ Len(Body[e]) \in Int
    BY <1>1
  <2>2. Cardinality(1 .. Len(Body[e]))
            = IF 1 > Len(Body[e]) THEN 0 ELSE Len(Body[e]) - 1 + 1
    BY <2>1, FS_Interval
  <2> QED
    BY <1>1, <2>2
<1>4. ThenToCome(e) /\ (CleanupToCome(e) <=> Root[e] = "any")
  BY <1>1, <1>2 DEF ThenToCome, ThenDue, CleanupToCome
<1> QED
  BY <1>2, <1>3, <1>4 DEF Counted, Count, CleanupCount

\* What a child's change is to the children of its call, and to those of others.
LEMMA OneGoes ==
    ASSUME NestedInv, NEW k \in Child, NEW s,
           status' = [status EXCEPT ![k] = s], s \notin Uncounted
    PROVE  /\ \A t \in {"then", "cleanup"} :
                  At(k[1], t)' = IF t = s THEN At(k[1], t) \union {k[2]}
                                          ELSE At(k[1], t) \ {k[2]}
           /\ Out(k[1])' = Out(k[1]) \ {k[2]}
           /\ \A c \in SyncCall : c # k[1] =>
                  \A i \in DOMAIN Body[c] : status'[<<c, i>>] = status[<<c, i>>]
<1>1. k = <<k[1], k[2]>> /\ k[1] \in SyncCall /\ k[2] \in DOMAIN Body[k[1]]
  BY ChildFacts
<1>2. \A c \in SyncCall : \A i \in DOMAIN Body[c] :
          status'[<<c, i>>] = IF c = k[1] /\ i = k[2] THEN s ELSE status[<<c, i>>]
  <2>1. \A l \in Child : status'[l] = IF l = k THEN s ELSE status[l]
    BY DEF NestedInv, NestedType
  <2>2. ASSUME NEW c \in SyncCall, NEW i \in DOMAIN Body[c]
        PROVE  <<c, i>> \in Child /\ (<<c, i>> = k <=> c = k[1] /\ i = k[2])
    BY <1>1, BodyFacts
  <2> QED
    BY <2>1, <2>2
<1> QED
  BY <1>1, <1>2 DEF At, Out

LEMMA ScheduleKeeps ==
    ASSUME NestedInv, NEW c \in SyncCall, Schedule(c)
    PROVE  NestedInv'
<1> DEFINE k == Current(c)
<1>1. /\ k \in Child /\ k[1] = c /\ k[2] = next[c] /\ stage[c] = "fan"
      /\ status[k] = "idle" /\ ~IsLast(k)
  <2>1. stage[c] = "fan" /\ ~IsLast(k) /\ next[c] \in DOMAIN Body[c] /\ next[c] \in Nat
    BY DEF NestedInv, NestedType, Schedule, CanFan
  <2>2. \A i \in DOMAIN Body[c] : status[<<c, i>>] = "idle" <=> i >= next[c]
    BY <2>1 DEF NestedInv, Begun
  <2>3. k \in Child /\ status[k] = "idle"
    BY <2>1, <2>2, BodyFacts DEF Current
  <2> QED
    BY <2>1, <2>3 DEF Current
<1>2. /\ status' = [status EXCEPT ![k] = "queued"]
      /\ next' = [next EXCEPT ![c] = @ + 1]
      /\ workers' = workers /\ stage' = stage /\ left' = left /\ ctr' = ctr
  BY DEF Schedule
<1> HIDE DEF k
<1>3. /\ status'[k] = "queued" /\ \A l \in Child : l # k => status'[l] = status[l]
      /\ \A d \in SyncCall : \A i \in DOMAIN Body[d] :
             status'[<<d, i>>] = IF <<d, i>> = k THEN "queued" ELSE status[<<d, i>>]
      /\ \A d \in SyncCall : status'[LastOf(d)] =
             IF LastOf(d) = k THEN "queued" ELSE status[LastOf(d)]
  <2>1. k \in Child
    BY <1>1
  <2> QED
    BY <1>2, <2>1, ChildChanges
<1>4. NestedType'
  <2>1. next[c] + 1 \in DOMAIN Body[c]
    BY <1>1, BodyFacts DEF NestedInv, NestedType, IsLast
  <2> QED
    BY <1>1, <1>2, <2>1 DEF NestedInv, NestedType
<1>5. ASSUME NEW d \in SyncCall PROVE Begun(d)'
  <2>1. k = <<c, next[c]>> /\ next[c] \in Nat /\ next'[c] = next[c] + 1
    BY <1>1, <1>2, ChildFacts DEF NestedInv, NestedType
  <2>2. LastOf(d) # k
    BY <1>1, BodyFacts
  <2>3. DOMAIN Body[d] \in SUBSET Nat
    BY BodyFacts
  <2>4. CASE d = c
    <3>1. \A i \in DOMAIN Body[c] :
              status'[<<c, i>>] = IF i = next[c] THEN "queued" ELSE status[<<c, i>>]
      BY <1>3, <2>1
    <3>2. \A i \in DOMAIN Body[c] : status[<<c, i>>] = "idle" <=> i >= next[c]
      BY <1>1 DEF NestedInv, Begun
    <3>3. \A i \in DOMAIN Body[c] : status'[<<c, i>>] = "idle" <=> i >= next'[c]
      BY <2>1, <2>3, <2>4, <3>1, <3>2
    <3>4. stage'[c] = "fan" /\ status'[LastOf(c)] = status[LastOf(c)]
      BY <1>1, <1>2, <1>3, <2>2, <2>4
    <3> QED
      BY <1>1, <2>4, <3>3, <3>4 DEF NestedInv, Begun
  <2>5. CASE d # c
    BY <1>1, <1>2, <1>3, <2>1, <2>2, <2>5 DEF NestedInv, NestedType, Begun
  <2> QED
    BY <2>4, <2>5
<1>6. ASSUME NEW l \in Child PROVE Called(l)'
  BY <1>1, <1>2, <1>3 DEF NestedInv, Called
<1>7. Manned'
  BY <1>2, <1>3, <1>4, <1>5, MannedStill DEF Task, Active
<1>8. ASSUME NEW d \in SyncCall PROVE Counted(d)'
  BY <1>1, <1>2, <1>3, CountedStill DEF Uncounted
<1> QED
  BY <1>2, <1>4, <1>5, <1>6, <1>7, <1>8 DEF NestedInv

LEMMA RunInlineKeeps ==
    ASSUME NestedInv, NEW c \in SyncCall, RunInline(c)
    PROVE  NestedInv'
<1> DEFINE k == Current(c)
<1>1. /\ k \in Child /\ k = LastOf(c) /\ stage[c] = "fan"
      /\ status[k] = "idle" /\ IsLast(k)
  BY BodyFacts, ChildFacts
     DEF NestedInv, NestedType, Begun, RunInline, CanFan, Current
<1>2. /\ status' = [status EXCEPT ![k] = "running"]
      /\ stage' = [stage EXCEPT ![c] = "inline"]
      /\ workers' = workers /\ next' = next /\ left' = left /\ ctr' = ctr
  BY DEF RunInline
<1> HIDE DEF k
<1>3. /\ status'[k] = "running" /\ \A l \in Child : l # k => status'[l] = status[l]
      /\ \A d \in SyncCall : \A i \in DOMAIN Body[d] :
             status'[<<d, i>>] = IF <<d, i>> = k THEN "running" ELSE status[<<d, i>>]
      /\ \A d \in SyncCall : status'[LastOf(d)] =
             IF LastOf(d) = k THEN "running" ELSE status[LastOf(d)]
  BY <1>1, <1>2, ChildChanges
<1>4. NestedType'
  BY <1>1, <1>2 DEF NestedInv, NestedType, Active
<1>5. ASSUME NEW d \in SyncCall PROVE Begun(d)'
  <2>1. CASE d = c
    <3>1. \A i \in DOMAIN Body[c] : status'[<<c, i>>] # "idle"
      <4>1. next[c] = Len(Body[c])
        BY <1>1 DEF RunInline, IsLast, Current
      <4>2. \A i \in DOMAIN Body[c] : i < next[c] \/ <<c, i>> = k
        BY <1>1, <4>1, BodyFacts DEF LastOf
      <4> QED
        <5>1. \A i \in DOMAIN Body[c] : status[<<c, i>>] = "idle" <=> i >= next[c]
          BY <1>1 DEF NestedInv, Begun
        <5>2. \A i \in DOMAIN Body[c] : <<c, i>> # k => status[<<c, i>>] # "idle"
          BY <4>1, <4>2, <5>1, BodyFacts
        <5> QED
          BY <1>3, <5>2
    <3>2. stage'[c] = "inline"
      BY <1>2 DEF NestedInv, NestedType
    <3> QED
      BY <1>1, <1>3, <2>1, <3>1, <3>2 DEF Begun, Active
  <2>2. CASE d # c
    <3>1. \A i \in DOMAIN Body[d] : <<d, i>> # k
      BY <1>1, <2>2 DEF LastOf
    <3>2. LastOf(d) # k /\ stage'[d] = stage[d]
      BY <1>1, <1>2, <2>2 DEF LastOf, NestedInv, NestedType
    <3> QED
      BY <1>2, <1>3, <3>1, <3>2 DEF NestedInv, Begun
  <2> QED
    BY <2>1, <2>2
<1>6. ASSUME NEW l \in Child PROVE Called(l)'
  BY <1>1, <1>2, <1>3, ChildFacts DEF NestedInv, NestedType, Called
<1>7. Manned'
  BY <1>1, <1>2, <1>3, <1>4, <1>5, MannedStill DEF Task
<1>8. \A d \in Outermost : stage'[d] # "idle"
  BY <1>2 DEF NestedInv, NestedType, Outermost
<1>9. ASSUME NEW d \in SyncCall PROVE Counted(d)'
  <2>1. stage'[d] # "idle" => stage[d] # "idle"
    BY <1>1, <1>2 DEF NestedInv, NestedType
  <2> QED
    BY <1>1, <1>2, <1>3, <2>1, CountedStill DEF Uncounted
<1> QED
  BY <1>4, <1>5, <1>6, <1>7, <1>8, <1>9 DEF NestedInv

LEMMA StartKeeps ==
    ASSUME NestedInv, NEW k \in Child, Start(k)
    PROVE  NestedInv'
<1>1. /\ status[k] = "queued" /\ ~IsLast(k) /\ k \in Task
      /\ Cardinality(OnWorker) < workers
  BY DEF Start, CanStart, NestedInv, Called, Task
<1>2. /\ status' = [status EXCEPT ![k] = "running"]
      /\ workers' = workers /\ stage' = stage /\ next' = next
      /\ left' = left /\ ctr' = ctr
  BY DEF Start
<1>3. /\ status'[k] = "running" /\ \A l \in Child : l # k => status'[l] = status[l]
      /\ \A d \in SyncCall : \A i \in DOMAIN Body[d] :
             status'[<<d, i>>] = IF <<d, i>> = k THEN "running" ELSE status[<<d, i>>]
      /\ \A d \in SyncCall : status'[LastOf(d)] =
             IF LastOf(d) = k THEN "running" ELSE status[LastOf(d)]
  BY <1>2, ChildChanges
<1>4. NestedType'
  BY <1>2 DEF NestedInv, NestedType, Active
<1>5. ASSUME NEW d \in SyncCall PROVE Begun(d)'
  <2>1. LastOf(d) # k
    BY <1>1, BodyFacts
  <2>2. \A i \in DOMAIN Body[d] :
            /\ status'[<<d, i>>] = "idle" <=> status[<<d, i>>] = "idle"
            /\ status[<<d, i>>] = "through" => status'[<<d, i>>] = "through"
    BY <1>1, <1>3
  <2> QED
    BY <1>2, <1>3, <2>1, <2>2 DEF NestedInv, Begun
<1>6. ASSUME NEW l \in Child PROVE Called(l)'
  BY <1>1, <1>2, <1>3 DEF NestedInv, Called
<1>7. Manned'
  <2>1. OnWorker = Taken
    BY WorkersAreAtTasks DEF NestedInv
  <2>2. OnWorker' = Taken'
    <3>1. ((NestedType /\ \A c \in SyncCall : Begun(c))
              => OnWorker = Taken)'
      BY WorkersAreAtTasks, PTL
    <3> QED
      BY <1>4, <1>5, <3>1
  <2>3. OnWorker' = OnWorker \union {k}
    BY <1>1, <1>3, <2>1, <2>2 DEF Task, Taken, Active
  <2>4. k \notin OnWorker
    BY <1>1, <2>1 DEF Taken, Active
  <2>5. /\ IsFiniteSet(OnWorker') /\ Cardinality(OnWorker) \in Nat
        /\ Cardinality(OnWorker') = Cardinality(OnWorker) + 1
    BY <2>3, <2>4, FS_AddElement, FS_CardinalityType DEF NestedInv, Manned
  <2>6. workers \in Nat
    BY WorkersAssumption DEF NestedInv, NestedType
  <2> QED
    BY <1>1, <1>2, <2>5, <2>6 DEF Manned
<1>8. ASSUME NEW d \in SyncCall PROVE Counted(d)'
  BY <1>1, <1>2, <1>3, CountedStill DEF Uncounted
<1> QED
  BY <1>2, <1>4, <1>5, <1>6, <1>7, <1>8 DEF NestedInv

LEMMA CallKeeps ==
    ASSUME NestedInv, NEW k \in Child, Call(k)
    PROVE  NestedInv'
<1> DEFINE c == Callee(k)
<1>1. /\ status[k] = "running" /\ c # None /\ c \in SyncCall /\ k[1] < c
      /\ k[1] \in Nat /\ k[1] \in SyncCall /\ stage[c] = "idle" /\ c \in Nat
  BY ChildFacts, BodyFacts DEF Call, CanCall, NestedInv, Called
<1>2. /\ status' = [status EXCEPT ![k] = "calling"]
      /\ stage' = [stage EXCEPT ![c] = "fan"]
      /\ left' = [left EXCEPT ![c] = Len(Body[c])]
      /\ ctr' = [ctr EXCEPT ![c] = Count(c)]
      /\ workers' = workers /\ next' = next
  BY DEF Call
<1> HIDE DEF c
<1>3. /\ status'[k] = "calling" /\ \A l \in Child : l # k => status'[l] = status[l]
      /\ \A d \in SyncCall : \A i \in DOMAIN Body[d] :
             status'[<<d, i>>] = IF <<d, i>> = k THEN "calling" ELSE status[<<d, i>>]
      /\ \A d \in SyncCall : status'[LastOf(d)] =
             IF LastOf(d) = k THEN "calling" ELSE status[LastOf(d)]
  BY <1>2, ChildChanges
<1>4. NestedType'
  <2>1. Len(Body[c]) \in Nat /\ Count(c) \in Int
    BY <1>1, BodyFacts DEF Count, CleanupCount
  <2> QED
    BY <1>1, <1>2, <2>1 DEF NestedInv, NestedType, Active
<1>5. /\ stage'[c] = "fan" /\ \A d \in SyncCall : d # c => stage'[d] = stage[d]
  BY <1>1, <1>2 DEF NestedInv, NestedType
<1>6. ASSUME NEW d \in SyncCall PROVE Begun(d)'
  <2>1. \A i \in DOMAIN Body[d] :
            /\ status'[<<d, i>>] = "idle" <=> status[<<d, i>>] = "idle"
            /\ status[<<d, i>>] = "through" <=> status'[<<d, i>>] = "through"
    BY <1>1, <1>3
  <2>2. /\ status'[LastOf(d)] \in Active <=> status[LastOf(d)] \in Active
        /\ status'[LastOf(d)] = "through" <=> status[LastOf(d)] = "through"
    BY <1>1, <1>3 DEF Active
  <2>3. stage'[d] = stage[d] \/ (stage[d] = "idle" /\ stage'[d] = "fan")
    BY <1>1, <1>5
  <2> QED
    BY <1>2, <2>1, <2>2, <2>3 DEF NestedInv, Begun
<1>7. ASSUME NEW l \in Child PROVE Called(l)'
  <2>1. CASE l = k
    BY <1>1, <1>3, <1>5, <2>1 DEF Called, c
  <2>2. CASE l # k
    <3>1. Callee(l) # None => Callee(l) \in SyncCall /\ Callee(l) # c
      BY <1>1, <2>2, OneCaller, ChildFacts DEF c
    <3> QED
      BY <1>3, <1>5, <2>2, <3>1 DEF NestedInv, Called
  <2> QED
    BY <2>1, <2>2
<1>8. Manned'
  BY <1>1, <1>2, <1>3, <1>4, <1>6, MannedStill DEF Task, Active
<1>9. \A d \in Outermost : stage'[d] # "idle"
  BY <1>5 DEF NestedInv, Outermost
<1>10. ASSUME NEW d \in SyncCall PROVE Counted(d)'
  <2>1. CASE d = c
    <3>1. next[c] = 1 /\ \A i \in DOMAIN Body[c] : i >= 1
      BY <1>1, BodyFacts DEF NestedInv, Begun
    <3>2. \A i \in DOMAIN Body[c] : status[<<c, i>>] = "idle"
      BY <1>1, <3>1 DEF NestedInv, Begun
    <3>3. \A i \in DOMAIN Body[c] : status'[<<c, i>>] = "idle"
      BY <1>1, <1>3, <3>2
    <3>4. left'[c] = Len(Body[c]) /\ ctr'[c] = Count(c)
      BY <1>1, <1>2 DEF NestedInv, NestedType
    <3>5. FreshIsCounted'
      BY CountedFresh, PTL
    <3> QED
      BY <1>1, <2>1, <3>3, <3>4, <3>5 DEF FreshIsCounted, Count, CleanupCount
  <2>2. CASE d # c
    <3>1. left'[d] = left[d] /\ ctr'[d] = ctr[d] /\ stage'[d] = stage[d]
      BY <1>2, <1>5, <2>2 DEF NestedInv, NestedType
    <3> QED
      BY <1>1, <1>3, <3>1, CountedStill DEF Uncounted
  <2> QED
    BY <2>1, <2>2
<1> QED
  BY <1>4, <1>6, <1>7, <1>8, <1>9, <1>10 DEF NestedInv

\* A child that is counted, or has counted down, is somewhere further.
LEMMA GoToKeeps ==
    ASSUME NestedInv, NEW k \in Child, NEW s \in {"then", "cleanup", "through"},
           GoTo(k, s), CanFinish(k) \/ CanCountDown(k),
           left' \in [SyncCall -> Nat], ctr' \in [SyncCall -> Int],
           \A d \in SyncCall : d # k[1] => left'[d] = left[d] /\ ctr'[d] = ctr[d],
           Counted(k[1])'
    PROVE  NestedInv'
<1> DEFINE c == k[1]
<1>1. /\ status[k] \in Active /\ c \in SyncCall
      /\ IsLast(k) <=> k = LastOf(c)
      /\ k = <<k[1], k[2]>>
      /\ Callee(k) # None => stage[Callee(k)] = "returned" /\ Callee(k) \in SyncCall
      /\ IsLast(k) => stage[c] = "inline"
  BY ChildFacts DEF CanFinish, CanCountDown, NestedInv, Called, Begun, Active
<1>2. /\ status' = [status EXCEPT ![k] = s]
      /\ stage' = IF s = "through" /\ IsLast(k)
                  THEN [stage EXCEPT ![c] = "wait"] ELSE stage
      /\ workers' = workers /\ next' = next
  BY DEF GoTo
<1> HIDE DEF c
<1>3. /\ status'[k] = s /\ \A l \in Child : l # k => status'[l] = status[l]
      /\ \A d \in SyncCall : \A i \in DOMAIN Body[d] :
             status'[<<d, i>>] = IF <<d, i>> = k THEN s ELSE status[<<d, i>>]
      /\ \A d \in SyncCall : status'[LastOf(d)] =
             IF LastOf(d) = k THEN s ELSE status[LastOf(d)]
  <2>1. \A l \in Child : status'[l] = IF l = k THEN s ELSE status[l]
    BY <1>2 DEF NestedInv, NestedType
  <2> QED
    BY <2>1, BodyFacts
<1>4. NestedType'
  BY <1>1, <1>2 DEF NestedInv, NestedType, Active
<1>5. /\ IsLast(k) /\ s = "through" => stage'[c] = "wait"
      /\ ~(IsLast(k) /\ s = "through") => stage'[c] = stage[c]
      /\ \A d \in SyncCall : d # c => stage'[d] = stage[d]
  BY <1>1, <1>2 DEF NestedInv, NestedType
<1>6. ASSUME NEW d \in SyncCall PROVE Begun(d)'
  <2>1. \A i \in DOMAIN Body[d] :
            /\ status'[<<d, i>>] = "idle" <=> status[<<d, i>>] = "idle"
            /\ status[<<d, i>>] = "through" => status'[<<d, i>>] = "through"
    BY <1>1, <1>3 DEF Active
  <2>2. CASE d = c /\ IsLast(k)
    BY <1>1, <1>2, <1>3, <1>5, <2>1, <2>2 DEF NestedInv, Begun, Active
  <2>3. CASE ~(d = c /\ IsLast(k))
    <3>1. LastOf(d) # k
      BY <1>1, <2>3 DEF LastOf, c
    <3>2. stage'[d] = stage[d]
      BY <1>5, <2>3
    <3> QED
      BY <1>2, <1>3, <2>1, <3>1, <3>2 DEF NestedInv, Begun
  <2> QED
    BY <2>2, <2>3
<1>7. ASSUME NEW l \in Child PROVE Called(l)'
  <2>1. Callee(l) # None => /\ Callee(l) \in SyncCall
                            /\ stage'[Callee(l)] = stage[Callee(l)]
                               \/ (stage[Callee(l)] = "inline"
                                   /\ stage'[Callee(l)] = "wait")
    BY <1>1, <1>5, ChildFacts
  <2>2. CASE l = k
    BY <1>1, <1>3, <2>1, <2>2 DEF Called
  <2>3. CASE l # k
    BY <1>3, <2>1, <2>3 DEF NestedInv, Called
  <2> QED
    BY <2>2, <2>3
<1>8. Manned'
  BY <1>1, <1>2, <1>3, <1>4, <1>6, MannedStill DEF Task
<1>9. \A d \in Outermost : stage'[d] # "idle"
  BY <1>1, <1>5 DEF NestedInv, Outermost
<1>10. ASSUME NEW d \in SyncCall PROVE Counted(d)'
  <2>1. CASE d = c
    BY <2>1 DEF c
  <2>2. CASE d # c
    <3>1. \A i \in DOMAIN Body[d] : status'[<<d, i>>] = status[<<d, i>>]
      BY <1>1, <1>3, <2>2 DEF c
    <3> QED
      BY <1>5, <2>2, <3>1, CountedStill DEF c
  <2> QED
    BY <2>1, <2>2
<1> QED
  BY <1>4, <1>6, <1>7, <1>8, <1>9, <1>10 DEF NestedInv

\* A child at work is one of a call that has begun.
LEMMA AtWork ==
    ASSUME NestedInv, NEW k \in Child, status[k] \in Active
    PROVE  stage[k[1]] # "idle"
<1>1. k = <<k[1], k[2]>> /\ k[1] \in SyncCall /\ k[2] \in DOMAIN Body[k[1]]
  BY ChildFacts
<1>2. DOMAIN Body[k[1]] \in SUBSET Nat /\ \A i \in DOMAIN Body[k[1]] : i >= 1
  BY <1>1, BodyFacts
<1>3. status[<<k[1], k[2]>>] # "idle"
  BY <1>1 DEF Active
<1> QED
  BY <1>1, <1>2, <1>3 DEF NestedInv, Begun

LEMMA FinishKeeps ==
    ASSUME NestedInv, NEW k \in Child, Finish(k)
    PROVE  NestedInv'
<1>0. PICK c \in SyncCall : c = k[1]
  BY ChildFacts
<1> DEFINE r == left[c]
           s == AfterCount(c, r)
<1>1. /\ CanFinish(k) /\ GoTo(k, s) /\ ctr' = ctr
      /\ left' = [left EXCEPT ![c] = r - 1]
      /\ status' = [status EXCEPT ![k] = s]
  BY <1>0 DEF Finish, GoTo
<1>2. /\ status[k] \in {"running", "calling"}
      /\ k = <<k[1], k[2]>> /\ c \in SyncCall /\ k[2] \in DOMAIN Body[c]
      /\ stage[c] # "idle" /\ Counted(c)
      /\ Len(Body[c]) \in Nat \ {0}
      /\ Root[c] \in {"all", "any"}
  BY <1>0, <1>1, ChildFacts, BodyFacts, AtWork, RootAssumption
     DEF CanFinish, Active, NestedInv
<1>3. /\ k[2] \in Out(c) /\ IsFiniteSet(Out(c)) /\ r = Cardinality(Out(c))
      /\ r \in Nat /\ r # 0 /\ r <= Len(Body[c])
  <2>1. status[<<c, k[2]>>] \in Uncounted
    BY <1>0, <1>2 DEF Uncounted
  <2> QED
    BY <1>2, <2>1, CountFacts DEF Out
<1>4. s \in {"then", "cleanup", "through"} /\ s \notin Uncounted
  BY DEF AfterCount, Uncounted
<1>5. /\ left'[c] = r - 1 /\ ctr'[c] = ctr[c]
      /\ \A d \in SyncCall : d # c => left'[d] = left[d] /\ ctr'[d] = ctr[d]
      /\ left' \in [SyncCall -> Nat] /\ ctr' \in [SyncCall -> Int]
  BY <1>1, <1>2, <1>3 DEF NestedInv, NestedType
<1> HIDE DEF s, r
<1>6. /\ \A t \in {"then", "cleanup"} :
             At(c, t)' = IF t = s THEN At(c, t) \union {k[2]} ELSE At(c, t) \ {k[2]}
      /\ Out(c)' = Out(c) \ {k[2]}
  BY <1>0, <1>1, <1>4, OneGoes
<1>7. Cardinality(Out(c))' = r - 1
  <2>1. Cardinality(Out(c) \ {k[2]}) = Cardinality(Out(c)) - 1
    BY <1>3, FS_RemoveElement
  <2> QED
    BY <1>3, <1>6, <2>1
<1>8. /\ k[2] \notin At(c, "then") /\ k[2] \notin At(c, "cleanup")
      /\ At(c, "cleanup") = {}
  BY <1>0, <1>2, <1>3 DEF At, Counted, r
<1>9. /\ At(c, "then")' = IF s = "then" THEN At(c, "then") \union {k[2]}
                                        ELSE At(c, "then")
      /\ At(c, "cleanup")' = IF s = "cleanup" THEN {k[2]} ELSE {}
  BY <1>4, <1>6, <1>8
<1>10. ASSUME s = "then" PROVE Counted(c)'
  <2>1. RunsThen(c, r)
    BY <1>10 DEF s, AfterCount
  <2>2. ThenDue(c) /\ At(c, "then") = {} /\ (CleanupToCome(c) <=> Root[c] = "any")
    BY <1>2, <1>3, <2>1 DEF RunsThen, ThenDue, Counted, CleanupToCome, r
  <2>3. At(c, "then")' = {k[2]} /\ At(c, "cleanup")' = {}
    BY <1>9, <1>10, <2>2
  <2>4. /\ ~ThenDue(c)' /\ ThenToCome(c)'
        /\ CleanupToCome(c)' <=> Root[c] = "any"
    <3>1. left'[c] = r - 1 /\ r - 1 # Len(Body[c]) /\ r - 1 \in Nat
      BY <1>2, <1>3, <1>5
    <3>2. r = IF Root[c] = "any" THEN Len(Body[c]) ELSE 1
      BY <2>1 DEF RunsThen
    <3>3. ~ThenDue(c)'
      BY <1>2, <3>1, <3>2 DEF ThenDue
    <3>4. ThenToCome(c)'
      BY <2>3 DEF ThenToCome
    <3>5. Root[c] = "any" => CleanupToCome(c)'
      <4>1. Root[c] = "any" => left'[c] > 0 \/ Len(Body[c]) = 1
        <5> SUFFICES ASSUME Root[c] = "any" PROVE left'[c] > 0 \/ Len(Body[c]) = 1
          OBVIOUS
        <5>1. PICK n \in Nat \ {0} : n = Len(Body[c])
          BY <1>2
        <5>2. left'[c] = n - 1
          BY <3>1, <3>2, <5>1
        <5>3. n - 1 > 0 \/ n = 1
          OBVIOUS
        <5> QED
          BY <5>1, <5>2, <5>3
      <4> QED
        BY <2>3, <4>1 DEF CleanupToCome
    <3>6. CleanupToCome(c)' => Root[c] = "any"
      BY DEF CleanupToCome
    <3> QED
      BY <3>3, <3>4, <3>5, <3>6
  <2> QED
    <3>1. ctr'[c] = (IF ThenToCome(c)' THEN 1 ELSE 0)
                        + (IF CleanupToCome(c)' THEN 1 ELSE 0)
      BY <1>2, <1>5, <2>2, <2>4 DEF Counted, ThenToCome
    <3>2. \A i, j \in At(c, "then")' : i = j
      BY <2>3
    <3>3. \A i, j \in At(c, "cleanup")' : i = j
      BY <2>3
    <3>4. At(c, "cleanup")' # {} => Root[c] = "any" /\ left'[c] = 0
      BY <2>3
    <3>5. ThenDue(c)' => At(c, "then")' = {}
      BY <2>4
    <3> QED
      BY <1>5, <1>7, <3>1, <3>2, <3>3, <3>4, <3>5 DEF Counted
<1>11. ASSUME s = "cleanup" PROVE Counted(c)'
  <2>1. ~RunsThen(c, r) /\ RunsCleanup(c, r)
    BY <1>11 DEF s, AfterCount
  <2>2. /\ Root[c] = "any" /\ r = 1 /\ ~ThenDue(c) /\ CleanupToCome(c)
    BY <2>1 DEF RunsThen, RunsCleanup, ThenDue, CleanupToCome, r
  <2>3. At(c, "then")' = At(c, "then") /\ At(c, "cleanup")' = {k[2]}
    BY <1>9, <1>11
  <2>4. /\ ~ThenDue(c)' /\ (ThenToCome(c)' <=> ThenToCome(c)) /\ CleanupToCome(c)'
    <3>1. left'[c] = 0 /\ Len(Body[c]) # 0
      BY <1>2, <1>5, <2>2
    <3>2. ~ThenDue(c)'
      BY <2>2, <3>1 DEF ThenDue
    <3>3. ThenToCome(c)' <=> ThenToCome(c)
      BY <2>2, <2>3, <3>2 DEF ThenToCome
    <3>4. CleanupToCome(c)'
      BY <2>2, <2>3 DEF CleanupToCome
    <3> QED
      BY <3>2, <3>3, <3>4
  <2> QED
    <3>1. ctr'[c] = (IF ThenToCome(c)' THEN 1 ELSE 0)
                        + (IF CleanupToCome(c)' THEN 1 ELSE 0)
      BY <1>2, <1>5, <2>2, <2>4 DEF Counted
    <3>2. \A i, j \in At(c, "then")' : i = j
      BY <1>2, <2>3 DEF Counted
    <3>3. \A i, j \in At(c, "cleanup")' : i = j
      BY <2>3
    <3>4. At(c, "cleanup")' # {} => Root[c] = "any" /\ left'[c] = 0
      BY <1>5, <2>2
    <3>5. ThenDue(c)' => At(c, "then")' = {}
      BY <2>4
    <3> QED
      BY <1>5, <1>7, <3>1, <3>2, <3>3, <3>4, <3>5 DEF Counted
<1>12. ASSUME s = "through" PROVE Counted(c)'
  <2>1. ~RunsThen(c, r) /\ ~RunsCleanup(c, r)
    BY <1>12 DEF s, AfterCount
  <2>2. r > 1 /\ At(c, "then")' = At(c, "then") /\ At(c, "cleanup")' = {}
    BY <1>2, <1>3, <1>9, <1>12, <2>1 DEF RunsThen, RunsCleanup
  <2>3. ThenDue(c)' <=> ThenDue(c)
    BY <1>2, <1>3, <1>5, <2>1, <2>2 DEF RunsThen, ThenDue, r
  <2>4. /\ ThenToCome(c)' <=> ThenToCome(c)
        /\ CleanupToCome(c)' <=> CleanupToCome(c)
    BY <1>3, <1>5, <2>2, <2>3 DEF ThenToCome, CleanupToCome, r
  <2> QED
    <3>1. ctr'[c] = (IF ThenToCome(c)' THEN 1 ELSE 0)
                        + (IF CleanupToCome(c)' THEN 1 ELSE 0)
      BY <1>2, <1>5, <2>4 DEF Counted
    <3>2. \A i, j \in At(c, "then")' : i = j
      BY <1>2, <2>2 DEF Counted
    <3>3. \A i, j \in At(c, "cleanup")' : i = j
      BY <2>2
    <3>4. At(c, "cleanup")' # {} => Root[c] = "any" /\ left'[c] = 0
      BY <2>2
    <3>5. ThenDue(c)' => At(c, "then")' = {}
      BY <1>2, <2>2, <2>3 DEF Counted
    <3> QED
      BY <1>5, <1>7, <3>1, <3>2, <3>3, <3>4, <3>5 DEF Counted
<1>13. Counted(c)'
  BY <1>4, <1>10, <1>11, <1>12
<1> QED
  BY <1>0, <1>1, <1>4, <1>5, <1>13, GoToKeeps

\* A child that counts down takes one off the latch.
LEMMA CountDownChanges ==
    ASSUME NestedInv, NEW k \in Child, NEW s \in {"cleanup", "through"},
           status[k] \in {"then", "cleanup"}, status[k] # s,
           left' = left, ctr' = [ctr EXCEPT ![k[1]] = @ - 1], GoTo(k, s)
    PROVE  /\ k[1] \in SyncCall /\ k[2] \in DOMAIN Body[k[1]]
           /\ Root[k[1]] \in {"all", "any"} /\ Len(Body[k[1]]) \in Nat \ {0}
           /\ DOMAIN Body[k[1]] = 1 .. Len(Body[k[1]])
           /\ Counted(k[1]) /\ stage[k[1]] # "idle"
           /\ left[k[1]] \in Nat /\ left[k[1]] <= Len(Body[k[1]])
           /\ CanCountDown(k) /\ k[2] \in At(k[1], status[k])
           /\ \A t \in {"then", "cleanup"} \ {status[k]} : k[2] \notin At(k[1], t)
           /\ \A t \in {"then", "cleanup"} :
                  At(k[1], t)' = IF t = s THEN At(k[1], t) \union {k[2]}
                                          ELSE At(k[1], t) \ {k[2]}
           /\ Out(k[1])' = Out(k[1])
           /\ ctr'[k[1]] = ctr[k[1]] - 1 /\ ctr[k[1]] \in Int
           /\ \A d \in SyncCall : d # k[1] => left'[d] = left[d] /\ ctr'[d] = ctr[d]
           /\ left' \in [SyncCall -> Nat] /\ ctr' \in [SyncCall -> Int]
<1>1. /\ k = <<k[1], k[2]>> /\ k[1] \in SyncCall /\ k[2] \in DOMAIN Body[k[1]]
      /\ Len(Body[k[1]]) \in Nat \ {0} /\ DOMAIN Body[k[1]] = 1 .. Len(Body[k[1]])
  BY ChildFacts, BodyFacts
<1>2. stage[k[1]] # "idle" /\ Counted(k[1]) /\ Root[k[1]] \in {"all", "any"}
  BY <1>1, AtWork, RootAssumption DEF Active, NestedInv
<1>3. left[k[1]] \in Nat /\ left[k[1]] <= Len(Body[k[1]])
  BY <1>1, <1>2, CountFacts
<1>4. CanCountDown(k) /\ k[2] \in At(k[1], status[k])
      /\ \A t \in {"then", "cleanup"} \ {status[k]} : k[2] \notin At(k[1], t)
  BY <1>1 DEF CanCountDown, At
<1>5. status' = [status EXCEPT ![k] = s] /\ s \notin Uncounted
  BY DEF GoTo, Uncounted
<1>6. k[2] \notin Out(k[1])
  BY <1>1 DEF Out, Uncounted
<1>7. /\ \A t \in {"then", "cleanup"} :
             At(k[1], t)' = IF t = s THEN At(k[1], t) \union {k[2]}
                                     ELSE At(k[1], t) \ {k[2]}
      /\ Out(k[1])' = Out(k[1])
  <2>1. Out(k[1]) \ {k[2]} = Out(k[1])
    BY <1>6
  <2>2. Out(k[1])' = Out(k[1]) \ {k[2]}
    BY <1>5, OneGoes
  <2>3. \A t \in {"then", "cleanup"} :
            At(k[1], t)' = IF t = s THEN At(k[1], t) \union {k[2]}
                                    ELSE At(k[1], t) \ {k[2]}
    BY <1>5, OneGoes
  <2> QED
    BY <2>1, <2>2, <2>3
<1>8. /\ ctr'[k[1]] = ctr[k[1]] - 1 /\ ctr[k[1]] \in Int
      /\ \A d \in SyncCall : d # k[1] => left'[d] = left[d] /\ ctr'[d] = ctr[d]
      /\ left' \in [SyncCall -> Nat] /\ ctr' \in [SyncCall -> Int]
  BY <1>1 DEF NestedInv, NestedType
<1> QED
  BY <1>1, <1>2, <1>3, <1>4, <1>7, <1>8

LEMMA ThenKeeps ==
    ASSUME NestedInv, NEW k \in Child, Then(k)
    PROVE  NestedInv'
<1>0. PICK c \in SyncCall : c = k[1]
  BY ChildFacts
<1>1. PICK s : s = IF RunsCleanup(c, Len(Body[c])) THEN "cleanup" ELSE "through"
  OBVIOUS
<1>2. /\ status[k] = "then" /\ GoTo(k, s) /\ left' = left
      /\ ctr' = [ctr EXCEPT ![c] = @ - 1] /\ s \in {"cleanup", "through"}
      /\ status[k] # s
  BY <1>0, <1>1 DEF Then
<1>3. /\ c \in SyncCall /\ k[2] \in DOMAIN Body[c]
      /\ Root[c] \in {"all", "any"} /\ Len(Body[c]) \in Nat \ {0}
      /\ DOMAIN Body[c] = 1 .. Len(Body[c])
      /\ Counted(c) /\ stage[c] # "idle"
      /\ left[c] \in Nat /\ left[c] <= Len(Body[c])
      /\ CanCountDown(k) /\ k[2] \in At(c, "then") /\ k[2] \notin At(c, "cleanup")
      /\ At(c, "then")' = At(c, "then") \ {k[2]}
      /\ At(c, "cleanup")' = IF s = "cleanup" THEN At(c, "cleanup") \union {k[2]}
                                              ELSE At(c, "cleanup") \ {k[2]}
      /\ Out(c)' = Out(c)
      /\ ctr'[c] = ctr[c] - 1 /\ ctr[c] \in Int
      /\ \A d \in SyncCall : d # c => left'[d] = left[d] /\ ctr'[d] = ctr[d]
      /\ left' \in [SyncCall -> Nat] /\ ctr' \in [SyncCall -> Int]
  <2>1. CASE s = "cleanup"
    <3>1. /\ GoTo(k, "cleanup") /\ status[k] # "cleanup"
          /\ status[k] \in {"then", "cleanup"}
      BY <1>2, <2>1
    <3>2. /\ \A t \in {"then", "cleanup"} \ {"then"} : k[2] \notin At(c, t)
          /\ \A t \in {"then", "cleanup"} :
                 At(c, t)' = IF t = "cleanup" THEN At(c, t) \union {k[2]}
                                              ELSE At(c, t) \ {k[2]}
      BY <1>0, <1>2, <3>1, CountDownChanges
    <3>3. k[2] \in At(c, "then")
      BY <1>0, <1>2, <3>1, CountDownChanges
    <3> QED
      BY <1>0, <1>2, <2>1, <3>1, <3>2, <3>3, CountDownChanges
  <2>2. CASE s = "through"
    <3>1. /\ GoTo(k, "through") /\ status[k] # "through"
          /\ status[k] \in {"then", "cleanup"}
      BY <1>2, <2>2
    <3>2. /\ \A t \in {"then", "cleanup"} \ {"then"} : k[2] \notin At(c, t)
          /\ \A t \in {"then", "cleanup"} :
                 At(c, t)' = IF t = "through" THEN At(c, t) \union {k[2]}
                                              ELSE At(c, t) \ {k[2]}
      BY <1>0, <1>2, <3>1, CountDownChanges
    <3>3. k[2] \in At(c, "then")
      BY <1>0, <1>2, <3>1, CountDownChanges
    <3> QED
      BY <1>0, <1>2, <2>2, <3>1, <3>2, <3>3, CountDownChanges
  <2> QED
    BY <1>2, <2>1, <2>2
<1>4. At(c, "then") = {k[2]} /\ ~ThenDue(c) /\ ThenToCome(c)
  BY <1>3 DEF Counted, ThenToCome
<1>5. At(c, "then")' = {} /\ ~ThenDue(c)' /\ ~ThenToCome(c)'
  BY <1>2, <1>3, <1>4 DEF ThenDue, ThenToCome
<1>6. ASSUME s = "cleanup" PROVE Counted(c)'
  <2>1. Root[c] = "any" /\ Len(Body[c]) = 1
    BY <1>1, <1>6 DEF RunsCleanup
  <2>2. left[c] = 0 /\ At(c, "cleanup") = {}
    <3>1. \A i \in DOMAIN Body[c] : i = k[2]
      BY <1>3, <2>1
    <3> QED
      BY <1>3, <1>4, <2>1, <3>1 DEF ThenDue, At
  <2>3. CleanupToCome(c) /\ CleanupToCome(c)'
    BY <1>3, <1>4, <1>6, <2>1 DEF CleanupToCome
  <2> QED
    BY <1>2, <1>3, <1>4, <1>5, <1>6, <2>1, <2>2, <2>3 DEF Counted
<1>7. ASSUME s = "through" PROVE Counted(c)'
  <2>1. ~(Root[c] = "any" /\ Len(Body[c]) = 1)
    BY <1>1, <1>7 DEF RunsCleanup
  <2>2. At(c, "cleanup")' = At(c, "cleanup")
    BY <1>3, <1>7
  <2>3. CleanupToCome(c)' <=> CleanupToCome(c)
    BY <1>2, <2>1, <2>2 DEF CleanupToCome
  <2> QED
    BY <1>2, <1>3, <1>4, <1>5, <2>2, <2>3 DEF Counted
<1>8. Counted(c)'
  BY <1>2, <1>6, <1>7
<1> QED
  BY <1>0, <1>2, <1>3, <1>8, GoToKeeps

LEMMA CleanupKeeps ==
    ASSUME NestedInv, NEW k \in Child, Cleanup(k)
    PROVE  NestedInv'
<1>0. PICK c \in SyncCall : c = k[1]
  BY ChildFacts
<1>1. /\ status[k] = "cleanup" /\ GoTo(k, "through") /\ left' = left
      /\ ctr' = [ctr EXCEPT ![c] = @ - 1]
  BY <1>0 DEF Cleanup
<1>2. /\ c \in SyncCall /\ k[2] \in DOMAIN Body[c]
      /\ Root[c] \in {"all", "any"} /\ Len(Body[c]) \in Nat \ {0}
      /\ DOMAIN Body[c] = 1 .. Len(Body[c])
      /\ Counted(c) /\ stage[c] # "idle"
      /\ CanCountDown(k) /\ k[2] \in At(c, "cleanup") /\ k[2] \notin At(c, "then")
      /\ At(c, "then")' = At(c, "then") /\ At(c, "cleanup")' = At(c, "cleanup") \ {k[2]}
      /\ Out(c)' = Out(c)
      /\ ctr'[c] = ctr[c] - 1 /\ ctr[c] \in Int
      /\ \A d \in SyncCall : d # c => left'[d] = left[d] /\ ctr'[d] = ctr[d]
      /\ left' \in [SyncCall -> Nat] /\ ctr' \in [SyncCall -> Int]
  <2>1. /\ \A t \in {"then", "cleanup"} \ {"cleanup"} : k[2] \notin At(c, t)
        /\ \A t \in {"then", "cleanup"} :
               At(c, t)' = IF t = "through" THEN At(c, t) \union {k[2]}
                                            ELSE At(c, t) \ {k[2]}
    BY <1>0, <1>1, CountDownChanges
  <2>2. /\ k[2] \notin At(c, "then") /\ At(c, "then")' = At(c, "then") \ {k[2]}
        /\ At(c, "cleanup")' = At(c, "cleanup") \ {k[2]}
    BY <2>1
  <2>3. At(c, "then") \ {k[2]} = At(c, "then")
    BY <2>2
  <2>4. k[2] \in At(c, "cleanup")
    BY <1>0, <1>1, CountDownChanges
  <2> QED
    BY <1>0, <1>1, <2>2, <2>3, <2>4, CountDownChanges
<1>3. /\ At(c, "cleanup") = {k[2]} /\ Root[c] = "any" /\ left[c] = 0
      /\ CleanupToCome(c)
  BY <1>2 DEF Counted, CleanupToCome
<1>4. Len(Body[c]) = 1 => At(c, "then") = {}
  <2> SUFFICES ASSUME Len(Body[c]) = 1 PROVE At(c, "then") = {}
    OBVIOUS
  <2>1. \A i \in DOMAIN Body[c] : i = k[2]
    BY <1>2
  <2>2. At(c, "then") \subseteq DOMAIN Body[c]
    BY DEF At
  <2> QED
    BY <1>2, <2>1, <2>2
<1>5. At(c, "cleanup")' = {} /\ ~CleanupToCome(c)'
  BY <1>1, <1>2, <1>3, <1>4 DEF CleanupToCome
<1>6. (ThenDue(c)' <=> ThenDue(c)) /\ (ThenToCome(c)' <=> ThenToCome(c))
  BY <1>1, <1>2 DEF ThenDue, ThenToCome
<1>7. Counted(c)'
  BY <1>1, <1>2, <1>3, <1>5, <1>6 DEF Counted
<1> QED
  BY <1>0, <1>1, <1>2, <1>7, GoToKeeps

\* A latch that is at zero has nobody left to wait for.
LEMMA OpenIsOver ==
    ASSUME NestedInv, NEW c \in SyncCall, CanReturn(c)
    PROVE  \A i \in DOMAIN Body[c] : status[<<c, i>>] = "through"
<1>1. /\ ctr[c] = 0 /\ stage[c] # "idle" /\ Counted(c)
      /\ left[c] \in Nat /\ (left[c] = 0 <=> Out(c) = {})
      /\ Root[c] \in {"all", "any"} /\ Len(Body[c]) \in Nat \ {0}
  BY CountFacts, BodyFacts, RootAssumption DEF CanReturn, NestedInv
<1>2. ~ThenToCome(c) /\ ~CleanupToCome(c)
  BY <1>1 DEF Counted
<1>3. left[c] = 0 /\ At(c, "then") = {}
  BY <1>1, <1>2 DEF ThenToCome, ThenDue, CleanupToCome
<1>4. Out(c) = {} /\ At(c, "cleanup") = {}
  BY <1>1, <1>2, <1>3 DEF CleanupToCome, Counted
<1>5. ASSUME NEW i \in DOMAIN Body[c] PROVE status[<<c, i>>] = "through"
  <2>1. status[<<c, i>>] \in {"idle", "queued", "through"} \union Active
    BY BodyFacts DEF NestedInv, NestedType
  <2>2. /\ status[<<c, i>>] \notin Uncounted
        /\ status[<<c, i>>] # "then" /\ status[<<c, i>>] # "cleanup"
    BY <1>3, <1>4 DEF Out, At
  <2> QED
    BY <2>1, <2>2 DEF Active, Uncounted
<1> QED
  BY <1>5

LEMMA ReturnKeeps ==
    ASSUME NestedInv, NEW c \in SyncCall, Return(c)
    PROVE  NestedInv'
<1>1. /\ stage[c] = "wait"
      /\ \A i \in DOMAIN Body[c] : status[<<c, i>>] = "through"
      /\ stage' = [stage EXCEPT ![c] = "returned"]
      /\ workers' = workers /\ next' = next /\ status' = status
      /\ left' = left /\ ctr' = ctr
  BY OpenIsOver DEF Return, CanReturn
<1>2. /\ stage'[c] = "returned" /\ \A d \in SyncCall : d # c => stage'[d] = stage[d]
  BY <1>1 DEF NestedInv, NestedType
<1>3. NestedType'
  BY <1>1 DEF NestedInv, NestedType
<1>4. ASSUME NEW d \in SyncCall PROVE Begun(d)'
  BY <1>1, <1>2 DEF NestedInv, Begun
<1>5. ASSUME NEW l \in Child PROVE Called(l)'
  BY <1>1, <1>2, ChildFacts DEF NestedInv, Called
<1>6. Manned'
  BY <1>1, <1>3, <1>4, MannedStill
<1>7. \A d \in Outermost : stage'[d] # "idle"
  BY <1>2 DEF NestedInv, Outermost
<1>8. ASSUME NEW d \in SyncCall PROVE Counted(d)'
  <2>1. stage'[d] # "idle" => stage[d] # "idle"
    BY <1>1, <1>2
  <2> QED
    BY <1>1, <2>1, CountedStill
<1> QED
  BY <1>3, <1>4, <1>5, <1>6, <1>7, <1>8 DEF NestedInv

LEMMA InitNested == Init => NestedInv
<1> SUFFICES ASSUME Init PROVE NestedInv
  OBVIOUS
<1>1. /\ \A k \in Child : status[k] = "idle"
      /\ \A c \in SyncCall : /\ stage[c] = IF c \in Outermost THEN "fan" ELSE "idle"
                             /\ next[c] = 1 /\ status[LastOf(c)] = "idle"
                             /\ \A i \in DOMAIN Body[c] : status[<<c, i>>] = "idle"
  BY BodyFacts DEF Init
<1>2. NestedType
  <2>1. \A c \in SyncCall : Len(Body[c]) \in Nat /\ Count(c) \in Int
    BY BodyFacts DEF Count, CleanupCount
  <2> QED
    BY <2>1, BodyFacts DEF Init, NestedType
<1>3. ASSUME NEW c \in SyncCall PROVE Begun(c)
  <2>1. \A i \in DOMAIN Body[c] : i >= 1
    BY BodyFacts
  <2> QED
    BY <1>1, <2>1 DEF Begun, Active
<1>4. ASSUME NEW k \in Child PROVE Called(k)
  <2>1. Callee(k) # None => Callee(k) \in SyncCall \ Outermost
    BY ChildFacts DEF Outermost, Callers
  <2> QED
    BY <1>1, <2>1 DEF Called
<1>5. Manned
  <2>1. OnWorker = {}
    BY <1>1 DEF OnWorker, Active
  <2> QED
    BY <1>2, <2>1, FS_EmptySet, WorkersAssumption DEF Manned, NestedType
<1>6. ASSUME NEW c \in SyncCall PROVE Counted(c)
  <2>1. CASE c \in Outermost
    BY <1>1, <2>1, CountedFresh DEF Init, FreshIsCounted
  <2>2. CASE c \notin Outermost
    BY <1>1, <2>2 DEF Counted
  <2> QED
    BY <2>1, <2>2
<1> QED
  BY <1>1, <1>2, <1>3, <1>4, <1>5, <1>6 DEF NestedInv, Outermost

\* Where calls and their children are, and that no worker has two tasks.
THEOREM NestedInvariant == Spec => []NestedInv
<1>1. NestedInv /\ [Next]_vars => NestedInv'
  <2> SUFFICES ASSUME NestedInv, [Next]_vars PROVE NestedInv'
    OBVIOUS
  <2>1. ASSUME NEW c \in SyncCall, CallStep(c) PROVE NestedInv'
    BY <2>1, ScheduleKeeps, RunInlineKeeps, ReturnKeeps DEF CallStep
  <2>2. ASSUME NEW k \in Child, ChildStep(k) PROVE NestedInv'
    BY <2>2, StartKeeps, CallKeeps, FinishKeeps, ThenKeeps, CleanupKeeps
       DEF ChildStep
  <2>3. CASE UNCHANGED vars
    <3>1. \A c \in SyncCall : Begun(c)' /\ Counted(c)'
      <4>1. \A c \in SyncCall : Begun(c)'
        BY <2>3 DEF vars, NestedInv, Begun
      <4>2. \A c \in SyncCall : Counted(c)'
        BY <2>3, CountedStill DEF vars
      <4> QED
        BY <4>1, <4>2
    <3> QED
      BY <2>3, <3>1 DEF vars, NestedInv, NestedType, Called, Manned, OnWorker
  <2> QED
    BY <2>1, <2>2, <2>3 DEF Next
<1> QED
  BY <1>1, InitNested, PTL DEF Spec

-----------------------------------------------------------------------------
\* When everyone waits for everyone.

\* A finite set of naturals that is not empty has a greatest element.
LEMMA Greatest ==
    ASSUME NEW S \in SUBSET Nat, IsFiniteSet(S), S # {}
    PROVE  \E m \in S : \A n \in S : n <= m
<1> DEFINE Above(n) == {x \in S : x > n}
           Sizes == {Cardinality(Above(n)) : n \in S}
           R == OpToRel(<, Nat)
<1>1. \A n \in S : IsFiniteSet(Above(n)) /\ Cardinality(Above(n)) \in Nat
  BY FS_Subset, FS_CardinalityType
<1>2. Sizes \in SUBSET Nat /\ Sizes # {}
  BY <1>1
<1>3. PICK s \in Sizes : \A r \in Sizes : <<r, s>> \notin R
  <2>1. IsWellFoundedOn(R, Nat)
    BY NatLessThanWellFounded
  <2> HIDE DEF R, Sizes
  <2> QED
    BY <1>2, <2>1, WFMin
<1>4. PICK m \in S : s = Cardinality(Above(m))
  BY <1>3
<1>5. ASSUME NEW n \in S, n > m PROVE FALSE
  <2>1. Above(n) \subseteq Above(m) /\ n \in Above(m) /\ n \notin Above(n)
    <3> HIDE DEF R, Sizes
    <3>1. n \in Nat /\ m \in Nat /\ n > m /\ \A x \in S : x \in Nat
      BY <1>5
    <3>2. n \in Above(m) /\ n \notin Above(n)
      BY <3>1
    <3>3. \A x \in S : x > n => x > m
      BY <3>1
    <3> QED
      BY <3>2, <3>3
  <2>2. Cardinality(Above(n)) < Cardinality(Above(m))
    <3>1. Cardinality(Above(n)) <= Cardinality(Above(m))
      BY <1>1, <2>1, FS_Subset
    <3>2. Cardinality(Above(n)) # Cardinality(Above(m))
      BY <1>1, <2>1, FS_Subset
    <3> QED
      BY <1>1, <3>1, <3>2
  <2>3. <<Cardinality(Above(n)), s>> \in R
    BY <1>1, <1>4, <2>2 DEF OpToRel
  <2>4. Cardinality(Above(n)) \in Sizes
    OBVIOUS
  <2> HIDE DEF R, Sizes, Above
  <2> QED
    BY <1>3, <2>3, <2>4
<1> QED
  BY <1>5

\* The calls that have begun and not returned.
Pending == {c \in SyncCall : stage[c] \notin {"idle", "returned"}}

\* If nobody can go on, a call that is not over waits for a child, on its own
\* thread or in the latch; one that a child makes is not over if the child is not.
LEMMA StuckCall ==
    ASSUME NestedInv, Stuck, NEW c \in Pending
    PROVE  \/ /\ stage[c] = "inline" /\ status[LastOf(c)] = "calling"
           \/ /\ stage[c] = "wait"
              /\ \E i \in DOMAIN Body[c] :
                     /\ i # Len(Body[c])
                     /\ status[<<c, i>>] \in {"queued", "calling"}
<1>1. c \in SyncCall /\ Begun(c) /\ stage[c] \in {"inline", "wait"}
  BY DEF Pending, NestedInv, NestedType, Stuck, CanFan
<1>2. \A k \in Child : status[k] \notin {"running", "then", "cleanup"}
  BY DEF Stuck, CanCall, CanFinish, CanCountDown
<1>3. CASE stage[c] = "inline"
  BY <1>1, <1>2, <1>3, BodyFacts DEF Begun, Active
<1>4. CASE stage[c] = "wait"
  <2>1. PICK i \in DOMAIN Body[c] : status[<<c, i>>] \in Uncounted
    <3>1. /\ ctr[c] # 0 /\ Counted(c) /\ Len(Body[c]) \in Nat \ {0}
          /\ left[c] = 0 <=> Out(c) = {}
      BY <1>1, <1>4, BodyFacts, CountFacts DEF Stuck, CanReturn, NestedInv
    <3>2. At(c, "then") = {} /\ At(c, "cleanup") = {}
      BY <1>1, <1>2, BodyFacts DEF At
    <3>3. ThenToCome(c) \/ CleanupToCome(c)
      BY <1>4, <3>1 DEF Counted
    <3>4. left[c] # 0
      BY <3>1, <3>2, <3>3 DEF ThenToCome, ThenDue, CleanupToCome
    <3> QED
      BY <3>1, <3>4 DEF Out
  <2>2. status[<<c, i>>] # "idle" /\ status[LastOf(c)] = "through"
    BY <1>1, <1>4 DEF Begun
  <2>3. i # Len(Body[c])
    BY <2>1, <2>2 DEF LastOf, Uncounted
  <2>4. status[<<c, i>>] \in {"queued", "calling"}
    BY <1>1, <1>2, <2>1, <2>2, BodyFacts DEF Uncounted
  <2> QED
    BY <1>4, <2>3, <2>4
<1> QED
  BY <1>1, <1>3, <1>4

LEMMA StuckChild ==
    ASSUME NestedInv, Stuck, NEW k \in Child, status[k] = "calling"
    PROVE  Callee(k) \in Pending /\ k[1] < Callee(k)
<1>1. Callee(k) # None /\ stage[Callee(k)] # "idle"
  BY DEF NestedInv, Called
<1>2. stage[Callee(k)] # "returned"
  BY DEF Stuck, CanFinish
<1> QED
  BY <1>1, <1>2, ChildFacts DEF Pending

\* Of calls that are pending the last one has a task in the queue.
LEMMA StuckQueue ==
    ASSUME NestedInv, Stuck, Pending # {}
    PROVE  \E k \in Child : status[k] = "queued"
<1>1. Pending \in SUBSET Nat /\ IsFiniteSet(Pending)
  BY SyncCallAssumption, FS_Subset DEF Pending
<1>2. PICK c \in Pending : \A d \in Pending : d <= c
  BY <1>1, Greatest
<1>3. c \in SyncCall /\ c \in Nat
  BY <1>1 DEF Pending
<1>4. ASSUME NEW k \in Child, k[1] = c, status[k] = "calling" PROVE FALSE
  <2>1. Callee(k) \in Pending /\ c < Callee(k)
    BY <1>4, StuckChild
  <2>2. Callee(k) \in Nat /\ Callee(k) <= c
    BY <1>1, <1>2, <2>1
  <2> HIDE DEF Callee
  <2> QED
    BY <1>3, <2>1, <2>2
<1>5. status[LastOf(c)] # "calling"
  BY <1>3, <1>4, BodyFacts DEF LastOf
<1>6. PICK i \in DOMAIN Body[c] : status[<<c, i>>] \in {"queued", "calling"}
  BY <1>5, StuckCall
<1>7. <<c, i>> \in Child /\ <<c, i>>[1] = c
  BY <1>3, BodyFacts
<1> QED
  BY <1>4, <1>6, <1>7

\* CallsOf holds the callee of its child, and with a call that of its last child.
LEMMA CallsOfFacts ==
    ASSUME NEW k \in Child
    PROVE  /\ CallsOf[k] \subseteq SyncCall
           /\ Callee(k) # None => Callee(k) \in CallsOf[k]
           /\ \A c \in CallsOf[k] : Callee(LastOf(c)) # None
                                        => Callee(LastOf(c)) \in CallsOf[k]
<1> DEFINE Closed(C) == /\ Callee(k) \in C \union {None}
                        /\ \A d \in C : Body[d][Len(Body[d])] \in C \union {None}
<1>1. CallsOf[k] = {c \in SyncCall : \A C \in SUBSET SyncCall : Closed(C) => c \in C}
  BY DEF CallsOf
<1>2. Callee(k) # None => Callee(k) \in CallsOf[k]
  BY <1>1, ChildFacts
<1>3. ASSUME NEW c \in CallsOf[k], Callee(LastOf(c)) # None
      PROVE  Callee(LastOf(c)) \in CallsOf[k]
  <2>1. c \in SyncCall /\ LastOf(c) \in Child
    BY <1>1, BodyFacts
  <2>2. Callee(LastOf(c)) = Body[c][Len(Body[c])]
    BY DEF Callee, LastOf
  <2>3. Callee(LastOf(c)) \in SyncCall
    BY <1>3, <2>1, ChildFacts
  <2>4. ASSUME NEW C \in SUBSET SyncCall, Closed(C)
        PROVE  Callee(LastOf(c)) \in C
    <3>1. c \in C
      BY <1>1, <1>3, <2>4
    <3> QED
      BY <1>3, <2>2, <2>4, <3>1
  <2> HIDE DEF Closed
  <2> QED
    BY <1>1, <2>3, <2>4
<1> QED
  BY <1>1, <1>2, <1>3

\* A worker that is kept is kept by a task that waits for other tasks.
LEMMA StuckWorker ==
    ASSUME NestedInv, Stuck, NEW k \in OnWorker
    PROVE  k \in Blockers
<1>1. k \in Task /\ k \in Child /\ status[k] = "calling"
  <2>1. k \in Taken
    BY WorkersAreAtTasks DEF NestedInv
  <2> QED
    BY <2>1 DEF Taken, Task, Stuck, CanCall, CanFinish, CanCountDown, Active
<1> DEFINE S == CallsOf[k] \intersect Pending
<1>2. Callee(k) \in S
  <2>1. Callee(k) \in Pending
    BY <1>1, StuckChild
  <2>2. Callee(k) # None
    BY <1>1 DEF NestedInv, Called
  <2> QED
    BY <1>1, <2>1, <2>2, CallsOfFacts
<1>3. S \in SUBSET Nat /\ IsFiniteSet(S)
  BY SyncCallAssumption, FS_Subset DEF Pending
<1>4. PICK c \in S : \A d \in S : d <= c
  <2> HIDE DEF S
  <2> QED
    BY <1>2, <1>3, Greatest
<1>5. c \in SyncCall /\ c \in Nat /\ c \in CallsOf[k] /\ c \in Pending
  BY <1>3 DEF Pending
<1>6. status[LastOf(c)] # "calling"
  <2> SUFFICES ASSUME status[LastOf(c)] = "calling" PROVE FALSE
    OBVIOUS
  <2>1. LastOf(c) \in Child /\ LastOf(c)[1] = c
    BY <1>5, BodyFacts DEF LastOf
  <2>2. Callee(LastOf(c)) \in Pending /\ c < Callee(LastOf(c))
    BY <2>1, StuckChild
  <2>3. Callee(LastOf(c)) # None
    BY <2>1 DEF NestedInv, Called
  <2>4. Callee(LastOf(c)) \in S
    BY <1>1, <1>5, <2>2, <2>3, CallsOfFacts
  <2>5. Callee(LastOf(c)) \in Nat
    BY <1>3, <2>4
  <2> QED
    BY <1>4, <1>5, <2>2, <2>4, <2>5
<1>7. PICK i \in DOMAIN Body[c] : i # Len(Body[c])
  BY <1>5, <1>6, StuckCall
<1>8. Len(Body[c]) > 1
  BY <1>5, <1>7, BodyFacts
<1> QED
  BY <1>1, <1>5, <1>8 DEF Blockers

LEMMA StuckStarves ==
    ASSUME NestedInv, Stuck, ~Returned
    PROVE  /\ Cardinality(OnWorker) = workers
           /\ OnWorker \subseteq Blockers
           /\ \E k \in Child : status[k] = "queued"
<1>1. Pending # {}
  BY DEF Pending, Returned, Outermost, NestedInv
<1>2. PICK k \in Child : status[k] = "queued"
  BY <1>1, StuckQueue
<1>3. ~(Cardinality(OnWorker) < workers)
  BY <1>2 DEF Stuck, CanStart
<1>4. Cardinality(OnWorker) = workers
  BY <1>3, FS_CardinalityType, WorkersAssumption
     DEF NestedInv, Manned, NestedType
<1> QED
  BY <1>2, <1>4, StuckWorker

\* sync_execute called from tasks: if ever nobody can go on, then because every
\* worker is kept by a task that waits for tasks behind it in the queue.
THEOREM HangsAreStarvation == Spec => []HangsOnlyStarved
<1>1. NestedInv => HangsOnlyStarved
  BY StuckStarves DEF HangsOnlyStarved
<1> QED
  BY <1>1, NestedInvariant, PTL

LEMMA BlockersAreFinite == IsFiniteSet(Blockers)
<1> DEFINE Of(c) == {c} \X DOMAIN Body[c]
           S == {Of(c) : c \in SyncCall}
           f == [c \in SyncCall |-> Of(c)]
<1>1. \A c \in SyncCall : IsFiniteSet(Of(c))
  <2> TAKE c \in SyncCall
  <2>1. IsFiniteSet({c}) /\ IsFiniteSet(1 .. Len(Body[c]))
    <3>1. Len(Body[c]) \in Int
      BY BodyFacts
    <3>2. IsFiniteSet({c})
      BY FS_Singleton
    <3> QED
      BY <3>1, <3>2, FS_Interval
  <2> QED
    BY <2>1, BodyFacts, FS_Product
<1>2. IsFiniteSet(S)
  <2>1. f \in Surjection(SyncCall, S)
    BY DEF Surjection
  <2> HIDE DEF f, S
  <2> QED
    BY <2>1, FS_Surjection, SyncCallAssumption
<1>3. \A T \in S : IsFiniteSet(T)
  BY <1>1
<1>4. IsFiniteSet(UNION S)
  <2> HIDE DEF S
  <2> QED
    BY <1>2, <1>3, FS_UNION
<1>5. Child = UNION S
  BY DEF Child
<1> QED
  BY <1>4, <1>5, FS_Subset DEF Blockers, Task

\* A pool with more workers than there are tasks that wait for tasks never hangs:
\* until the client's calls have returned, somebody can go on.
THEOREM EnoughWorkersNeverHang ==
    Spec => [](workers > Cardinality(Blockers) /\ Stuck => Returned)
<1>1. ASSUME NestedInv
      PROVE  workers > Cardinality(Blockers) /\ Stuck => Returned
  <2> SUFFICES ASSUME workers > Cardinality(Blockers), Stuck, ~Returned
               PROVE  FALSE
    OBVIOUS
  <2>1. Cardinality(OnWorker) = workers /\ OnWorker \subseteq Blockers
    BY <1>1, StuckStarves
  <2>2. Cardinality(OnWorker) <= Cardinality(Blockers)
    BY <2>1, BlockersAreFinite, FS_Subset
  <2>3. workers \in Nat /\ Cardinality(Blockers) \in Nat
    BY <1>1, BlockersAreFinite, FS_CardinalityType, WorkersAssumption
       DEF NestedInv, NestedType
  <2> QED
    BY <2>1, <2>2, <2>3
<1> QED
  BY <1>1, NestedInvariant, PTL

\* The latch of a call opens with the last of the count_downs that cleanup_count()
\* foretold, and by then every child of its root, the losers of an any too, and with
\* nested calls all that was started below them, is over.
THEOREM NothingIsLeftBehind == Spec => []NothingOutlivesItsCall
<1>1. ASSUME NestedInv, NEW c \in SyncCall, stage[c] = "returned",
             NEW k \in Child, k[1] \in Within[c]
      PROVE  status[k] = "through"
  <2> DEFINE C == {d \in SyncCall : stage[d] = "returned"}
  <2>1. \A e \in C : \A i \in DOMAIN Body[e] : Body[e][i] \in C \union {None}
    <3> SUFFICES ASSUME NEW e \in C, NEW i \in DOMAIN Body[e], Body[e][i] # None
                 PROVE  Body[e][i] \in C
      OBVIOUS
    <3>1. <<e, i>> \in Child /\ Callee(<<e, i>>) = Body[e][i]
      BY BodyFacts
    <3>2. status[<<e, i>>] = "through"
      BY <1>1 DEF NestedInv, Begun
    <3> QED
      BY <1>1, <3>1, <3>2, ChildFacts DEF NestedInv, Called
  <2>2. k[1] \in C
    BY <1>1, <2>1 DEF Within
  <2>3. k = <<k[1], k[2]>> /\ k[2] \in DOMAIN Body[k[1]]
    BY ChildFacts
  <2> QED
    BY <1>1, <2>2, <2>3 DEF NestedInv, Begun
<1>2. NestedInv => NothingOutlivesItsCall
  BY <1>1 DEF NothingOutlivesItsCall
<1> QED
  BY <1>2, NestedInvariant, PTL

=============================================================================
