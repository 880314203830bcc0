----------------------------- MODULE LatchProofs -----------------------------
(***************************************************************************)
(* Proofs about module Latch, for any number of counting and waiting       *)
(* threads, of a bool or an int latch, scoped or not.                      *)
(***************************************************************************)
EXTENDS Latch, FiniteSetTheorems, TLAPS

\* Where each thread is in its call.
PCType ==
    /\ mtx \in Thread \union {Nobody}
    /\ pc \in [Thread -> CounterLabel \union WaiterLabel]
    /\ \A c \in Counter : pc[c] \in CounterLabel
    /\ \A w \in Waiter : pc[w] \in WaiterLabel
    /\ \A w \in Waiter : pc[w] = "destroyed" => Scoped

\* The mutex is held by exactly the thread whose place in its call says so: no
\* action tests for it, save those that lock.
MutexHeld == \A t \in Thread : pc[t] \in Holding <=> mtx = t

\* What the counter tells of the count_down() calls made so far.
CounterTells ==
    IF Binary
    THEN ctr \in BOOLEAN /\ (ctr = TRUE <=> Arrived # {})
    ELSE ctr = Cardinality(Counter) - Cardinality(Arrived)

\* A waiter that has seen the latch open, and holds or has released the mutex
\* after that, leaves no counting thread behind if every one of them counts.
Outlived ==
    (~Binary \/ Scoped) =>
        \A w \in Waiter :
            pc[w] \in {"leave", "returned", "destroyed"}
                => \A c \in Counter : pc[c] = "returned"

\* The inductive invariant.
LatchInv ==
    /\ PCType
    /\ MutexHeld
    /\ CounterTells
    /\ NoLostWakeup
    /\ WaitersSeeOpen
    /\ Outlived

-----------------------------------------------------------------------------
\* The calls made are a finite set, with one more element after a decrement.
LEMMA ArrivedFinite ==
    /\ IsFiniteSet(Counter)
    /\ IsFiniteSet(Arrived)
    /\ Cardinality(Counter) \in Nat
    /\ Cardinality(Arrived) \in 0 .. Cardinality(Counter)
<1>1. IsFiniteSet(Counter)
  BY ThreadsAssumption
<1>2. Arrived \subseteq Counter
  BY DEF Arrived
<1>3. /\ IsFiniteSet(Arrived)
      /\ Cardinality(Arrived) <= Cardinality(Counter)
  BY <1>1, <1>2, FS_Subset
<1>4. Cardinality(Counter) \in Nat /\ Cardinality(Arrived) \in Nat
  BY <1>1, <1>3, FS_CardinalityType
<1> QED
  BY <1>1, <1>3, <1>4

\* All counting threads have made their call when as many have as there are.
LEMMA AllArrived ==
    Cardinality(Arrived) = Cardinality(Counter) => Arrived = Counter
<1> HAVE Cardinality(Arrived) = Cardinality(Counter)
<1>1. Arrived \subseteq Counter
  BY DEF Arrived
<1> QED
  BY <1>1, ArrivedFinite, FS_Subset

\* An open latch: what a waiter knows when it holds the mutex and sees it.
LEMMA OpenMeansCounted ==
    ASSUME PCType, CounterTells, Done(ctr)
    PROVE  IF Binary THEN Arrived # {} ELSE Arrived = Counter
<1>1. CASE Binary
  BY <1>1 DEF CounterTells, Done, Abstract!Done
<1>2. CASE ~Binary
  <2>1. ctr = 0 /\ ctr = Cardinality(Counter) - Cardinality(Arrived)
    BY <1>2 DEF CounterTells, Done, Abstract!Done
  <2>2. Cardinality(Arrived) = Cardinality(Counter)
    BY <2>1, ArrivedFinite
  <2> QED
    BY <1>2, <2>2, AllArrived
<1> QED
  BY <1>1, <1>2

-----------------------------------------------------------------------------
LEMMA LatchInit == Init => LatchInv
<1> SUFFICES ASSUME Init PROVE LatchInv
  OBVIOUS
<1> USE DEF Init, Thread
<1>1. PCType
  BY DEF PCType, CounterLabel, WaiterLabel
<1>2. MutexHeld
  BY ThreadsAssumption DEF MutexHeld, Holding
<1>3. Arrived = {}
  BY DEF Arrived
<1>4. CounterTells
  BY <1>3, ArrivedFinite, FS_EmptySet DEF CounterTells, Initial
<1>5. NoLostWakeup /\ WaitersSeeOpen /\ Outlived
  BY DEF NoLostWakeup, WaitersSeeOpen, Outlived
<1> QED
  BY <1>1, <1>2, <1>4, <1>5 DEF LatchInv

-----------------------------------------------------------------------------
\* One lemma per action: it preserves the invariant.

LEMMA LockToCountKeeps ==
    ASSUME LatchInv, NEW c \in Counter, LockToCount(c)
    PROVE  LatchInv'
<1> USE DEF LatchInv, LockToCount, Goto, Thread
<1>1. PCType'
  BY ThreadsAssumption DEF PCType, CounterLabel, WaiterLabel
<1>2. MutexHeld'
  BY ThreadsAssumption DEF MutexHeld, PCType, Holding
<1>3. Arrived' = Arrived
  BY DEF PCType, Arrived
<1>4. CounterTells' /\ WaitersSeeOpen'
  BY <1>3, ThreadsAssumption DEF CounterTells, WaitersSeeOpen, PCType
<1>5. NoLostWakeup'
  BY ThreadsAssumption DEF NoLostWakeup, PCType, Done, Abstract!Done
<1>6. Outlived'
  BY ThreadsAssumption DEF Outlived, PCType
<1> QED
  BY <1>1, <1>2, <1>4, <1>5, <1>6

LEMMA CountKeeps ==
    ASSUME LatchInv, NEW c \in Counter, Count(c)
    PROVE  LatchInv'
<1> USE DEF LatchInv, Count, Goto, Thread
<1>1. PCType'
  BY ThreadsAssumption DEF PCType, CounterLabel, WaiterLabel
<1>2. MutexHeld'
  BY ThreadsAssumption DEF MutexHeld, PCType, Holding
<1>3. Arrived' = Arrived \union {c} /\ c \notin Arrived
  BY DEF PCType, Arrived
<1>4. Cardinality(Arrived') = Cardinality(Arrived) + 1
  BY <1>3, ArrivedFinite, FS_AddElement
<1>5. CounterTells'
  BY <1>3, <1>4, ArrivedFinite
     DEF CounterTells, Decrement, Abstract!Decrement
<1>6. WaitersSeeOpen'
  BY <1>3, ThreadsAssumption DEF WaitersSeeOpen, PCType, Arrived
<1>7. NoLostWakeup'
  BY DEF NoLostWakeup, PCType
<1>8. Outlived'
  BY ThreadsAssumption DEF Outlived, PCType
<1> QED
  BY <1>1, <1>2, <1>5, <1>6, <1>7, <1>8

LEMMA NotifyAllKeeps ==
    ASSUME LatchInv, NEW c \in Counter, NotifyAll(c)
    PROVE  LatchInv'
<1> USE DEF LatchInv, NotifyAll, Thread
<1>1. PCType'
  BY ThreadsAssumption DEF PCType, CounterLabel, WaiterLabel
<1>2. MutexHeld'
  BY ThreadsAssumption DEF MutexHeld, PCType, Holding
<1>3. Arrived' = Arrived
  BY DEF PCType, Arrived, CounterLabel
<1>4. CounterTells' /\ WaitersSeeOpen'
  BY <1>3, ThreadsAssumption DEF CounterTells, WaitersSeeOpen, PCType
<1>5. NoLostWakeup'
  BY ThreadsAssumption DEF NoLostWakeup, PCType
<1>6. Outlived'
  BY ThreadsAssumption DEF Outlived, PCType
<1> QED
  BY <1>1, <1>2, <1>4, <1>5, <1>6

LEMMA UnlockCountedKeeps ==
    ASSUME LatchInv, NEW c \in Counter, UnlockCounted(c)
    PROVE  LatchInv'
<1> USE DEF LatchInv, UnlockCounted, Goto, Thread
<1>1. PCType'
  BY ThreadsAssumption DEF PCType, CounterLabel, WaiterLabel
<1>2. MutexHeld'
  BY ThreadsAssumption DEF MutexHeld, PCType, Holding
<1>3. Arrived' = Arrived
  BY DEF PCType, Arrived
<1>4. CounterTells' /\ WaitersSeeOpen'
  BY <1>3, ThreadsAssumption DEF CounterTells, WaitersSeeOpen, PCType
<1>5. NoLostWakeup'
  BY ThreadsAssumption DEF NoLostWakeup, PCType, Done, Abstract!Done
<1>6. Outlived'
  BY ThreadsAssumption DEF Outlived, PCType
<1> QED
  BY <1>1, <1>2, <1>4, <1>5, <1>6

LEMMA LockToWaitKeeps ==
    ASSUME LatchInv, NEW w \in Waiter, LockToWait(w)
    PROVE  LatchInv'
<1> USE DEF LatchInv, LockToWait, Goto, Thread
<1>1. PCType'
  BY ThreadsAssumption DEF PCType, WaiterLabel
<1>2. MutexHeld'
  BY ThreadsAssumption DEF MutexHeld, PCType, Holding
<1>3. Arrived' = Arrived
  BY ThreadsAssumption DEF PCType, Arrived
<1>4. CounterTells' /\ WaitersSeeOpen'
  BY <1>3 DEF CounterTells, WaitersSeeOpen, PCType
<1>5. NoLostWakeup'
  BY ThreadsAssumption DEF NoLostWakeup, PCType, Done, Abstract!Done
<1>6. Outlived'
  BY ThreadsAssumption DEF Outlived, PCType
<1> QED
  BY <1>1, <1>2, <1>4, <1>5, <1>6

\* The step everything hinges on: with the mutex in its hands, a waiter that
\* sees the latch open knows no counting thread to be between its decrement and
\* its return.
LEMMA SeeOpenKeeps ==
    ASSUME LatchInv, NEW w \in Waiter, SeeOpen(w)
    PROVE  LatchInv'
<1> USE DEF LatchInv, SeeOpen, Goto, Thread
<1>1. PCType'
  BY ThreadsAssumption DEF PCType, WaiterLabel
<1>2. MutexHeld'
  BY ThreadsAssumption DEF MutexHeld, PCType, Holding
<1>3. Arrived' = Arrived
  BY ThreadsAssumption DEF PCType, Arrived
<1>4. IF Binary THEN Arrived # {} ELSE Arrived = Counter
  BY OpenMeansCounted
<1>5. CounterTells' /\ WaitersSeeOpen'
  BY <1>3, <1>4 DEF CounterTells, WaitersSeeOpen, PCType
<1>6. NoLostWakeup'
  BY ThreadsAssumption DEF NoLostWakeup, PCType, Done, Abstract!Done
<1>7. \A c \in Counter : pc[c] \notin {"notify", "unlock"}
  BY ThreadsAssumption DEF MutexHeld, Holding
<1>8. (~Binary \/ Scoped) => Arrived = Counter
  BY <1>4, ScopedAssumption DEF Arrived
<1>9. Outlived'
  BY <1>7, <1>8, ThreadsAssumption DEF Outlived, PCType, Arrived
<1> QED
  BY <1>1, <1>2, <1>5, <1>6, <1>9

LEMMA ParkKeeps ==
    ASSUME LatchInv, NEW w \in Waiter, Park(w)
    PROVE  LatchInv'
<1> USE DEF LatchInv, Park, Goto, Thread
<1>1. PCType'
  BY ThreadsAssumption DEF PCType, WaiterLabel
<1>2. MutexHeld'
  BY ThreadsAssumption DEF MutexHeld, PCType, Holding
<1>3. Arrived' = Arrived
  BY ThreadsAssumption DEF PCType, Arrived
<1>4. CounterTells' /\ WaitersSeeOpen'
  BY <1>3 DEF CounterTells, WaitersSeeOpen, PCType
<1>5. NoLostWakeup'
  BY ThreadsAssumption DEF NoLostWakeup, PCType, Done, Abstract!Done
<1>6. Outlived'
  BY ThreadsAssumption DEF Outlived, PCType
<1> QED
  BY <1>1, <1>2, <1>4, <1>5, <1>6

LEMMA SpuriousWakeKeeps ==
    ASSUME LatchInv, NEW w \in Waiter, SpuriousWake(w)
    PROVE  LatchInv'
<1> USE DEF LatchInv, SpuriousWake, Goto, Thread
<1>1. PCType'
  BY ThreadsAssumption DEF PCType, WaiterLabel
<1>2. MutexHeld'
  BY ThreadsAssumption DEF MutexHeld, PCType, Holding
<1>3. Arrived' = Arrived
  BY ThreadsAssumption DEF PCType, Arrived
<1>4. CounterTells' /\ WaitersSeeOpen'
  BY <1>3 DEF CounterTells, WaitersSeeOpen, PCType
<1>5. NoLostWakeup'
  BY ThreadsAssumption DEF NoLostWakeup, PCType, Done, Abstract!Done
<1>6. Outlived'
  BY ThreadsAssumption DEF Outlived, PCType
<1> QED
  BY <1>1, <1>2, <1>4, <1>5, <1>6

LEMMA UnlockWaitedKeeps ==
    ASSUME LatchInv, NEW w \in Waiter, UnlockWaited(w)
    PROVE  LatchInv'
<1> USE DEF LatchInv, UnlockWaited, Goto, Thread
<1>1. PCType'
  BY ThreadsAssumption DEF PCType, WaiterLabel
<1>2. MutexHeld'
  BY ThreadsAssumption DEF MutexHeld, PCType, Holding
<1>3. Arrived' = Arrived
  BY ThreadsAssumption DEF PCType, Arrived
<1>4. CounterTells' /\ WaitersSeeOpen'
  BY <1>3 DEF CounterTells, WaitersSeeOpen, PCType
<1>5. NoLostWakeup'
  BY ThreadsAssumption DEF NoLostWakeup, PCType, Done, Abstract!Done
<1>6. Outlived'
  BY ThreadsAssumption DEF Outlived, PCType
<1> QED
  BY <1>1, <1>2, <1>4, <1>5, <1>6

LEMMA DestroyKeeps ==
    ASSUME LatchInv, NEW w \in Waiter, Destroy(w)
    PROVE  LatchInv'
<1> USE DEF LatchInv, Destroy, Goto, Thread
<1>1. PCType'
  BY ThreadsAssumption DEF PCType, WaiterLabel
<1>2. MutexHeld'
  BY ThreadsAssumption DEF MutexHeld, PCType, Holding
<1>3. Arrived' = Arrived
  BY ThreadsAssumption DEF PCType, Arrived
<1>4. CounterTells' /\ WaitersSeeOpen'
  BY <1>3 DEF CounterTells, WaitersSeeOpen, PCType
<1>5. NoLostWakeup'
  BY ThreadsAssumption DEF NoLostWakeup, PCType, Done, Abstract!Done
<1>6. Outlived'
  BY ThreadsAssumption DEF Outlived, PCType
<1> QED
  BY <1>1, <1>2, <1>4, <1>5, <1>6

LEMMA StutterKeeps ==
    ASSUME LatchInv, UNCHANGED vars
    PROVE  LatchInv'
  BY DEF LatchInv, vars, PCType, MutexHeld, CounterTells, NoLostWakeup,
         WaitersSeeOpen, Outlived, Arrived, Done, Abstract!Done

LEMMA LatchStep ==
    ASSUME LatchInv, [Next]_vars
    PROVE  LatchInv'
<1>1. CASE \E c \in Counter : CountDown(c)
  BY <1>1, LockToCountKeeps, CountKeeps, NotifyAllKeeps, UnlockCountedKeeps
     DEF CountDown
<1>2. CASE \E w \in Waiter : Wait(w) \/ SpuriousWake(w)
  BY <1>2, LockToWaitKeeps, SeeOpenKeeps, ParkKeeps, UnlockWaitedKeeps,
     DestroyKeeps, SpuriousWakeKeeps
     DEF Wait
<1>3. CASE Terminating \/ UNCHANGED vars
  BY <1>3, StutterKeeps DEF Terminating
<1> QED
  BY <1>1, <1>2, <1>3 DEF Next

-----------------------------------------------------------------------------
\* The inductive invariant holds throughout every behaviour.
LEMMA LatchInvariant == Spec => []LatchInv
<1>1. Init => LatchInv
  BY LatchInit
<1>2. LatchInv /\ [Next]_vars => LatchInv'
  BY LatchStep
<1> QED
  BY <1>1, <1>2, PTL DEF Spec

\* Type correctness; in particular, an int latch that is constructed with the
\* number of calls to come never overshoots zero.
THEOREM TypeCorrect == Spec => []TypeOK
<1>1. LatchInv => TypeOK
  <2> HAVE LatchInv
  <2>1. ctr \in IF Binary THEN BOOLEAN ELSE 0 .. Cardinality(Counter)
    BY ArrivedFinite DEF LatchInv, CounterTells
  <2> QED
    BY <2>1 DEF LatchInv, PCType, TypeOK
<1> QED
  BY <1>1, LatchInvariant, PTL

\* The owner of a scoped latch never destroys it under a count_down().
THEOREM DestroyedLast == Spec => []NoUseAfterDestroy
<1>1. LatchInv => NoUseAfterDestroy
  BY DEF LatchInv, PCType, Outlived, NoUseAfterDestroy
<1> QED
  BY <1>1, LatchInvariant, PTL

\* No waiter sleeps on an open latch with no notification to come.
THEOREM WakeupsArrive == Spec => []NoLostWakeup
<1>1. LatchInv => NoLostWakeup
  BY DEF LatchInv
<1> QED
  BY <1>1, LatchInvariant, PTL

\* wait() does not return before the count_down() calls it waits for.
THEOREM WaitersWait == Spec => []WaitersSeeOpen
<1>1. LatchInv => WaitersSeeOpen
  BY DEF LatchInv
<1> QED
  BY <1>1, LatchInvariant, PTL

-----------------------------------------------------------------------------
\* A thread that is not a waiter passing the gate leaves the set of those that
\* passed as it is.
LEMMA SamePassed ==
    ASSUME PCType, NEW t \in Thread, NEW label, Goto(t, label),
           t \in Waiter =>
               (pc[t] \in {"leave", "returned", "destroyed"}
                   <=> label \in {"leave", "returned", "destroyed"})
    PROVE  UNCHANGED {w \in Waiter : pc[w] \in {"leave", "returned", "destroyed"}}
  BY DEF PCType, Goto, Thread

\* Every step of the latch is a step of the gate or none: the count is changed
\* by a decrement only, and a waiter passes only when the count is done.
LEMMA GateStep ==
    ASSUME LatchInv, [Next]_vars
    PROVE  [Abstract!Next]_(Abstract!vars)
<1> USE DEF Abstract!vars, Thread
<1>1. ASSUME NEW c \in Counter, Count(c)
      PROVE  Abstract!CountDown
  <2>1. UNCHANGED {w \in Waiter : pc[w] \in {"leave", "returned", "destroyed"}}
    BY <1>1, SamePassed, ThreadsAssumption DEF LatchInv, Count
  <2> QED
    BY <1>1, <2>1 DEF Count, Decrement, Abstract!CountDown
<1>2. ASSUME NEW c \in Counter, LockToCount(c) \/ UnlockCounted(c)
      PROVE  UNCHANGED Abstract!vars
  BY <1>2, SamePassed, ThreadsAssumption DEF LatchInv, LockToCount, UnlockCounted
<1>3. ASSUME NEW c \in Counter, NotifyAll(c)
      PROVE  UNCHANGED Abstract!vars
  BY <1>3, ThreadsAssumption DEF LatchInv, PCType, NotifyAll
<1>4. ASSUME NEW w \in Waiter, SeeOpen(w)
      PROVE  Abstract!Pass(w)
  BY <1>4 DEF LatchInv, PCType, SeeOpen, Goto, Done, Abstract!Pass
<1>5. ASSUME NEW w \in Waiter,
             LockToWait(w) \/ Park(w) \/ UnlockWaited(w) \/ Destroy(w)
                 \/ SpuriousWake(w)
      PROVE  UNCHANGED Abstract!vars
  BY <1>5, SamePassed
     DEF LatchInv, LockToWait, Park, UnlockWaited, Destroy, SpuriousWake
<1>6. CASE Terminating \/ UNCHANGED vars
  BY <1>6 DEF Terminating, vars
<1> QED
  BY <1>1, <1>2, <1>3, <1>4, <1>5, <1>6
     DEF Next, CountDown, Wait, Abstract!Next

\* The safety part of ImplementsGate: a latch made of a mutex and a condition
\* variable starts and moves as the gate does.
THEOREM GateSafety == Spec => Abstract!Init /\ [][Abstract!Next]_(Abstract!vars)
<1>1. Init => Abstract!Init
  BY DEF Init, Abstract!Init, Thread
<1>2. LatchInv /\ [Next]_vars => [Abstract!Next]_(Abstract!vars)
  BY GateStep
<1> QED
  BY <1>1, <1>2, LatchInvariant, PTL DEF Spec

=============================================================================
