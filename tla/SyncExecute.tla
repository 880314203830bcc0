----------------------------- MODULE SyncExecute -----------------------------
(***************************************************************************)
(* sync_execute with its latch in full: the execution of module Graph, in  *)
(* which count_down() and the destructor of the scoped_int_latch are no    *)
(* single steps but go through the mutex and the condition variable of     *)
(* module Latch.                                                           *)
(*                                                                         *)
(* The latch lives on the stack of sync_execute: each call constructs one, *)
(* and its members are gone when the call returns.  A count_down() is      *)
(* named after what calls it, the any node that cleans up or Main for the  *)
(* continuation of the root, which is what `cur` says of a thread at       *)
(* "count"; each of them happens once in a call.                           *)
(***************************************************************************)
EXTENDS Graph

CONSTANTS
    Owner,      \* the wait() of the latch's destructor
    Nobody      \* the owner of a free mutex

VARIABLES
    mtx,        \* latch_impl::_mtx
    at          \* where each count_down(), and the wait(), is

syncVars == <<vars, mtx, at>>
graphVars == <<threadVars, storageVars, slot, callVars>>

Caller == {n \in Node : Kind[n] = "any"} \union {Main}

\* The waiter and the owner of a free mutex are nobody who counts the latch down.
ASSUME OwnerAssumption ==
    Owner \notin Caller /\ Nobody \notin Caller \union {Owner}

latch == INSTANCE Latch WITH
    Counter <- Caller, Waiter <- {Owner}, Binary <- FALSE, Scoped <- TRUE,
    pc <- at

\* Nobody has called the latch of this call yet.
Uncalled == [c \in Caller \union {Owner} |-> "lock"]

SyncInit == Init /\ mtx = Nobody /\ at = Uncalled

-----------------------------------------------------------------------------
\* The latch is constructed, and the graph executed.
Construction(r) == Call(r) /\ mtx' = Nobody /\ at' = Uncalled

\* Steps that do not concern the latch are those of Graph.
GraphStep(t) ==
    /\ pc[t] # "count"
    /\ Step(t)
    /\ UNCHANGED <<mtx, at>>

Begin(k) == Start(k) /\ UNCHANGED <<mtx, at>>

\* count_down(), up to its unlocking of the mutex.
CountStep(t) ==
    /\ pc[t] = "count"
    /\ latch!LockToCount(cur[t]) \/ latch!Count(cur[t]) \/ latch!NotifyAll(cur[t])
    /\ UNCHANGED <<graphVars, counted>>

\* Mutant of CountUnlock: the mutex passes nothing on to the next thread.
CountUnlockAlone(t) ==
    /\ pc[t] = "count"
    /\ latch!UnlockCounted(cur[t])
    /\ Unwind(t, seen[t] \union counted)
    /\ UNCHANGED <<counted, storageVars, slot, callVars>>

\* The mutex is unlocked and count_down() returns.  Locking it made visible what
\* others had done before they unlocked it, and unlocking it does so for this
\* thread; `counted` changes only here, while the mutex is held.
CountUnlock(t) ==
    /\ pc[t] = "count"
    /\ latch!UnlockCounted(cur[t])
    /\ counted' = counted \union seen[t]
    /\ Unwind(t, seen[t] \union counted)
    /\ UNCHANGED <<storageVars, slot, callVars>>

\* ~scoped_int_latch, up to the end of the wait.
WaitStep ==
    /\ pc[Main] = "wait"
    /\ \/ latch!LockToWait(Owner) \/ latch!SeeOpen(Owner) \/ latch!Park(Owner)
       \/ latch!UnlockWaited(Owner)
    /\ UNCHANGED <<graphVars, counted>>

SpuriousWake ==
    /\ latch!SpuriousWake(Owner)
    /\ UNCHANGED <<graphVars, counted>>

\* The latch is destroyed and sync_execute returns.
Destruction ==
    /\ pc[Main] = "wait"
    /\ latch!Destroy(Owner)
    /\ Goto(Main, "idle", Main)
    /\ seen' = [seen EXCEPT ![Main] = @ \union counted]
    /\ UNCHANGED <<val, rest, storageVars, slot, counted, callVars>>

-----------------------------------------------------------------------------
ThreadStep(t) == GraphStep(t) \/ CountStep(t) \/ CountUnlock(t)

SyncNext ==
    \/ \E r \in Roots : Construction(r)
    \/ \E t \in Thread : ThreadStep(t)
    \/ \E k \in Task : Begin(k)
    \/ WaitStep \/ SpuriousWake \/ Destruction
    \/ Terminating /\ UNCHANGED <<mtx, at>>

\* As in Graph and in Latch: a mutex that is free again and again is granted in
\* the end, because spurious wakeups may take it any number of times.
SyncFairness ==
    /\ \A t \in Thread :
        /\ WF_syncVars(ThreadStep(t))
        /\ SF_syncVars(CountStep(t))
    /\ \A k \in Task : WF_syncVars(Begin(k))
    /\ WF_syncVars(WaitStep)
    /\ WF_syncVars(Destruction)

SyncSpec == SyncInit /\ [][SyncNext]_syncVars /\ SyncFairness

-----------------------------------------------------------------------------
\* The count_down() calls that are in progress; and those of them that have
\* decremented the counter.
InLatch == {c \in Caller : at[c] \in {"decrement", "notify", "unlock"}}
Decremented == {c \in Caller : at[c] \in {"notify", "unlock"}}

\* When sync_execute returns and its stack frame goes, nobody is in the latch, on
\* the way into it, or asleep on it: neither the count_down() that opened the
\* latch, nor any other of the same call.
LatchOutlivesCalls ==
    pc[Main] = "idle" =>
        /\ InLatch = {} /\ mtx # Owner /\ at[Owner] # "parked"
        /\ \A t \in Thread : pc[t] # "count"

\* While the caller sleeps on its latch, some thread is still to count it down
\* and wake it up: everyone else is not through, or is about to notify.
SleeperHasWaker ==
    at[Owner] = "parked" =>
        \/ ctr > 0 /\ \E t \in Thread : pc[t] \notin {"idle", "wait"}
        \/ \E c \in Caller : at[c] = "notify"

\* With the latch in full the calls still behave as in Graph, where a count_down()
\* is one step, which takes place when the mutex is unlocked, and so is the wait.
Abstract == INSTANCE Graph WITH ctr <- ctr + Cardinality(Decremented)

ImplementsGraph == Abstract!Spec

=============================================================================
