-------------------------------- MODULE Latch --------------------------------
(***************************************************************************)
(* latch_impl and scoped_latch_impl of                                     *)
(* include/orizzonte/utility/bool_latch.hpp: a counter (or a flag) guarded *)
(* by a mutex, with a condition variable its waiters sleep on.             *)
(*                                                                         *)
(* Each counting thread makes one count_down() call and each waiting       *)
(* thread one wait() call; for a scoped latch that call is the destructor, *)
(* after which the mutex, the condition variable and the counter are gone. *)
(* Threads move one access to the shared objects at a time, and a thread   *)
(* sleeping on the condition variable may wake for no reason.              *)
(***************************************************************************)
EXTENDS Integers, FiniteSets

CONSTANTS
    Counter,    \* the threads that call count_down()
    Waiter,     \* the threads that call wait()
    Binary,     \* TRUE: latch_impl<bool>, FALSE: latch_impl<int>
    Scoped,     \* TRUE: scoped_latch_impl
    Nobody      \* the owner of a free mutex

Thread == Counter \union Waiter

ASSUME ThreadsAssumption ==
    /\ IsFiniteSet(Counter)
    /\ Counter \intersect Waiter = {}
    /\ Nobody \notin Thread

ASSUME FlagsAssumption == Binary \in BOOLEAN /\ Scoped \in BOOLEAN

\* A scoped latch is destroyed by the one thread that owns it, and nobody may
\* count a bool latch down after the call that opens it, for it may be gone.
ASSUME ScopedAssumption ==
    Scoped => /\ \A v, w \in Waiter : v = w
              /\ Binary => \A b, c \in Counter : b = c

\* Mutant of Initial: an int latch that leaves the call of `then` out.
InitialWithoutThen == IF Binary THEN FALSE ELSE Cardinality(Counter) - 1

\* The owner constructs an int latch with the number of count_down() calls to
\* come, as sync_execute does, and a bool latch with the default, false.
Initial == IF Binary THEN FALSE ELSE Cardinality(Counter)

VARIABLES
    ctr,        \* latch_impl::_ctr
    mtx,        \* the thread that holds latch_impl::_mtx, or Nobody
    pc          \* where each thread is in its call

vars == <<ctr, mtx, pc>>

Abstract == INSTANCE Gate WITH
    count  <- ctr,
    passed <- {w \in Waiter : pc[w] \in {"leave", "returned", "destroyed"}}

Decrement(x) == Abstract!Decrement(x)
Done(x) == Abstract!Done(x)

CounterLabel == {"lock", "decrement", "notify", "unlock", "returned"}
WaiterLabel == {"lock", "check", "parked", "relock", "leave", "returned",
                "destroyed"}

\* The places of a call at which a thread holds the mutex.
Holding == {"decrement", "notify", "unlock", "check", "leave"}

Init ==
    /\ ctr = Initial
    /\ mtx = Nobody
    /\ pc = [t \in Thread |-> "lock"]

Goto(t, label) == pc' = [pc EXCEPT ![t] = label]

-----------------------------------------------------------------------------
\* count_down(): lock, decrement, notify_all with the lock held, unlock.

LockToCount(c) ==
    /\ pc[c] = "lock"
    /\ mtx = Nobody
    /\ mtx' = c
    /\ Goto(c, "decrement")
    /\ UNCHANGED ctr

\* Mutant of Count: the scope of the lock ends before notify_all.
CountThenUnlock(c) ==
    /\ pc[c] = "decrement"
    /\ ctr' = Decrement(ctr)
    /\ mtx' = Nobody
    /\ Goto(c, "notify")

Count(c) ==
    /\ pc[c] = "decrement"
    /\ ctr' = Decrement(ctr)
    /\ Goto(c, "notify")
    /\ UNCHANGED mtx

\* Mutant of NotifyAll: nobody is woken.
NotifyNobody(c) ==
    /\ pc[c] = "notify"
    /\ Goto(c, "unlock")
    /\ UNCHANGED <<ctr, mtx>>

\* Mutant of NotifyAll: notify_one.
NotifyOne(c) ==
    /\ pc[c] = "notify"
    /\ LET Asleep == {w \in Waiter : pc[w] = "parked"}
       IN  IF Asleep = {} THEN Goto(c, "unlock")
           ELSE \E w \in Asleep :
                    pc' = [pc EXCEPT ![c] = "unlock", ![w] = "relock"]
    /\ UNCHANGED <<ctr, mtx>>

\* Every sleeping waiter is woken and goes for the mutex again.
NotifyAll(c) ==
    /\ pc[c] = "notify"
    /\ pc' = [t \in Thread |->
                 IF t = c THEN "unlock"
                 ELSE IF pc[t] = "parked" THEN "relock"
                 ELSE pc[t]]
    /\ UNCHANGED <<ctr, mtx>>

UnlockCounted(c) ==
    /\ pc[c] = "unlock"
    /\ mtx' = Nobody
    /\ Goto(c, "returned")
    /\ UNCHANGED ctr

-----------------------------------------------------------------------------
\* wait(): lock, then sleep until the predicate holds with the lock held.

\* Mutant of LockToWait: a wait with no predicate, which trusts its wakeup.
LockTrusting(w) ==
    /\ pc[w] \in {"lock", "relock"}
    /\ mtx = Nobody
    /\ mtx' = w
    /\ Goto(w, IF pc[w] = "lock" THEN "check" ELSE "leave")
    /\ UNCHANGED ctr

LockToWait(w) ==
    /\ pc[w] \in {"lock", "relock"}
    /\ mtx = Nobody
    /\ mtx' = w
    /\ Goto(w, "check")
    /\ UNCHANGED ctr

SeeOpen(w) ==
    /\ pc[w] = "check"
    /\ Done(ctr)
    /\ Goto(w, "leave")
    /\ UNCHANGED <<ctr, mtx>>

\* The mutex is released and the thread falls asleep in one atomic step.
Park(w) ==
    /\ pc[w] = "check"
    /\ ~Done(ctr)
    /\ mtx' = Nobody
    /\ Goto(w, "parked")
    /\ UNCHANGED ctr

SpuriousWake(w) ==
    /\ pc[w] = "parked"
    /\ Goto(w, "relock")
    /\ UNCHANGED <<ctr, mtx>>

UnlockWaited(w) ==
    /\ pc[w] = "leave"
    /\ mtx' = Nobody
    /\ Goto(w, "returned")
    /\ UNCHANGED ctr

\* The end of ~scoped_latch_impl: the members are destroyed after wait().
Destroy(w) ==
    /\ Scoped
    /\ pc[w] = "returned"
    /\ Goto(w, "destroyed")
    /\ UNCHANGED <<ctr, mtx>>

-----------------------------------------------------------------------------
CountDown(c) ==
    LockToCount(c) \/ Count(c) \/ NotifyAll(c) \/ UnlockCounted(c)

Wait(w) ==
    LockToWait(w) \/ SeeOpen(w) \/ Park(w) \/ UnlockWaited(w) \/ Destroy(w)

Finished ==
    /\ \A c \in Counter : pc[c] = "returned"
    /\ \A w \in Waiter : pc[w] = IF Scoped THEN "destroyed" ELSE "returned"

\* The threads have made their calls and the program goes on without the latch.
Terminating == Finished /\ UNCHANGED vars

Next ==
    \/ \E c \in Counter : CountDown(c)
    \/ \E w \in Waiter : Wait(w) \/ SpuriousWake(w)
    \/ Terminating

(***************************************************************************)
(* Threads are not stopped for ever in the middle of a call.  Waking for   *)
(* no reason is never owed, but it may happen again and again, each time   *)
(* taking the mutex: a counting thread gets it because a mutex that is     *)
(* free again and again is granted in the end.                             *)
(***************************************************************************)
Fairness ==
    /\ \A c \in Counter : WF_vars(CountDown(c)) /\ SF_vars(LockToCount(c))
    /\ \A w \in Waiter : WF_vars(Wait(w))

Spec == Init /\ [][Next]_vars /\ Fairness

-----------------------------------------------------------------------------
\* The counting threads that have made their decrement.
Arrived == {c \in Counter : pc[c] \in {"notify", "unlock", "returned"}}

\* Types: the counter of an int latch counts the calls made and never leaves
\* 0..Initial, every thread is at a place of its own call.
TypeOK ==
    /\ ctr \in IF Binary THEN BOOLEAN ELSE 0 .. Cardinality(Counter)
    /\ mtx \in Thread \union {Nobody}
    /\ pc \in [Thread -> CounterLabel \union WaiterLabel]
    /\ \A c \in Counter : pc[c] \in CounterLabel
    /\ \A w \in Waiter : pc[w] \in WaiterLabel

\* No count_down() is still using the latch when the owner destroys it: the
\* destructor of a scoped latch waits, and notify_all runs under the mutex.
NoUseAfterDestroy ==
    \A w \in Waiter :
        pc[w] = "destroyed" => \A c \in Counter : pc[c] = "returned"

\* No wakeup is lost: while a waiter sleeps on an open latch, the count_down()
\* that opened it (or a later one) is still about to notify all.
NoLostWakeup ==
    \A w \in Waiter :
        pc[w] = "parked" /\ Done(ctr) => \E c \in Counter : pc[c] = "notify"

\* wait() returns from an int latch after all count_down() calls have made
\* their decrement, from a bool latch after at least one of them has.
WaitersSeeOpen ==
    \A w \in Waiter :
        pc[w] \in {"leave", "returned", "destroyed"}
            => IF Binary THEN Arrived # {} ELSE Arrived = Counter

\* Every wait() returns once the count_down() calls are made, whatever wakes
\* the waiters up in between and however the mutex is contended.
WaitersReturn ==
    \A w \in Waiter :
        <>[](pc[w] = IF Scoped THEN "destroyed" ELSE "returned")

\* The latch implements the gate: a waiter passes only when the counter says
\* it is done, and every waiter passes when the counter stays so.
ImplementsGate == Abstract!Spec

=============================================================================
