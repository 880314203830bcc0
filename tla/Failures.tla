------------------------------- MODULE Failures -------------------------------
(***************************************************************************)
(* What an exception does to a call of sync_execute: the execution of      *)
(* module Graph, in which a leaf's function, the copy of an input or of an *)
(* output, the scheduler or the caller's `then` may throw.                 *)
(*                                                                         *)
(* No node catches anything.  An exception that is thrown on the calling   *)
(* thread unwinds it down to sync_execute, where the destructor of the     *)
(* latch waits before the exception can go any further; the destructions   *)
(* and count_down() calls that the unwound frames had still to make are    *)
(* skipped.  One that is thrown in a task leaves the function of a thread, *)
(* or of a pool's worker, and the program is terminated.                   *)
(***************************************************************************)
EXTENDS Graph

VARIABLES
    thrown,     \* an exception is under way on the calling thread
    site,       \* history: where that thread was when it threw
    ended       \* std::terminate was called

failureVars == <<vars, thrown, site, ended>>

FailuresInit == Init /\ thrown = FALSE /\ site = Nothing /\ ended = FALSE

\* An exception leaves the frames of thread t.
Throw(t, known) ==
    IF t = Main
    THEN /\ thrown' = TRUE
         /\ site' = [label |-> pc[t], node |-> cur[t],
                     val |-> val[t], rest |-> rest[t]]
         /\ Goto(Main, "wait", Main)
         /\ val' = [val EXCEPT ![Main] = Nothing]
         /\ rest' = [rest EXCEPT ![Main] = <<>>]
         /\ seen' = [seen EXCEPT ![Main] = known]
         /\ UNCHANGED ended
    ELSE /\ ended' = TRUE
         /\ UNCHANGED <<threadVars, thrown, site>>

-----------------------------------------------------------------------------
\* Mutant of LeafThrows: the exception is caught, and the cleanup called.
LeafThrowsAndCounts(t) ==
    /\ pc[t] = "exec"
    /\ Kind[cur[t]] = "leaf"
    /\ Throw(t, seen[t])
    /\ ctr' = ctr - 1
    /\ UNCHANGED <<storageVars, slot, counted, callVars>>

\* leaf::execute: the function throws.
LeafThrows(t) ==
    /\ pc[t] = "exec"
    /\ Kind[cur[t]] = "leaf"
    /\ Throw(t, seen[t])
    /\ UNCHANGED <<storageVars, slot, latchVars, callVars>>

\* aligned_storage_for::construct: the input's constructor throws, before the
\* storage is engaged.
CopyThrows(t) ==
    /\ pc[t] = "exec"
    /\ Shared(cur[t])
    /\ Throw(t, seen[t])
    /\ UNCHANGED <<storageVars, slot, latchVars, callVars>>

\* Mutant of SchedulerThrows: the frame of the node destroys its storage.
SchedulerThrowsAndDestroys(t) ==
    /\ pc[t] = "fan"
    /\ ~IsLast(cur[t])
    /\ Throw(t, seen[t])
    /\ Destroy(Parent[cur[t]])
    /\ UNCHANGED <<slot, latchVars, callVars>>

\* schedule_if<false>: the scheduler has no thread or memory for the task.  The
\* children before this one are scheduled, those from this one on never are.
SchedulerThrows(t) ==
    /\ pc[t] = "fan"
    /\ ~IsLast(cur[t])
    /\ Throw(t, seen[t])
    /\ UNCHANGED <<storageVars, slot, latchVars, callVars>>

\* Mutant of StoreThrows: the child is counted all the same.
StoreThrowsAndCounts(t) ==
    /\ pc[t] = "out"
    /\ ChildOf(cur[t], "all")
    /\ Throw(t, seen[t])
    /\ left' = [left EXCEPT ![Parent[cur[t]]] = @ - 1]
    /\ UNCHANGED <<engaged, input, joined, slot, latchVars, callVars>>

\* all: the output's assignment throws, before the child is counted.
StoreThrows(t) ==
    /\ pc[t] = "out"
    /\ ChildOf(cur[t], "all")
    /\ Throw(t, seen[t])
    /\ UNCHANGED <<storageVars, slot, latchVars, callVars>>

\* any: the output's assignment throws, after the child was counted: the next
\* child is not the first any more.
WinThrows(t) ==
    LET n == Parent[cur[t]] IN
    /\ pc[t] = "out"
    /\ ChildOf(cur[t], "any")
    /\ left[n] = Arity(n)
    /\ FetchSub(t, n)
    /\ Throw(t, Acquire(t, n))

\* sync_execute: the caller's `then` throws, before the count_down().
ThenThrows(t) ==
    /\ pc[t] = "out"
    /\ cur[t] \in Roots
    /\ Throw(t, seen[t])
    /\ results' = Append(results, val[t])
    /\ UNCHANGED <<storageVars, slot, latchVars, calls, root>>

-----------------------------------------------------------------------------
Failure(t) ==
    \/ LeafThrows(t) \/ CopyThrows(t) \/ SchedulerThrows(t)
    \/ StoreThrows(t) \/ WinThrows(t) \/ ThenThrows(t)

\* What happens as in Graph, until the program is terminated.
Undisturbed(A) == ~ended /\ A /\ UNCHANGED <<thrown, site, ended>>

FailuresNext ==
    \/ \E r \in Roots : Undisturbed(Call(r))
    \/ \E t \in Thread : Undisturbed(Step(t)) \/ (~ended /\ Failure(t))
    \/ \E k \in Task : Undisturbed(Start(k))
    \/ Undisturbed(Return)

\* Nothing has to fail.
FailuresFairness ==
    /\ \A t \in Thread : WF_failureVars(Undisturbed(Step(t)))
    /\ \A k \in Task : WF_failureVars(Undisturbed(Start(k)))
    /\ WF_failureVars(Undisturbed(Return))

FailuresSpec == FailuresInit /\ [][FailuresNext]_failureVars /\ FailuresFairness

-----------------------------------------------------------------------------
\* The exception never reaches the caller: the thread it unwinds had still to
\* call, or to have called, count_down(), the latch never opens, and the
\* destructor on the way waits for ever, however many tasks are left and
\* whether or not a result was delivered already.
FailedCallNeverReturns == thrown => pc[Main] = "wait" /\ ctr > 0

\* The tasks of a failed call find their storages as they left them: nothing
\* they use is destroyed or constructed again behind their back.
FailureSparesStorages == ~ended => StorageDiscipline

\* Tasks that were scheduled before the failure are not stuck with it: they run
\* and end, unless one of them fails too.
SurvivorsEnd == thrown ~> ended \/ \A k \in Task : pc[k] = "idle"

\* A node one of whose children has failed never passes a result on, unless it
\* is an any that had one already: the continuation of a node has seen what the
\* node requires, all children of an all, one child of an any.
Complete(n, known) ==
    CASE Kind[n] = "all" -> KidsOf(n) \subseteq known
      [] Kind[n] = "any" -> KidsOf(n) \intersect known # {}
      [] Kind[n] = "seq" -> Kids[n][2] \in known
      [] OTHER -> TRUE

NoResultOfAFailure ==
    \A t \in Thread :
        /\ \A n \in seen[t] : Complete(n, seen[t])
        /\ pc[t] = "out" /\ Kind[cur[t]] = "all" =>
            \A i \in DOMAIN Kids[cur[t]] : val[t][2][i] # Nothing

=============================================================================
