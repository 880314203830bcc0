----------------------------- MODULE NestedCalls -----------------------------
(***************************************************************************)
(* sync_execute called from inside a graph, on a scheduler with a fixed    *)
(* number of workers.  A function of a leaf may build a graph of its own   *)
(* and wait for it; it then keeps the worker it runs on until the tasks it *)
(* gave to the same scheduler are through.                                 *)
(*                                                                         *)
(* A call is abstracted to its graph's root, an all or an any, and to the  *)
(* root's children, which are leaves; an all of one child stands for a     *)
(* single leaf too.  Values and storages are left to module Graph; the     *)
(* counter of the root and the latch decide here when a call returns.      *)
(***************************************************************************)
EXTENDS Integers, Sequences, FiniteSets

CONSTANTS
    SyncCall,   \* the calls of sync_execute, numbered with callers first
    Body,       \* the children of each call's graph: what each of them calls,
                \* or None
    None,
    Root,       \* the root of each call's graph: "all" or "any"
    MaxWorkers  \* bound: the largest pool

ASSUME SyncCallAssumption == SyncCall \subseteq Nat /\ IsFiniteSet(SyncCall)

ASSUME BodyAssumption ==
    /\ Body \in [SyncCall -> Seq(SyncCall \union {None})]
    /\ \A c \in SyncCall : Body[c] # <<>>
    /\ \A c \in SyncCall : \A i \in DOMAIN Body[c] :
        Body[c][i] # None => c < Body[c][i]
    /\ \A c, d \in SyncCall : \A i \in DOMAIN Body[c], j \in DOMAIN Body[d] :
        Body[c][i] = Body[d][j] /\ Body[c][i] # None => c = d /\ i = j

ASSUME RootAssumption == Root \in [SyncCall -> {"all", "any"}]

ASSUME WorkersAssumption == MaxWorkers \in Nat \ {0}

Child == UNION {{c} \X DOMAIN Body[c] : c \in SyncCall}

Callee(k) == Body[k[1]][k[2]]

\* schedule_if_last: is_last.  The others are tasks of the scheduler.
IsLast(k) == k[2] = Len(Body[k[1]])
Task == {k \in Child : ~IsLast(k)}

\* The child that makes a call, and the calls the client's own thread makes.
Callers(c) == {k \in Child : Callee(k) = c}
Outermost == {c \in SyncCall : Callers(c) = {}}

\* Mutant of CleanupCount: an any counted like an all.
CleanupCountOfAll(c) == 0

\* cleanup_count() of the root: an any needs a cleanup.
CleanupCount(c) == IF Root[c] = "any" THEN 1 ELSE 0

VARIABLES
    workers,    \* the number of the scheduler's workers
    stage,      \* where each call is: "fan" while its children are started,
                \* "inline" while the last of them runs, "wait" in the latch
    next,       \* the child each call starts next
    status,     \* where each child is
    left,       \* _left of the root of each call's graph
    ctr         \* _ctr of the latch of each call

vars == <<workers, stage, next, status, left, ctr>>

\* What sync_execute gives the latch, before anything runs.
Count(c) == CleanupCount(c) + 1

Init ==
    /\ workers \in 1 .. MaxWorkers
    /\ stage = [c \in SyncCall |-> IF c \in Outermost THEN "fan" ELSE "idle"]
    /\ next = [c \in SyncCall |-> 1]
    /\ status = [k \in Child |-> "idle"]
    /\ left = [c \in SyncCall |-> IF c \in Outermost THEN Len(Body[c]) ELSE 0]
    /\ ctr = [c \in SyncCall |-> IF c \in Outermost THEN Count(c) ELSE 0]

-----------------------------------------------------------------------------
Current(c) == <<c, next[c]>>

\* Where a child is that a thread is at: in its function, in the call it makes, in
\* its root's continuation `then`, or in `cleanup`.
Active == {"running", "calling", "then", "cleanup"}

\* The children that occupy a worker: those that do not run on the thread of
\* their call.
OnWorker == {k \in Child :
                /\ status[k] \in Active
                /\ ~(IsLast(k) /\ stage[k[1]] = "inline")}

\* Who can go on: a call that is to start a child, and one whose latch is open;
\* a task for which there is a worker, a function that makes its call, one that
\* makes none, or has waited for it, and a child that has a count_down to make.
CanFan(c) == stage[c] = "fan"

CanReturn(c) == stage[c] = "wait" /\ ctr[c] = 0

CanStart(k) == status[k] = "queued" /\ Cardinality(OnWorker) < workers

CanCall(k) == status[k] = "running" /\ Callee(k) # None

CanFinish(k) ==
    \/ status[k] = "running" /\ Callee(k) = None
    \/ status[k] = "calling" /\ stage[Callee(k)] = "returned"

CanCountDown(k) == status[k] \in {"then", "cleanup"}

\* schedule_if<false>: the child becomes a task.
Schedule(c) ==
    /\ CanFan(c)
    /\ ~IsLast(Current(c))
    /\ status' = [status EXCEPT ![Current(c)] = "queued"]
    /\ next' = [next EXCEPT ![c] = @ + 1]
    /\ UNCHANGED <<workers, stage, left, ctr>>

\* Mutant of RunInline: the last child is given to the scheduler as well.
ScheduleLast(c) ==
    /\ CanFan(c)
    /\ IsLast(Current(c))
    /\ status' = [status EXCEPT ![Current(c)] = "queued"]
    /\ stage' = [stage EXCEPT ![c] = "wait"]
    /\ UNCHANGED <<workers, next, left, ctr>>

\* schedule_if<true>: the last child runs on the thread of the call.
RunInline(c) ==
    /\ CanFan(c)
    /\ IsLast(Current(c))
    /\ status' = [status EXCEPT ![Current(c)] = "running"]
    /\ stage' = [stage EXCEPT ![c] = "inline"]
    /\ UNCHANGED <<workers, next, left, ctr>>

\* A worker of the scheduler (external) takes a task.
Start(k) ==
    /\ CanStart(k)
    /\ status' = [status EXCEPT ![k] = "running"]
    /\ UNCHANGED <<workers, stage, next, left, ctr>>

\* The function of a child calls sync_execute.
Call(k) ==
    /\ CanCall(k)
    /\ status' = [status EXCEPT ![k] = "calling"]
    /\ stage' = [stage EXCEPT ![Callee(k)] = "fan"]
    /\ left' = [left EXCEPT ![Callee(k)] = Len(Body[Callee(k)])]
    /\ ctr' = [ctr EXCEPT ![Callee(k)] = Count(Callee(k))]
    /\ UNCHANGED <<workers, next>>

\* Child k goes to s; the thread of the call goes on to the latch after its last
\* child.
GoTo(k, s) ==
    /\ status' = [status EXCEPT ![k] = s]
    /\ stage' = IF s = "through" /\ IsLast(k)
                THEN [stage EXCEPT ![k[1]] = "wait"]
                ELSE stage
    /\ UNCHANGED <<workers, next>>

\* What follows for a child whose fetch_sub found r children left: the last child
\* of an all, and the first of an any, calls `then`; the last of an any, which may
\* be its first as well, calls `cleanup`.
RunsThen(c, r) == r = (IF Root[c] = "any" THEN Len(Body[c]) ELSE 1)
RunsCleanup(c, r) == Root[c] = "any" /\ r = 1

AfterCount(c, r) == IF RunsThen(c, r) THEN "then"
                    ELSE IF RunsCleanup(c, r) THEN "cleanup" ELSE "through"

\* The function of a child is over, having waited for the call it made if any, and
\* its root counts it.
Finish(k) ==
    /\ CanFinish(k)
    /\ left' = [left EXCEPT ![k[1]] = @ - 1]
    /\ GoTo(k, AfterCount(k[1], left[k[1]]))
    /\ UNCHANGED ctr

\* Mutant of Then: a winner is not asked whether it was the last one.
ThenOnly(k) ==
    /\ status[k] = "then"
    /\ ctr' = [ctr EXCEPT ![k[1]] = @ - 1]
    /\ GoTo(k, "through")
    /\ UNCHANGED left

\* The continuation of sync_execute calls the client's function and counts down.
\* A winner goes on to ask whether it was the last one too.
Then(k) ==
    /\ status[k] = "then"
    /\ ctr' = [ctr EXCEPT ![k[1]] = @ - 1]
    /\ GoTo(k, IF RunsCleanup(k[1], Len(Body[k[1]])) THEN "cleanup" ELSE "through")
    /\ UNCHANGED left

Cleanup(k) ==
    /\ status[k] = "cleanup"
    /\ ctr' = [ctr EXCEPT ![k[1]] = @ - 1]
    /\ GoTo(k, "through")
    /\ UNCHANGED left

\* ~scoped_int_latch: the wait is over.
Return(c) ==
    /\ CanReturn(c)
    /\ stage' = [stage EXCEPT ![c] = "returned"]
    /\ UNCHANGED <<workers, next, status, left, ctr>>

-----------------------------------------------------------------------------
CallStep(c) == Schedule(c) \/ RunInline(c) \/ Return(c)
ChildStep(k) == Start(k) \/ Call(k) \/ Finish(k) \/ Then(k) \/ Cleanup(k)

Next == (\E c \in SyncCall : CallStep(c)) \/ (\E k \in Child : ChildStep(k))

\* Threads are not stopped for ever, and a free worker takes what is queued.
Fairness ==
    /\ \A c \in SyncCall : WF_vars(CallStep(c))
    /\ \A k \in Child : WF_vars(ChildStep(k))

Spec == Init /\ [][Next]_vars /\ Fairness

-----------------------------------------------------------------------------
\* The calls that are made on the thread of child k: its own, and those of the
\* last child of each of them.
CallsOf == [k \in Child |->
    {c \in SyncCall : \A C \in SUBSET SyncCall :
        /\ Callee(k) \in C \union {None}
        /\ \A d \in C : Body[d][Len(Body[d])] \in C \union {None}
        => c \in C}]

\* The tasks that wait for other tasks, each of which can keep a worker.
Blockers == {k \in Task : \E c \in CallsOf[k] : Len(Body[c]) > 1}

\* Call c and the calls made inside it, at any depth.
Within == [c \in SyncCall |->
    {d \in SyncCall : \A C \in SUBSET SyncCall :
        /\ c \in C
        /\ \A e \in C : \A i \in DOMAIN Body[e] : Body[e][i] \in C \union {None}
        => d \in C}]

Returned == \A c \in Outermost : stage[c] = "returned"

\* No step of Next can be taken.
Stuck ==
    /\ \A c \in SyncCall : ~CanFan(c) /\ ~CanReturn(c)
    /\ \A k \in Child :
        ~CanStart(k) /\ ~CanCall(k) /\ ~CanFinish(k) /\ ~CanCountDown(k)

\* Everyone waits for everyone only in one way: every worker is kept by a task
\* that waits in sync_execute, and what they wait for is queued behind them.  No
\* call waits for a count_down that nobody is left to make.
HangsOnlyStarved ==
    ~Returned /\ Stuck =>
        /\ Cardinality(OnWorker) = workers
        /\ OnWorker \subseteq Blockers
        /\ \E k \in Child : status[k] = "queued"

\* sync_execute leaves nothing behind: when the latch of a call has opened, after
\* as many count_downs as cleanup_count() foretold, all that was started inside
\* the call, at any depth and on whichever worker, is over; the losers of an any,
\* and the calls they made, too.
NothingOutlivesItsCall ==
    \A c \in SyncCall : stage[c] = "returned" =>
        \A k \in Child : k[1] \in Within[c] => status[k] = "through"

\* A scheduler with more workers than there are tasks that wait for tasks is
\* enough for every call to return, in whatever order the tasks are taken.
EnoughWorkersReturn == workers > Cardinality(Blockers) => <>Returned

=============================================================================
