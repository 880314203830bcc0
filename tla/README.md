# A verification of orizzonte in TLA+

orizzonte is a header-only C++17 library of futures without allocation and type
erasure. A program builds a *graph* of nodes as one value, and `sync_execute`
runs it: leaves call functions, `seq` chains two nodes, `all` runs its children
at the same time and joins their outputs in a tuple, `any` runs its children at
the same time and goes on with the output that comes first. The state all this
needs lives inside the graph object, which its caller may destroy, or execute
again, as soon as `sync_execute` returns. That is the hard part of the library:
the losers of an `any` still run when the result is there, and nothing but one
atomic counter per node and one latch per call keeps the graph alive for them.

This directory holds TLA+ models of the library (`*.tla`), configurations for
the model checker TLC (`*.cfg`), and proofs checked by TLAPS (`LatchProofs`,
`GraphProofs`, `GraphSafety`, `GraphPromise`, `SyncExecuteProofs`, `FailuresProofs`,
`NestedCallsProofs`, `CacheAlignedTuple`).
Paths below are relative to `src/`.

## The system

| Component | Source | State | Operations |
|---|---|---|---|
| latch | `include/orizzonte/utility/bool_latch.hpp` | counter or flag, mutex, condition variable | `count_down`, `wait`, destructor of the scoped form |
| storage | `include/orizzonte/utility/aligned_storage.hpp` | `_engaged`, the stored value | `construct`, `access`, `destroy` |
| leaf | `include/orizzonte/node/leaf.hpp` | the function | `execute` |
| seq | `include/orizzonte/node/seq.hpp` | its two nodes | `execute`, `cleanup_count` |
| all | `include/orizzonte/node/all.hpp` | `_state` (`_input`, atomic `_left`), `_values` | `execute`, `cleanup_count` |
| any | `include/orizzonte/node/any.hpp` | `_state` (`_input`, atomic `_left`), `_values` | `execute`, `cleanup_count` |
| scheduling helpers | `include/orizzonte/node/helper.hpp`, `meta/enumerate_args.hpp` | none | the loop over the children; the last one runs inline, the others are scheduled |
| sync_execute | `include/orizzonte/utility/sync_execute.hpp` | a `scoped_int_latch` | one call |
| scheduler | given by the caller (`test/orizzonte/graph/basic.cpp:11`, `src/new3.cpp:14`) | its threads and queue | run a task |
| `then` | `include/orizzonte/node/then.inl` | none | makes a `seq` of a node and a continuation |
| nothing | `include/orizzonte/utility/nothing.hpp` | none | calls a function without its `nothing` arguments |
| tuple | `include/orizzonte/utility/cache_aligned_tuple.hpp` | one component per child of an `all` | `get` |
| types, `meta` | the other headers | none at run time | types and compile-time loops |
| client programs | `src/new3.cpp`, `src/bfuture_bench.cpp` | their graphs | build, execute, check the result |
| earlier design | `src/temp.hpp`, `src/temp.cpp` | `when_all`'s `_left`, `_out`, `_input_buf` | `execute`, `wait_and_get` |

How they interact. `sync_execute` sets a latch to `cleanup_count() + 1` and calls
`execute` on the root with two callbacks: the *continuation*, which calls the
user's `then` and counts the latch down, and the *cleanup*, which only counts it
down. A node calls its children's `execute` with callbacks of its own. An `all` or
an `any` copies its input into its storage, hands all children but the last to the
scheduler and runs the last itself; each child, when it is through, decrements
`_left`. The child that finds itself last destroys the storage, and then, in an
`all`, calls the continuation with the tuple, in an `any`, calls the cleanup; in
an `any` the child that finds itself *first* calls the continuation. So each `any`
counts the latch down once, the root's continuation once, and the destructor of the
latch, on the caller's thread, waits for all of them.

What is hard here:

* *Concurrency*: the children join in any order; winner and losers of an `any` run
  on while the rest of the graph is executed with the winner's output; the memory
  orders of `_left` are what makes one thread's writes visible to the next.
* *Lifetime*: who destroys a storage, and when nobody uses the graph and the latch
  any more.
* *Counting*: `cleanup_count()` is computed before anything runs, and `done` tests
  for exactly zero.
* *Re-entry*: an `any` of one child runs its continuation, possibly the rest of the
  graph, between its own decrement and its own destruction.
* *Scheduling*: any number of workers, down to one; tasks of a pool that wait in
  `sync_execute` for other tasks of the same pool.
* *Failure*: functions, copies, schedulers and the caller's `then` may throw; nothing in
  the library handles it, and the destructor of the latch is on the way out.

What makes each component correct:

* latch: no lost wakeup, no early return, no access after the destructor;
* storage: constructed when empty, accessed and destroyed when full;
* `all`/`any`: one continuation per execution; the counter says who is not through;
  the last child sees what all others did; the storage outlives every reader;
* `sync_execute`: exactly one result, one the graph can have with this call's
  input; return after the last access of anyone to graph, scheduler or latch;
* scheduler and graph together: every task ends even with one worker.

`PROJECT.json` lists the hazards with their lines and the properties that watch
over them.

## The modules

**`Gate`** is what a latch promises: waiters pass when the counter is done, and only
then. **`Latch`** is the implementation, one access to the shared objects per step.
A counting thread goes `lock`, `decrement`, `notify`, `unlock`, `returned`
(`count_down`, `bool_latch.hpp:50`); a waiter goes `lock`, `check`, then `leave` or
`parked`, from which a notification or a spurious wakeup takes it to `relock`
(`wait`, `:57`), and `destroyed` after the destructor of a scoped latch (`:79`).
`Binary` chooses between `latch_impl<bool>` and `latch_impl<int>`, `Scoped` the scoped
forms. No step after locking tests the mutex: that `mtx` is held where it should be is
proved, not assumed.

**`Graph`** is the execution of graphs. A forest of trees (`Node`, `Kind`, `Kids`; nodes
numbered so that parents come first) gives all graphs the client may execute. Threads
are the caller, `Main`, and a task per child that is scheduled, named after that child.
A thread is at a step (`pc`) of a node (`cur`) with a value (`val`):

| step | the code |
|---|---|
| `exec` | `execute` of the node is called: `ExecLeaf`, `ExecSeq`, `ExecShared` (constructs the storage of an `all` or `any`) |
| `fan` | the loop over the children, at one of them: `Schedule` or `RunInline` |
| `queued` | the task is with the scheduler; `Start` runs it |
| `out` | the node's continuation is called: `SeqFirst`, `SeqSecond`, `AllStore`, `AnyFirst`, `AnyLose`, `AnyLast`, or `Deliver` for the root |
| `join` | `fetch_sub` of a child of an `all`: `AllJoin`, `AllLast` |
| `last` | the last child's part: `AllFinish`, `AnyFinish` |
| `count` | `l.count_down()` |
| `wait` | the destructor of the latch |

Continuations are nested calls in the code. They are tail calls but in one place: an
`any` of one child continues with `destroy` and `cleanup` after its continuation has
returned. `rest` is the stack of these.

`engaged`, `input`, `left` are the storages, `slot` the components of `all::_values`.
`any::_values` is assigned and moved from by the winner in one go and has no variable
of its own. `ctr` is the latch at the level of `Gate`: one decrement, one test; `Latch`
implements it. Values are pairs of a node and what its output was computed from, down to
the input of the call, so a value tells which call and which leaves it comes from.

C++'s memory model enters as `seen`, `joined` and `counted`: the completions that happen
before a thread's next step, those released into a node's `_left`, and those released
into the latch. `fetch_sub` with `acq_rel` both releases and acquires; giving a task to
the scheduler passes on what its giver has seen.

**`Future`** is what the caller is promised: a call, one result the graph can have with
that call's input, a return. **`GraphOutcome`** defines the outputs a graph can have, on its
tree alone: for each way to choose the child that comes first in each `any` (`Winners`), every
node has one input, the output of its `Feeder`, and one output (`Evaluation`); `Outcome` is the
set of those of the root. It has the refinement mapping from `Graph` to `Future`, in two
forms: `KeepsPromise` with the liveness of `Future`, which the runs check, and its safety part,
`ImplementsFuture`, which is what is proved.

**`GraphInvariant`** has the inductive invariants of `Graph`, `Inv` and `AttendedInv`, and
`GraphOutcome` the one of its values, `ValuedInv`, which the proofs below rest on. They speak of
stages of the nodes that the program does not record; **`MCGraph`**, which has the graphs of the
tests for TLC, computes them from what threads and counters know (`Started`, `Known`,
`PassedOn`), and the run `graph_nested` checks all three with these (`Accounts`).

**`SyncExecute`** composes `Graph` with `Latch`: the latch of a call is an instance of
module `Latch` whose counting threads are the calls of `count_down` (one for each `any`, one
for the root's continuation) and whose only waiter is its own destructor. A thread at
`count` goes through the steps of `count_down`, the caller at `wait` through those of the
destructor; every other step is `Graph`'s. What a thread has seen is passed on when it
unlocks the mutex. Under the mapping `ctr <- ctr + Cardinality(Decremented)`, by which a
`count_down` takes place when it unlocks, the composition implements `Graph`, liveness
included. **`MCSyncExecute`** has its graphs.

**`Failures`** is `Graph` with exceptions, one action for each place that may throw: a leaf's
function (`LeafThrows`), the construction of a shared input (`CopyThrows`), the scheduler
(`SchedulerThrows`), the assignment of an output in an `all` or an `any` (`StoreThrows`,
`WinThrows`), the caller's `then` (`ThenThrows`). On the caller's thread the stack unwinds
into the latch's destructor, and whatever the frames had still to do is dropped; in a task
the program is terminated (`ended`). `site` is a history variable: where the caller was
when it threw. No step reads it; the proofs need it. **`MCFailures`** has its graphs.

**`NestedCalls`** looks at calls made by functions of leaves, on a pool of `workers` threads.
A call is reduced to its root (`Root`: an `all` or an `any`) and the root's children, leaves
that are plain or make a call of their own; an `all` of one child stands for a single leaf too.
`left` is the root's `_left`, `ctr` the call's latch, set to `cleanup_count() + 1` (`Count`).
A child is `idle`, `queued`, `running`, `calling`, at `then` or `cleanup` when it has that
`count_down` still to make, and `through`. `Finish` is the `fetch_sub` that decides which of the
two it has to make, `Then` and `Cleanup` are the `count_down`s. A call goes `idle`, `fan`,
`inline`, `wait`, `returned`, and it returns when its latch is at zero: that every child is
through by then, losers and their calls included, is what has to be shown. **`MCNestedCalls`**
has one nest of six calls. What an action needs in order to be possible is an operator of its own
(`CanFan`, `CanStart`, ...), so that `Stuck`, that nobody can go on, is a formula on states. No
two children make the same call (`BodyAssumption`): a call of `sync_execute` is made once.

**`Programs`** has the graphs of `src/new3.cpp` (`T0` to `T9`, `T61`, the move-only ones of
`main`) and of `src/bfuture_bench.cpp` (`B0` to `B4`, each executed there with two
schedulers), written with the library's own constructors and `then`, with the functions of
their leaves and the ENSUREs on their results; `in_type` and `out_type` of a node; and the
translation of a graph into nodes of `Graph`. **`MCPrograms`** runs them: a value of `Graph`
says which function was applied to what, and `Value` applies them. An `any` passes its
winner's output on as it is, so that a variant is what it holds, and its type is that of the
winner (`TypeOf`).

**`Nothing`** is `call_ignoring_nothing`: a pass that wraps the function in one lambda per
argument, and a pass that unwraps it, each lambda putting its argument in front unless it is
`nothing`; what a function returns that returns `void` is `nothing`.

**`CacheAlignedTuple`** is the layout of a tuple of outputs and the proof that no two of them
share a cache line. It has no state; no run uses it.

**`WaitAndGet`** is the design that came before the library (`src/temp.hpp`): a chain of
stages, each a `node` (one function) or a `when_all` (several), which `wait_and_get` starts
with one task and waits for. `walk_up` goes from the last stage to the root, which starts
the task. A task goes from stage to stage (`execute`), through `fan` and
`compute` to `join` in a `when_all`. `alive` says whether the graph `f` still exists; what a
task takes from it afterwards (a captured reference, an input, a counter, an output) may be
what it should be or not. Stages add one to their input, as most in `src/temp.cpp` do, so that a
chain's value is its length. **`MCWaitAndGet`** has the twelve chains of `src/temp.cpp`,
made with `initiate` and `then`.

Mutants, definitions named and commented as such next to the one they change, are
plausible bugs; each property is known to fail with one of them in place.

## The runs

| run | instance | what it shows |
|---|---|---|
| `latch_scoped` | `scoped_int_latch`, 3 counting threads, 1 waiter | `TypeOK` (no overshoot), `NoUseAfterDestroy`, `WaitersReturn`, `ImplementsGate` |
| `latch_shared` | `bool_latch`, 2 counting threads, 3 waiters | `NoLostWakeup`, `WaitersSeeOpen`, `ImplementsGate` |
| `graph_basic` | `seq`, `all` of 1 and 3, `any` of 1, 2 and 3 leaves; 2 calls | `TypeOK`, `JoinCount`, `KeepsPromise` |
| `graph_nested` | `all{any, any}`, the graph of `weird_cleanup.cpp`, nested `any`s of one child; 2 calls, 3 workers | `StorageDiscipline`, `LatchOpensLast`, `LatchBalance`, `KeepsPromise`, and the invariants of the proofs, `Accounts` |
| `graph_deep` | the graphs t8 and t9 of `basic.cpp` (11 nodes each), 5 workers | `LatchOpensLast`, `LastSeesAll`, `ReturnSeesAll` |
| `graph_pool` | the graphs of `graph_nested`, 1 worker | `WaiterHasWorker`, `TasksEnd` |
| `sync_execute` | `any{any{A}, B}` and `any{any{A, B}, C}`, the latch in full, 2 workers; 2 calls | `LatchOutlivesCalls`, `SleeperHasWaker`, `ImplementsGraph` |
| `failures` | three graphs of five to seven nodes with every kind of node in another, any thread may fail; 1 call | `FailedCallNeverReturns`, `FailureSparesStorages`, `NoResultOfAFailure`, `ResultsAreOutcomes`, `SurvivorsEnd` |
| `nested_calls` | six calls within each other, with `all`s, `any`s and an `any` of one child at their roots, 1 to 4 workers | `HangsOnlyStarved`, `NothingOutlivesItsCall`, `EnoughWorkersReturn` |
| `programs` | the 21 graphs of the client programs, 3 workers; 1 call | `EnsuresHold`, `TypesTellTheTruth` |
| `nothing` | all sequences of up to 4 arguments of two values and `nothing` | `CalledIgnoringNothing` |
| `wait_and_get` | the earlier design, the chains of `src/temp.cpp` | `ReturnsResult`, violated: see below |

In `wait_and_get` the latch `l` is declared before the graph `f` (`src/temp.hpp:133-134`),
so the graph is destroyed before the latch's destructor waits for the tasks that use it. The
run's counterexample is short: the caller starts the task, leaves the scope, `f` is gone, the
task runs, and the reference to `out` it captured is no longer there. The assertions of
`src/temp.cpp:113`, `:120` and `:128` on the result say otherwise; `main` returns before it
gets to them. With the two destructions in the other order the property holds on the same
instance. The library does it right: in `sync_execute` the latch's scope
is inside the call, the graph's outside (`ReturnSeesAll`, `LatchOpensLast`).

Failures and nested calls. A call that throws on the caller's thread never
returns (`FailedCallNeverReturns`): its frames owe the latch a `count_down` that nobody else
makes, even when the result was delivered before. It does no other harm: the tasks it leaves
behind find their storages, because a node that lost a child is never last
(`FailureSparesStorages`), they end (`SurvivorsEnd`), and a result that comes all the same, from
an `any` that had one already, is an output of the graph (`ResultsAreOutcomes`). A pool is large enough for nested
calls when it has one worker more than there are tasks that wait for tasks, and in the
instance of the run no smaller number is: with three workers for three such tasks there is a
behaviour in which all of them wait. That is the only way to hang (`HangsOnlyStarved`): no call
waits for a `count_down` that nobody makes, which it would if a winner that is also the last
child did not go on to the cleanup (the mutant `ThenOnly`). Nor does a latch open too early, as
it would with an `any` that is counted like an `all` (`CleanupCountOfAll`): then a call made by a
loser would still run when the call it lost in has returned (`NothingOutlivesItsCall`).

Why the bounds suffice. A latch's threads are alike; three counting threads and three
waiters give first, middle and last ones. In a graph, a node interacts with its parent,
its children and the latch only; the graphs have every kind of node as a child of every
other kind that treats it differently, `any` and `all` with one child (first is last),
two, and three (neither first nor last), and `any` below, beside and after `any`. Two
calls show whatever one leaves behind, since a call starts by setting all that is not
left in the graph. The number of workers matters up to the number of tasks of a graph.
In `sync_execute` the calls of `count_down` are three, so that the last one may be a task's,
an `any`'s on the caller's own thread, or the root's, and two calls show that a latch left by
one is not met by the other. In `failures` a failed call does not return, so that there is no
second one to look at. The programs are executed once: each of them
builds its graph anew. Three tasks at a time let the children of any one node of theirs run
side by side with a task of another; `T6` to `T9` could use up to five.

Fairness. A thread that can take a step takes one in the end (`WF`), as a preemptive
operating system provides; a mutex that is free again and again is granted in the end to
a counting thread (`SF` on locking), which spurious wakeups make necessary; a scheduler
with a free worker starts what it was given. Spurious wakeups are not owed, and neither
is the client's next call.

Deadlock is checked in all runs but four. In `wait_and_get` a lost `count_down` really stops
the program, in `failures` a failed call or `std::terminate` does, in `nested_calls` a pool
that is too small, and in `nothing` the function has returned. Elsewhere a program that is
over stutters (`Terminating`). Nobody owes an exception; in `failures` and `nested_calls`
threads and schedulers are as fair as in `Graph`.

## The proofs

`LatchProofs` proves, for any finite number of counting threads and any set of waiters,
bool or int, scoped or not, that `Latch` satisfies `TypeOK`, `NoUseAfterDestroy`,
`NoLostWakeup` and `WaitersSeeOpen`, and that each of its steps is one of `Gate` or none
(`GateSafety`). It rests on the named assumptions of `Latch`: finitely many counting
threads; `Nobody` is not a thread; a scoped latch has one waiter, and one counting thread
if it is a bool latch. The inductive invariant `LatchInv` adds three facts to the
properties: the mutex is held exactly by the thread whose place says so (`MutexHeld`), the
counter is what the calls made so far leave of it (`CounterTells`), and a waiter past its
check leaves no counting thread behind (`Outlived`). The last is the argument for the
lifetime of a latch: the waiter sees zero while *it* holds the mutex, so all decrements
are made, and no counting thread is between its decrement and its unlock, for there it
would hold the mutex. The same argument fails when `notify_all` is called after the
unlock, which is the mutant `CountThenUnlock`.

The proofs about `Graph` are for every finite forest in which a node has the children its
class requires and one parent (the assumptions of `Graph`), for any number of workers and
calls.

* `GraphProofs` proves what the recursive functions of `Graph` are. `Tree`, `Lender` and
  `CleanupCount` recur from nodes to larger or smaller ones; `RecursionUp` and
  `RecursionDown` show, by induction on sets of nodes, that such a definition has the value
  it says. From that: the trees of siblings are disjoint, and `CleanupCountCountsAnys`, the
  sum that `cleanup_count()` folds over a pack of children is the number of `any`s below.
  It then proves `TypeOK`, which beyond types says that a thread is never at a step its
  node has no such step for, and that only an `any` of one child is ever returned to.

* `GraphSafety` proves `JoinCount`, `StorageDiscipline`, `LatchBalance`, `LatchOpensLast`,
  `LastSeesAll` and `ReturnSeesAll`, all from one inductive invariant (`Accounting`). None of
  them is inductive, nor are they together: that a storage is full when a child uses it
  depends on who else is in the tree below, and nothing in the program says which nodes are
  through. `Inv` therefore says that there *are* sets S, D and P of the nodes that are
  started, done and passed on to their parent, which account for all that the program does
  record: where the threads are (`Positions`), which storages are full and what they count
  (`Storages`), that no two threads do the same to one node (`Alone`), what everybody has
  seen (`Knowledge`, `Informed`), and what is left for an `any` and for the output to count
  down (`Cleanups`, `Delivery`, `LatchBalance`). Each step of the code takes at most a node and
  one next to it a stage further, and has a lemma that says which. `LatchBalance` is the arithmetic:
  `CleanupCount` of the root is the number of `any`s of its tree, each of which is in one of
  three places, so the latch reaches zero with the last of them, and then S, D, P and the
  tree are the same.

* `GraphPromise` proves what the caller is promised. First the converse of the above,
  `WaiterHasWorker` (`CallerWaitsForSomebody`): as long as the latch is not open, a thread is at
  work or queued. `Attended` adds that nothing begun is dropped: an output that exists is being
  carried to its parent, a node that is started is being entered or has children at work, a
  storage all of whose children are through is being destroyed. If no thread were at work,
  every started node would be passed on, from the leaves up, hence the whole tree started, and
  nothing would be left to count down.

  Then that every step is one of `Future` or none (`PromiseIsKept`): a call gets one result, an
  output its graph can have with the input of that very call, and returns after it. The
  invariant is `ValuedInv` (`ValuesAreOfOneEvaluation`): besides S, D and P there is a function of
  the nodes, on D their outputs, such that each node in D has the output made of those of its
  feeder and children (an `any`, that of one child in D), a thread carries the input of the
  node it enters or the output of the one it leaves, a storage holds the input of its node, and
  the tuple of an `all` what was passed to it so far. A step that completes a node defines the
  function there and changes it nowhere else; that this disturbs nobody is `ValueIsLocal`. Once
  the root is in D, so is all its output was made of, and `RootOutcome` extends the children the
  `any`s have had to a choice of `Winners`, whose `Evaluation` agrees with the function.

* `SyncExecuteProofs` proves of the composition with the latch in full that it makes the
  steps of `Graph` (`LatchedGraphSafety`, the safety part of `ImplementsGraph`), hence those of
  `Future` (`LatchedPromise`), and `LatchOutlivesCalls` and `SleeperHasWaker`. The invariant is `GraphSafety`'s under the
  refinement mapping, and of the latch: who holds the mutex, that a `count_down` in progress
  belongs to a thread that is at that step of the graph and is never made twice
  (`CallsMade`), and that after the waiter's check nobody is left to make one (`Opened`).
  `CallsMade` is where the two halves need each other: the latch is safe because the graph
  counts it down as often as `cleanup_count() + 1` says, and the graph may be destroyed
  because the latch waits. It assumes that the owner of the latch is not one of its callers
  and that `Nobody` is neither (`OwnerAssumption`).

* `FailuresProofs` proves `FailedCallNeverReturns`, `FailureSparesStorages`,
  `NoResultOfAFailure` and `ResultsAreOutcomes`. In `Graph` nothing forces a thread to move on, so a caller that throws
  can be mapped to one that stands for ever at the step at which it threw (`site`; if it
  threw in an `any` it was counted as first, if `then` threw, it had been called).
  `FailureIsAStop`: under that mapping a failed call makes the steps of `Graph` until the
  program is terminated, so that `GraphSafety`'s invariant holds of it. The latch is then not
  open, because a thread stands in the graph. `NoResultOfAFailure` (`OnlyWholeResults`) has an
  invariant of its own: every set of completions anyone has seen contains what each of them
  required, and a component of an `all`'s tuple is there before its `fetch_sub`. It is proved
  for values that differ from `Nothing` (`ValuesAreSomething`): a model value in the runs, and
  in general a choice that is always possible, since an output is a pair (`Nothing = <<>>`
  will do). `ResultsAreOutcomes` (`FailuresFalsifyNothing`) is `GraphPromise`'s: what stands does
  not change what values others carry, so the mapped call keeps `ValuedInv`, also in the step in
  which `then` throws in a task and the program is terminated.

`NestedCallsProofs` proves `HangsOnlyStarved` and `NothingOutlivesItsCall`, for every finite set
of calls, numbered with callers first, and any pool, and that with more workers than tasks that
wait for tasks nobody is ever stuck (`EnoughWorkersNeverHang`, the safety part of
`EnoughWorkersReturn`). The invariant `NestedInv` says where the children of a call are given
the call's place (`Begun`), and where a call is given the child that makes it (`Called`); a worker
has one task (`Manned`). `Counted` is the arithmetic of a call: `left` is the number of children
that are not counted yet, and `ctr` that of the `count_down`s to come, the one after `then`
(`ThenToCome`) and an `any`'s cleanup (`CleanupToCome`), either of which is with exactly one child
or will be. Hence a latch at zero leaves no child that is not through (`OpenIsOver`), which along
the nesting gives `NothingOutlivesItsCall`, and a latch above zero leaves one to wait for. If
nobody can go on, a call that is not over waits either for its last child, which is in a call
with a larger number, or for tasks. So the call with the largest number has a task in the
queue, for which there is no worker; and each worker is in a task which, along the calls made
by last children, comes to one that waits for a task.

`CacheAlignedTuple` proves `NoFalseSharing`: two components of a `cache_aligned_tuple` of any
sizes and in any order lie in different cache lines. It assumes of `std::tuple` that it aligns
its components as their types require and does not let them overlap, and of the tuple that
it is aligned itself. The argument: a component is padded to full lines (`PaddedFits`), so the
lines of its bytes end where its padding does (`LinesWithin`).

TLC only:

* all liveness: `WaitersReturn`, `TasksEnd`, `SurvivorsEnd`, `EnoughWorkersReturn` and the
  fairness in `ImplementsGate`, `KeepsPromise` and `ImplementsGraph`. The prover has no rules
  for fairness and ENABLED. Of the deadlocks behind them `WaiterHasWorker`, `SleeperHasWaker` and
  `EnoughWorkersNeverHang` are the part that is a safety property, and proved.
* `Accounts`, which is `Inv`, `AttendedInv` and `ValuedInv` with the stages computed instead of
  "there are": the form that TLC can evaluate of what `Accounting`, `StepKeepsAttendedInv` and
  `ValuesAreOfOneEvaluation` prove.
* `EnsuresHold`, `TypesTellTheTruth` and `CalledIgnoringNothing`: they compare with recursive
  definitions over data (`Value`, `TypeOf`, `SelectSeq`); the last is liveness, and the first two
  are about 21 given graphs, which the run has all of.
* `WaitAndGet`, whose property fails.

## Not modelled

* `meta` and the rest of `types`: compile-time loops and names, without behaviour at run time.
  Of `nothing.hpp`, `apply_ignoring_nothing` and `ignore_nothing`, which forward to
  `call_ignoring_nothing` and are used nowhere; of `cache_aligned_tuple`, `get` by type and
  `swap`; of `variant.hpp`, `get<N>`, all unused by the programs.
* `movable_atomic`: only `src/temp.hpp` uses it, and moves it before anything runs.
* Concurrent executions of the same graph, which its single storage per node rules out, and
  the scheduler's own thread-safety.
* Of the client programs, the loops that repeat them, timing and printing, and the variants
  of the benchmarks made with `boost::future`, which do not call the library.
* Of the earlier design in `src/temp.hpp`, the types of values, `execute` of a node that ends
  a chain (`wait_and_get` puts its own node there), and a second execution, which its
  interface rules out.
* `src/new_design.cpp` (a draft that calls children one after the other and drops their
  results), `src/new2.cpp` (a draft against an interface the nodes no longer have: it calls
  `execute` without a cleanup and does not compile), `src/ctt_bench.cpp` (a measurement).

## Plan

All parts of the plan are done: the modules and runs above, the safety invariants of `Latch`,
`Graph`, `SyncExecute`, `Failures` and `NestedCalls` proved, and the three refinements (`Latch` of
`Gate`, `Graph` of `Future`, `SyncExecute` of `Graph` and, with it, of `Future`) proved step by step.
What could be added:

1. `Failures` with the latch in full. `FailureIsAStop` maps a failed call to one of `Graph`, so it
   would be mapped to one of `SyncExecute`.
2. Nested calls whose inner graphs are those of `Graph`, in place of the children of their roots.
3. The passes of `Nothing` with an invariant in place of the recursive definition.
