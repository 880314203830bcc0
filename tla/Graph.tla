-------------------------------- MODULE Graph --------------------------------
(***************************************************************************)
(* The execution of a graph of futures by orizzonte's sync_execute:        *)
(* include/orizzonte/node/{leaf,seq,all,any,helper}.hpp over               *)
(* include/orizzonte/utility/{aligned_storage,sync_execute}.hpp.           *)
(*                                                                         *)
(* A graph is a tree of nodes.  A leaf runs a function; a seq runs its     *)
(* first child and passes its output to its second; an all runs its        *)
(* children at the same time and passes on the tuple of their outputs; an  *)
(* any does the same and passes on the output that comes first.  All       *)
(* children but the last are handed to a scheduler, the last one runs on   *)
(* the thread of its parent.  The children of an all or an any share its   *)
(* input and an atomic counter of those left, both in a storage that is    *)
(* constructed when the node starts and destroyed when its last child is   *)
(* through.  The losers of an any outlive the continuation of the winner:  *)
(* the latch of sync_execute is what keeps the graph alive for them.       *)
(*                                                                         *)
(* The latch is taken at the level of module Gate, which module Latch      *)
(* implements.  The scheduler is external: it runs every task it is given, *)
(* each on a worker of its own, at most Workers at a time.                 *)
(***************************************************************************)
EXTENDS Integers, Sequences, FiniteSets

CONSTANTS
    Node,       \* the nodes of all graphs, numbered with parents first
    Kind,       \* the class of each node
    Kids,       \* the pack Fs... of each node (A and B of a seq)
    Workers,    \* how many tasks the scheduler runs at a time
    MaxCalls,   \* bound: how often the client calls sync_execute
    Nothing     \* the content of a tuple that was moved from

ASSUME NodeAssumption ==
    /\ Node \subseteq Nat \ {0}
    /\ IsFiniteSet(Node)
    /\ Kind \in [Node -> {"leaf", "seq", "all", "any"}]

\* A node has the children its class requires, and is the child of one parent.
ASSUME KidsAssumption ==
    /\ Kids \in [Node -> Seq(Node)]
    /\ \A n \in Node :
        CASE Kind[n] = "leaf" -> Len(Kids[n]) = 0
          [] Kind[n] = "seq" -> Len(Kids[n]) = 2
          [] OTHER -> Len(Kids[n]) >= 1
    /\ \A n \in Node : \A i \in DOMAIN Kids[n] : n < Kids[n][i]
    /\ \A m, n \in Node : \A i \in DOMAIN Kids[m], j \in DOMAIN Kids[n] :
        Kids[m][i] = Kids[n][j] => m = n /\ i = j

ASSUME BoundsAssumption == Workers \in Nat \ {0} /\ MaxCalls \in Nat

-----------------------------------------------------------------------------
\* The static shape of the graphs.

KidsOf(n) == {Kids[n][i] : i \in DOMAIN Kids[n]}

Arity(n) == Len(Kids[n])

Roots == Node \ UNION {KidsOf(n) : n \in Node}

\* The parent of a child and its position in the parent's pack.
Parent == [k \in Node \ Roots |-> CHOOSE n \in Node : k \in KidsOf(n)]

Position == [k \in Node \ Roots |->
                CHOOSE i \in DOMAIN Kids[Parent[k]] : Kids[Parent[k]][i] = k]

Shared(n) == Kind[n] \in {"all", "any"}

ChildOf(k, kind) == k \notin Roots /\ Kind[Parent[k]] = kind

\* schedule_if_last: is_last.
IsLast(k) == Position[k] = Arity(Parent[k])

NextKid(k) == Kids[Parent[k]][Position[k] + 1]

\* Mutant of CleanupCount: a seq counts the any nodes of its second node only.
CleanupCountOfSecond ==
    LET cleanup_count[n \in Node] ==
            LET Sum[i \in 0 .. Arity(n)] ==
                    IF i = 0 THEN 0
                    ELSE cleanup_count[Kids[n][i]]
                         + IF Kind[n] = "seq" THEN 0 ELSE Sum[i - 1]
            IN  Sum[Arity(n)] + IF Kind[n] = "any" THEN 1 ELSE 0
    IN  cleanup_count

\* Mutant of CleanupCount: only the root counts as an any.
CleanupCountOfRoot == [n \in Node |-> IF Kind[n] = "any" THEN 1 ELSE 0]

\* cleanup_count(): the sum over the children, plus one for an any.  Nodes are
\* numbered with parents first, so a node's children come after it.
CleanupCount ==
    LET cleanup_count[n \in Node] ==
            LET Sum[i \in 0 .. Arity(n)] ==
                    IF i = 0 THEN 0 ELSE Sum[i - 1] + cleanup_count[Kids[n][i]]
            IN  Sum[Arity(n)] + IF Kind[n] = "any" THEN 1 ELSE 0
    IN  cleanup_count

\* The thread that calls sync_execute, and the tasks given to the scheduler:
\* one for each child that is not the last of an all or an any.
Main == 0
Task == {k \in Node \ Roots : Shared(Parent[k]) /\ ~IsLast(k)}
Thread == {Main} \union Task

VARIABLES
    \* The threads.
    pc,         \* the step each thread is at
    cur,        \* the node it is at: the child about to start at "fan", the
                \* any that cleans up (Main for the root's `then`) at "count"
    val,        \* the value it carries: an input, or an output being passed on
    rest,       \* the any nodes whose destruction it still has to return to
    seen,       \* the nodes whose completion happens before its next step
    \* The shared_state storage of each all and any, and the tuple of each all.
    engaged,    \* aligned_storage_for::_engaged
    input,      \* shared_state::_input
    left,       \* shared_state::_left
    joined,     \* the nodes whose completion was released into _left
    slot,       \* all::_values, the component of each child
    \* sync_execute's latch and its caller.
    ctr,        \* scoped_int_latch::_ctr
    counted,    \* the nodes whose completion was released into the latch
    calls,      \* how many times sync_execute was called
    root,       \* the graph of the current (or last) call
    results     \* what the caller's `then` was invoked with during that call

threadVars == <<pc, cur, val, rest, seen>>
storageVars == <<engaged, input, left, joined>>
latchVars == <<ctr, counted>>
callVars == <<calls, root, results>>
vars == <<threadVars, storageVars, slot, latchVars, callVars>>

\* The input of a graph is nothing_v; here it also tells the calls apart.
CallInput(c) == <<0, c>>

\* What a leaf's function returns, and the tuple of an all: the node and what
\* it was computed from.
Output(n, of) == <<n, of>>

Init ==
    /\ pc = [t \in Thread |-> "idle"]
    /\ cur = [t \in Thread |-> t]
    /\ val = [t \in Thread |-> Nothing]
    /\ rest = [t \in Thread |-> <<>>]
    /\ seen = [t \in Thread |-> {}]
    /\ engaged = [n \in Node |-> FALSE]
    /\ input = [n \in Node |-> Nothing]
    /\ left = [n \in Node |-> 0]
    /\ joined = [n \in Node |-> {}]
    /\ slot = [n \in Node |-> Nothing]
    /\ ctr = 0
    /\ counted = {}
    /\ calls = 0
    /\ root \in Roots
    /\ results = <<>>

-----------------------------------------------------------------------------
\* Moves of a thread.

Goto(t, label, n) ==
    /\ pc' = [pc EXCEPT ![t] = label]
    /\ cur' = [cur EXCEPT ![t] = n]

\* The stack of t unwinds: to the any whose continuation has returned, or else
\* out of the task (or, for the caller, out of graph.execute).
Unwind(t, known) ==
    /\ val' = [val EXCEPT ![t] = Nothing]
    /\ IF rest[t] # <<>>
       THEN /\ Goto(t, "last", Head(rest[t]))
            /\ rest' = [rest EXCEPT ![t] = Tail(@)]
            /\ seen' = [seen EXCEPT ![t] = known]
       ELSE /\ Goto(t, IF t = Main THEN "wait" ELSE "idle", t)
            /\ seen' = [seen EXCEPT ![t] = IF t = Main THEN known ELSE {}]
            /\ UNCHANGED rest

\* The input t passes to node n: children of an all or an any read it from
\* their parent's storage, every other node is given a value.
Input(t, n) ==
    IF n \notin Roots /\ Shared(Parent[n]) THEN input[Parent[n]] ELSE val[t]

-----------------------------------------------------------------------------
\* sync_execute: the latch is set up and the graph's root executed.
Call(r) ==
    /\ pc[Main] = "idle"
    /\ calls < MaxCalls
    /\ calls' = calls + 1
    /\ root' = r
    /\ results' = <<>>
    /\ ctr' = CleanupCount[r] + 1
    /\ counted' = {}
    /\ Goto(Main, "exec", r)
    /\ val' = [val EXCEPT ![Main] = CallInput(calls')]
    /\ seen' = [seen EXCEPT ![Main] = {}]
    /\ UNCHANGED <<rest, storageVars, slot>>

\* leaf::execute: the function is called.
ExecLeaf(t) ==
    /\ pc[t] = "exec"
    /\ Kind[cur[t]] = "leaf"
    /\ Goto(t, "out", cur[t])
    /\ val' = [val EXCEPT ![t] = Output(cur[t], Input(t, cur[t]))]
    /\ seen' = [seen EXCEPT ![t] = @ \union {cur[t]}]
    /\ UNCHANGED <<rest, storageVars, slot, latchVars, callVars>>

\* seq::execute: the input is forwarded to A.
ExecSeq(t) ==
    /\ pc[t] = "exec"
    /\ Kind[cur[t]] = "seq"
    /\ Goto(t, "exec", Kids[cur[t]][1])
    /\ val' = [val EXCEPT ![t] = Input(t, cur[t])]
    /\ UNCHANGED <<rest, seen, storageVars, slot, latchVars, callVars>>

\* The shared_state of n is constructed: the input is copied into the storage, and
\* the counter is stored with std::memory_order_release.
Construct(t, n, count) ==
    /\ engaged' = [engaged EXCEPT ![n] = TRUE]
    /\ input' = [input EXCEPT ![n] = Input(t, n)]
    /\ left' = [left EXCEPT ![n] = count]
    /\ joined' = [joined EXCEPT ![n] = seen[t]]

\* Mutant of ExecShared: the last child, being run inline, is not counted.
ExecSharedShort(t) ==
    LET n == cur[t] IN
    /\ pc[t] = "exec"
    /\ Shared(n)
    /\ Construct(t, n, Arity(n) - 1)
    /\ Goto(t, "fan", Kids[n][1])
    /\ val' = [val EXCEPT ![t] = Nothing]
    /\ UNCHANGED <<rest, seen, slot, latchVars, callVars>>

\* all::execute and any::execute, up to the loop over the children.
ExecShared(t) ==
    LET n == cur[t] IN
    /\ pc[t] = "exec"
    /\ Shared(n)
    /\ Construct(t, n, Arity(n))
    /\ Goto(t, "fan", Kids[n][1])
    /\ val' = [val EXCEPT ![t] = Nothing]
    /\ UNCHANGED <<rest, seen, slot, latchVars, callVars>>

\* schedule_if<false>: the child's computation becomes a task.
Schedule(t) ==
    LET k == cur[t] IN
    /\ pc[t] = "fan"
    /\ ~IsLast(k)
    /\ pc' = [pc EXCEPT ![k] = "queued"]
    /\ cur' = [cur EXCEPT ![t] = NextKid(k), ![k] = k]
    /\ seen' = [seen EXCEPT ![k] = seen[t]]
    /\ UNCHANGED <<val, rest, storageVars, slot, latchVars, callVars>>

\* schedule_if<true>: the last child's computation is called.
RunInline(t) ==
    /\ pc[t] = "fan"
    /\ IsLast(cur[t])
    /\ Goto(t, "exec", cur[t])
    /\ UNCHANGED <<val, rest, seen, storageVars, slot, latchVars, callVars>>

Running == {k \in Task : pc[k] \notin {"idle", "queued"}}

\* The scheduler (external) runs a task.
Start(k) ==
    /\ pc[k] = "queued"
    /\ Cardinality(Running) < Workers
    /\ Goto(k, "exec", k)
    /\ UNCHANGED <<val, rest, seen, storageVars, slot, latchVars, callVars>>

-----------------------------------------------------------------------------
\* The continuation of a node is invoked with its output.

\* seq: the output of A is the input of B.
SeqFirst(t) ==
    /\ pc[t] = "out"
    /\ ChildOf(cur[t], "seq")
    /\ Position[cur[t]] = 1
    /\ Goto(t, "exec", Kids[Parent[cur[t]]][2])
    /\ UNCHANGED <<val, rest, seen, storageVars, slot, latchVars, callVars>>

\* seq: the continuation of B is that of the seq.
SeqSecond(t) ==
    /\ pc[t] = "out"
    /\ ChildOf(cur[t], "seq")
    /\ Position[cur[t]] = 2
    /\ Goto(t, "out", Parent[cur[t]])
    /\ seen' = [seen EXCEPT ![t] = @ \union {Parent[cur[t]]}]
    /\ UNCHANGED <<val, rest, storageVars, slot, latchVars, callVars>>

\* Mutant of AllStore: the output is moved into the first component always.
AllStoreFirst(t) ==
    /\ pc[t] = "out"
    /\ ChildOf(cur[t], "all")
    /\ slot' = [slot EXCEPT ![Kids[Parent[cur[t]]][1]] = val[t]]
    /\ Goto(t, "join", cur[t])
    /\ val' = [val EXCEPT ![t] = Nothing]
    /\ UNCHANGED <<rest, seen, storageVars, latchVars, callVars>>

\* all: the output is moved into its component of the tuple.
AllStore(t) ==
    /\ pc[t] = "out"
    /\ ChildOf(cur[t], "all")
    /\ slot' = [slot EXCEPT ![cur[t]] = val[t]]
    /\ Goto(t, "join", cur[t])
    /\ val' = [val EXCEPT ![t] = Nothing]
    /\ UNCHANGED <<rest, seen, storageVars, latchVars, callVars>>

\* Mutant of Release: fetch_sub with std::memory_order_acquire.
ReleaseNothing(t, n) == UNCHANGED joined

\* Mutant of Acquire: fetch_sub with std::memory_order_release.
AcquireNothing(t, n) == seen[t]

\* _left.fetch_sub(1, std::memory_order_acq_rel): what t has done is released
\* into the counter, and what was released there before is acquired from it.
Release(t, n) == joined' = [joined EXCEPT ![n] = @ \union seen[t]]

Acquire(t, n) == seen[t] \union joined[n]

FetchSub(t, n) ==
    /\ left' = [left EXCEPT ![n] = @ - 1]
    /\ Release(t, n)
    /\ UNCHANGED <<engaged, input, slot, latchVars, callVars>>

\* Mutant of AllJoin: a child that is not the last waits for the last one.
AllJoinBlocks(t) ==
    LET n == Parent[cur[t]] IN
    /\ pc[t] = "join"
    /\ left[n] # 1
    /\ \A k \in KidsOf(n) : k # cur[t] => slot[k] # Nothing
    /\ FetchSub(t, n)
    /\ Unwind(t, Acquire(t, n))

\* all: a child is through, and others are not.
AllJoin(t) ==
    LET n == Parent[cur[t]] IN
    /\ pc[t] = "join"
    /\ left[n] # 1
    /\ FetchSub(t, n)
    /\ Unwind(t, Acquire(t, n))

\* all: the last child is through.
AllLast(t) ==
    LET n == Parent[cur[t]] IN
    /\ pc[t] = "join"
    /\ left[n] = 1
    /\ FetchSub(t, n)
    /\ Goto(t, "last", n)
    /\ seen' = [seen EXCEPT ![t] = Acquire(t, n)]
    /\ UNCHANGED <<val, rest>>

\* Mutant of AnyFirst: the test of r == 1 is missing, so that the winner always
\* destroys and cleans up after its continuation.
AnyFirstDestroys(t) ==
    LET n == Parent[cur[t]] IN
    /\ pc[t] = "out"
    /\ ChildOf(cur[t], "any")
    /\ left[n] = Arity(n)
    /\ FetchSub(t, n)
    /\ Goto(t, "out", n)
    /\ rest' = [rest EXCEPT ![t] = <<n>> \o @]
    /\ seen' = [seen EXCEPT ![t] = Acquire(t, n) \union {n}]
    /\ UNCHANGED val

\* any: the first child to be through passes its output on.  If it is the only
\* one, the destruction comes after the continuation has returned.
AnyFirst(t) ==
    LET n == Parent[cur[t]] IN
    /\ pc[t] = "out"
    /\ ChildOf(cur[t], "any")
    /\ left[n] = Arity(n)
    /\ FetchSub(t, n)
    /\ Goto(t, "out", n)
    /\ rest' = [rest EXCEPT ![t] = IF left[n] = 1 THEN <<n>> \o @ ELSE @]
    /\ seen' = [seen EXCEPT ![t] = Acquire(t, n) \union {n}]
    /\ UNCHANGED val

\* any: a loser that is not the last child is dropped.
AnyLose(t) ==
    LET n == Parent[cur[t]] IN
    /\ pc[t] = "out"
    /\ ChildOf(cur[t], "any")
    /\ left[n] \notin {1, Arity(n)}
    /\ FetchSub(t, n)
    /\ Unwind(t, Acquire(t, n))

\* Mutant of AnyLast: the last child is taken for the first one as well.
AnyLastWins(t) ==
    LET n == Parent[cur[t]] IN
    /\ pc[t] = "out"
    /\ ChildOf(cur[t], "any")
    /\ left[n] = 1
    /\ left[n] # Arity(n)
    /\ FetchSub(t, n)
    /\ Goto(t, "out", n)
    /\ rest' = [rest EXCEPT ![t] = <<n>> \o @]
    /\ seen' = [seen EXCEPT ![t] = Acquire(t, n) \union {n}]
    /\ UNCHANGED val

\* any: the last child, not being the first, only has to clean up.
AnyLast(t) ==
    LET n == Parent[cur[t]] IN
    /\ pc[t] = "out"
    /\ ChildOf(cur[t], "any")
    /\ left[n] = 1
    /\ left[n] # Arity(n)
    /\ FetchSub(t, n)
    /\ Goto(t, "last", n)
    /\ val' = [val EXCEPT ![t] = Nothing]
    /\ seen' = [seen EXCEPT ![t] = Acquire(t, n)]
    /\ UNCHANGED rest

\* The shared_state of n is destroyed.
Destroy(n) ==
    /\ engaged' = [engaged EXCEPT ![n] = FALSE]
    /\ input' = [input EXCEPT ![n] = Nothing]
    /\ joined' = [joined EXCEPT ![n] = {}]
    /\ UNCHANGED left

\* all: after the destruction the tuple is moved to the continuation.
AllFinish(t) ==
    LET n == cur[t] IN
    /\ pc[t] = "last"
    /\ Kind[n] = "all"
    /\ Destroy(n)
    /\ val' = [val EXCEPT ![t] =
                   Output(n, [i \in DOMAIN Kids[n] |-> slot[Kids[n][i]]])]
    /\ slot' = [k \in Node |-> IF k \in KidsOf(n) THEN Nothing ELSE slot[k]]
    /\ Goto(t, "out", n)
    /\ seen' = [seen EXCEPT ![t] = @ \union {n}]
    /\ UNCHANGED <<rest, latchVars, callVars>>

\* Mutant of AnyFinish: the cleanup is forgotten.
AnyFinishSilently(t) ==
    /\ pc[t] = "last"
    /\ Kind[cur[t]] = "any"
    /\ Destroy(cur[t])
    /\ Unwind(t, seen[t])
    /\ UNCHANGED <<slot, latchVars, callVars>>

\* any: after the destruction the cleanup is called.
AnyFinish(t) ==
    /\ pc[t] = "last"
    /\ Kind[cur[t]] = "any"
    /\ Destroy(cur[t])
    /\ Goto(t, "count", cur[t])
    /\ UNCHANGED <<val, rest, seen, slot, latchVars, callVars>>

\* The continuation of the root: the caller's `then` is invoked.
Deliver(t) ==
    /\ pc[t] = "out"
    /\ cur[t] \in Roots
    /\ results' = Append(results, val[t])
    /\ Goto(t, "count", Main)
    /\ val' = [val EXCEPT ![t] = Nothing]
    /\ UNCHANGED <<rest, seen, storageVars, slot, latchVars, calls, root>>

\* l.count_down(), from the continuation of the root or from a cleanup.
CountDown(t) ==
    /\ pc[t] = "count"
    /\ ctr' = ctr - 1
    /\ counted' = counted \union seen[t]
    /\ Unwind(t, seen[t] \union counted)
    /\ UNCHANGED <<storageVars, slot, callVars>>

\* ~scoped_int_latch: the wait is over and sync_execute returns.
Return ==
    /\ pc[Main] = "wait"
    /\ ctr = 0
    /\ Goto(Main, "idle", Main)
    /\ seen' = [seen EXCEPT ![Main] = @ \union counted]
    /\ UNCHANGED <<val, rest, storageVars, slot, latchVars, callVars>>

-----------------------------------------------------------------------------
Execute(t) == ExecLeaf(t) \/ ExecSeq(t) \/ ExecShared(t)

Fan(t) == Schedule(t) \/ RunInline(t)

Continue(t) ==
    \/ SeqFirst(t) \/ SeqSecond(t) \/ Deliver(t)
    \/ AllStore(t) \/ AllJoin(t) \/ AllLast(t) \/ AllFinish(t)
    \/ AnyFirst(t) \/ AnyLose(t) \/ AnyLast(t) \/ AnyFinish(t)
    \/ CountDown(t)

Step(t) == Execute(t) \/ Fan(t) \/ Continue(t)

\* The client does not call again, or the program is over.
Terminating ==
    /\ pc[Main] = "idle"
    /\ calls = MaxCalls
    /\ \A k \in Task : pc[k] = "idle"
    /\ UNCHANGED vars

Next ==
    \/ \E r \in Roots : Call(r)
    \/ \E t \in Thread : Step(t)
    \/ \E k \in Task : Start(k)
    \/ Return
    \/ Terminating

\* The scheduler starts what it was given while a worker is free, no thread is
\* stopped for ever, and the client owes nobody a call.
Fairness ==
    /\ \A t \in Thread : WF_vars(Step(t))
    /\ \A k \in Task : WF_vars(Start(k))
    /\ WF_vars(Return)

Spec == Init /\ [][Next]_vars /\ Fairness

-----------------------------------------------------------------------------
Label == {"idle", "queued", "exec", "fan", "out", "join", "last", "count",
          "wait"}

\* The any nodes with one child, the only ones whose destruction has to wait for
\* their continuation to return on the same thread.
Only == {n \in Node : Kind[n] = "any" /\ Arity(n) = 1}

\* What node (or Main, for the caller's own steps) a thread can be at in a step.
Place(t, label, n) ==
    /\ label \in {"idle", "queued", "wait"} => n = t
    /\ label = "wait" => t = Main
    /\ label = "queued" => t \in Task
    /\ n = Main => label \in {"idle", "wait", "count"}
    /\ label = "fan" => n \notin Roots /\ Shared(Parent[n])
    /\ label = "join" => ChildOf(n, "all")
    /\ label = "last" => Shared(n)

ThreadType ==
    /\ pc \in [Thread -> Label]
    /\ cur \in [Thread -> Node \union {Main}]
    /\ DOMAIN val = Thread
    /\ rest \in [Thread -> Seq(Only)]
    /\ seen \in [Thread -> SUBSET Node]
    /\ \A t \in Thread : Place(t, pc[t], cur[t])

StorageType ==
    /\ engaged \in [Node -> BOOLEAN]
    /\ DOMAIN input = Node
    /\ left \in [Node -> Int]
    /\ joined \in [Node -> SUBSET Node]
    /\ DOMAIN slot = Node

CallType ==
    /\ counted \in SUBSET Node
    /\ calls \in 0 .. MaxCalls
    /\ root \in Roots

\* Types: every thread is at a step of its own, at the kind of node the step is
\* made for, and returns only to any nodes of one child; histories are sets of
\* nodes.  (LatchBalance says what the latch's counter is.)
TypeOK == ThreadType /\ StorageType /\ CallType

\* The storage whose _input a node is handed a reference to, directly or as the
\* first node of a seq; Main if its input does not live in a storage.
Lender ==
    LET lender[n \in Node] ==
            IF n \in Roots THEN Main
            ELSE IF Shared(Parent[n]) THEN Parent[n]
            ELSE IF Position[n] = 1 THEN lender[Parent[n]]
            ELSE Main
    IN  lender

\* The assertions of aligned_storage_for: a storage is constructed only while
\* it holds nothing, and is destroyed, or has its counter touched, only while
\* it holds something; moreover a node that was given a reference to an input
\* still finds that input alive when it uses it.
StorageDiscipline ==
    \A t \in Thread :
        LET n == cur[t] IN
        /\ pc[t] = "exec" =>
            /\ Shared(n) => ~engaged[n]
            /\ Lender[n] # Main => engaged[Lender[n]]
        /\ pc[t] = "join" \/ (pc[t] = "out" /\ ChildOf(n, "any"))
            => engaged[Parent[n]]
        /\ pc[t] = "last" => engaged[n]

\* The count_down() that opens the latch is the last thing that happens to the
\* graph: from then on no task is queued or running, no any has its destruction
\* pending, every storage is empty again, and the caller got its result.
LatchOpensLast ==
    calls > 0 /\ ctr <= 0 =>
        /\ \A k \in Task : pc[k] = "idle"
        /\ pc[Main] \in {"wait", "idle"}
        /\ \A t \in Thread : rest[t] = <<>>
        /\ \A n \in Node : ~engaged[n]
        /\ Len(results) = 1

\* Each storage's counter is the number of children that are not through.
JoinCount ==
    \A n \in Node :
        engaged[n] => left[n] = Cardinality(KidsOf(n) \ joined[n])

\* The subtree of each node.
Tree ==
    LET tree[n \in Node] == {n} \union UNION {tree[k] : k \in KidsOf(n)}
    IN  tree

\* The any nodes of the call whose cleanup has not counted the latch down yet.
Owing ==
    {n \in Tree[root] :
        /\ Kind[n] = "any"
        /\ \/ ~(KidsOf(n) \subseteq counted)
           \/ engaged[n]
           \/ \E t \in Thread : pc[t] = "count" /\ cur[t] = n}

\* The latch's counter is at any time the number of count_down() calls to come:
\* one for each any, and one for the root's continuation.  cleanup_count() + 1,
\* computed before anything runs, is exactly what will be counted down.
LatchBalance ==
    calls > 0 =>
        ctr = Cardinality(Owing) + IF root \in counted THEN 0 ELSE 1

\* The thread that finds itself last in an all or an any sees the completion of
\* every child: it reads all components of the tuple, and destroys the input
\* only after the last read of it.
LastSeesAll ==
    \A t \in Thread : pc[t] = "last" => KidsOf(cur[t]) \subseteq seen[t]

\* When sync_execute returns, its caller sees the completion of every node of
\* the graph, the losers of each any included, and may destroy it.
ReturnSeesAll ==
    pc[Main] = "idle" /\ calls > 0 => Tree[root] \subseteq seen[Main]

\* As long as the latch is not open, some thread is not through: no continuation,
\* no child and no cleanup is dropped, so the caller does not wait for nobody.
WaiterHasWorker ==
    calls > 0 /\ ctr # 0 => \E t \in Thread : pc[t] \notin {"idle", "wait"}

\* Every task given to the scheduler gets to run and ends, even if the scheduler
\* has one worker only: no thread of the library waits for another one.
TasksEnd == \A k \in Task : pc[k] = "queued" ~> pc[k] = "idle"

=============================================================================
