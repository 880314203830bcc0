---------------------------- MODULE GraphInvariant ----------------------------
(***************************************************************************)
(* The inductive invariant of module Graph.                                *)
(*                                                                         *)
(* A call goes through the tree of its graph, and every node through three *)
(* stages that the program does not record: a node is started when a       *)
(* thread is sent to it, done when its output exists, and passed on when   *)
(* that output is consumed by the continuation (the next node of a seq,    *)
(* the fetch_sub of an all or an any, or the caller's `then`).  The        *)
(* invariant says that sets S, D and P of the nodes started, done and      *)
(* passed on exist that account for everything the program does record:    *)
(* where the threads are, which storages hold something and what their     *)
(* counters are, what each thread can see, and the counter of the latch.   *)
(***************************************************************************)
EXTENDS Graph

\* What a thread is doing with a node: it is on its way into it, about to start
\* it as the child of an all or an any, on its way out of it, ...
Entering(t, n) == pc[t] \in {"queued", "exec"} /\ cur[t] = n
Starting(t, k) == pc[t] = "fan" /\ cur[t] = k
Leaving(t, n) == pc[t] \in {"out", "join"} /\ cur[t] = n

\* ... going to destroy its storage, now or when a continuation has returned,
\* or going to count the latch down for it (or for Main).
Pending(t) == {rest[t][i] : i \in DOMAIN rest[t]}
Ending(t, n) == (pc[t] = "last" /\ cur[t] = n) \/ n \in Pending(t)
Counting(t, n) == pc[t] = "count" /\ cur[t] = n

\* A seq and an all end after all of their children.
Waits(n) == Kind[n] \in {"seq", "all"}

Closed(X) == \A n \in X : Waits(n) => KidsOf(n) \subseteq X

-----------------------------------------------------------------------------
\* The stages of the nodes: a node is started by its parent, a seq or an all is
\* done when its children are, the second node of a seq is started by the first,
\* and a child's input is alive until its output is consumed.
Stages(S, D, P) ==
    /\ S \subseteq Tree[root] /\ D \subseteq S /\ P \subseteq D
    /\ root \in S
    /\ \A k \in S \ {root} : k \notin Roots /\ Parent[k] \in S
    /\ \A n \in D : Waits(n) => KidsOf(n) \subseteq P
    /\ \A n \in Node : Kind[n] = "seq" /\ Kids[n][2] \in S => Kids[n][1] \in P
    /\ \A k \in S \ P : k \notin Roots /\ Shared(Parent[k]) => engaged[Parent[k]]

\* A storage that holds something: its counter is the number of children that
\* are not passed on, and it was told of those that are.
Storages(S, D, P) ==
    \A n \in Node : engaged[n] =>
        /\ Shared(n) /\ n \in S
        /\ n \in D => Kind[n] = "any" /\ left[n] < Arity(n)
        /\ joined[n] \intersect KidsOf(n) = P \intersect KidsOf(n)
        /\ left[n] = Cardinality(KidsOf(n) \ P)

\* Where each thread is: at a node that has just been started, ...
EnteringFresh(S, D) ==
    \A t \in Thread, n \in Node : Entering(t, n) =>
        n \in S \ D /\ ~engaged[n] /\ KidsOf(n) \intersect S = {}

\* ... at a child that has not been started, and neither have those after it, ...
StartingFresh(S) ==
    \A t \in Thread, k \in Node : Starting(t, k) =>
        /\ engaged[Parent[k]]
        /\ \A i \in DOMAIN Kids[Parent[k]] :
               Position[k] <= i => Kids[Parent[k]][i] \notin S

\* ... at a node whose output exists and is still to be passed on, ...
LeavingDone(D, P) ==
    \A t \in Thread, n \in Node : Leaving(t, n) =>
        n \in D \ P /\ n \in seen[t]

\* ... at an all or an any all of whose children are through, and known to be, ...
EndingOver(P) ==
    \A t \in Thread, n \in Node : Ending(t, n) =>
        engaged[n] /\ KidsOf(n) \subseteq P /\ KidsOf(n) \subseteq seen[t]

\* ... at the latch, for an any that is destroyed or for the graph's output.
CountingOver(S) ==
    \A t \in Thread, n \in Node : Counting(t, n) =>
        /\ Kind[n] = "any" /\ n \in S /\ ~engaged[n]
        /\ KidsOf(n) \subseteq seen[t]

CountingOutput(P) ==
    \A t \in Thread : Counting(t, Main) =>
        root \in P \ counted /\ root \in seen[t]

TasksStarted(S) == \A t \in Task : pc[t] # "idle" => t \in S

Positions(S, D, P) ==
    /\ EnteringFresh(S, D)
    /\ StartingFresh(S)
    /\ LeavingDone(D, P)
    /\ EndingOver(P)
    /\ CountingOver(S)
    /\ CountingOutput(P)
    /\ TasksStarted(S)

\* No two threads do the same thing with the same node, and no thread does it
\* twice.
Alone ==
    /\ \A t, u \in Thread, n \in Node :
           \/ Entering(t, n) /\ Entering(u, n)
           \/ Leaving(t, n) /\ Leaving(u, n)
           \/ Ending(t, n) /\ Ending(u, n)
           => t = u
    /\ \A t, u \in Thread : \A n \in Node \union {Main} :
           Counting(t, n) /\ Counting(u, n) => t = u
    /\ \A t, u \in Thread : \A k, l \in Node :
           Starting(t, k) /\ Starting(u, l) /\ Parent[k] = Parent[l] => t = u
    /\ \A t \in Thread :
           /\ \A i, j \in DOMAIN rest[t] : rest[t][i] = rest[t][j] => i = j
           /\ pc[t] = "last" => cur[t] \notin Pending(t)

\* What the threads, the storages' counters and the latch were told of.
Knowledge(P) ==
    /\ counted \subseteq P /\ Closed(counted)
    /\ \A n \in Node : joined[n] \subseteq P /\ Closed(joined[n])
    /\ \A t \in Thread :
           /\ \A n \in seen[t] : n \in P \/ Leaving(t, n)
           /\ Closed(seen[t])

\* A thread in the second node of a seq was told of the first.
Informed ==
    \A t \in Thread, m \in Node :
        \/ Entering(t, m) \/ Starting(t, m) \/ Leaving(t, m)
        \/ Kind[m] = "all" /\ Ending(t, m)
        => \A n \in Node : Kind[n] = "seq" /\ m \in Tree[Kids[n][2]] =>
               Kids[n][1] \in seen[t]

\* An any that was passed an output still has its storage, or its cleanup is
\* about to be called, or the latch was told of all its children.
Cleanups(P) ==
    \A n \in Node : Kind[n] = "any" /\ KidsOf(n) \intersect P # {} =>
        \/ engaged[n]
        \/ \E t \in Thread : Counting(t, n)
        \/ KidsOf(n) \subseteq counted

\* The graph's own output: the caller's `then` got it once, and only the thread
\* that brought it there knows of it until it counts the latch down.
Delivery(P) ==
    /\ IF root \in P THEN Len(results) = 1 ELSE results = <<>>
    /\ root \notin counted =>
           /\ \A t \in Thread : root \in seen[t] =>
                  Leaving(t, root) \/ Counting(t, Main)
           /\ \A n \in Node : root \notin joined[n]

\* What holds of whoever is not at work, between two calls as well.
Tidy ==
    /\ \A t \in Thread : pc[t] \in {"idle", "queued", "wait"} => rest[t] = <<>>
    /\ \A t \in Task : pc[t] = "idle" => seen[t] = {}
    /\ \A n \in Node : ~engaged[n] => joined[n] = {}
    /\ pc[Main] = "idle" /\ calls > 0 => ctr = 0 /\ counted \subseteq seen[Main]

\* A call accounts for everything.
Account(S, D, P) ==
    /\ calls > 0
    /\ TypeOK
    /\ Tidy
    /\ Stages(S, D, P)
    /\ Storages(S, D, P)
    /\ Positions(S, D, P)
    /\ Alone
    /\ Knowledge(P)
    /\ Informed
    /\ Cleanups(P)
    /\ Delivery(P)
    /\ LatchBalance

\* Before the first call nothing is at work.
Unused ==
    /\ calls = 0
    /\ TypeOK
    /\ Tidy
    /\ \A t \in Thread : pc[t] = "idle"
    /\ \A n \in Node : ~engaged[n]

Inv == Unused \/ \E S, D, P \in SUBSET Node : Account(S, D, P)

-----------------------------------------------------------------------------
\* Nothing that was begun is dropped: for whatever is left to do at a node a
\* thread is on its way.  An output is being passed on, ...
Carried(D, P) == \A n \in D \ P : \E t \in Thread : Leaving(t, n)

\* ... a node that is not done is being entered, or its children are at work, ...
AtWorkOn(S, n) ==
    \/ \E t \in Thread : Entering(t, n)
    \/ Kind[n] = "seq" /\ Kids[n][1] \in S
    \/ Shared(n) /\ engaged[n]

Pursued(S, D) == \A n \in S \ D : AtWorkOn(S, n)

\* ... a seq goes on from child to child, ...
Sequenced(S, D, P) ==
    \A n \in Node : Kind[n] = "seq" =>
        /\ Kids[n][1] \in P => Kids[n][2] \in S
        /\ Kids[n][2] \in P => n \in D

\* ... the children of an all or an any are started one after the other, ...
Begun(S) ==
    /\ \A t \in Thread, k \in Node : Starting(t, k) =>
           \A i \in DOMAIN Kids[Parent[k]] :
               i < Position[k] => Kids[Parent[k]][i] \in S
    /\ \A n \in Node : engaged[n] =>
           KidsOf(n) \subseteq S \/ \E t \in Thread, k \in KidsOf(n) : Starting(t, k)

\* ... and when they are through, a thread destroys their storage, ...
Ended(P) ==
    \A n \in Node : engaged[n] /\ KidsOf(n) \subseteq P =>
        \E t \in Thread : Ending(t, n)

\* ... an any is done with the first of them, ...
Decided(D, P) ==
    \A n \in Node : Kind[n] = "any" =>
        (n \in D <=> KidsOf(n) \intersect P # {})

\* ... and the graph's output counts the latch down.
Delivered(P) ==
    root \in P => root \in counted \/ \E t \in Thread : Counting(t, Main)

Attended(S, D, P) ==
    /\ Carried(D, P)
    /\ Pursued(S, D)
    /\ Sequenced(S, D, P)
    /\ Begun(S)
    /\ Ended(P)
    /\ Decided(D, P)
    /\ Delivered(P)

AttendedInv ==
    Unused \/ \E S, D, P \in SUBSET Node : Account(S, D, P) /\ Attended(S, D, P)

=============================================================================
