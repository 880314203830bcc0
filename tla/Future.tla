-------------------------------- MODULE Future --------------------------------
(***************************************************************************)
(* What sync_execute promises its caller: each call runs the graph, hands  *)
(* exactly one of the outputs the graph can have to the caller's `then`,   *)
(* and returns after that.  How a graph is executed does not show here;    *)
(* module Graph implements this one.                                       *)
(***************************************************************************)
EXTENDS Integers, Sequences

CONSTANTS
    Graphs,         \* the graphs the caller may execute
    MaxCalls,       \* bound: how often the caller calls sync_execute
    Outcome(_, _)   \* the outputs a graph can have in a given call

VARIABLES
    running,        \* a call of sync_execute has not returned
    calls,          \* how many times sync_execute was called
    graph,          \* the graph of the current (or last) call
    results         \* what `then` was invoked with during that call

vars == <<running, calls, graph, results>>

Init ==
    /\ running = FALSE
    /\ calls = 0
    /\ graph \in Graphs
    /\ results = <<>>

Call(g) ==
    /\ ~running
    /\ calls < MaxCalls
    /\ running' = TRUE
    /\ calls' = calls + 1
    /\ graph' = g
    /\ results' = <<>>

Deliver ==
    /\ running
    /\ results = <<>>
    /\ \E v \in Outcome(graph, calls) : results' = <<v>>
    /\ UNCHANGED <<running, calls, graph>>

Return ==
    /\ running
    /\ results # <<>>
    /\ running' = FALSE
    /\ UNCHANGED <<calls, graph, results>>

Next == (\E g \in Graphs : Call(g)) \/ Deliver \/ Return

\* The caller owes no call; the library owes it a result and its return.
Spec == Init /\ [][Next]_vars /\ WF_vars(Deliver) /\ WF_vars(Return)

=============================================================================
