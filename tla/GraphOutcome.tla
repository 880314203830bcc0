----------------------------- MODULE GraphOutcome -----------------------------
(***************************************************************************)
(* What a graph evaluates to, defined on its tree alone, and the promise   *)
(* of sync_execute (module Future) as module Graph keeps it.               *)
(*                                                                         *)
(* A graph has one output for each way its any nodes can be decided: given *)
(* the child of each any that comes first, every node has one input and    *)
(* one output.  The invariant of module GraphInvariant is carried on to    *)
(* these: whatever a thread carries, a storage holds or a tuple was        *)
(* assigned is the input or the output that its node has.                  *)
(***************************************************************************)
EXTENDS GraphInvariant

\* The node whose output is a node's input: the first node of the innermost seq
\* that the node is in the second node of; Main if it is the graph's own input.
Feeder ==
    LET feeder[n \in Node] ==
            IF n \in Roots THEN Main
            ELSE IF Kind[Parent[n]] = "seq" /\ Position[n] = 2
            THEN Kids[Parent[n]][1]
            ELSE feeder[Parent[n]]
    IN  feeder

\* Given the outputs of all nodes, the input of a node in call c of its graph.
Fed(out, c, n) == IF Feeder[n] = Main THEN CallInput(c) ELSE out[Feeder[n]]

\* What a leaf, a seq and an all make of their input and their children's outputs.
Made(out, c, n) ==
    CASE Kind[n] = "leaf" -> Output(n, Fed(out, c, n))
      [] Kind[n] = "seq" -> out[Kids[n][2]]
      [] OTHER -> Output(n, [i \in DOMAIN Kids[n] |-> out[Kids[n][i]]])

\* The any nodes of graph r, and the children that can come first in them.
Anys(r) == {n \in Tree[r] : Kind[n] = "any"}

Winners(r) ==
    {win \in [Anys(r) -> UNION {KidsOf(n) : n \in Anys(r)}] :
        \A n \in Anys(r) : win[n] \in KidsOf(n)}

\* The outputs of all nodes of graph r in call c, if these win.
Evaluation(r, c, win) ==
    LET out[n \in Tree[r]] ==
            IF Kind[n] = "any" THEN out[win[n]] ELSE Made(out, c, n)
    IN  out

\* The outputs graph r can have in call c: the reference definition.
Outcome(r, c) == {Evaluation(r, c, win)[r] : win \in Winners(r)}

-----------------------------------------------------------------------------
Promise == INSTANCE Future WITH
    Graphs  <- Roots,
    running <- pc[Main] # "idle",
    graph   <- root

\* A graph executed by threads, a counter, storages and a latch behaves as the
\* caller is promised: each call gets one result, which the graph can have with
\* the input of that very call, and returns after that.
KeepsPromise == Promise!Spec

\* Its safety part: no call gets a result that the graph cannot have with the
\* input of that call, or gets a second one, or returns without one.
ImplementsFuture == Promise!Init /\ [][Promise!Next]_(Promise!vars)

\* What a call of sync_execute has passed to `then` is an output that its graph can
\* have with the input of that call.
ResultsAreOutcomes == \A i \in DOMAIN results : results[i] \in Outcome(root, calls)

-----------------------------------------------------------------------------
\* The nodes that are done have the output they make of those that feed them; an
\* any that of one of its children.
Evaluated(D, out) ==
    \A n \in D : IF Kind[n] = "any"
                 THEN \E k \in KidsOf(n) \intersect D : out[n] = out[k]
                 ELSE out[n] = Made(out, calls, n)

\* A thread carries the input of the node it enters, or the output of the one it
\* leaves, which at the join of an all is in the tuple.
Carries(t, out) ==
    /\ pc[t] = "exec" => Input(t, cur[t]) = Fed(out, calls, cur[t])
    /\ pc[t] = "out" => val[t] = out[cur[t]]
    /\ pc[t] = "join" => slot[cur[t]] = out[cur[t]]

\* A storage holds the input of its node, and the tuple of an all what was passed
\* to it so far.
Holds(P, out) ==
    \A n \in Node : engaged[n] =>
        /\ input[n] = Fed(out, calls, n)
        /\ Kind[n] = "all" => \A k \in KidsOf(n) \intersect P : slot[k] = out[k]

\* All values are those of one evaluation.
Valued(D, P, out) ==
    /\ Evaluated(D, out)
    /\ \A t \in Thread : Carries(t, out)
    /\ Holds(P, out)

\* The inductive invariant: there are stages of the nodes that account for where
\* everything is, and outputs that account for every value.
ValuedInv ==
    Unused \/ \E S, D, P \in SUBSET Node :
                  Account(S, D, P) /\ \E out : Valued(D, P, out)

=============================================================================
