----------------------------- MODULE WaitAndGet -----------------------------
(***************************************************************************)
(* The earlier design of src/temp.hpp: a chain of stages, each a node (one *)
(* function) or a when_all (several at the same time), started on the      *)
(* scheduler by `schedule` and waited for by wait_and_get.                 *)
(*                                                                         *)
(* The nodes live in f, a local variable of wait_and_get, declared after   *)
(* the latch l: leaving the scope destroys f first, and then l, whose      *)
(* destructor waits.  What a task gets from a node that is destroyed is    *)
(* undefined: what a function captured, an input, a counter or an output   *)
(* may still be there, or may be something else.                           *)
(*                                                                         *)
(* Like most of those in src/temp.cpp, a stage adds one to its input, so   *)
(* that the output of stage k is k; the input of the first stage is 0.     *)
(***************************************************************************)
EXTENDS Integers, Sequences

CONSTANTS
    Chains,     \* the chains, not empty: the number of functions of each stage
    Garbage     \* a value no stage evaluates to

\* The thread of wait_and_get, the task of `schedule`, and one task for each
\* function but the last of a when_all.
Main == <<0, 0>>
First == <<0, 1>>
Spawned(ch) == UNION {{<<k, i>> : i \in 1 .. ch[k] - 1} : k \in DOMAIN ch}
Thread == {Main, First} \union UNION {Spawned(ch) : ch \in Chains}

\* initiate and then: the first stage, and one more.  wait_and_get adds a last
\* one of its own.
Initiate(functions) == <<functions>>
Then(ch, functions) == Append(ch, functions)

VARIABLES
    chain,      \* the chain f was made of
    alive,      \* f has not been destroyed
    pc,         \* the step each thread is at
    place,      \* the stage it is at and its function there
    val,        \* the value it carries
    input,      \* when_all::_input_buf of each stage
    left,       \* when_all::_left of each stage
    outs,       \* when_all::_out of each stage
    open,       \* scoped_bool_latch::_ctr
    out         \* wait_and_get's result

vars == <<chain, alive, pc, place, val, input, left, outs, open, out>>

\* Where walk_up starts: the last stage.
Last == <<Len(chain) + 1, 1>>

Init ==
    /\ chain \in Chains
    /\ alive = TRUE
    /\ pc = [t \in Thread |-> IF t = Main THEN "walk_up" ELSE "idle"]
    /\ place = [t \in Thread |-> IF t = Main THEN Last ELSE t]
    /\ val = [t \in Thread |-> 0]
    /\ input = [k \in DOMAIN chain |-> Garbage]
    /\ left = chain
    /\ outs = [k \in DOMAIN chain |-> [i \in 1 .. chain[k] |-> Garbage]]
    /\ open = FALSE
    /\ out = Garbage

Goto(t, label, k, i) ==
    /\ pc' = [pc EXCEPT ![t] = label]
    /\ place' = [place EXCEPT ![t] = <<k, i>>]

\* What is read from a node, which may be gone; the same for a condition.
Read(v) == IF alive THEN {v} ELSE {v, Garbage}
Test(c) == IF alive THEN {c} ELSE BOOLEAN

Successor(v) == IF v = Garbage THEN Garbage ELSE v + 1

-----------------------------------------------------------------------------
\* node_base::walk_up: from each stage to the one before it, up to `schedule`.
WalkUp ==
    LET k == place[Main][1] IN
    /\ pc[Main] = "walk_up"
    /\ k > 0
    /\ Goto(Main, "walk_up", k - 1, 1)
    /\ UNCHANGED <<chain, alive, val, input, left, outs, open, out>>

\* root::walk_up: `schedule` is executed, which makes one task of the rest.
WalkDown ==
    /\ pc[Main] = "walk_up"
    /\ place[Main][1] = 0
    /\ pc' = [pc EXCEPT ![Main] = "destroy", ![First] = "queued"]
    /\ UNCHANGED <<chain, alive, place, val, input, left, outs, open, out>>

\* The end of the scope in wait_and_get: f goes first.
DestroyGraph ==
    /\ pc[Main] = "destroy"
    /\ alive' = FALSE
    /\ Goto(Main, "wait", 0, 0)
    /\ UNCHANGED <<chain, val, input, left, outs, open, out>>

\* ~scoped_bool_latch, and `return out`.
WaitLatch ==
    /\ pc[Main] = "wait"
    /\ open
    /\ Goto(Main, "returned", 0, 0)
    /\ UNCHANGED <<chain, alive, val, input, left, outs, open, out>>

\* The scheduler (external) runs a task.
Start(t) ==
    /\ pc[t] = "queued"
    /\ IF t = First THEN Goto(t, "execute", 1, 1)
       ELSE Goto(t, "compute", t[1], t[2])
    /\ UNCHANGED <<chain, alive, val, input, left, outs, open, out>>

\* node::execute: the function is called, and its output passed on.
ExecuteNode(t) ==
    LET k == place[t][1] IN
    /\ pc[t] = "execute"
    /\ k \in DOMAIN chain /\ chain[k] = 1
    /\ \E v \in Read(Successor(val[t])) : val' = [val EXCEPT ![t] = v]
    /\ Goto(t, "execute", k + 1, 1)
    /\ UNCHANGED <<chain, alive, input, left, outs, open, out>>

\* when_all::execute: the input is stored.
ExecuteAll(t) ==
    LET k == place[t][1] IN
    /\ pc[t] = "execute"
    /\ k \in DOMAIN chain /\ chain[k] > 1
    /\ input' = [input EXCEPT ![k] = val[t]]
    /\ Goto(t, "fan", k, 1)
    /\ UNCHANGED <<chain, alive, val, left, outs, open, out>>

\* schedule_if<false> and schedule_if<true>.
Schedule(t) ==
    LET k == place[t][1]  i == place[t][2] IN
    /\ pc[t] = "fan"
    /\ i < chain[k]
    /\ pc' = [pc EXCEPT ![<<k, i>>] = "queued"]
    /\ place' = [place EXCEPT ![t] = <<k, i + 1>>]
    /\ UNCHANGED <<chain, alive, val, input, left, outs, open, out>>

RunInline(t) ==
    LET k == place[t][1]  i == place[t][2] IN
    /\ pc[t] = "fan"
    /\ i = chain[k]
    /\ Goto(t, "compute", k, i)
    /\ UNCHANGED <<chain, alive, val, input, left, outs, open, out>>

\* One computation of a when_all: its output goes to its place in the tuple.
Compute(t) ==
    LET k == place[t][1]  i == place[t][2] IN
    /\ pc[t] = "compute"
    /\ \E v \in Read(Successor(input[k])) : outs' = [outs EXCEPT ![k][i] = v]
    /\ Goto(t, "join", k, i)
    /\ UNCHANGED <<chain, alive, val, input, left, open, out>>

\* The last computation destroys the input and goes on with the tuple: the sum
\* the next stage makes of it is right if all components are.
Join(t) ==
    LET k == place[t][1]  i == place[t][2] IN
    /\ pc[t] = "join"
    /\ left' = [left EXCEPT ![k] = @ - 1]
    /\ \E last \in Test(left[k] = 1) :
        \/ /\ last
           /\ input' = [input EXCEPT ![k] = Garbage]
           /\ \E v \in Read(IF \A j \in DOMAIN outs[k] : outs[k][j] = k
                            THEN k ELSE Garbage) :
                   val' = [val EXCEPT ![t] = v]
           /\ Goto(t, "execute", k + 1, 1)
        \/ ~last /\ Goto(t, "idle", k, i) /\ UNCHANGED <<val, input>>
    /\ UNCHANGED <<chain, alive, outs, open, out>>

\* The last node is wait_and_get's own: it stores the result and counts down, by
\* references to `out` and `l` which it captured.
Finish(t) ==
    /\ pc[t] = "execute"
    /\ place[t][1] = Len(chain) + 1
    /\ \E v \in Read(val[t]) : out' = v
    /\ \E counted \in Test(TRUE) : open' = (open \/ counted)
    /\ Goto(t, "idle", 0, 0)
    /\ UNCHANGED <<chain, alive, val, input, left, outs>>

Terminating == pc[Main] = "returned" /\ UNCHANGED vars

Next ==
    \/ WalkUp \/ WalkDown \/ DestroyGraph \/ WaitLatch \/ Terminating
    \/ \E t \in Thread \ {Main} :
        \/ Start(t) \/ ExecuteNode(t) \/ ExecuteAll(t) \/ Schedule(t)
        \/ RunInline(t) \/ Compute(t) \/ Join(t) \/ Finish(t)

Spec == Init /\ [][Next]_vars

-----------------------------------------------------------------------------
\* The assertions of src/temp.cpp on what wait_and_get returns: a chain of
\* stages that add one to their input evaluates to the number of stages.
ReturnsResult == pc[Main] = "returned" => out = Len(chain)

=============================================================================
