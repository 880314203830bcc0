-------------------------------- MODULE Nothing --------------------------------
(***************************************************************************)
(* call_ignoring_nothing of include/orizzonte/utility/nothing.hpp, with    *)
(* which a leaf calls its function and sync_execute its `then`: arguments  *)
(* of type nothing are left out, and nothing is returned instead of void.  *)
(*                                                                         *)
(* The code works in two passes.  The first one goes over the arguments    *)
(* and, for each of them, wraps the function in a lambda that will put the *)
(* argument in front of those it is called with, or not; the second one    *)
(* calls the outermost lambda, that of the last argument, with none, and   *)
(* each lambda calls the one it wraps.                                     *)
(***************************************************************************)
EXTENDS Sequences, SequencesExt

CONSTANTS
    Argument,   \* the arguments that are not nothing
    nothing,    \* utility::nothing
    void,       \* what a function returns that returns nothing at all
    MaxArgs     \* bound: the number of arguments

ASSUME NothingAssumption ==
    /\ MaxArgs \in Nat
    /\ nothing \notin Argument
    /\ void \notin Argument \union {nothing}

VARIABLES
    args,       \* what the caller passes
    returns,    \* what the function returns
    xs,         \* the arguments that are not captured yet
    lambdas,    \* the arguments captured by the lambdas, the outermost first
    ys,         \* what the next lambda, or the function, is called with
    called,     \* what the function was called with, each time it was
    result,     \* what the caller gets back
    pc

vars == <<args, returns, xs, lambdas, ys, called, result, pc>>

Init ==
    /\ args \in BoundedSeq(Argument \union {nothing}, MaxArgs)
    /\ returns \in Argument \union {void}
    /\ xs = args
    /\ lambdas = <<>>
    /\ ys = <<>>
    /\ called = <<>>
    /\ result = void
    /\ pc = "wrap"

\* call_ignoring_nothing(f, x, xs...): x is captured, along with f.
Wrap ==
    /\ pc = "wrap"
    /\ xs # <<>>
    /\ lambdas' = <<Head(xs)>> \o lambdas
    /\ xs' = Tail(xs)
    /\ UNCHANGED <<args, returns, ys, called, result, pc>>

\* call_ignoring_nothing(f): the outermost lambda is called.
Call ==
    /\ pc = "wrap"
    /\ xs = <<>>
    /\ pc' = "call"
    /\ UNCHANGED <<args, returns, xs, lambdas, ys, called, result>>

\* Mutant of Pass: the captured argument is put behind the others.
PassBehind ==
    /\ pc = "call"
    /\ lambdas # <<>>
    /\ ys' = IF Head(lambdas) = nothing THEN ys ELSE Append(ys, Head(lambdas))
    /\ lambdas' = Tail(lambdas)
    /\ UNCHANGED <<args, returns, xs, called, result, pc>>

\* A lambda calls what it wraps, with its argument unless that is nothing.
Pass ==
    /\ pc = "call"
    /\ lambdas # <<>>
    /\ ys' = IF Head(lambdas) = nothing THEN ys ELSE <<Head(lambdas)>> \o ys
    /\ lambdas' = Tail(lambdas)
    /\ UNCHANGED <<args, returns, xs, called, result, pc>>

\* returning_nothing_instead_of_void, whichever the branch.
Result(r) == IF r = void THEN nothing ELSE r

\* The function is called, and its result returned through all lambdas.
Invoke ==
    /\ pc = "call"
    /\ lambdas = <<>>
    /\ called' = Append(called, ys)
    /\ result' = Result(returns)
    /\ pc' = "returned"
    /\ UNCHANGED <<args, returns, xs, lambdas, ys>>

Next == Wrap \/ Call \/ Pass \/ Invoke

Spec == Init /\ [][Next]_vars /\ WF_vars(Next)

-----------------------------------------------------------------------------
\* The function is called once, with the arguments that are not nothing, all of
\* them, in their order and each of them once, however many nothings there are
\* and wherever they stand; and its caller gets what it returned, or nothing from
\* a function that returns void.
IsArgument(x) == x # nothing

CalledIgnoringNothing ==
    <>[](/\ pc = "returned"
         /\ called = <<SelectSeq(args, IsArgument)>>
         /\ returns = void => result = nothing
         /\ returns # void => result = returns)

=============================================================================
