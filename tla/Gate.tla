-------------------------------- MODULE Gate --------------------------------
(***************************************************************************)
(* What a latch of include/orizzonte/utility/bool_latch.hpp promises: its  *)
(* waiters pass only once enough count_down() calls have been made, and    *)
(* then all of them do.  There is no mutex and no condition variable here; *)
(* module Latch implements this one with both.                             *)
(***************************************************************************)
EXTENDS Integers

CONSTANTS
    Waiter,     \* the threads that call wait()
    Binary,     \* TRUE: latch_impl<bool>, FALSE: latch_impl<int>
    Initial     \* the argument of the latch's constructor

VARIABLES
    count,      \* latch_impl::_ctr
    passed      \* the waiters whose wait() has seen the latch open

vars == <<count, passed>>

\* detail::decrement: the bool overload sets the flag, the template decrements.
Decrement(x) == IF Binary THEN TRUE ELSE x - 1

\* detail::done: the counter has to be exactly zero, so overshooting closes it.
Done(x) == IF Binary THEN x = TRUE ELSE x = 0

Init ==
    /\ count = Initial
    /\ passed = {}

CountDown ==
    /\ count' = Decrement(count)
    /\ UNCHANGED passed

Pass(w) ==
    /\ w \notin passed
    /\ Done(count)
    /\ passed' = passed \union {w}
    /\ UNCHANGED count

Next == CountDown \/ \E w \in Waiter : Pass(w)

Spec == Init /\ [][Next]_vars /\ \A w \in Waiter : WF_vars(Pass(w))

=============================================================================
