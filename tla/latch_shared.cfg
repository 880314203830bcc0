\* A bool_latch with two counting and three waiting threads.
CONSTANTS
    Counter = {c1, c2}
    Waiter = {w1, w2, w3}
    Binary = TRUE
    Scoped = FALSE
    Nobody = nobody
SPECIFICATION Spec
INVARIANTS NoLostWakeup WaitersSeeOpen
PROPERTIES ImplementsGate
