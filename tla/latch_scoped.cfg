\* A scoped_int_latch counted down by three threads, as sync_execute uses it.
CONSTANTS
    Counter = {c1, c2, c3}
    Waiter = {w1}
    Binary = FALSE
    Scoped = TRUE
    Nobody = nobody
SPECIFICATION Spec
INVARIANTS TypeOK NoUseAfterDestroy
PROPERTIES WaitersReturn ImplementsGate
