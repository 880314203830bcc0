\* Calls within calls, on pools from too small to large enough.  A pool that is
\* too small may hang.
CONSTANTS
    SyncCall <- NestCall
    Body <- Nest
    None = none
    Root <- NestRoot
    MaxWorkers = 4
SPECIFICATION Spec
INVARIANTS HangsOnlyStarved NothingOutlivesItsCall
PROPERTIES EnoughWorkersReturn
CHECK_DEADLOCK FALSE
