\* Graphs whose functions, copies, scheduler and `then` may throw.  A program
\* that hangs or was terminated stops.
CONSTANTS
    Node <- FragileNode
    Kind <- FragileKind
    Kids <- FragileKids
    Workers = 3
    MaxCalls = 1
    Nothing = nothing
SPECIFICATION FailuresSpec
INVARIANTS FailedCallNeverReturns FailureSparesStorages NoResultOfAFailure
    ResultsAreOutcomes
PROPERTIES SurvivorsEnd
CHECK_DEADLOCK FALSE
