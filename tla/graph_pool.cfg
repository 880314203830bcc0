\* A scheduler with a single worker.
CONSTANTS
    Node <- NestedNode
    Kind <- NestedKind
    Kids <- NestedKids
    Workers = 1
    MaxCalls = 2
    Nothing = nothing
SPECIFICATION Spec
INVARIANTS WaiterHasWorker
PROPERTIES TasksEnd
