\* The largest graphs of the tests, a thread for each task.
CONSTANTS
    Node <- DeepNode
    Kind <- DeepKind
    Kids <- DeepKids
    Workers = 5
    MaxCalls = 1
    Nothing = nothing
SPECIFICATION Spec
INVARIANTS LatchOpensLast LastSeesAll ReturnSeesAll
