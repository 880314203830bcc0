\* The single-node graphs of the tests, each executed twice or after another.
CONSTANTS
    Node <- BasicNode
    Kind <- BasicKind
    Kids <- BasicKids
    Workers = 3
    MaxCalls = 2
    Nothing = nothing
SPECIFICATION Spec
INVARIANTS TypeOK JoinCount
PROPERTIES KeepsPromise
