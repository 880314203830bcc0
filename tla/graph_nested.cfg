\* Nested nodes and nodes of one child, each graph executed twice.
CONSTANTS
    Node <- NestedNode
    Kind <- NestedKind
    Kids <- NestedKids
    Workers = 3
    MaxCalls = 2
    Nothing = nothing
SPECIFICATION Spec
INVARIANTS StorageDiscipline LatchOpensLast LatchBalance Accounts
PROPERTIES KeepsPromise
