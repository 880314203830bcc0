\* The graphs of the programs, each executed once, at most three tasks at a time.
CONSTANTS
    Node <- ProgramNode
    Kind <- ProgramKind
    Kids <- ProgramKids
    Workers = 3
    MaxCalls = 1
    Nothing = nothing
SPECIFICATION Spec
INVARIANTS EnsuresHold TypesTellTheTruth
