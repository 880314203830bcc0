\* Graphs of several any nodes, each executed twice, with the latch in full.
CONSTANTS
    Node <- LatchedNode
    Kind <- LatchedKind
    Kids <- LatchedKids
    Workers = 2
    MaxCalls = 2
    Nothing = nothing
    Owner = owner
    Nobody = nobody
SPECIFICATION SyncSpec
INVARIANTS LatchOutlivesCalls SleeperHasWaker
PROPERTIES ImplementsGraph
