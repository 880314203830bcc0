\* src/temp.cpp's chains, each waited for once. A count_down() through a captured
\* reference that is gone may be lost, and then the program really stops.
CONSTANTS
    Chains <- MCChains
    Garbage = garbage
SPECIFICATION Spec
INVARIANT ReturnsResult
CHECK_DEADLOCK FALSE
