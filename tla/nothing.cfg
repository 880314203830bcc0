\* All sequences of up to four arguments.
CONSTANTS
    Argument = {a, b}
    nothing = nothing
    void = void
    MaxArgs = 4
SPECIFICATION Spec
PROPERTIES CalledIgnoringNothing
CHECK_DEADLOCK FALSE
