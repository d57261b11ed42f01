\* The exit status of a command against the code execute returns.
SPECIFICATION Spec
CONSTANTS
    MaxCmds = 2
    MaxOut = 3
    Sizes = {1}
PROPERTY ExecuteReturnsStatus
CHECK_DEADLOCK FALSE
