\* Outputs of up to MAX_CMD_OUT_BUF bytes against the buffers they pass.
SPECIFICATION Spec
CONSTANTS
    MaxCmds = 2
    MaxOut = 3
    Sizes = {0, 1, 2, 3}
INVARIANT BuffersFit
CHECK_DEADLOCK FALSE
