\* What is left of the firewall when the process has ended.
SPECIFICATION FairSpec
CONSTANTS
    Signals = {SIGTERM}
    MaxSent = 3
    NULL = NULL
INVARIANT CleansUp
\* The process ends; without a signal left it may also have nothing to do.
CHECK_DEADLOCK FALSE
