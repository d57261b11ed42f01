\* Two kinds of signals: the second can interrupt the handler of the first.
SPECIFICATION FairSpec
CONSTANTS
    Signals = {SIGTERM, SIGINT}
    MaxSent = 3
    NULL = NULL
PROPERTY RequestEnds
\* The process ends; without a signal left it may also have nothing to do.
CHECK_DEADLOCK FALSE
