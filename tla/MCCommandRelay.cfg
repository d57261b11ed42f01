\* Three commands: one runs while another waits in the queue and a third is
\* being posted.  Outputs of no byte, which is the largest size that fits into
\* the array of the posting thread, of one byte more, and of more than the
\* buffers of cmdresult_malloc ever hold.
SPECIFICATION FairSpec
CONSTANTS
    MaxCmds = 3
    MaxOut = 2
    Sizes = {0, 1, 5}
INVARIANTS
    TypeOK
    OneOwner
    OverflowBeyond
    AtMostOnce
    NoFileLeft
PROPERTIES
    LifeSpec
    FifoSpec
    PingReturns
    QueuedIsPosted
\* A process that has died stays dead: the init script does not respawn it.
CHECK_DEADLOCK FALSE
