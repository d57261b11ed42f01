\* Five results pass through a heap of four nodes: freed nodes come back.  No
\* symmetry, for liveness is checked too.
SPECIFICATION FairSpec
CONSTANTS
    Nodes = {n1, n2, n3, n4}
    NULL = NULL
    MaxResults = 5
INVARIANTS
    QueueInv
    NoDangling
    EmptyTestExact
    NoLeak
PROPERTY FifoFairSpec
