\* Three servers: a rotation differs from a swap.  Answers of up to three
\* bytes, read one by one: the buffer of two is filled, grows and is filled.
SPECIFICATION HttpFairSpec
CONSTANTS
    Threads = {ping, post}
    s1 = s1
    s2 = s2
    s3 = s3
    Configured <- ThreeServers
    MaxBuf = 2
    MaxBytes = 3
    NULL = NULL
INVARIANTS
    ServersInv
    ExhaustedMeansAll
    NoSocketLeak
    HttpInv
PROPERTIES
    ChoiceSpec
    ExchangeReturns
