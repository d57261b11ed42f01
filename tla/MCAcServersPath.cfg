\* The request against the server it is sent to.
SPECIFICATION Spec
CONSTANTS
    Threads = {ping}
    s1 = s1
    s2 = s2
    s3 = s3
    Configured <- ThreeServers
    NULL = NULL
INVARIANT RequestMatchesServer
