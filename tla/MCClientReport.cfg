\* Two clients that come and go at any time; every rule counts a packet, and the
\* script is killed or fails at a call once for each.
SPECIFICATION ReportSpec
CONSTANTS
    ip1 = ip1
    ip10 = ip10
    Ips = {ip1, ip10}
    Matches <- Distinct
    MaxPackets = 1
    MaxFaults = 1
    Unset = Unset
SYMMETRY Symmetry
INVARIANTS
    TypeOK
    RulesPaired
    
    EveryClientCounted
    InformationIsOwn
    CleanUpComplete
    BadFreeOnlyAtMalloc
    ListsOwned
    ReportTellsTraffic
