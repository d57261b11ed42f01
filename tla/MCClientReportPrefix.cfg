\* The address of one client is a part of the other's.
SPECIFICATION ReportSpec
CONSTANTS
    ip1 = ip1
    ip10 = ip10
    Ips = {ip1, ip10}
    Matches <- Prefix
    MaxPackets = 1
    MaxFaults = 0
    Unset = Unset
INVARIANT EveryClientCounted
