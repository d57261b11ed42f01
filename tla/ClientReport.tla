---------------------------- MODULE ClientReport ----------------------------
(***************************************************************************)
(* The report of the clients (smartac_json_util.c, and ping() in           *)
(* smartac_ping.c up to the request), composed with the script whose file  *)
(* it reads.  When the script has ended, was killed or has not started,    *)
(* ping allocates two lists, fills one from the DHCP leases and one from   *)
(* the script's file as it is, copies the counters from the second into    *)
(* the first, writes the first as JSON and frees both.  Every allocation   *)
(* and every fopen can fail.  Network and script go on as in FwAccounting. *)
(***************************************************************************)
EXTENDS FwAccounting

CONSTANTS Unset             \* an address or a counter nobody has written

ASSUME UnsetAssumption == Unset \notin Ips

VARIABLES step,             \* where ping() is
          heap,             \* state of the two lists: "none", "raw" as malloc gave
                            \* the first node, "live" or "freed"
          clients,          \* c_list: counters by address
          traffics,         \* t_list: counters by address
          report,           \* the JSON that is sent
          badFree           \* history: what was freed that was no list's: "none",
                            \* what an unwritten "link" names, or a "list" twice

pingVars == <<step, heap, clients, traffics, report, badFree>>
allVars == <<vars, pingVars>>

NoHeap == [l \in {"c", "t"} |-> "none"]

InitReport == /\ Init
              /\ step = "script"
              /\ heap = NoHeap
              /\ clients = NoFile /\ traffics = NoFile /\ report = NoFile
              /\ badFree = "none"

Zero == [down |-> 0, up |-> 0, downRate |-> 0, upRate |-> 0]

\* A node as malloc gives it.
Garbage == [down |-> Unset, up |-> Unset, downRate |-> Unset, upRate |-> Unset]

\* destory_client_list and destory_traffic_list, for the lists named, from the
\* state h of the heap.  They walk the links: behind a node whose link nobody
\* has written they find the end of the list, or some address and free that.
DestroyFrom(h, lists) ==
    /\ heap' = [l \in DOMAIN h |-> IF l \in lists THEN "freed" ELSE h[l]]
    /\ IF \E l \in lists : h[l] \notin {"raw", "live"} THEN badFree' = "list"
       ELSE \/ UNCHANGED badFree
            \/ badFree = "none" /\ (\E l \in lists : h[l] = "raw") /\ badFree' = "link"

Destroy(lists) == DestroyFrom(heap, lists)

KeepHeap == UNCHANGED <<heap, badFree>>

\* ping() returns without a report.
Fail == step' = "failed" /\ clients' = NoFile /\ traffics' = NoFile /\ UNCHANGED report

-----------------------------------------------------------------------------
\* update_ac_information returns; when it fails ping goes on all the same.
\* The two mallocs: when the second fails the first node is destroyed, whose
\* link nobody has written yet.
MallocLists ==
    /\ step = "script" /\ pc \in {"done", "cut"}
    /\ \/ heap' = [l \in {"c", "t"} |-> "raw"] /\ step' = "clients" /\ UNCHANGED badFree
       \/ heap' = NoHeap /\ step' = "failed" /\ UNCHANGED badFree
       \/ DestroyFrom([c |-> "raw", t |-> "none"], {"c"}) /\ step' = "failed"
    /\ UNCHANGED <<clients, traffics, report>>

\* What a list can hold after a file with these lines was read.  ping has
\* allocated the first node: when the file is empty it stays as malloc gave it.
ListsOf(lines) == IF DOMAIN lines # {} THEN {lines}
                  ELSE {[i \in {ip} |-> Garbage] : ip \in Ips \cup {Unset}}

\* Mutant of InitClientList: ping frees the list that the callee has freed.
InitClientListTwice ==
    /\ step = "clients"
    /\ \/ Fail /\ KeepHeap
       \/ \E leases \in SUBSET Ips :
            \/ /\ clients' \in ListsOf([ip \in leases |-> Zero])
               /\ heap' = [heap EXCEPT !["c"] = "live"]
               /\ step' = "traffic"
               /\ UNCHANGED <<traffics, report, badFree>>
            \/ /\ Cardinality(leases) > 1 /\ Fail
               /\ heap' = [heap EXCEPT !["c"] = "freed"]
               /\ badFree' = "list"

\* init_client_list on the lease file of the moment; the file may be missing,
\* and then nobody frees the list.  The links are written as nodes are added;
\* when a node cannot be allocated the list is freed here.
InitClientList ==
    /\ step = "clients"
    /\ \/ Fail /\ KeepHeap
       \/ \E leases \in SUBSET Ips :
            \/ /\ clients' \in ListsOf([ip \in leases |-> Zero])
               /\ heap' = [heap EXCEPT !["c"] = "live"]
               /\ step' = "traffic"
               /\ UNCHANGED <<traffics, report, badFree>>
            \/ /\ Cardinality(leases) > 1 /\ Fail
               /\ DestroyFrom([heap EXCEPT !["c"] = "live"], {"c"})

\* init_traffic_list on the script's file.  When it fails ping frees the list
\* of the clients only; the callee frees its own when it cannot allocate.
InitTrafficList ==
    /\ step = "traffic"
    /\ \/ /\ traffics' \in ListsOf(info)
          /\ heap' = [heap EXCEPT !["t"] = "live"]
          /\ step' = "join"
          /\ UNCHANGED <<clients, report, badFree>>
       \/ Fail /\ Destroy({"c"})
       \/ /\ Cardinality(DOMAIN info) > 1 /\ Fail
          /\ DestroyFrom([heap EXCEPT !["t"] = "live"], {"c", "t"})

\* Mutant of GetTrafficToClient: the rates are not copied.
GetTrafficNoRates ==
    /\ step = "join"
    /\ clients' = [ip \in DOMAIN clients |->
                     IF ip \in DOMAIN traffics
                       THEN [traffics[ip] EXCEPT !.downRate = 0, !.upRate = 0]
                       ELSE clients[ip]]
    /\ step' = "build"
    /\ KeepHeap /\ UNCHANGED <<traffics, report>>

\* get_traffic_to_client: the counters of the addresses that are in both.
GetTrafficToClient ==
    /\ step = "join"
    /\ clients' = [ip \in DOMAIN clients |-> IF ip \in DOMAIN traffics THEN traffics[ip]
                                             ELSE clients[ip]]
    /\ step' = "build"
    /\ KeepHeap /\ UNCHANGED <<traffics, report>>

\* Mutant of BuildPingJson: the list of the counters is forgotten.
BuildFreesClients ==
    /\ step = "build"
    /\ Destroy({"c"})
    /\ \/ report' = clients /\ step' = "sent" /\ clients' = NoFile /\ traffics' = NoFile
       \/ Fail

\* build_ping_json_data fails when the device information cannot be read; both
\* lists are freed whether it does or not.
BuildPingJson ==
    /\ step = "build"
    /\ Destroy({"c", "t"})
    /\ \/ report' = clients /\ step' = "sent" /\ clients' = NoFile /\ traffics' = NoFile
       \/ Fail

\* ping() has returned, and is called again after the interval.
PingEnds == /\ step \in {"sent", "failed"}
            /\ EndUpdate
            /\ step' = "script"
            /\ heap' = NoHeap
            /\ report' = NoFile
            /\ badFree' = IF badFree = "link" THEN "none" ELSE badFree
            /\ UNCHANGED <<clients, traffics>>

-----------------------------------------------------------------------------
Ping == \/ MallocLists \/ InitClientList \/ InitTrafficList \/ GetTrafficToClient
        \/ BuildPingJson

NextReport == \/ (Network \/ Script) /\ UNCHANGED pingVars
              \/ Ping /\ UNCHANGED vars
              \/ PingEnds

ReportSpec == InitReport /\ [][NextReport]_allVars

-----------------------------------------------------------------------------
\* Four functions in two files free the lists, and ping() itself on five exits:
\* whichever of them fails, no list is freed twice or without having been
\* allocated.  Memory that is no list's is freed on one way only, ping.c:105,
\* where the node of the clients is destroyed before its link was written and
\* the other list has no node: it happens, and ping() fails then.
BadFreeOnlyAtMalloc ==
    /\ badFree # "list"
    /\ badFree = "link" => step = "failed" /\ heap = [c |-> "freed", t |-> "none"]

\* Every list that is read or joined is live, with its links written, until
\* its report is built, and a report that is sent has left no list behind.
ListsOwned == /\ step \in {"traffic", "join", "build"} => heap["c"] = "live"
              /\ step \in {"join", "build"} => heap["t"] = "live"
              /\ step = "sent" => heap["c"] = "freed" /\ heap["t"] = "freed"

\* The report says of a client what the line of its address says in the file
\* that the script has left, also after a run that failed, or zeros, or what
\* malloc gave where a file was empty.  After a run that was not cut off a
\* client that was there during the whole of it has a line.
ReportTellsTraffic == step = "sent" => \A ip \in DOMAIN report :
    /\ IF ip \in DOMAIN info THEN report[ip] = info[ip] ELSE report[ip] \in {Zero, Garbage}
    /\ pc = "done" /\ ip \in stayed => ip \in DOMAIN info
=============================================================================
