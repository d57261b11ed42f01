---------------------------- MODULE FwAccounting ----------------------------
(***************************************************************************)
(* update_ac_information.sh: the traffic counters of the clients.  Each    *)
(* client that /proc/net/arp lists gets two rules in the FORWARD chain     *)
(* whose counters the script reads and writes to a file for the ping       *)
(* thread.  The ping thread waits for the script, so one runs at a time;   *)
(* clients come and go and send packets while it runs.  Addresses are      *)
(* looked up with grep, so an address finds every line it is a part of.    *)
(* Every iptables call that changes a rule is a step of its own, which can *)
(* fail, and the script can be killed between any two; rules, chains and   *)
(* the file it writes stay as they are.                                    *)
(***************************************************************************)
EXTENDS Naturals, FiniteSets

CONSTANTS Ips,              \* addresses of clients
          Matches,          \* the addresses whose text contains a given address
          MaxPackets,       \* bound on the packets: they pass while every counter
                            \* is below it
          MaxFaults         \* bound on the faults that hit a client's rules

Kinds == {"UPLOAD", "DOWNLOAD"}
Rules == Kinds \X Ips

ASSUME MatchesAssumption == /\ Matches \in [Ips -> SUBSET Ips]
                            /\ \A ip \in Ips : ip \in Matches[ip]
ASSUME PacketsAssumption == MaxPackets \in Nat
ASSUME FaultsAssumption == MaxFaults \in Nat

VARIABLES arp,              \* the complete entries of /proc/net/arp
          chains,           \* the chains the script has made
          forward,          \* how often FORWARD has a rule
          packets,          \* the counter of a rule, of its oldest copy
          pc,               \* the step of the script
          list,             \* what is left of the temporary file it loops over
          calls,            \* the call on a rule that comes next, if any
          traffic,          \* .client.traffic: down and up by address
          first,            \* the counters before the second of sleep
          info,             \* .client.traffic.info: traffic and rates by address
          stayed, seen,     \* history: clients that were there during the whole
                            \* run and had no call fail, and clients that were
                            \* there during some of it or had a call fail
          faults            \* history: the calls on a client's rules that failed
                            \* or were cut off after the other one of the pair

firewall == <<chains, forward, packets>>
script == <<pc, list, calls, traffic, first, info>>
history == <<stayed, seen, faults>>
vars == <<arp, firewall, script, history>>

NoFile == [ip \in {} |-> <<>>]

\* A file of a router that has just been started does not exist; it is an
\* empty one here, and opening it may fail.
Init == /\ arp \in SUBSET Ips
        /\ chains = {}
        /\ forward = [r \in Rules |-> 0]
        /\ packets = [r \in Rules |-> 0]
        /\ pc = "idle" /\ list = {} /\ calls = {}
        /\ traffic = NoFile /\ first = NoFile /\ info = NoFile
        /\ stayed = {} /\ seen = {}
        /\ faults = [ip \in Ips |-> 0]

\* The addresses for which FORWARD has a rule of a kind.
Listed(kind) == {ip \in Ips : forward[<<kind, ip>>] > 0}

\* iptables -I with a target: the chain exists, and the counter starts anew.
Insert(f, r) == [f EXCEPT ![r] = @ + 1]

\* iptables -D: deletes one copy of the rule, or fails.
Delete(f, r) == [f EXCEPT ![r] = IF @ > 0 THEN @ - 1 ELSE 0]

\* A pair of calls begins with the rule in the chain UPLOAD.
PairOf(ip) == {<<"UPLOAD", ip>>}

\* The call that follows the one on rule r, which is the second or none.
After(r) == IF r[1] = "UPLOAD" THEN {<<"DOWNLOAD", r[2]>>} ELSE {}

\* A rule that is not there counts nothing.
Recount == packets' = [r \in Rules |-> IF forward'[r] > 0 /\ forward[r] > 0
                                       THEN packets[r] ELSE 0]

-----------------------------------------------------------------------------
\* A client comes or goes, at any time.
ArpChanges == /\ \E ip \in Ips : /\ arp' = IF ip \in arp THEN arp \ {ip} ELSE arp \cup {ip}
                                 /\ stayed' = stayed \ {ip}
              /\ seen' = seen \cup arp'
              /\ UNCHANGED <<firewall, script, faults>>

\* A packet of a client, up or down, passes the FORWARD chain.
Packet == /\ \E r \in Rules : /\ forward[r] > 0
                              /\ \A q \in Rules : packets[q] < MaxPackets
                              /\ packets' = [packets EXCEPT ![r] = @ + 1]
          /\ UNCHANGED <<arp, chains, forward, script, history>>

\* Mutant of ChainCheck: only the chain of the first kind is made.
ChainCheckUpload == chains' = chains \cup ({"UPLOAD"} \cap {k \in Kinds : Listed(k) = {}})

\* chain_check: a chain no rule refers to is made, if it is not there.
ChainCheck == chains' = chains \cup {k \in Kinds : Listed(k) = {}}

\* The script starts with traffic_update: update_fw_count_rule copies the
\* addresses of the ARP table.
StartUpdate == /\ pc = "idle"
               /\ ChainCheck
               /\ list' = arp
               /\ stayed' = arp /\ seen' = arp
               /\ pc' = "insert"
               /\ UNCHANGED <<arp, forward, packets, calls, traffic, first, info, faults>>

\* Mutant of HasRule: any rule is taken for the rule of the client.
HasAnyRule(ip) == Listed("DOWNLOAD") # {}

\* grep finds the address in the list of the DOWNLOAD rules.
HasRule(ip) == Matches[ip] \cap Listed("DOWNLOAD") # {}

\* One turn of a loop: an address is taken from the file, and the pair of
\* calls on its rules begins if it is one of those given.
Turn(ips) == \E ip \in list : /\ list' = list \ {ip}
                              /\ calls' = IF ip \in ips THEN PairOf(ip) ELSE {}

\* First loop: a client without a rule is to get its two rules.
InsertRule == /\ pc = "insert" /\ calls = {}
              /\ Turn({ip \in Ips : ~HasRule(ip)})
              /\ UNCHANGED <<arp, firewall, pc, traffic, first, info, history>>

\* Mutant of ListRules: the second loop goes over the ARP table too.
ListRulesOfClients == /\ pc = "insert" /\ list = {} /\ calls = {}
                      /\ list' = arp
                      /\ pc' = "delete"
                      /\ UNCHANGED <<arp, firewall, calls, traffic, first, info, history>>

ListRules == /\ pc = "insert" /\ list = {} /\ calls = {}
             /\ list' = Listed("DOWNLOAD")
             /\ pc' = "delete"
             /\ UNCHANGED <<arp, firewall, calls, traffic, first, info, history>>

\* Second loop: the rules of a client that is gone are to be deleted.
DeleteRule == /\ pc = "delete" /\ calls = {}
              /\ Turn({ip \in Ips : Matches[ip] \cap arp = {}})
              /\ UNCHANGED <<arp, firewall, pc, traffic, first, info, history>>

\* Mutant of RuleCall: the call on the second rule of a pair is forgotten.
RuleCallOnce == \E r \in calls :
    /\ forward' = IF pc = "insert" THEN Insert(forward, r) ELSE Delete(forward, r)
    /\ calls' = {}
    /\ Recount
    /\ UNCHANGED <<arp, chains, pc, list, traffic, first, info, history>>

\* The next iptables call on a rule does what it is to do.
RuleCall == \E r \in calls :
    /\ forward' = IF pc = "insert" THEN Insert(forward, r) ELSE Delete(forward, r)
    /\ calls' = After(r)
    /\ Recount
    /\ UNCHANGED <<arp, chains, pc, list, traffic, first, info, history>>

\* It fails; the script does not look and goes on.
RuleCallFails == \E r \in calls :
    /\ faults[r[2]] < MaxFaults
    /\ calls' = After(r)
    /\ faults' = [faults EXCEPT ![r[2]] = @ + 1]
    /\ stayed' = stayed \ {r[2]}
    /\ seen' = seen \cup {r[2]}
    /\ UNCHANGED <<arp, firewall, pc, list, traffic, first, info>>

\* The counter that grep finds for an address.  When it finds more than one
\* line, or none, the field is not a number of packets: MaxPackets + 1 stands
\* for it, a value that no counter has.
Found(kind, ip) == LET lines == Matches[ip] \cap Listed(kind)
                   IN  IF lines = {ip} /\ forward[<<kind, ip>>] = 1
                       THEN packets[<<kind, ip>>] ELSE MaxPackets + 1

\* generate_client_traffic_file: the list of DOWNLOAD counters, then the
\* UPLOAD counter of each of its lines.
GenerateTraffic == /\ pc = "delete" /\ list = {} /\ calls = {}
                   /\ traffic' = [ip \in Listed("DOWNLOAD") |->
                                    [down |-> packets[<<"DOWNLOAD", ip>>], up |-> 0]]
                   /\ list' = Listed("DOWNLOAD")
                   /\ pc' = "upload"
                   /\ UNCHANGED <<arp, firewall, calls, first, info, history>>

AddUpload == /\ pc = "upload"
             /\ \E ip \in list : /\ list' = list \ {ip}
                                 /\ traffic' = [traffic EXCEPT ![ip].up = Found("UPLOAD", ip)]
             /\ UNCHANGED <<arp, firewall, pc, calls, first, info, history>>

Counters == [ip \in Listed("DOWNLOAD") |-> [down |-> Found("DOWNLOAD", ip),
                                            up |-> Found("UPLOAD", ip)]]

\* generate_client_rate_file: the counters, a second of sleep, the counters.
FirstReading == /\ pc = "upload" /\ list = {}
                /\ first' = Counters
                /\ pc' = "sleep"
                /\ UNCHANGED <<arp, firewall, list, calls, traffic, info, history>>

\* Mutant of Line: the rate is the reading itself.
LineNoDifference(ip) == [down |-> traffic[ip].down, up |-> traffic[ip].up,
                         downRate |-> Counters[ip].down,
                         upRate |-> Counters[ip].up]

\* The line of an address in .client.traffic.info.
Line(ip) == [down |-> traffic[ip].down, up |-> traffic[ip].up,
             downRate |-> Counters[ip].down - first[ip].down,
             upRate |-> Counters[ip].up - first[ip].up]

\* The files of this run that nobody reads any more.
DropFiles == list' = {} /\ calls' = {} /\ traffic' = NoFile /\ first' = NoFile

\* The second reading and generate_client_traffic_infomatrion_file, which
\* puts the new file in the place of the one of the last run; the script ends.
WriteInformation == /\ pc = "sleep"
                    /\ info' = [ip \in DOMAIN traffic |-> Line(ip)]
                    /\ pc' = "done"
                    /\ DropFiles
                    /\ UNCHANGED <<arp, firewall, history>>

Unwatched == stayed' = {} /\ seen' = {}

\* popen fails or the shell does not start: update_ac_information is over.
ScriptFails == /\ pc = "idle"
               /\ pc' = "cut"
               /\ UNCHANGED <<arp, firewall, list, calls, traffic, first, info, history>>

Running == {"insert", "delete", "upload", "sleep", "cleanup"}

\* The script is killed, by SIGINT from a terminal or for want of memory.  A
\* kill between the calls of a pair leaves the second one undone, and one
\* while the file is written leaves some of its lines.
ScriptKilled == /\ pc \in Running
                /\ pc' = IF pc = "cleanup" THEN "idle" ELSE "cut"
                /\ LET undone == {ip \in Ips : <<"DOWNLOAD", ip>> \in calls}
                   IN  /\ \A ip \in undone : faults[ip] < MaxFaults
                       /\ faults' = [ip \in Ips |-> IF ip \in undone THEN faults[ip] + 1
                                                                      ELSE faults[ip]]
                /\ \/ UNCHANGED info
                   \/ /\ pc = "sleep"
                      /\ \E lines \in SUBSET DOMAIN traffic : info' = [ip \in lines |-> Line(ip)]
                /\ DropFiles /\ Unwatched
                /\ UNCHANGED <<arp, firewall>>

\* ping() has returned, or the daemon was stopped and started again.
EndUpdate == /\ pc \in {"done", "cut"}
             /\ pc' = "idle"
             /\ Unwatched
             /\ UNCHANGED <<arp, firewall, list, calls, traffic, first, info, faults>>

-----------------------------------------------------------------------------
\* Mutant of StartCleanUp: the clean-up goes over the ARP table.
StartCleanUpOfClients == /\ pc = "idle"
                         /\ ChainCheck
                         /\ list' = arp
                         /\ pc' = "cleanup"
                         /\ UNCHANGED <<arp, forward, packets, calls, traffic, first, info, history>>

\* The script starts with chain_clean_up, when the daemon ends: it lists the
\* addresses that have a DOWNLOAD rule.
StartCleanUp == /\ pc = "idle"
                /\ ChainCheck
                /\ list' = Listed("DOWNLOAD")
                /\ pc' = "cleanup"
                /\ UNCHANGED <<arp, forward, packets, calls, traffic, first, info, history>>

\* Both rules of each of them are to be deleted.
CleanUpRule == /\ pc = "cleanup" /\ calls = {}
               /\ Turn(Ips)
               /\ UNCHANGED <<arp, firewall, pc, traffic, first, info, history>>

\* iptables -X deletes a chain that no rule refers to.
DeleteChains == /\ pc = "cleanup" /\ list = {} /\ calls = {}
                /\ chains' = {k \in Kinds : Listed(k) # {}}
                /\ pc' = "clean"
                /\ UNCHANGED <<arp, forward, packets, list, calls, traffic, first, info, history>>

\* The daemon has ended; it may be started again.
Restart == /\ pc = "clean"
           /\ pc' = "idle"
           /\ UNCHANGED <<arp, firewall, list, calls, traffic, first, info, history>>

-----------------------------------------------------------------------------
Calls == RuleCall \/ RuleCallFails

Update == \/ StartUpdate \/ InsertRule \/ ListRules \/ DeleteRule \/ GenerateTraffic
          \/ AddUpload \/ FirstReading \/ WriteInformation \/ ScriptFails

CleanUp == StartCleanUp \/ CleanUpRule \/ DeleteChains \/ Restart

Script == Update \/ CleanUp \/ Calls \/ ScriptKilled

Network == ArpChanges \/ Packet

Next == Network \/ Script \/ EndUpdate

Spec == Init /\ [][Next]_vars

-----------------------------------------------------------------------------
\* A call is made in a loop, on a rule, one at a time, and FORWARD refers only
\* to chains that exist.
TypeOK == /\ arp \subseteq Ips
          /\ chains \subseteq Kinds
          /\ forward \in [Rules -> Nat]
          /\ packets \in [Rules -> 0..MaxPackets]
          /\ pc \in Running \cup {"idle", "done", "cut", "clean"}
          /\ list \subseteq Ips
          /\ calls = {} \/ \E r \in Rules : calls = {r}
          /\ calls # {} => pc \in {"insert", "delete", "cleanup"}
          /\ faults \in [Ips -> Nat]
          /\ \A r \in Rules : forward[r] > 0 => r[1] \in chains

\* A client is never counted twice for what it receives, and between two pairs
\* of calls its rules differ in number by no more than the calls that failed
\* or were cut off: without a fault it has both rules or none, a fault at one
\* client does not touch another, and no later run of the script makes an
\* earlier fault worse.
RulesPaired == \A ip \in Ips :
    /\ forward[<<"DOWNLOAD", ip>>] <= 1
    /\ <<"DOWNLOAD", ip>> \notin calls =>
         /\ forward[<<"UPLOAD", ip>>] <= forward[<<"DOWNLOAD", ip>>] + faults[ip]
         /\ forward[<<"DOWNLOAD", ip>>] <= forward[<<"UPLOAD", ip>>] + faults[ip]

\* When an update has ended, no client that was gone during the whole of it
\* has a rule, unless deleting it failed: the chain does not grow with the
\* clients that ever were there, and what a killed run left is deleted.
NoStaleRule == pc = "done" => Listed("DOWNLOAD") \subseteq seen

\* The script "counts the traffic and the rate of the clients": one that was
\* there during the whole update is counted and has a line in the file,
\* whatever earlier runs have left behind.
EveryClientCounted == pc = "done" => stayed \subseteq DOMAIN info

\* What the file says of a client is its own: no more than its rules have
\* counted, and rates that are no more than it has sent since the first line.
\* One of whose rules a call has failed may have an UPLOAD rule too many or
\* none, and what the file says of that direction is no number.
InformationIsOwn == pc = "done" => \A ip \in DOMAIN info : faults[ip] = 0 =>
    /\ info[ip].down + info[ip].downRate <= packets[<<"DOWNLOAD", ip>>]
    /\ info[ip].up + info[ip].upRate <= packets[<<"UPLOAD", ip>>]

\* What chain_clean_up leaves of a client's rules is no more than the calls
\* that failed or were cut off since the router was started, and a chain stays
\* only for a rule that is left: without a fault nothing stays.
CleanUpComplete == pc = "clean" =>
    /\ \A r \in Rules : forward[r] <= faults[r[2]]
    /\ chains = {r[1] : r \in {q \in Rules : forward[q] > 0}}
=============================================================================
