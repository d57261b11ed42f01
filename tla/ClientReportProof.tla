------------------------- MODULE ClientReportProof -------------------------
(***************************************************************************)
(* Proofs about FwAccounting and ClientReport, for any set of clients and  *)
(* any number of packets and faults.  What the chains, the pairs of rules  *)
(* and the lists are holds for any addresses; what is said of each client  *)
(* needs that no address is a part of another's (the run report_prefix     *)
(* shows why).                                                             *)
(***************************************************************************)
EXTENDS ClientReport, TLAPS

LEMMA RuleForms ==
    /\ \A k \in Kinds, ip \in Ips : /\ <<k, ip>> \in Rules
                                    /\ <<k, ip>>[1] = k /\ <<k, ip>>[2] = ip
    /\ \A r \in Rules : r[1] \in Kinds /\ r[2] \in Ips /\ r = <<r[1], r[2]>>
  BY DEF Rules

LEMMA TwoKinds == /\ "UPLOAD" \in Kinds /\ "DOWNLOAD" \in Kinds
                  /\ \A k \in Kinds : k = "UPLOAD" \/ k = "DOWNLOAD"
  BY DEF Kinds

\* What a call that does what it is to do makes of the counts of the rules.
LEMMA CallDone ==
    ASSUME NEW r \in Rules, forward \in [Rules -> Nat],
           forward' = IF pc = "insert" THEN Insert(forward, r) ELSE Delete(forward, r)
    PROVE  /\ forward' \in [Rules -> Nat]
           /\ \A q \in Rules \ {r} : forward'[q] = forward[q]
           /\ forward'[r] = IF pc = "insert" THEN forward[r] + 1
                            ELSE IF forward[r] > 0 THEN forward[r] - 1 ELSE 0
  BY DEF Insert, Delete

LEMMA Recounted ==
    ASSUME packets \in [Rules -> 0..MaxPackets], Recount
    PROVE  packets' \in [Rules -> 0..MaxPackets]
  BY PacketsAssumption DEF Recount

-----------------------------------------------------------------------------
Ups(ip) == forward[<<"UPLOAD", ip>>]
Downs(ip) == forward[<<"DOWNLOAD", ip>>]

\* A pair of calls on an address is under way.
Pending(ip) == <<"UPLOAD", ip>> \in calls \/ <<"DOWNLOAD", ip>> \in calls

\* While a client is to get its rules both chains exist.
ChainsMade == pc = "insert" => chains = Kinds

\* The rules of one address, which go together with where the script is in the
\* pair of calls on it: the pair begins without a DOWNLOAD rule where rules are
\* inserted and with one where they are deleted, and between its calls the
\* UPLOAD rules are those that the pair is to leave, but for the faults.
AddressInv(ip) ==
    /\ Downs(ip) <= 1
    /\ Pending(ip) => ip \notin list /\ Downs(ip) = IF pc = "insert" THEN 0 ELSE 1
    /\ <<"DOWNLOAD", ip>> \in calls =>
         IF pc = "insert" THEN Ups(ip) <= 1 + faults[ip] /\ 1 <= Ups(ip) + faults[ip]
         ELSE Ups(ip) <= faults[ip]
    /\ <<"DOWNLOAD", ip>> \notin calls => /\ Ups(ip) <= Downs(ip) + faults[ip]
                                          /\ Downs(ip) <= Ups(ip) + faults[ip]
    /\ pc \in {"delete", "cleanup"} /\ ip \in list => Downs(ip) = 1
    /\ pc = "cleanup" /\ ip \notin list /\ ~Pending(ip) =>
         Ups(ip) <= faults[ip] /\ Downs(ip) <= faults[ip]

FwInv == TypeOK /\ ChainsMade /\ (\A ip \in Ips : AddressInv(ip)) /\ CleanUpComplete

LEMMA FwInvPaired == FwInv => RulesPaired
  BY DEF FwInv, AddressInv, RulesPaired, Ups, Downs

\* The counts of an address are numbers.
LEMMA AddressNumbers ==
    ASSUME TypeOK, NEW ip \in Ips
    PROVE  /\ <<"UPLOAD", ip>> \in Rules /\ <<"DOWNLOAD", ip>> \in Rules
           /\ Ups(ip) \in Nat /\ Downs(ip) \in Nat /\ faults[ip] \in Nat
<1>1. <<"UPLOAD", ip>> \in Rules /\ <<"DOWNLOAD", ip>> \in Rules
  BY RuleForms, TwoKinds
<1> QED BY <1>1 DEF TypeOK, Ups, Downs

\* The call that comes next is the only one, and is on a rule.
LEMMA CallForms ==
    ASSUME TypeOK, NEW r \in calls
    PROVE  /\ calls = {r} /\ r \in Rules /\ r[2] \in Ips /\ r = <<r[1], r[2]>>
           /\ r[1] \in {"UPLOAD", "DOWNLOAD"}
           /\ pc \in {"insert", "delete", "cleanup"}
           /\ After(r) = IF r[1] = "UPLOAD" THEN {<<"DOWNLOAD", r[2]>>} ELSE {}
<1>1. PICK q \in Rules : calls = {q}
  BY DEF TypeOK
<1>2. calls = {r} /\ r \in Rules
  BY <1>1
<1> QED BY <1>2, RuleForms, TwoKinds DEF TypeOK, After

\* The calls after one on the rule r.
LEMMA AfterForms ==
    ASSUME TypeOK, NEW r \in calls, NEW ip \in Ips, calls' = After(r)
    PROVE  /\ <<"UPLOAD", ip>> \notin calls'
           /\ <<"DOWNLOAD", ip>> \in calls' <=> r = <<"UPLOAD", ip>>
           /\ <<"UPLOAD", ip>> \in calls <=> r = <<"UPLOAD", ip>>
           /\ <<"DOWNLOAD", ip>> \in calls <=> r = <<"DOWNLOAD", ip>>
           /\ calls' = {} \/ \E q \in Rules : calls' = {q}
<1>1. /\ calls = {r} /\ r[2] \in Ips /\ r = <<r[1], r[2]>> /\ r[1] \in {"UPLOAD", "DOWNLOAD"}
      /\ calls' = IF r[1] = "UPLOAD" THEN {<<"DOWNLOAD", r[2]>>} ELSE {}
  BY CallForms
<1>2. <<"DOWNLOAD", r[2]>> \in Rules
  BY <1>1, RuleForms, TwoKinds
<1>3. <<"UPLOAD", ip>> \in calls <=> r = <<"UPLOAD", ip>>
  BY <1>1
<1>4. <<"DOWNLOAD", ip>> \in calls <=> r = <<"DOWNLOAD", ip>>
  BY <1>1
<1>5. <<"UPLOAD", ip>> \notin calls' /\ (<<"DOWNLOAD", ip>> \in calls' <=> r = <<"UPLOAD", ip>>)
  <2>1. CASE r[1] = "UPLOAD"
    BY <1>1, <2>1
  <2>2. CASE r[1] = "DOWNLOAD"
    BY <1>1, <2>2
  <2> QED BY <1>1, <2>1, <2>2
<1> QED BY <1>1, <1>2, <1>3, <1>4, <1>5

\* A turn of a loop begins a pair of calls on the address it takes, or none.
LEMMA TurnForms ==
    ASSUME TypeOK, calls = {}, NEW ips \in SUBSET Ips, Turn(ips)
    PROVE  \E ip \in list :
             /\ ip \in Ips /\ list' = list \ {ip}
             /\ calls' = IF ip \in ips THEN {<<"UPLOAD", ip>>} ELSE {}
             /\ \A j \in Ips : /\ <<"UPLOAD", j>> \in calls' <=> j = ip /\ ip \in ips
                               /\ <<"DOWNLOAD", j>> \notin calls'
             /\ calls' = {} \/ \E r \in Rules : calls' = {r}
<1>1. PICK ip \in list : /\ list' = list \ {ip}
                         /\ calls' = IF ip \in ips THEN {<<"UPLOAD", ip>>} ELSE {}
  BY DEF Turn, PairOf
<1>2. ip \in Ips /\ <<"UPLOAD", ip>> \in Rules
  BY RuleForms, TwoKinds DEF TypeOK
<1>3. \A j \in Ips : /\ <<"UPLOAD", j>> \in calls' <=> j = ip /\ ip \in ips
                     /\ <<"DOWNLOAD", j>> \notin calls'
  BY <1>1
<1> QED BY <1>1, <1>2, <1>3

LEMMA FwInitInv == Init => FwInv
<1> SUFFICES ASSUME Init PROVE FwInv
  OBVIOUS
<1>1. TypeOK
  BY RuleForms, PacketsAssumption DEF Init, TypeOK
<1>2. ASSUME NEW ip \in Ips PROVE AddressInv(ip)
  <2>1. Ups(ip) = 0 /\ Downs(ip) = 0 /\ faults[ip] = 0
    BY <1>1, AddressNumbers DEF Init, Ups, Downs
  <2> QED BY <2>1 DEF Init, AddressInv, Pending
<1> QED BY <1>1, <1>2 DEF Init, FwInv, ChainsMade, CleanUpComplete

\* The steps that move no rule, no loop and no fault.
LEMMA AddressKept ==
    ASSUME NEW ip \in Ips, AddressInv(ip), UNCHANGED <<forward, calls, faults>>,
           \/ UNCHANGED <<pc, list>>
           \/ calls = {} /\ pc' \notin {"delete", "cleanup"}
    PROVE  AddressInv(ip)'
  BY DEF AddressInv, Ups, Downs, Pending

LEMMA CleanUpKept ==
    ASSUME CleanUpComplete, \/ pc' # "clean"
                            \/ UNCHANGED <<pc, chains, forward, faults>>
    PROVE  CleanUpComplete'
  BY DEF CleanUpComplete

\* The turns of the three loops.
LEMMA TurnStepInv ==
    ASSUME FwInv, InsertRule \/ DeleteRule \/ CleanUpRule
    PROVE  FwInv'
<1>1. PICK ips \in SUBSET Ips :
        /\ Turn(ips)
        /\ pc = "insert" => ips = {ip \in Ips : ~HasRule(ip)}
        /\ pc = "cleanup" => ips = Ips
  BY DEF InsertRule, DeleteRule, CleanUpRule
<1>2. /\ pc \in {"insert", "delete", "cleanup"} /\ calls = {}
      /\ UNCHANGED <<arp, chains, forward, packets, pc, faults>>
  BY DEF InsertRule, DeleteRule, CleanUpRule, firewall, history
<1>3. PICK ip \in list :
        /\ ip \in Ips /\ list' = list \ {ip}
        /\ \A j \in Ips : /\ <<"UPLOAD", j>> \in calls' <=> j = ip /\ ip \in ips
                          /\ <<"DOWNLOAD", j>> \notin calls'
        /\ calls' = {} \/ \E r \in Rules : calls' = {r}
  BY <1>1, <1>2, TurnForms DEF FwInv
<1>4. pc = "insert" /\ ip \in ips => Downs(ip) = 0
  <2> SUFFICES ASSUME pc = "insert", ip \in ips PROVE Downs(ip) = 0
    OBVIOUS
  <2>1. ip \notin Listed("DOWNLOAD")
    BY <1>1, <1>3, MatchesAssumption DEF HasRule
  <2>2. TypeOK /\ ip \in Ips
    BY <1>3 DEF FwInv
  <2>3. Downs(ip) \in Nat
    BY <2>2, AddressNumbers
  <2> QED BY <2>1, <2>2, <2>3 DEF Listed, Downs
<1>5. ASSUME NEW j \in Ips PROVE AddressInv(j)'
  <2>1. /\ Ups(j)' = Ups(j) /\ Downs(j)' = Downs(j) /\ faults'[j] = faults[j] /\ AddressInv(j)
        /\ Ups(j) \in Nat /\ Downs(j) \in Nat /\ faults[j] \in Nat
    BY <1>2, AddressNumbers DEF Ups, Downs, FwInv
  <2>2. CASE j = ip
    <3>1. /\ j \in list /\ j \notin list'
          /\ <<"UPLOAD", j>> \notin calls /\ <<"DOWNLOAD", j>> \notin calls
          /\ <<"DOWNLOAD", j>> \notin calls'
          /\ <<"UPLOAD", j>> \in calls' <=> j \in ips
      BY <1>2, <1>3, <2>2
    <3>2. /\ pc = "insert" /\ j \in ips => Downs(j) = 0
          /\ pc = "cleanup" => j \in ips
      BY <1>1, <1>4, <2>2
    <3> QED BY <1>2, <2>1, <3>1, <3>2 DEF AddressInv, Pending
  <2>3. CASE j # ip
    BY <1>2, <1>3, <2>1, <2>3 DEF AddressInv, Pending
  <2> QED BY <2>2, <2>3
<1>6. TypeOK' /\ ChainsMade' /\ CleanUpComplete'
  BY <1>2, <1>3 DEF FwInv, TypeOK, ChainsMade, CleanUpComplete
<1> QED BY <1>5, <1>6 DEF FwInv

\* A call that does what it is to do.
LEMMA CallStepInv == ASSUME FwInv, RuleCall PROVE FwInv'
<1>1. PICK r \in calls :
        /\ forward' = IF pc = "insert" THEN Insert(forward, r) ELSE Delete(forward, r)
        /\ calls' = After(r)
        /\ Recount
        /\ UNCHANGED <<arp, chains, pc, list, faults>>
  BY DEF RuleCall, history
<1>2. /\ r \in Rules /\ r = <<r[1], r[2]>> /\ r[1] \in {"UPLOAD", "DOWNLOAD"}
      /\ pc \in {"insert", "delete", "cleanup"} /\ forward \in [Rules -> Nat]
  BY CallForms DEF FwInv, TypeOK
<1>3. /\ forward' \in [Rules -> Nat]
      /\ \A q \in Rules \ {r} : forward'[q] = forward[q]
      /\ forward'[r] = IF pc = "insert" THEN forward[r] + 1
                       ELSE IF forward[r] > 0 THEN forward[r] - 1 ELSE 0
  BY <1>1, <1>2, CallDone
<1>4. packets' \in [Rules -> 0..MaxPackets]
  BY <1>1, Recounted DEF FwInv, TypeOK
<1>5. ASSUME NEW q \in Rules, forward'[q] > 0 PROVE q[1] \in chains'
  <2>1. pc = "insert" => chains' = Kinds
    BY <1>1 DEF FwInv, ChainsMade
  <2>2. CASE pc # "insert"
    <3>1. forward[q] \in Nat /\ forward[q] > 0
      BY <1>2, <1>3, <1>5, <2>2
    <3> QED BY <1>1, <3>1 DEF FwInv, TypeOK
  <2> QED BY <2>1, <2>2, RuleForms
<1>6. ASSUME NEW j \in Ips PROVE AddressInv(j)'
  <2>1. /\ <<"UPLOAD", j>> \in Rules /\ <<"DOWNLOAD", j>> \in Rules /\ AddressInv(j)
        /\ Ups(j) \in Nat /\ Downs(j) \in Nat /\ faults[j] \in Nat /\ faults'[j] = faults[j]
        /\ pc' = pc /\ list' = list
    BY <1>1, AddressNumbers DEF FwInv
  <2>2. /\ <<"UPLOAD", j>> \notin calls'
        /\ <<"DOWNLOAD", j>> \in calls' <=> r = <<"UPLOAD", j>>
        /\ <<"UPLOAD", j>> \in calls <=> r = <<"UPLOAD", j>>
        /\ <<"DOWNLOAD", j>> \in calls <=> r = <<"DOWNLOAD", j>>
    BY <1>1, AfterForms DEF FwInv
  <2>3. CASE r = <<"UPLOAD", j>>
    <3>1. /\ Downs(j)' = Downs(j)
          /\ Ups(j)' = IF pc = "insert" THEN Ups(j) + 1
                       ELSE IF Ups(j) > 0 THEN Ups(j) - 1 ELSE 0
      BY <1>3, <2>1, <2>3 DEF Ups, Downs
    <3>2. <<"DOWNLOAD", j>> \notin calls /\ <<"DOWNLOAD", j>> \in calls'
      BY <2>2, <2>3
    <3> QED BY <1>2, <2>1, <2>2, <2>3, <3>1, <3>2 DEF AddressInv, Pending
  <2>4. CASE r = <<"DOWNLOAD", j>>
    <3>1. /\ Ups(j)' = Ups(j)
          /\ Downs(j)' = IF pc = "insert" THEN Downs(j) + 1
                         ELSE IF Downs(j) > 0 THEN Downs(j) - 1 ELSE 0
      BY <1>3, <2>1, <2>4 DEF Ups, Downs
    <3>2. /\ <<"DOWNLOAD", j>> \in calls /\ <<"DOWNLOAD", j>> \notin calls'
          /\ <<"UPLOAD", j>> \notin calls /\ <<"UPLOAD", j>> \notin calls'
      BY <2>2, <2>4
    <3> QED BY <1>2, <2>1, <3>1, <3>2 DEF AddressInv, Pending
  <2>5. CASE r # <<"UPLOAD", j>> /\ r # <<"DOWNLOAD", j>>
    <3>1. Ups(j)' = Ups(j) /\ Downs(j)' = Downs(j)
      BY <1>3, <2>1, <2>5 DEF Ups, Downs
    <3> QED BY <2>1, <2>2, <2>5, <3>1 DEF AddressInv, Pending
  <2> QED BY <2>3, <2>4, <2>5
<1>7. calls' = {} \/ \E q \in Rules : calls' = {q}
  <2>1. r[2] \in Ips
    BY CallForms DEF FwInv
  <2> QED BY <1>1, <2>1, AfterForms DEF FwInv
<1>8. TypeOK' /\ ChainsMade' /\ CleanUpComplete'
  BY <1>1, <1>2, <1>3, <1>4, <1>5, <1>7 DEF FwInv, TypeOK, ChainsMade, CleanUpComplete
<1> QED BY <1>6, <1>8 DEF FwInv

\* A call that fails.
LEMMA CallFailsInv == ASSUME FwInv, RuleCallFails PROVE FwInv'
<1>1. PICK r \in calls :
        /\ calls' = After(r)
        /\ faults' = [faults EXCEPT ![r[2]] = @ + 1]
        /\ UNCHANGED <<arp, chains, forward, packets, pc, list>>
  BY DEF RuleCallFails, firewall
<1>2. /\ r = <<r[1], r[2]>> /\ r[2] \in Ips /\ pc \in {"insert", "delete", "cleanup"}
      /\ faults \in [Ips -> Nat] /\ faults' \in [Ips -> Nat]
  BY <1>1, CallForms DEF FwInv, TypeOK
<1>3. ASSUME NEW j \in Ips PROVE AddressInv(j)'
  <2>1. /\ AddressInv(j) /\ Ups(j)' = Ups(j) /\ Downs(j)' = Downs(j)
        /\ Ups(j) \in Nat /\ Downs(j) \in Nat /\ faults[j] \in Nat
        /\ pc' = pc /\ list' = list
    BY <1>1, AddressNumbers DEF FwInv, Ups, Downs
  <2>2. /\ <<"UPLOAD", j>> \notin calls'
        /\ <<"DOWNLOAD", j>> \in calls' <=> r = <<"UPLOAD", j>>
        /\ <<"UPLOAD", j>> \in calls <=> r = <<"UPLOAD", j>>
        /\ <<"DOWNLOAD", j>> \in calls <=> r = <<"DOWNLOAD", j>>
    BY <1>1, AfterForms DEF FwInv
  <2>3. CASE r = <<"UPLOAD", j>>
    <3>1. faults'[j] = faults[j] + 1
      BY <1>1, <1>2, <2>3
    <3>2. <<"DOWNLOAD", j>> \notin calls /\ <<"DOWNLOAD", j>> \in calls'
      BY <2>2, <2>3
    <3> QED BY <1>2, <2>1, <2>2, <2>3, <3>1, <3>2 DEF AddressInv, Pending
  <2>4. CASE r = <<"DOWNLOAD", j>>
    <3>1. faults'[j] = faults[j] + 1
      BY <1>1, <1>2, <2>4
    <3>2. /\ <<"DOWNLOAD", j>> \in calls /\ <<"DOWNLOAD", j>> \notin calls'
          /\ <<"UPLOAD", j>> \notin calls /\ <<"UPLOAD", j>> \notin calls'
      BY <2>2, <2>4
    <3> QED BY <1>2, <2>1, <3>1, <3>2 DEF AddressInv, Pending
  <2>5. CASE r # <<"UPLOAD", j>> /\ r # <<"DOWNLOAD", j>>
    <3>1. faults'[j] \in {faults[j], faults[j] + 1} /\ faults'[j] \in Nat
      BY <1>1, <1>2
    <3> QED BY <2>1, <2>2, <2>5, <3>1 DEF AddressInv, Pending
  <2> QED BY <2>3, <2>4, <2>5
<1>4. calls' = {} \/ \E q \in Rules : calls' = {q}
  BY <1>1, <1>2, AfterForms DEF FwInv
<1>5. TypeOK' /\ ChainsMade' /\ CleanUpComplete'
  BY <1>1, <1>2, <1>4 DEF FwInv, TypeOK, ChainsMade, CleanUpComplete
<1> QED BY <1>3, <1>5 DEF FwInv

\* A kill at any moment: what was undone is one more fault.
LEMMA KillStepInv == ASSUME FwInv, ScriptKilled PROVE FwInv'
<1> DEFINE undone == {ip \in Ips : <<"DOWNLOAD", ip>> \in calls}
<1>1. /\ pc' \in {"idle", "cut"} /\ list' = {} /\ calls' = {}
      /\ faults' = [ip \in Ips |-> IF ip \in undone THEN faults[ip] + 1 ELSE faults[ip]]
      /\ UNCHANGED <<arp, chains, forward, packets>>
  BY DEF ScriptKilled, DropFiles, firewall
<1>2. faults \in [Ips -> Nat] /\ faults' \in [Ips -> Nat]
  BY <1>1 DEF FwInv, TypeOK
<1>3. ASSUME NEW j \in Ips PROVE AddressInv(j)'
  <2>1. /\ AddressInv(j) /\ Ups(j)' = Ups(j) /\ Downs(j)' = Downs(j)
        /\ Ups(j) \in Nat /\ Downs(j) \in Nat /\ faults[j] \in Nat
    BY <1>1, AddressNumbers DEF FwInv, Ups, Downs
  <2>2. faults'[j] = IF <<"DOWNLOAD", j>> \in calls THEN faults[j] + 1 ELSE faults[j]
    BY <1>1
  <2>3. CASE <<"DOWNLOAD", j>> \in calls
    BY <1>1, <2>1, <2>2, <2>3 DEF AddressInv, Pending
  <2>4. CASE <<"DOWNLOAD", j>> \notin calls
    BY <1>1, <2>1, <2>2, <2>4 DEF AddressInv, Pending
  <2> QED BY <2>3, <2>4
<1>4. TypeOK' /\ ChainsMade' /\ CleanUpComplete'
  BY <1>1, <1>2 DEF FwInv, TypeOK, ChainsMade, CleanUpComplete
<1> QED BY <1>3, <1>4 DEF FwInv

LEMMA FwStepInv == FwInv /\ [Next]_vars => FwInv'
<1> SUFFICES ASSUME FwInv, [Next]_vars PROVE FwInv'
  OBVIOUS
<1> USE DEF FwInv
<1>1. CASE ArpChanges
  <2>1. UNCHANGED <<chains, forward, packets, pc, list, calls, faults>> /\ arp' \subseteq Ips
    BY <1>1 DEF ArpChanges, firewall, script, TypeOK
  <2> QED BY <2>1, AddressKept DEF TypeOK, ChainsMade, CleanUpComplete
<1>2. CASE Packet
  <2>1. /\ UNCHANGED <<arp, chains, forward, pc, list, calls, faults>>
        /\ packets' \in [Rules -> 0..MaxPackets]
    BY <1>2, PacketsAssumption DEF Packet, script, history, TypeOK
  <2> QED BY <2>1, AddressKept DEF TypeOK, ChainsMade, CleanUpComplete
<1>3. CASE StartUpdate \/ StartCleanUp
  <2>1. chains' = Kinds
    <3>1. \A k \in Kinds : Listed(k) = {} \/ k \in chains
      BY RuleForms DEF TypeOK, Listed
    <3> QED BY <1>3, <3>1 DEF StartUpdate, StartCleanUp, ChainCheck, TypeOK
  <2>2. /\ pc = "idle" /\ calls = {} /\ UNCHANGED <<arp, forward, packets, calls, faults>>
        /\ list' \subseteq Ips
        /\ \/ pc' = "insert"
           \/ pc' = "cleanup" /\ list' = Listed("DOWNLOAD")
    BY <1>3 DEF StartUpdate, StartCleanUp, TypeOK, history, Listed
  <2>3. ASSUME NEW ip \in Ips PROVE AddressInv(ip)'
    <3>1. /\ AddressInv(ip) /\ Ups(ip)' = Ups(ip) /\ Downs(ip)' = Downs(ip)
          /\ Ups(ip) \in Nat /\ Downs(ip) \in Nat /\ faults[ip] \in Nat /\ faults'[ip] = faults[ip]
          /\ <<"UPLOAD", ip>> \notin calls /\ <<"DOWNLOAD", ip>> \notin calls
      BY <2>2, AddressNumbers DEF Ups, Downs
    <3>2. pc' = "cleanup" => (ip \in list' <=> Downs(ip) > 0)
      BY <2>2 DEF Listed, Downs
    <3> QED BY <2>2, <3>1, <3>2 DEF AddressInv, Pending
  <2> QED BY <2>1, <2>2, <2>3, RuleForms DEF TypeOK, ChainsMade, CleanUpComplete, Running
<1>4. CASE InsertRule \/ DeleteRule \/ CleanUpRule
  BY <1>4, TurnStepInv
<1>5. CASE ListRules
  <2>1. /\ UNCHANGED <<arp, chains, forward, packets, calls, faults>> /\ calls = {}
        /\ pc' = "delete" /\ list' = Listed("DOWNLOAD") /\ list' \subseteq Ips
    BY <1>5 DEF ListRules, firewall, history, Listed
  <2>2. ASSUME NEW ip \in Ips PROVE AddressInv(ip)'
    <3>1. /\ AddressInv(ip) /\ Ups(ip)' = Ups(ip) /\ Downs(ip)' = Downs(ip)
          /\ Downs(ip) \in Nat /\ faults'[ip] = faults[ip]
          /\ <<"UPLOAD", ip>> \notin calls' /\ <<"DOWNLOAD", ip>> \notin calls'
          /\ <<"DOWNLOAD", ip>> \notin calls
          /\ ip \in list' => Downs(ip) > 0
      BY <2>1, AddressNumbers DEF Ups, Downs, Listed
    <3> QED BY <2>1, <3>1 DEF AddressInv, Pending
  <2> QED BY <2>1, <2>2 DEF TypeOK, ChainsMade, CleanUpComplete, Running
<1>6. CASE GenerateTraffic \/ AddUpload \/ FirstReading \/ WriteInformation \/ ScriptFails
           \/ EndUpdate \/ Restart
  <2>1. calls = {}
    BY <1>6 DEF GenerateTraffic, AddUpload, FirstReading, WriteInformation, ScriptFails,
                EndUpdate, Restart, TypeOK
  <2>2. /\ UNCHANGED <<arp, chains, forward, packets, calls, faults>>
        /\ pc' \in {"upload", "sleep", "done", "cut", "idle"} /\ list' \subseteq Ips
    BY <1>6, <2>1 DEF GenerateTraffic, AddUpload, FirstReading, WriteInformation, ScriptFails,
                EndUpdate, Restart, TypeOK, firewall, history, DropFiles, Listed
  <2>3. \A ip \in Ips : AddressInv(ip)'
    BY <2>1, <2>2, AddressKept
  <2> QED BY <2>1, <2>2, <2>3 DEF TypeOK, ChainsMade, CleanUpComplete, Running
<1>7. CASE DeleteChains
  <2>1. /\ UNCHANGED <<arp, forward, packets, list, calls, faults>> /\ calls = {} /\ list = {}
        /\ pc = "cleanup" /\ pc' = "clean" /\ chains' = {k \in Kinds : Listed(k) # {}}
    BY <1>7 DEF DeleteChains, history
  <2>2. \A ip \in Ips : AddressInv(ip)'
    BY <2>1, AddressKept
  <2>3. \A r \in Rules : forward'[r] <= faults'[r[2]]
    <3> SUFFICES ASSUME NEW r \in Rules PROVE forward[r] <= faults[r[2]]
      BY <2>1
    <3>1. r[2] \in Ips /\ (r = <<"UPLOAD", r[2]>> \/ r = <<"DOWNLOAD", r[2]>>)
      BY RuleForms, TwoKinds
    <3>2. Ups(r[2]) <= faults[r[2]] /\ Downs(r[2]) <= faults[r[2]]
      BY <2>1, <3>1 DEF AddressInv, Pending
    <3> QED BY <3>1, <3>2 DEF Ups, Downs
  <2>4. \A r \in Rules : forward[r] > 0 => r[1] \in chains'
    BY <2>1, RuleForms DEF Listed
  <2>5. \A k \in chains' : \E r \in Rules : forward[r] > 0 /\ r[1] = k
    <3> SUFFICES ASSUME NEW k \in chains' PROVE \E r \in Rules : forward[r] > 0 /\ r[1] = k
      OBVIOUS
    <3>1. PICK ip \in Ips : k \in Kinds /\ forward[<<k, ip>>] > 0
      BY <2>1 DEF Listed
    <3> QED BY <3>1, RuleForms
  <2>6. chains' = {r[1] : r \in {q \in Rules : forward'[q] > 0}}
    BY <2>1, <2>4, <2>5
  <2>7. TypeOK' /\ ChainsMade'
    BY <2>1, <2>4 DEF TypeOK, ChainsMade, Running
  <2> QED BY <2>2, <2>3, <2>6, <2>7 DEF CleanUpComplete
<1>8. CASE RuleCall
  BY <1>8, CallStepInv
<1>9. CASE RuleCallFails
  BY <1>9, CallFailsInv
<1>10. CASE ScriptKilled
  BY <1>10, KillStepInv
<1>11. CASE UNCHANGED vars
  <2>1. UNCHANGED <<arp, chains, forward, packets, pc, list, calls, faults>>
    BY <1>11 DEF vars, firewall, script, history
  <2> QED BY <2>1, AddressKept DEF TypeOK, ChainsMade, CleanUpComplete
<1> QED BY <1>1, <1>2, <1>3, <1>4, <1>5, <1>6, <1>7, <1>8, <1>9, <1>10, <1>11
        DEF Next, Network, Script, Update, CleanUp, Calls

\* The chains and the rules of the script are there when it refers to them.
THEOREM FwTypeCorrect == Spec => []TypeOK
<1>1. FwInv => TypeOK
  BY DEF FwInv
<1> QED BY FwInitInv, FwStepInv, <1>1, PTL DEF Spec

\* Between two pairs of calls the UPLOAD and DOWNLOAD rules of a client differ
\* in number by no more than the calls on them that failed or were cut off,
\* and there is never a second DOWNLOAD rule, wherever the script is killed,
\* whichever calls fail and whatever the addresses are.
THEOREM FwRulesPaired == Spec => []RulesPaired
<1> QED BY FwInitInv, FwStepInv, FwInvPaired, PTL DEF Spec

\* The clean-up leaves of a client's rules no more than the calls on them that
\* failed or were cut off, and no chain without a rule.
THEOREM FwCleanUpComplete == Spec => []CleanUpComplete
<1>1. FwInv => CleanUpComplete
  BY DEF FwInv
<1> QED BY FwInitInv, FwStepInv, <1>1, PTL DEF Spec

-----------------------------------------------------------------------------
\* What holds of each client when grep finds no address but its own.
Exact == Matches = [ip \in Ips |-> {ip}]

Rule(kind, ip) == packets[<<kind, ip>>]

\* The clients that stayed have rules or get them, the rules are of clients
\* seen or are deleted, and none is deleted of a client that stayed.
SeenInv == /\ stayed \subseteq arp
           /\ pc \in {"insert", "delete", "upload", "sleep", "done"} => arp \subseteq seen
           /\ pc = "insert" => \A ip \in stayed :
                ip \in list \/ ip \in Listed("DOWNLOAD") \/ Pending(ip)
           /\ pc = "delete" => \A ip \in Ips :
                /\ ip \in Listed("DOWNLOAD") => ip \in list \/ ip \in seen \/ Pending(ip)
                /\ ip \in stayed => ip \in Listed("DOWNLOAD") /\ ~Pending(ip)
           /\ pc \in {"upload", "sleep", "done"} => /\ Listed("DOWNLOAD") \subseteq seen
                                                    /\ stayed \subseteq Listed("DOWNLOAD")

\* A call takes no rule from a client that stayed, unless it fails.
LEMMA SeenCalls ==
    ASSUME FwInv, SeenInv, RuleCall \/ RuleCallFails
    PROVE  SeenInv'
<1>1. PICK r \in calls :
        /\ calls' = After(r) /\ UNCHANGED <<arp, pc, list>>
        /\ \/ /\ forward' = IF pc = "insert" THEN Insert(forward, r) ELSE Delete(forward, r)
              /\ UNCHANGED <<stayed, seen>>
           \/ /\ UNCHANGED forward
              /\ stayed' = stayed \ {r[2]} /\ seen' = seen \cup {r[2]}
  BY DEF RuleCall, RuleCallFails, history, firewall
<1>2. /\ r \in Rules /\ r[2] \in Ips /\ r = <<r[1], r[2]>> /\ forward \in [Rules -> Nat]
      /\ pc \in {"insert", "delete", "cleanup"} /\ arp \subseteq Ips
  BY CallForms DEF FwInv, TypeOK
<1>3. ASSUME NEW j \in Ips
      PROVE  /\ pc = "insert" /\ (j \in Listed("DOWNLOAD") \/ Pending(j)) =>
                  \/ j \in Listed("DOWNLOAD")' \/ Pending(j)'
                  \/ j \notin stayed'
             /\ pc = "delete" =>
                  /\ j \in Listed("DOWNLOAD")' =>
                       j \in Listed("DOWNLOAD") /\ (Pending(j) => Pending(j)' \/ j \in seen')
                  /\ Pending(j)' => Pending(j)
                  /\ j \in Listed("DOWNLOAD") /\ ~Pending(j) => j \in Listed("DOWNLOAD")'
  <2>1. /\ <<"UPLOAD", j>> \notin calls'
        /\ <<"DOWNLOAD", j>> \in calls' <=> r = <<"UPLOAD", j>>
        /\ <<"UPLOAD", j>> \in calls <=> r = <<"UPLOAD", j>>
        /\ <<"DOWNLOAD", j>> \in calls <=> r = <<"DOWNLOAD", j>>
    BY <1>1, AfterForms DEF FwInv
  <2>2. /\ <<"DOWNLOAD", j>> \in Rules /\ Downs(j) \in Nat /\ Downs(j) <= 1
        /\ j \in Listed("DOWNLOAD") <=> Downs(j) > 0
        /\ j \in Listed("DOWNLOAD")' <=> Downs(j)' > 0
    BY AddressNumbers DEF FwInv, AddressInv, Listed, Downs
  <2>3. CASE forward' = IF pc = "insert" THEN Insert(forward, r) ELSE Delete(forward, r)
    <3>1. /\ \A q \in Rules \ {r} : forward'[q] = forward[q]
          /\ forward'[r] = IF pc = "insert" THEN forward[r] + 1
                           ELSE IF forward[r] > 0 THEN forward[r] - 1 ELSE 0
      BY <1>2, <2>3, CallDone
    <3>2. CASE r = <<"DOWNLOAD", j>>
      <4>1. Downs(j)' = IF pc = "insert" THEN Downs(j) + 1
                        ELSE IF Downs(j) > 0 THEN Downs(j) - 1 ELSE 0
        BY <3>1, <3>2 DEF Downs
      <4> QED BY <2>1, <2>2, <3>2, <4>1 DEF Pending
    <3>3. CASE r # <<"DOWNLOAD", j>>
      <4>1. Downs(j)' = Downs(j)
        BY <2>2, <3>1, <3>3 DEF Downs
      <4> QED BY <2>1, <2>2, <3>3, <4>1 DEF Pending
    <3> QED BY <3>2, <3>3
  <2>4. CASE UNCHANGED forward /\ stayed' = stayed \ {r[2]} /\ seen' = seen \cup {r[2]}
    <3>1. Downs(j)' = Downs(j) /\ (r = <<"DOWNLOAD", j>> \/ r = <<"UPLOAD", j>> => r[2] = j)
      BY <2>4 DEF Downs
    <3> QED BY <2>1, <2>2, <2>4, <3>1 DEF Pending
  <2> QED BY <1>1, <2>3, <2>4
<1>4. stayed' \subseteq stayed /\ seen \subseteq seen' /\ stayed \subseteq Ips
  BY <1>1, <1>2 DEF SeenInv
<1> QED BY <1>1, <1>2, <1>3, <1>4 DEF SeenInv

LEMMA SeenStepInv ==
    ASSUME Exact, FwInv, SeenInv, [Next]_vars
    PROVE  SeenInv'
<1>0. \A ip \in Ips : Matches[ip] = {ip}
  BY DEF Exact
<1>1. CASE ArpChanges
  <2>1. UNCHANGED <<pc, list, calls, forward>> /\ Listed("DOWNLOAD")' = Listed("DOWNLOAD")
    BY <1>1 DEF ArpChanges, firewall, script, Listed
  <2> QED BY <1>1, <2>1 DEF ArpChanges, SeenInv, Pending
<1>2. CASE Packet
  <2>1. UNCHANGED <<arp, pc, list, calls, forward, stayed, seen>>
    BY <1>2 DEF Packet, script, history
  <2> QED BY <2>1 DEF SeenInv, Pending, Listed
<1>3. CASE StartUpdate
  BY <1>3 DEF StartUpdate, SeenInv
<1>4. CASE InsertRule
  <2>1. /\ pc = "insert" /\ calls = {} /\ UNCHANGED <<arp, pc, forward, stayed, seen>>
        /\ Turn({ip \in Ips : ~HasRule(ip)})
        /\ Listed("DOWNLOAD")' = Listed("DOWNLOAD")
    BY <1>4 DEF InsertRule, firewall, history, Listed
  <2>2. PICK ip \in list :
          /\ ip \in Ips /\ list' = list \ {ip}
          /\ \A j \in Ips : <<"UPLOAD", j>> \in calls' <=> j = ip /\ ~HasRule(ip)
    BY <2>1, TurnForms DEF FwInv
  <2>3. HasRule(ip) => ip \in Listed("DOWNLOAD")
    BY <1>0, <2>2 DEF HasRule
  <2>4. Pending(ip)' \/ ip \in Listed("DOWNLOAD")
    BY <2>2, <2>3 DEF Pending
  <2> QED BY <2>1, <2>2, <2>4 DEF SeenInv, Pending
<1>5. CASE DeleteRule
  <2>1. /\ pc = "delete" /\ calls = {} /\ UNCHANGED <<arp, pc, forward, stayed, seen>>
        /\ Turn({ip \in Ips : Matches[ip] \cap arp = {}})
        /\ Listed("DOWNLOAD")' = Listed("DOWNLOAD")
    BY <1>5 DEF DeleteRule, firewall, history, Listed
  <2>2. PICK ip \in list :
          /\ ip \in Ips /\ list' = list \ {ip}
          /\ \A j \in Ips : /\ <<"UPLOAD", j>> \in calls' <=> j = ip /\ Matches[ip] \cap arp = {}
                            /\ <<"DOWNLOAD", j>> \notin calls'
    BY <2>1, TurnForms DEF FwInv
  <2>3. \A j \in Ips : Pending(j)' <=> j = ip /\ ip \notin arp
    BY <1>0, <2>2 DEF Pending
  <2> QED BY <2>1, <2>2, <2>3 DEF SeenInv, Pending
<1>6. CASE ListRules
  <2>1. /\ pc = "insert" /\ pc' = "delete" /\ list = {} /\ calls = {} /\ calls' = {}
        /\ UNCHANGED <<arp, forward, stayed, seen>> /\ list' = Listed("DOWNLOAD")
        /\ Listed("DOWNLOAD")' = Listed("DOWNLOAD")
    BY <1>6 DEF ListRules, firewall, history, Listed
  <2> QED BY <2>1 DEF SeenInv, Pending
<1>7. CASE GenerateTraffic \/ AddUpload \/ FirstReading \/ WriteInformation
  <2>1. /\ UNCHANGED <<arp, forward, stayed, seen>>
        /\ Listed("DOWNLOAD")' = Listed("DOWNLOAD")
        /\ pc' \in {"upload", "sleep", "done"}
        /\ \/ pc = "delete" /\ list = {} /\ calls = {}
           \/ pc \in {"upload", "sleep"}
    BY <1>7 DEF GenerateTraffic, AddUpload, FirstReading, WriteInformation, firewall, history,
                Listed
  <2>2. \A ip \in Listed("DOWNLOAD") : ip \in Ips
    BY DEF Listed
  <2> QED BY <2>1, <2>2 DEF SeenInv, Pending, FwInv, TypeOK
<1>8. CASE ScriptFails \/ StartCleanUp \/ CleanUpRule \/ DeleteChains \/ Restart
  <2>1. UNCHANGED <<arp, stayed, seen>> /\ pc' \in {"cut", "cleanup", "clean", "idle"}
    BY <1>8 DEF ScriptFails, StartCleanUp, CleanUpRule, DeleteChains, Restart, history
  <2> QED BY <2>1 DEF SeenInv
<1>9. CASE ScriptKilled \/ EndUpdate
  BY <1>9 DEF ScriptKilled, EndUpdate, Unwatched, SeenInv
<1>10. CASE RuleCall \/ RuleCallFails
  BY <1>10, SeenCalls
<1>11. CASE UNCHANGED vars
  <2>1. UNCHANGED <<arp, pc, list, calls, forward, stayed, seen>>
    BY <1>11 DEF vars, firewall, script, history
  <2> QED BY <2>1 DEF SeenInv, Pending, Listed
<1> QED BY <1>1, <1>2, <1>3, <1>4, <1>5, <1>6, <1>7, <1>8, <1>9, <1>10, <1>11
        DEF Next, Network, Script, Update, CleanUp, Calls

\* When no address is a part of another, grep finds the counter of the address
\* unless a fault has left it without its UPLOAD rule, or with two of them.
LEMMA FoundExact ==
    ASSUME Exact, FwInv, calls = {}
    PROVE  \A ip \in Listed("DOWNLOAD") :
             /\ ip \in Ips
             /\ Rule("DOWNLOAD", ip) \in Nat /\ Rule("UPLOAD", ip) \in Nat
             /\ Found("DOWNLOAD", ip) \in Nat /\ Found("UPLOAD", ip) \in Nat
             /\ faults[ip] = 0 => /\ Found("DOWNLOAD", ip) = Rule("DOWNLOAD", ip)
                                  /\ Found("UPLOAD", ip) = Rule("UPLOAD", ip)
<1> SUFFICES ASSUME NEW ip \in Listed("DOWNLOAD")
             PROVE  /\ ip \in Ips
                    /\ Rule("DOWNLOAD", ip) \in Nat /\ Rule("UPLOAD", ip) \in Nat
                    /\ Found("DOWNLOAD", ip) \in Nat /\ Found("UPLOAD", ip) \in Nat
                    /\ faults[ip] = 0 => /\ Found("DOWNLOAD", ip) = Rule("DOWNLOAD", ip)
                                         /\ Found("UPLOAD", ip) = Rule("UPLOAD", ip)
  OBVIOUS
<1>1. ip \in Ips /\ Matches[ip] = {ip} /\ Downs(ip) > 0 /\ AddressInv(ip)
  BY DEF Exact, FwInv, Listed, Downs
<1>2. /\ <<"UPLOAD", ip>> \in Rules /\ <<"DOWNLOAD", ip>> \in Rules
      /\ Ups(ip) \in Nat /\ Downs(ip) \in Nat /\ faults[ip] \in Nat
  BY <1>1, AddressNumbers DEF FwInv
<1>3. Rule("DOWNLOAD", ip) \in Nat /\ Rule("UPLOAD", ip) \in Nat
  BY <1>2, PacketsAssumption DEF FwInv, TypeOK, Rule
<1>4. Found("DOWNLOAD", ip) \in Nat /\ Found("UPLOAD", ip) \in Nat
  <2>1. \A k \in Kinds : Found(k, ip) \in {packets[<<k, ip>>], MaxPackets + 1}
    BY DEF Found
  <2> QED BY <1>3, <2>1, TwoKinds, PacketsAssumption DEF Rule
<1>5. ASSUME faults[ip] = 0
      PROVE  Found("DOWNLOAD", ip) = Rule("DOWNLOAD", ip) /\ Found("UPLOAD", ip) = Rule("UPLOAD", ip)
  <2>1. Downs(ip) = 1 /\ Ups(ip) = 1
    BY <1>1, <1>2, <1>5 DEF AddressInv
  <2>2. ip \in Listed("DOWNLOAD") /\ ip \in Listed("UPLOAD")
    BY <1>1, <2>1 DEF Listed, Ups, Downs
  <2>3. Matches[ip] \cap Listed("DOWNLOAD") = {ip} /\ Matches[ip] \cap Listed("UPLOAD") = {ip}
    BY <1>1, <2>2
  <2> QED BY <2>1, <2>3 DEF Found, Rule, Ups, Downs
<1> QED BY <1>1, <1>3, <1>4, <1>5

\* A packet makes no counter smaller.
LEMMA CountersGrow ==
    ASSUME FwInv, Packet
    PROVE  \A k \in Kinds, ip \in Ips : /\ Rule(k, ip) \in Nat /\ Rule(k, ip)' \in Nat
                                        /\ Rule(k, ip) <= Rule(k, ip)'
<1> SUFFICES ASSUME NEW k \in Kinds, NEW ip \in Ips
             PROVE  /\ packets[<<k, ip>>] \in Nat /\ packets'[<<k, ip>>] \in Nat
                    /\ packets[<<k, ip>>] <= packets'[<<k, ip>>]
  BY DEF Rule
<1>1. <<k, ip>> \in Rules /\ packets[<<k, ip>>] \in Nat
  BY RuleForms, PacketsAssumption DEF FwInv, TypeOK
<1>2. PICK r \in Rules : packets' = [packets EXCEPT ![r] = packets[r] + 1]
  BY DEF Packet
<1>3. packets'[<<k, ip>>] \in {packets[<<k, ip>>], packets[<<k, ip>>] + 1}
  BY <1>1, <1>2 DEF FwInv, TypeOK
<1> QED BY <1>1, <1>3

Readings == [Listed("DOWNLOAD") -> [down : Nat, up : Nat]]

\* The clients that are counted and have had no fault.
Counted == {ip \in Listed("DOWNLOAD") : faults[ip] = 0}

\* Each reading of the counters of such a client is no more than the next one.
ReadInv ==
    /\ pc \in {"upload", "sleep"} =>
         /\ traffic \in Readings
         /\ \A ip \in Counted : /\ traffic[ip].down <= Rule("DOWNLOAD", ip)
                                /\ traffic[ip].up <= Rule("UPLOAD", ip)
    /\ pc = "sleep" =>
         /\ first \in Readings
         /\ \A ip \in Counted : /\ traffic[ip].down <= first[ip].down
                                /\ traffic[ip].up <= first[ip].up
                                /\ first[ip].down <= Rule("DOWNLOAD", ip)
                                /\ first[ip].up <= Rule("UPLOAD", ip)
    /\ pc = "done" =>
         /\ DOMAIN info = Listed("DOWNLOAD")
         /\ \A ip \in Counted :
              /\ info[ip].down \in Nat /\ info[ip].downRate \in Nat
              /\ info[ip].up \in Nat /\ info[ip].upRate \in Nat
              /\ info[ip].down + info[ip].downRate <= Rule("DOWNLOAD", ip)
              /\ info[ip].up + info[ip].upRate <= Rule("UPLOAD", ip)

ExactInv == FwInv /\ SeenInv /\ ReadInv

LEMMA ReadStepInv ==
    ASSUME Exact, FwInv, ReadInv, [Next]_vars
    PROVE  ReadInv'
<1>0. \A ip \in Counted : ip \in Listed("DOWNLOAD") /\ ip \in Ips /\ faults[ip] = 0
  BY DEF Counted, Listed
<1>1. CASE Packet
  <2>1. /\ UNCHANGED <<pc, traffic, first, info>>
        /\ Listed("DOWNLOAD")' = Listed("DOWNLOAD") /\ Counted' = Counted
    BY <1>1 DEF Packet, script, history, Listed, Counted
  <2>2. \A ip \in Counted, n \in Nat :
          /\ n <= Rule("DOWNLOAD", ip) => n <= Rule("DOWNLOAD", ip)'
          /\ n <= Rule("UPLOAD", ip) => n <= Rule("UPLOAD", ip)'
    <3> SUFFICES ASSUME NEW ip \in Counted, NEW n \in Nat
                 PROVE  /\ n <= Rule("DOWNLOAD", ip) => n <= Rule("DOWNLOAD", ip)'
                        /\ n <= Rule("UPLOAD", ip) => n <= Rule("UPLOAD", ip)'
      OBVIOUS
    <3>1. \A k \in Kinds : /\ Rule(k, ip) \in Nat /\ Rule(k, ip)' \in Nat
                           /\ Rule(k, ip) <= Rule(k, ip)'
      BY <1>0, <1>1, CountersGrow
    <3> QED BY <3>1, TwoKinds
  <2>3. CASE pc = "upload"
    <3>1. \A ip \in Counted : traffic[ip].down \in Nat /\ traffic[ip].up \in Nat
      BY <1>0, <2>3 DEF ReadInv, Readings
    <3> QED BY <2>1, <2>2, <2>3, <3>1 DEF ReadInv, Readings
  <2>4. CASE pc = "sleep"
    <3>1. \A ip \in Counted : /\ traffic[ip].down \in Nat /\ traffic[ip].up \in Nat
                              /\ first[ip].down \in Nat /\ first[ip].up \in Nat
      BY <1>0, <2>4 DEF ReadInv, Readings
    <3> QED BY <2>1, <2>2, <2>4, <3>1 DEF ReadInv, Readings
  <2>5. CASE pc = "done"
    <3>1. \A ip \in Counted : /\ info[ip].down + info[ip].downRate \in Nat
                              /\ info[ip].up + info[ip].upRate \in Nat
      BY <2>5 DEF ReadInv
    <3> QED BY <2>1, <2>2, <2>5, <3>1 DEF ReadInv
  <2>6. CASE pc \notin {"upload", "sleep", "done"}
    BY <2>1, <2>6 DEF ReadInv
  <2> QED BY <2>3, <2>4, <2>5, <2>6
<1>2. CASE GenerateTraffic
  <2>1. /\ pc' = "upload" /\ UNCHANGED packets /\ calls = {}
        /\ Listed("DOWNLOAD")' = Listed("DOWNLOAD") /\ Counted' = Counted
        /\ traffic' = [ip \in Listed("DOWNLOAD") |->
                         [down |-> packets[<<"DOWNLOAD", ip>>], up |-> 0]]
    BY <1>2 DEF GenerateTraffic, firewall, history, Listed, Counted
  <2>2. \A ip \in Listed("DOWNLOAD") : /\ traffic'[ip] \in [down : Nat, up : Nat]
                                       /\ traffic'[ip].down <= Rule("DOWNLOAD", ip)
                                       /\ traffic'[ip].up <= Rule("UPLOAD", ip)
    <3> SUFFICES ASSUME NEW ip \in Listed("DOWNLOAD")
                 PROVE  /\ traffic'[ip] \in [down : Nat, up : Nat]
                        /\ traffic'[ip].down <= Rule("DOWNLOAD", ip)
                        /\ traffic'[ip].up <= Rule("UPLOAD", ip)
      OBVIOUS
    <3>1. traffic'[ip] = [down |-> Rule("DOWNLOAD", ip), up |-> 0]
      BY <2>1 DEF Rule
    <3>2. Rule("DOWNLOAD", ip) \in Nat /\ Rule("UPLOAD", ip) \in Nat
      BY <2>1, FoundExact
    <3> QED BY <3>1, <3>2
  <2> QED BY <1>0, <2>1, <2>2 DEF ReadInv, Readings, Rule
<1>3. CASE AddUpload
  <2>1. PICK ip \in list : traffic' = [traffic EXCEPT ![ip].up = Found("UPLOAD", ip)]
    BY <1>3 DEF AddUpload
  <2>2. /\ pc = "upload" /\ pc' = "upload" /\ UNCHANGED packets /\ calls = {}
        /\ Listed("DOWNLOAD")' = Listed("DOWNLOAD") /\ Counted' = Counted
    BY <1>3 DEF AddUpload, firewall, history, Listed, Counted, FwInv, TypeOK
  <2>3. ASSUME NEW j \in Listed("DOWNLOAD")
        PROVE  /\ traffic'[j] \in [down : Nat, up : Nat]
               /\ j \in Counted => /\ traffic'[j].down <= Rule("DOWNLOAD", j)
                                   /\ traffic'[j].up <= Rule("UPLOAD", j)
    <3>1. /\ traffic[j] \in [down : Nat, up : Nat] /\ j \in DOMAIN traffic
          /\ j \in Counted => /\ traffic[j].down <= Rule("DOWNLOAD", j)
                              /\ traffic[j].up <= Rule("UPLOAD", j)
      BY <2>2 DEF ReadInv, Readings
    <3>2. CASE j = ip
      <4>1. traffic'[j] = [traffic[j] EXCEPT !.up = Found("UPLOAD", j)]
        BY <2>1, <3>1, <3>2
      <4>2. /\ Found("UPLOAD", j) \in Nat /\ Rule("UPLOAD", j) \in Nat
            /\ j \in Counted => Found("UPLOAD", j) = Rule("UPLOAD", j)
        BY <1>0, <2>2, FoundExact
      <4> QED BY <3>1, <4>1, <4>2
    <3>3. CASE j # ip
      BY <2>1, <3>1, <3>3
    <3> QED BY <3>2, <3>3
  <2>4. traffic' \in Readings
    <3>1. DOMAIN traffic' = Listed("DOWNLOAD") /\ traffic' = [j \in DOMAIN traffic' |-> traffic'[j]]
      BY <2>1, <2>2 DEF ReadInv, Readings
    <3> QED BY <2>3, <3>1 DEF Readings
  <2> QED BY <1>0, <2>2, <2>3, <2>4 DEF ReadInv, Readings, Rule
<1>4. CASE FirstReading
  <2>1. /\ pc = "upload" /\ pc' = "sleep" /\ UNCHANGED <<packets, traffic>> /\ calls = {}
        /\ Listed("DOWNLOAD")' = Listed("DOWNLOAD") /\ Counted' = Counted
        /\ first' = [ip \in Listed("DOWNLOAD") |-> [down |-> Found("DOWNLOAD", ip),
                                                    up |-> Found("UPLOAD", ip)]]
    BY <1>4 DEF FirstReading, Counters, firewall, history, Listed, Counted, FwInv, TypeOK
  <2>2. \A ip \in Listed("DOWNLOAD") :
          /\ first'[ip] \in [down : Nat, up : Nat]
          /\ ip \in Counted => /\ first'[ip].down = Rule("DOWNLOAD", ip)
                               /\ first'[ip].up = Rule("UPLOAD", ip)
    BY <1>0, <2>1, FoundExact
  <2>3. \A ip \in Counted : /\ first'[ip].down <= Rule("DOWNLOAD", ip)
                            /\ first'[ip].up <= Rule("UPLOAD", ip)
    BY <1>0, <2>1, <2>2, FoundExact
  <2>4. first' \in Readings
    BY <2>1, <2>2 DEF Readings
  <2> QED BY <1>0, <2>1, <2>2, <2>3, <2>4 DEF ReadInv, Readings, Rule
<1>5. CASE WriteInformation
  <2>1. /\ pc = "sleep" /\ pc' = "done" /\ UNCHANGED packets /\ calls = {}
        /\ Listed("DOWNLOAD")' = Listed("DOWNLOAD") /\ Counted' = Counted
        /\ info' = [ip \in DOMAIN traffic |-> Line(ip)]
    BY <1>5 DEF WriteInformation, firewall, history, Listed, Counted, FwInv, TypeOK
  <2>2. DOMAIN traffic = Listed("DOWNLOAD")
    BY <2>1 DEF ReadInv, Readings
  <2>3. ASSUME NEW ip \in Counted
        PROVE  /\ info'[ip].down \in Nat /\ info'[ip].downRate \in Nat
               /\ info'[ip].up \in Nat /\ info'[ip].upRate \in Nat
               /\ info'[ip].down + info'[ip].downRate <= Rule("DOWNLOAD", ip)
               /\ info'[ip].up + info'[ip].upRate <= Rule("UPLOAD", ip)
    <3>1. /\ Counters[ip].down = Rule("DOWNLOAD", ip) /\ Counters[ip].up = Rule("UPLOAD", ip)
          /\ Rule("DOWNLOAD", ip) \in Nat /\ Rule("UPLOAD", ip) \in Nat
      BY <1>0, <2>1, FoundExact DEF Counters
    <3>2. /\ traffic[ip].down \in Nat /\ traffic[ip].up \in Nat
          /\ first[ip].down \in Nat /\ first[ip].up \in Nat
          /\ traffic[ip].down <= first[ip].down /\ traffic[ip].up <= first[ip].up
          /\ first[ip].down <= Rule("DOWNLOAD", ip) /\ first[ip].up <= Rule("UPLOAD", ip)
      BY <1>0, <2>1 DEF ReadInv, Readings
    <3>3. /\ info'[ip].down = traffic[ip].down /\ info'[ip].up = traffic[ip].up
          /\ info'[ip].downRate = Rule("DOWNLOAD", ip) - first[ip].down
          /\ info'[ip].upRate = Rule("UPLOAD", ip) - first[ip].up
      BY <1>0, <2>1, <2>2, <3>1 DEF Line
    <3> QED BY <3>1, <3>2, <3>3
  <2> QED BY <2>1, <2>2, <2>3 DEF ReadInv, Rule
<1>6. CASE \/ StartUpdate \/ InsertRule \/ ListRules \/ DeleteRule \/ ScriptFails \/ EndUpdate
           \/ CleanUp \/ ScriptKilled \/ Calls
  <2>1. pc' \in {"insert", "delete", "idle", "cut", "cleanup", "clean"}
    BY <1>6 DEF StartUpdate, InsertRule, ListRules, DeleteRule, ScriptFails, EndUpdate, CleanUp,
                StartCleanUp, CleanUpRule, DeleteChains, Restart, ScriptKilled, Calls, RuleCall,
                RuleCallFails, FwInv, TypeOK
  <2> QED BY <2>1 DEF ReadInv
<1>7. CASE ArpChanges \/ UNCHANGED vars
  BY <1>7 DEF ArpChanges, vars, firewall, script, history, ReadInv, Readings, Rule, Listed, Counted
<1> QED BY <1>1, <1>2, <1>3, <1>4, <1>5, <1>6, <1>7 DEF Next, Network, Script, Update

LEMMA ExactInvariant == ASSUME Exact PROVE Spec => []ExactInv
<1>1. Init => ExactInv
  BY FwInitInv DEF Init, ExactInv, SeenInv, ReadInv
<1>2. ExactInv /\ [Next]_vars => ExactInv'
  BY FwStepInv, SeenStepInv, ReadStepInv DEF ExactInv
<1> QED BY <1>1, <1>2, PTL DEF Spec

\* When no address is a part of another, a client that has left has no rule
\* after the next update, unless deleting it has failed.
THEOREM FwNoStaleRule == ASSUME Exact PROVE Spec => []NoStaleRule
<1>1. ExactInv => NoStaleRule
  BY DEF ExactInv, SeenInv, NoStaleRule
<1> QED BY ExactInvariant, <1>1, PTL

\* When no address is a part of another, a client that was there during the
\* whole update is counted, whatever killed runs have left of its rules.
THEOREM FwEveryClientCounted == ASSUME Exact PROVE Spec => []EveryClientCounted
<1>1. ExactInv => EveryClientCounted
  BY DEF ExactInv, SeenInv, ReadInv, EveryClientCounted
<1> QED BY ExactInvariant, <1>1, PTL

\* When no address is a part of another, no client on whose rules no call has
\* failed is charged more than they have counted, in traffic or in rates.
THEOREM FwInformationIsOwn == ASSUME Exact PROVE Spec => []InformationIsOwn
<1>1. ExactInv => InformationIsOwn
  BY DEF ExactInv, ReadInv, InformationIsOwn, Rule, Counted
<1> QED BY ExactInvariant, <1>1, PTL

-----------------------------------------------------------------------------
\* The report only adds steps of its own: the script runs as it does alone.
THEOREM ReportImplementsScript == ReportSpec => Spec
<1>1. InitReport => Init
  BY DEF InitReport
<1>2. [NextReport]_allVars => [Next]_vars
  BY DEF NextReport, PingEnds, Next, allVars
<1> QED BY <1>1, <1>2, PTL DEF ReportSpec, Spec

\* While ping() makes its report no script runs, and the file stays.
LEMMA ScriptOver ==
    ASSUME pc \in {"done", "cut"}, Network \/ Script
    PROVE  pc' = pc /\ info' = info
<1>1. CASE Network
  BY <1>1 DEF Network, ArpChanges, Packet, script
<1>2. CASE Update
  BY <1>2 DEF Update, StartUpdate, InsertRule, ListRules, DeleteRule, GenerateTraffic, AddUpload,
              FirstReading, WriteInformation, ScriptFails
<1>3. CASE CleanUp
  BY <1>3 DEF CleanUp, StartCleanUp, CleanUpRule, DeleteChains, Restart
<1>4. CASE Calls \/ ScriptKilled
  BY <1>4 DEF Calls, RuleCall, RuleCallFails, ScriptKilled, Running
<1> QED BY <1>1, <1>2, <1>3, <1>4 DEF Script

Both(state) == [l \in {"c", "t"} |-> state]

\* Where ping() is decides what the two lists are.
ListInv ==
    /\ step \in {"script", "clients", "traffic", "join", "build", "sent", "failed"}
    /\ step # "script" => pc \in {"done", "cut"}
    /\ step = "script" => heap = NoHeap
    /\ step = "clients" => heap = Both("raw")
    /\ step = "traffic" => heap = [Both("raw") EXCEPT !["c"] = "live"]
    /\ step \in {"join", "build"} => heap = Both("live")
    /\ step = "sent" => heap = Both("freed")
    /\ badFree \in {"none", "link"}
    /\ badFree = "link" => step = "failed" /\ heap = [c |-> "freed", t |-> "none"]

\* Lists whose links are written are freed without harm.
LEMMA LiveFreed ==
    ASSUME NEW h, DOMAIN h = {"c", "t"}, NEW lists \in SUBSET {"c", "t"},
           \A l \in lists : h[l] = "live", DestroyFrom(h, lists)
    PROVE  /\ UNCHANGED badFree
           /\ heap' = [l \in {"c", "t"} |-> IF l \in lists THEN "freed" ELSE h[l]]
  BY DEF DestroyFrom

LEMMA ListStepInv == ListInv /\ [NextReport]_allVars => ListInv'
<1> SUFFICES ASSUME ListInv, [NextReport]_allVars PROVE ListInv'
  OBVIOUS
<1>1. CASE (Network \/ Script) /\ UNCHANGED pingVars
  <2>1. pc \in {"done", "cut"} => pc' = pc
    BY <1>1, ScriptOver
  <2> QED BY <1>1, <2>1 DEF ListInv, pingVars
<1>2. CASE MallocLists /\ UNCHANGED vars
  <2>1. step = "script" /\ pc \in {"done", "cut"} /\ pc' = pc /\ badFree = "none"
    BY <1>2 DEF MallocLists, vars, script, ListInv
  <2>2. CASE heap' = [l \in {"c", "t"} |-> "raw"] /\ step' = "clients" /\ UNCHANGED badFree
    BY <2>1, <2>2 DEF ListInv, Both
  <2>3. CASE heap' = NoHeap /\ step' = "failed" /\ UNCHANGED badFree
    BY <2>1, <2>3 DEF ListInv
  <2>4. CASE DestroyFrom([c |-> "raw", t |-> "none"], {"c"}) /\ step' = "failed"
    <3>1. heap' = [c |-> "freed", t |-> "none"] /\ badFree' \in {"none", "link"}
      BY <2>1, <2>4 DEF DestroyFrom
    <3> QED BY <2>1, <2>4, <3>1 DEF ListInv
  <2> QED BY <1>2, <2>2, <2>3, <2>4 DEF MallocLists
<1>3. CASE InitClientList /\ UNCHANGED vars
  <2>1. /\ step = "clients" /\ pc \in {"done", "cut"} /\ pc' = pc /\ badFree = "none"
        /\ heap = Both("raw")
    BY <1>3 DEF InitClientList, vars, script, ListInv
  <2>2. CASE step' = "failed" /\ KeepHeap
    BY <2>1, <2>2 DEF KeepHeap, ListInv
  <2>3. CASE step' = "traffic" /\ heap' = [heap EXCEPT !["c"] = "live"] /\ UNCHANGED badFree
    BY <2>1, <2>3 DEF ListInv
  <2>4. CASE step' = "failed" /\ DestroyFrom([heap EXCEPT !["c"] = "live"], {"c"})
    <3>1. UNCHANGED badFree
      BY <2>1, <2>4, LiveFreed DEF Both
    <3> QED BY <2>1, <2>4, <3>1 DEF ListInv
  <2> QED BY <1>3, <2>2, <2>3, <2>4 DEF InitClientList, Fail
<1>4. CASE InitTrafficList /\ UNCHANGED vars
  <2>1. /\ step = "traffic" /\ pc \in {"done", "cut"} /\ pc' = pc /\ badFree = "none"
        /\ heap = [Both("raw") EXCEPT !["c"] = "live"]
    BY <1>4 DEF InitTrafficList, vars, script, ListInv
  <2>2. CASE step' = "join" /\ heap' = [heap EXCEPT !["t"] = "live"] /\ UNCHANGED badFree
    BY <2>1, <2>2 DEF ListInv, Both
  <2>3. CASE step' = "failed" /\ Destroy({"c"})
    <3>1. UNCHANGED badFree
      BY <2>1, <2>3, LiveFreed DEF Both, Destroy
    <3> QED BY <2>1, <2>3, <3>1 DEF ListInv
  <2>4. CASE step' = "failed" /\ DestroyFrom([heap EXCEPT !["t"] = "live"], {"c", "t"})
    <3>1. UNCHANGED badFree
      BY <2>1, <2>4, LiveFreed DEF Both
    <3> QED BY <2>1, <2>4, <3>1 DEF ListInv
  <2> QED BY <1>4, <2>2, <2>3, <2>4 DEF InitTrafficList, Fail
<1>5. CASE GetTrafficToClient /\ UNCHANGED vars
  BY <1>5 DEF GetTrafficToClient, KeepHeap, vars, script, ListInv
<1>6. CASE BuildPingJson /\ UNCHANGED vars
  <2>1. step = "build" /\ step' \in {"sent", "failed"} /\ pc' = pc /\ badFree = "none"
    BY <1>6 DEF BuildPingJson, Fail, vars, script, ListInv
  <2>2. heap' = Both("freed") /\ UNCHANGED badFree
    BY <1>6, <2>1, LiveFreed DEF BuildPingJson, Destroy, ListInv, Both
  <2> QED BY <2>1, <2>2 DEF ListInv
<1>7. CASE PingEnds
  BY <1>7 DEF PingEnds, ListInv
<1>8. CASE UNCHANGED allVars
  BY <1>8 DEF allVars, pingVars, vars, script, ListInv
<1> QED BY <1>1, <1>2, <1>3, <1>4, <1>5, <1>6, <1>7, <1>8 DEF NextReport, Ping

LEMMA ListInvariant == ReportSpec => []ListInv
<1>1. InitReport => ListInv
  BY DEF InitReport, ListInv
<1> QED BY <1>1, ListStepInv, PTL DEF ReportSpec

\* Whichever allocation or file fails, no list of the report is freed twice,
\* and memory that is no list's is freed at ping.c:105 only.
THEOREM ReportBadFree == ReportSpec => []BadFreeOnlyAtMalloc
<1>1. ListInv => BadFreeOnlyAtMalloc
  BY DEF ListInv, BadFreeOnlyAtMalloc
<1> QED BY ListInvariant, <1>1, PTL

\* The lists live while they are read, and a report that is sent frees both.
THEOREM ReportListsOwned == ReportSpec => []ListsOwned
<1>1. ListInv => ListsOwned
  BY DEF ListInv, ListsOwned, Both
<1> QED BY ListInvariant, <1>1, PTL

\* What a list says of each address in it, once the counters were copied.
Told(counters) == \A ip \in DOMAIN counters :
    IF ip \in DOMAIN info THEN counters[ip] = info[ip] ELSE counters[ip] \in {Zero, Garbage}

TellInv ==
    /\ step \in {"traffic", "join"} => \A ip \in DOMAIN clients : clients[ip] \in {Zero, Garbage}
    /\ step = "join" => traffics \in ListsOf(info)
    /\ step = "build" => Told(clients)
    /\ step = "sent" => Told(report)

LEMMA TellStepInv == ListInv /\ TellInv /\ [NextReport]_allVars => TellInv'
<1> SUFFICES ASSUME ListInv, TellInv, [NextReport]_allVars PROVE TellInv'
  OBVIOUS
<1>1. CASE (Network \/ Script) /\ UNCHANGED pingVars
  <2>1. pc \in {"done", "cut"} => info' = info
    BY <1>1, ScriptOver
  <2> QED BY <1>1, <2>1 DEF ListInv, TellInv, Told, ListsOf, pingVars, Garbage, Zero
<1>2. CASE MallocLists /\ UNCHANGED vars
  BY <1>2 DEF MallocLists, TellInv
<1>3. CASE InitClientList /\ UNCHANGED vars
  <2>1. CASE step' = "failed"
    BY <2>1 DEF TellInv
  <2>2. CASE step' = "traffic"
    <3>1. PICK leases \in SUBSET Ips : clients' \in ListsOf([ip \in leases |-> Zero])
      BY <1>3, <2>2 DEF InitClientList, Fail
    <3>2. \A ip \in DOMAIN clients' : clients'[ip] \in {Zero, Garbage}
      BY <3>1 DEF ListsOf
    <3> QED BY <2>2, <3>2 DEF TellInv, Zero, Garbage
  <2> QED BY <1>3, <2>1, <2>2 DEF InitClientList, Fail
<1>4. CASE InitTrafficList /\ UNCHANGED vars
  <2>1. CASE step' = "failed"
    BY <2>1 DEF TellInv
  <2>2. CASE step' = "join"
    <3>1. step = "traffic" /\ traffics' \in ListsOf(info) /\ UNCHANGED <<clients, info>>
      BY <1>4, <2>2 DEF InitTrafficList, Fail, vars, script
    <3> QED BY <2>2, <3>1 DEF TellInv, ListsOf, Zero, Garbage
  <2> QED BY <1>4, <2>1, <2>2 DEF InitTrafficList, Fail
<1>5. CASE GetTrafficToClient /\ UNCHANGED vars
  <2>1. /\ step = "join" /\ step' = "build" /\ info' = info
        /\ clients' = [ip \in DOMAIN clients |-> IF ip \in DOMAIN traffics THEN traffics[ip]
                                                 ELSE clients[ip]]
        /\ \A ip \in DOMAIN clients : clients[ip] \in {Zero, Garbage}
    BY <1>5 DEF GetTrafficToClient, vars, script, TellInv
  <2>2. CASE DOMAIN info # {}
    <3>1. traffics = info
      BY <2>1, <2>2 DEF TellInv, ListsOf
    <3> QED BY <2>1, <3>1 DEF TellInv, Told, Zero, Garbage
  <2>3. CASE DOMAIN info = {}
    <3>1. \A ip \in DOMAIN traffics : traffics[ip] = Garbage
      BY <2>1, <2>3 DEF TellInv, ListsOf
    <3> QED BY <2>1, <2>3, <3>1 DEF TellInv, Told, Zero, Garbage
  <2> QED BY <2>2, <2>3
<1>6. CASE BuildPingJson /\ UNCHANGED vars
  BY <1>6 DEF BuildPingJson, Fail, TellInv, Told, vars, script, Zero, Garbage
<1>7. CASE PingEnds
  BY <1>7 DEF PingEnds, TellInv
<1>8. CASE UNCHANGED allVars
  BY <1>8 DEF allVars, pingVars, vars, script, TellInv, Told, ListsOf, Zero, Garbage
<1> QED BY <1>1, <1>2, <1>3, <1>4, <1>5, <1>6, <1>7, <1>8 DEF NextReport, Ping

\* When no address is a part of another, a report that is sent says of each
\* client what the file says that the script has left, whether it ran to its
\* end, was killed or did not start; and a client that was there during the
\* whole of a run that was not cut off has a line in it.
THEOREM ReportTells == ASSUME Exact PROVE ReportSpec => []ReportTellsTraffic
<1>1. InitReport => TellInv
  BY DEF InitReport, TellInv
<1>2. ReportSpec => [](ListInv /\ TellInv)
  BY <1>1, TellStepInv, ListInvariant, PTL DEF ReportSpec
<1>3. ListInv /\ TellInv /\ EveryClientCounted => ReportTellsTraffic
  BY DEF TellInv, Told, EveryClientCounted, ReportTellsTraffic
<1> QED BY <1>2, <1>3, ReportImplementsScript, FwEveryClientCounted, PTL
=============================================================================
