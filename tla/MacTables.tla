----------------------------- MODULE MacTables -----------------------------
(***************************************************************************)
(* The black and white lists of MAC addresses.  A remote command runs      *)
(* accmd_mac_set_white_black, which runs accmd_update_mac_fw_tables once   *)
(* for the black list and once for the white list; each run removes the    *)
(* rules of the list that a file keeps, writes the new list to the file    *)
(* and adds its rules.  Commands run one after the other, in the ping      *)
(* thread; WiFiDog, whose chain holds the white rules, starts and stops at *)
(* any time.  A list is a sequence of addresses, the word NULL is <<>>.    *)
(***************************************************************************)
EXTENDS Naturals, Sequences

CONSTANTS Macs,             \* addresses
          Lists             \* the lists a command can carry

ASSUME ListsAssumption == Lists \subseteq Seq(Macs) /\ <<>> \in Lists

Flags == {"black", "white"}

VARIABLES dog,              \* dogflag: the router has WiFiDog
          outgoing,         \* WiFiDog's chain is there
          rules,            \* addresses with a rule: DROP in filter's INPUT for
                            \* black, MARK in WiFiDog's chain for white
          file,             \* /tmp/.black.mac.list and /tmp/.white.mac.list
          command,          \* the arguments of the last command
          pc, flag,         \* where the script is, and for which list
          todo,             \* addresses its loop has still to read
          failed            \* scripts that have exited with 1: reta + retb

script == <<command, pc, flag, todo, failed>>
vars == <<dog, outgoing, rules, file, script>>

Init == /\ dog \in BOOLEAN
        /\ outgoing = FALSE
        /\ rules = [f \in Flags |-> {}]
        /\ file = [f \in Flags |-> {}]
        /\ command = [f \in Flags |-> <<>>]
        /\ pc = "idle" /\ flag = "white" /\ todo = {} /\ failed = 0

-----------------------------------------------------------------------------
\* The script tests an unquoted list: the test is true for one address, false
\* for the word NULL, and fails, which counts as false, for more than one.
IsAddress(words) == Len(words) = 1

\* True cancels the black list and sets the white one, false the other way.
Sets(f) == IF f = "black" THEN ~IsAddress(command[f]) ELSE IsAddress(command[f])

\* The list is passed unquoted too: its first word is the fifth argument.  For
\* the word NULL iptables refuses the rule.
MacList(f) == IF command[f] = <<>> THEN {} ELSE {Head(command[f])}

\* Mutant of Called: the new list is written to the file before the rules of
\* the old list are removed.
CalledSetsFirst(f) ==
    /\ flag' = f
    /\ pc' = "cancel"
    /\ file' = [file EXCEPT ![f] = IF Sets(f)' THEN MacList(f)' ELSE @]
    /\ todo' = file'[f]

\* accmd_update_mac_fw_tables is called; its first loop reads the file.
Called(f) == /\ flag' = f
             /\ pc' = "cancel"
             /\ todo' = file[f]
             /\ UNCHANGED file

\* accmd_mac_set_white_black starts with the black list.
Command == /\ pc = "idle"
           /\ \E b, w \in Lists : command' = [black |-> b, white |-> w]
           /\ failed' = 0
           /\ Called("black")
           /\ UNCHANGED <<dog, outgoing, rules>>

\* cancel_black_mac_list, cancel_white_mac_list: the rule of an address.
CancelRule == /\ pc = "cancel"
              /\ \E mac \in todo : /\ todo' = todo \ {mac}
                                   /\ rules' = [rules EXCEPT ![flag] = @ \ {mac}]
              /\ UNCHANGED <<dog, outgoing, file, command, pc, flag, failed>>

\* set_mac_list.  The white list needs WiFiDog: without it the script fails.
SetMacList == /\ pc = "cancel" /\ todo = {} /\ Sets(flag)
              /\ file' = [file EXCEPT ![flag] = MacList(flag)]
              /\ IF flag = "white" /\ ~dog
                   THEN failed' = failed + 1 /\ pc' = "end" /\ UNCHANGED todo
                   ELSE todo' = MacList(flag) /\ pc' = "add" /\ UNCHANGED failed
              /\ UNCHANGED <<dog, outgoing, rules, command, flag>>

CancelEnds == /\ pc = "cancel" /\ todo = {} /\ ~Sets(flag)
              /\ pc' = "end"
              /\ UNCHANGED <<dog, outgoing, rules, file, command, flag, todo, failed>>

\* Mutant of AddRule: the rule of the other list is left.
AddRuleOnly ==
    /\ pc = "add"
    /\ \E mac \in todo : /\ todo' = todo \ {mac}
                         /\ rules' = [rules EXCEPT ![flag] = @ \cup {mac}]
    /\ UNCHANGED <<dog, outgoing, file, command, pc, flag, failed>>

Other(f) == IF f = "black" THEN "white" ELSE "black"

\* add_mac_to_black_rule, add_mac_to_white_rule: the rule that the address has
\* in the other table goes (with WiFiDog only, for the black list), and the
\* rule is added; iptables fails, unnoticed, when WiFiDog's chain is not there.
AddRule ==
    /\ pc = "add"
    /\ \E mac \in todo :
         /\ todo' = todo \ {mac}
         /\ rules' = [rules EXCEPT
              ![Other(flag)] = IF flag = "white" \/ dog THEN @ \ {mac} ELSE @,
              ![flag] = IF flag = "white" /\ ~outgoing THEN @ ELSE @ \cup {mac}]
    /\ UNCHANGED <<dog, outgoing, file, command, pc, flag, failed>>

AddEnds == /\ pc = "add" /\ todo = {}
           /\ pc' = "end"
           /\ UNCHANGED <<dog, outgoing, rules, file, command, flag, todo, failed>>

\* The white list follows the black one.
CallWhite == /\ pc = "end" /\ flag = "black"
             /\ UNCHANGED <<dog, outgoing, rules, command, failed>>
             /\ Called("white")

\* SuccessMessage or ErrorMessage: failed tells which.
Reply == /\ pc = "end" /\ flag = "white"
         /\ pc' = "idle"
         /\ UNCHANGED <<dog, outgoing, rules, file, command, flag, todo, failed>>

\* WiFiDog makes its chain, empty, when it starts, and removes it when it stops.
DogStarts == /\ dog /\ ~outgoing
             /\ outgoing' = TRUE
             /\ UNCHANGED <<dog, rules, file, script>>

DogStops == /\ outgoing
            /\ outgoing' = FALSE
            /\ rules' = [rules EXCEPT !["white"] = {}]
            /\ UNCHANGED <<dog, file, script>>

-----------------------------------------------------------------------------
UpdateTables == CancelRule \/ SetMacList \/ CancelEnds \/ AddRule \/ AddEnds

Next == Command \/ UpdateTables \/ CallWhite \/ Reply \/ DogStarts \/ DogStops

Spec == Init /\ [][Next]_vars

-----------------------------------------------------------------------------
TypeOK == /\ dog \in BOOLEAN /\ outgoing \in BOOLEAN
          /\ rules \in [Flags -> SUBSET Macs]
          /\ file \in [Flags -> SUBSET Macs]
          /\ command \in [Flags -> Lists]
          /\ pc \in {"idle", "cancel", "add", "end"}
          /\ flag \in Flags
          /\ todo \subseteq Macs
          /\ failed \in 0..1

\* No address is dropped and let through at the same time, whatever commands
\* came before and whenever WiFiDog was started.
NoMacInBoth == rules["black"] \cap rules["white"] = {}

\* A rule can always be found again: its address is in the file that the next
\* run will cancel from.  An address that is not there could never be removed.
RulesAreListed == \A f \in Flags : rules[f] \subseteq file[f]

\* What a command puts into a table: the address that it passes on, or nothing.
SetBy(f) == IF Sets(f) THEN MacList(f) ELSE {}

\* When a command has ended, the tables are those of this command alone, and
\* the white list, which comes second, has taken its address from the black
\* one.  White rules can be missing: WiFiDog empties its chain when it stops.
TablesOfCommand == pc = "idle" =>
    /\ rules["black"] = SetBy("black") \ (IF dog THEN SetBy("white") ELSE {})
    /\ rules["white"] \subseteq SetBy("white")
=============================================================================
