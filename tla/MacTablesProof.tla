--------------------------- MODULE MacTablesProof ---------------------------
(***************************************************************************)
(* Proofs about MacTables, for any addresses, any lists and any sequence   *)
(* of commands: no address is in both tables, every rule is listed in the  *)
(* file it will be cancelled from, and no rule outlives its command.       *)
(***************************************************************************)
EXTENDS MacTables, TLAPS

\* Only WiFiDog has white rules.
DogInv == (outgoing => dog) /\ (~dog => rules["white"] = {})

\* What the two loops have done so far: the first has still to remove what is
\* left of the old list, the second adds no more than the new list.
LoopInv ==
    /\ pc = "cancel" => rules[flag] \subseteq todo
    /\ pc = "add" => /\ todo \subseteq file[flag] \cap MacList(flag)
                     /\ rules[flag] \subseteq MacList(flag)
    /\ pc \in {"cancel", "add"} \/ flag = "black" => failed = 0
    /\ pc = "idle" => flag = "white"

MacInv == TypeOK /\ DogInv /\ LoopInv /\ NoMacInBoth /\ RulesAreListed

-----------------------------------------------------------------------------
\* The word that is passed on is an address of the command's list.
LEMMA MacListType ==
    ASSUME command \in [Flags -> Lists], NEW f \in Flags
    PROVE  MacList(f) \subseteq Macs
  <1>1. command[f] \in Seq(Macs)
    BY ListsAssumption
  <1>2. CASE command[f] = <<>>
    BY <1>2 DEF MacList
  <1>3. CASE command[f] # <<>>
    <2>1. Head(command[f]) \in Macs
      BY <1>1, <1>3
    <2>2. QED
      BY <1>3, <2>1 DEF MacList
  <1>4. QED
    BY <1>2, <1>3

LEMMA InitMac == ASSUME Init PROVE MacInv
  <1>1. TypeOK
    <2>1. command \in [Flags -> Lists]
      BY ListsAssumption DEF Init
    <2>2. rules \in [Flags -> SUBSET Macs] /\ file \in [Flags -> SUBSET Macs]
      BY DEF Init
    <2>3. dog \in BOOLEAN /\ outgoing \in BOOLEAN
      BY DEF Init
    <2>4. /\ pc \in {"idle", "cancel", "add", "end"} /\ flag \in Flags
          /\ todo \subseteq Macs /\ failed \in 0..1
      BY DEF Init, Flags
    <2>5. QED
      BY <2>1, <2>2, <2>3, <2>4 DEF TypeOK
  <1>a. /\ outgoing = FALSE /\ pc = "idle" /\ flag = "white" /\ failed = 0
        /\ rules["black"] = {} /\ rules["white"] = {}
        /\ \A f \in Flags : rules[f] = {}
    BY DEF Init, Flags
  <1>2. DogInv /\ LoopInv /\ NoMacInBoth /\ RulesAreListed
    BY <1>a DEF DogInv, LoopInv, NoMacInBoth, RulesAreListed
  <1>3. QED
    BY <1>1, <1>2 DEF MacInv

\* The lists of the last command matter only to what comes after it.
LEMMA SameCommand ==
    ASSUME UNCHANGED command, NEW f PROVE MacList(f)' = MacList(f)
  BY DEF MacList

-----------------------------------------------------------------------------
LEMMA CommandMac == ASSUME MacInv, Command PROVE MacInv'
  <1> USE DEF Flags
  <1>1. /\ pc = "idle" /\ pc' = "cancel" /\ flag' = "black" /\ failed' = 0
        /\ todo' = file["black"] /\ UNCHANGED <<dog, outgoing, rules, file>>
    BY DEF Command, Called
  <1>2. command' \in [Flags -> Lists]
    BY DEF Command
  <1>3. TypeOK'
    BY <1>1, <1>2 DEF MacInv, TypeOK
  <1>4. LoopInv'
    BY <1>1 DEF MacInv, LoopInv, RulesAreListed
  <1>5. QED
    BY <1>1, <1>3, <1>4 DEF MacInv, DogInv, NoMacInBoth, RulesAreListed

LEMMA UpdateMac == ASSUME MacInv, UpdateTables PROVE MacInv'
  <1> USE DEF Flags
  <1>0. /\ UNCHANGED <<command, dog, outgoing>>
        /\ \A f \in Flags : MacList(f) \subseteq Macs
        /\ \A f : MacList(f)' = MacList(f)
    BY SameCommand, MacListType
       DEF MacInv, TypeOK, UpdateTables, CancelRule, SetMacList, CancelEnds, AddRule, AddEnds
  <1>1. CASE CancelRule
    <2>1. PICK mac \in todo : /\ todo' = todo \ {mac}
                              /\ rules' = [rules EXCEPT ![flag] = @ \ {mac}]
      BY <1>1 DEF CancelRule
    <2>2. pc = "cancel" /\ UNCHANGED <<file, pc, flag, failed>>
      BY <1>1 DEF CancelRule
    <2>3. TypeOK'
      BY <1>0, <2>1, <2>2 DEF MacInv, TypeOK
    <2>4. LoopInv'
      BY <1>0, <2>1, <2>2 DEF MacInv, TypeOK, LoopInv
    <2>5. (DogInv /\ NoMacInBoth /\ RulesAreListed)'
      BY <1>0, <2>1, <2>2 DEF MacInv, TypeOK, DogInv, NoMacInBoth, RulesAreListed
    <2>6. QED
      BY <2>3, <2>4, <2>5 DEF MacInv
  <1>2. CASE SetMacList
    <2>1. /\ pc = "cancel" /\ todo = {} /\ rules[flag] = {}
          /\ file' = [file EXCEPT ![flag] = MacList(flag)]
          /\ \/ flag = "white" /\ failed' = failed + 1 /\ pc' = "end" /\ todo' = todo
             \/ todo' = MacList(flag) /\ pc' = "add" /\ failed' = failed
          /\ UNCHANGED <<rules, flag>>
      BY <1>2 DEF SetMacList, MacInv, LoopInv
    <2>2. TypeOK'
      BY <1>0, <2>1 DEF MacInv, TypeOK, LoopInv
    <2>3. LoopInv'
      BY <1>0, <2>1 DEF MacInv, TypeOK, LoopInv
    <2>4. (DogInv /\ NoMacInBoth /\ RulesAreListed)'
      BY <1>0, <2>1 DEF MacInv, TypeOK, DogInv, NoMacInBoth, RulesAreListed
    <2>5. QED
      BY <2>2, <2>3, <2>4 DEF MacInv
  <1>3. CASE CancelEnds \/ AddEnds
    <2>1. /\ todo = {} /\ pc \in {"cancel", "add"} /\ pc' = "end"
          /\ UNCHANGED <<rules, file, flag, todo, failed>>
      BY <1>3 DEF CancelEnds, AddEnds
    <2>2. TypeOK' /\ LoopInv'
      BY <1>0, <2>1 DEF MacInv, TypeOK, LoopInv
    <2>3. QED
      BY <1>0, <2>1, <2>2 DEF MacInv, DogInv, NoMacInBoth, RulesAreListed
  <1>4. CASE AddRule
    <2>1. PICK mac \in todo :
            /\ todo' = todo \ {mac}
            /\ rules' = [rules EXCEPT
                 ![Other(flag)] = IF flag = "white" \/ dog THEN @ \ {mac} ELSE @,
                 ![flag] = IF flag = "white" /\ ~outgoing THEN @ ELSE @ \cup {mac}]
      BY <1>4 DEF AddRule
    <2>2. pc = "add" /\ UNCHANGED <<file, pc, flag, failed>>
      BY <1>4 DEF AddRule
    <2>3. /\ Other(flag) \in Flags /\ Other(flag) # flag
          /\ rules'[Other(flag)] = IF flag = "white" \/ dog THEN rules[Other(flag)] \ {mac}
                                   ELSE rules[Other(flag)]
          /\ rules'[flag] = IF flag = "white" /\ ~outgoing THEN rules[flag]
                            ELSE rules[flag] \cup {mac}
          /\ rules' \in [Flags -> SUBSET Macs]
      BY <2>1 DEF Other, MacInv, TypeOK
    <2>a. /\ mac \in file[flag] /\ mac \in MacList(flag)
          /\ rules["black"] \subseteq file["black"] /\ rules["white"] \subseteq file["white"]
      BY <2>2 DEF MacInv, LoopInv, RulesAreListed
    <2>4. CASE flag = "black"
      <3>1. /\ Other(flag) = "white"
            /\ rules'["black"] = rules["black"] \cup {mac}
            /\ rules'["white"] = IF dog THEN rules["white"] \ {mac} ELSE rules["white"]
        BY <2>3, <2>4 DEF Other
      <3>a. TypeOK'
        BY <1>0, <2>1, <2>2, <2>3 DEF MacInv, TypeOK
      <3>2. TypeOK' /\ LoopInv'
        <4>1. todo' \subseteq todo
          BY <2>1
        <4>2. QED
          BY <1>0, <2>2, <2>a, <2>4, <3>1, <3>a, <4>1 DEF MacInv, LoopInv
      <3>3. (DogInv /\ NoMacInBoth)'
        BY <1>0, <3>1 DEF MacInv, DogInv, NoMacInBoth
      <3>4. RulesAreListed'
        BY <2>2, <2>a, <2>4, <3>1 DEF RulesAreListed
      <3>5. QED
        BY <3>2, <3>3, <3>4 DEF MacInv
    <2>5. CASE flag = "white"
      <3>1. /\ Other(flag) = "black"
            /\ rules'["black"] = rules["black"] \ {mac}
            /\ rules'["white"] = IF outgoing THEN rules["white"] \cup {mac} ELSE rules["white"]
        BY <2>3, <2>5 DEF Other
      <3>a. TypeOK'
        BY <1>0, <2>1, <2>2, <2>3 DEF MacInv, TypeOK
      <3>2. TypeOK' /\ LoopInv'
        <4>1. todo' \subseteq todo
          BY <2>1
        <4>2. QED
          BY <1>0, <2>2, <2>a, <2>5, <3>1, <3>a, <4>1 DEF MacInv, LoopInv
      <3>3. (DogInv /\ NoMacInBoth)'
        BY <1>0, <3>1 DEF MacInv, DogInv, NoMacInBoth
      <3>4. RulesAreListed'
        BY <2>2, <2>a, <2>5, <3>1 DEF RulesAreListed
      <3>5. QED
        BY <3>2, <3>3, <3>4 DEF MacInv
    <2>6. QED
      BY <2>4, <2>5 DEF MacInv, TypeOK
  <1>5. QED
    BY <1>1, <1>2, <1>3, <1>4 DEF UpdateTables

LEMMA StepMac == MacInv /\ [Next]_vars => MacInv'
  <1> SUFFICES ASSUME MacInv, [Next]_vars PROVE MacInv'
    OBVIOUS
  <1> USE DEF Flags
  <1>1. CASE Command
    BY <1>1, CommandMac
  <1>2. CASE UpdateTables
    BY <1>2, UpdateMac
  <1>3. CASE CallWhite
    <2>1. /\ pc = "end" /\ flag = "black" /\ pc' = "cancel" /\ flag' = "white"
          /\ todo' = file["white"]
          /\ UNCHANGED <<dog, outgoing, rules, file, command, failed>>
      BY <1>3 DEF CallWhite, Called
    <2>2. TypeOK' /\ LoopInv'
      BY <2>1, SameCommand DEF MacInv, TypeOK, LoopInv, RulesAreListed
    <2>3. QED
      BY <2>1, <2>2 DEF MacInv, DogInv, NoMacInBoth, RulesAreListed
  <1>4. CASE Reply
    <2>1. /\ pc = "end" /\ flag = "white" /\ pc' = "idle"
          /\ UNCHANGED <<dog, outgoing, rules, file, command, flag, todo, failed>>
      BY <1>4 DEF Reply
    <2>2. TypeOK' /\ LoopInv'
      BY <2>1, SameCommand DEF MacInv, TypeOK, LoopInv
    <2>3. QED
      BY <2>1, <2>2 DEF MacInv, DogInv, NoMacInBoth, RulesAreListed
  <1>5. CASE DogStarts
    <2>1. dog /\ outgoing' /\ UNCHANGED <<dog, rules, file, command, pc, flag, todo, failed>>
      BY <1>5 DEF DogStarts, script
    <2>2. TypeOK' /\ LoopInv'
      BY <1>5, <2>1, SameCommand DEF DogStarts, MacInv, TypeOK, LoopInv
    <2>3. QED
      BY <2>1, <2>2 DEF MacInv, DogInv, NoMacInBoth, RulesAreListed
  <1>6. CASE DogStops
    <2>1. /\ ~outgoing' /\ rules' = [rules EXCEPT !["white"] = {}]
          /\ UNCHANGED <<dog, file, command, pc, flag, todo, failed>>
      BY <1>6 DEF DogStops, script
    <2>2. rules'["white"] = {} /\ rules'["black"] = rules["black"]
      BY <2>1 DEF MacInv, TypeOK
    <2>3. TypeOK' /\ LoopInv'
      BY <1>6, <2>1, <2>2, SameCommand DEF DogStops, MacInv, TypeOK, LoopInv
    <2>4. QED
      BY <2>1, <2>2, <2>3 DEF MacInv, DogInv, NoMacInBoth, RulesAreListed
  <1>7. CASE UNCHANGED vars
    <2>1. UNCHANGED <<dog, outgoing, rules, file, command, pc, flag, todo, failed>>
      BY <1>7 DEF vars, script
    <2>2. QED
      BY <2>1, SameCommand DEF MacInv, TypeOK, DogInv, LoopInv, NoMacInBoth, RulesAreListed
  <1>8. QED
    BY <1>1, <1>2, <1>3, <1>4, <1>5, <1>6, <1>7 DEF Next

\* The invariant holds of every behaviour, whatever lists the commands carry.
LEMMA MacInvariant == Spec => []MacInv
  <1>1. Init => MacInv
    BY InitMac
  <1>2. QED
    BY <1>1, StepMac, PTL DEF Spec

\* No address is dropped by the black list and let through by the white one.
THEOREM MacNotInBoth == Spec => []NoMacInBoth
  <1>1. MacInv => NoMacInBoth
    BY DEF MacInv
  <1>2. QED
    BY <1>1, MacInvariant, PTL

\* Every rule that a command has added can be removed by the next one.
THEOREM MacRulesListed == Spec => []RulesAreListed
  <1>1. MacInv => RulesAreListed
    BY DEF MacInv
  <1>2. QED
    BY <1>1, MacInvariant, PTL

-----------------------------------------------------------------------------
\* The tables at each step of a command: the black list is made first, and the
\* loop of the white one takes its addresses from it.
ExactInv ==
    /\ flag = "black" /\ pc = "add" =>
         Sets("black") /\ rules["black"] = MacList("black") \ todo
    /\ flag = "black" /\ pc = "end" => rules["black"] = SetBy("black")
    /\ flag = "white" /\ pc = "cancel" => rules["black"] = SetBy("black")
    /\ flag = "white" /\ pc = "add" =>
         /\ dog /\ Sets("white")
         /\ rules["black"] = SetBy("black") \ (MacList("white") \ todo)
    /\ flag = "white" /\ pc \in {"end", "idle"} =>
         /\ rules["black"] = SetBy("black") \ (IF dog THEN SetBy("white") ELSE {})
         /\ rules["white"] \subseteq SetBy("white")

LEMMA SameSets ==
    ASSUME UNCHANGED command
    PROVE  \A f : /\ MacList(f)' = MacList(f) /\ (Sets(f)' <=> Sets(f))
                 /\ SetBy(f)' = SetBy(f)
  BY DEF MacList, Sets, IsAddress, SetBy

LEMMA InitExact == Init => ExactInv
  <1>1. ASSUME Init PROVE SetBy("black") = {} /\ rules["black"] = {} /\ rules["white"] = {}
    BY <1>1 DEF Init, SetBy, MacList, Flags
  <1>2. QED
    BY <1>1 DEF Init, ExactInv

LEMMA AddExact == ASSUME MacInv, ExactInv, AddRule PROVE ExactInv'
  <1> USE DEF Flags
  <1>1. PICK mac \in todo :
          /\ todo' = todo \ {mac}
          /\ rules' = [rules EXCEPT
               ![Other(flag)] = IF flag = "white" \/ dog THEN @ \ {mac} ELSE @,
               ![flag] = IF flag = "white" /\ ~outgoing THEN @ ELSE @ \cup {mac}]
    BY DEF AddRule
  <1>2. /\ pc = "add" /\ UNCHANGED <<dog, command, pc, flag>>
        /\ mac \in MacList(flag) /\ flag \in Flags /\ rules \in [Flags -> SUBSET Macs]
    BY <1>1 DEF AddRule, MacInv, LoopInv, TypeOK
  <1>3. CASE flag = "black"
    <2>1. rules'["black"] = rules["black"] \cup {mac}
      BY <1>1, <1>2, <1>3 DEF Other
    <2>2. rules'["black"] = MacList("black") \ todo'
      BY <1>1, <1>2, <1>3, <2>1 DEF ExactInv
    <2>3. QED
      BY <1>2, <1>3, <2>2, SameSets DEF ExactInv
  <1>4. CASE flag = "white"
    <2>1. rules'["black"] = rules["black"] \ {mac}
      BY <1>1, <1>2, <1>4 DEF Other
    <2>2. rules'["black"] = SetBy("black") \ (MacList("white") \ todo')
      BY <1>1, <1>2, <1>4, <2>1 DEF ExactInv
    <2>3. QED
      BY <1>2, <1>4, <2>2, SameSets DEF ExactInv
  <1>5. QED
    BY <1>2, <1>3, <1>4

LEMMA StepExact == MacInv /\ ExactInv /\ [Next]_vars => ExactInv'
  <1> SUFFICES ASSUME MacInv, ExactInv, [Next]_vars PROVE ExactInv'
    OBVIOUS
  <1> USE DEF Flags
  <1>1. CASE Command
    BY <1>1 DEF Command, Called, ExactInv
  <1>2. CASE CancelRule
    <2>1. /\ pc = "cancel" /\ UNCHANGED <<dog, command, pc, flag>>
          /\ flag = "white" => rules'["black"] = rules["black"]
      BY <1>2 DEF CancelRule, MacInv, TypeOK
    <2>2. QED
      BY <2>1, SameSets DEF ExactInv
  <1>3. CASE SetMacList
    <2>1. /\ pc = "cancel" /\ todo = {} /\ rules[flag] = {} /\ Sets(flag)
          /\ \/ flag = "white" /\ ~dog /\ pc' = "end"
             \/ todo' = MacList(flag) /\ pc' = "add" /\ (flag = "white" => dog)
          /\ UNCHANGED <<rules, flag, dog, command>>
      BY <1>3 DEF SetMacList, MacInv, LoopInv, TypeOK
    <2>2. QED
      BY <2>1, SameSets DEF ExactInv, MacInv, TypeOK
  <1>4. CASE CancelEnds
    <2>1. /\ pc = "cancel" /\ pc' = "end" /\ rules[flag] = {} /\ SetBy(flag) = {}
          /\ UNCHANGED <<rules, flag, dog, command>>
      BY <1>4 DEF CancelEnds, MacInv, LoopInv, SetBy
    <2>2. QED
      BY <2>1, SameSets DEF ExactInv, MacInv, TypeOK
  <1>5. CASE AddRule
    BY <1>5, AddExact
  <1>6. CASE AddEnds
    <2>1. /\ pc = "add" /\ pc' = "end" /\ todo = {} /\ rules[flag] \subseteq MacList(flag)
          /\ UNCHANGED <<rules, flag, dog, command>>
      BY <1>6 DEF AddEnds, MacInv, LoopInv
    <2>2. Sets(flag) /\ SetBy(flag) = MacList(flag)
      BY <2>1 DEF ExactInv, SetBy, MacInv, TypeOK
    <2>3. QED
      BY <2>1, <2>2, SameSets DEF ExactInv, MacInv, TypeOK
  <1>7. CASE CallWhite
    BY <1>7, SameSets DEF CallWhite, Called, ExactInv
  <1>8. CASE Reply
    BY <1>8, SameSets DEF Reply, ExactInv
  <1>9. CASE DogStarts \/ DogStops
    <2>1. /\ UNCHANGED <<dog, command, pc, flag, todo>>
          /\ rules'["black"] = rules["black"] /\ rules'["white"] \subseteq rules["white"]
      BY <1>9 DEF DogStarts, DogStops, script, MacInv, TypeOK
    <2>2. QED
      BY <2>1, SameSets DEF ExactInv
  <1>10. CASE UNCHANGED vars
    BY <1>10, SameSets DEF vars, script, ExactInv
  <1>11. QED
    BY <1>1, <1>2, <1>3, <1>4, <1>5, <1>6, <1>7, <1>8, <1>9, <1>10 DEF Next, UpdateTables

\* When a command has ended, the black table is what the command set less what
\* its white list then took, and no other white rule is there: nothing of the
\* commands before is left, and nothing is missing from the black table.
THEOREM MacTablesOfCommand == Spec => []TablesOfCommand
  <1>1. MacInv /\ ExactInv => TablesOfCommand
    BY DEF MacInv, LoopInv, ExactInv, TablesOfCommand
  <1>2. Spec => []ExactInv
    BY InitExact, StepExact, MacInvariant, PTL DEF Spec
  <1>3. QED
    BY <1>1, <1>2, MacInvariant, PTL
=============================================================================
