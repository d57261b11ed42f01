-------------------------- MODULE SmartacMainProof --------------------------
(***************************************************************************)
(* Proofs about SmartacMain, for files of any length over any lines: the   *)
(* threads start on a complete configuration, -f alone decides about the   *)
(* background, and with everything that comes before it the daemon ends as *)
(* Termination says.                                                       *)
(***************************************************************************)
EXTENDS SmartacMain, TerminationProof

Known == Names \cup DefaultNames

\* What a line of each kind holds.
LEMMA LineKinds ==
    ASSUME NEW l \in Lines
    PROVE  /\ l.kind = "setting" => l.key \in Settings /\ l.value \in Values
           /\ l.kind = "attribute" => l.key \in Keys /\ l.value \in Values
           /\ l.kind = "popular" => l.value \in Seq(Known)
           /\ l.kind = "daemon" => l.value \in {-1, 0, 1}
<1>1. l.kind = "popular" => l.value \in PopularLists
  BY LinesAssumption DEF AllLines, Written
<1>2. \A list \in Seq(Names) : list \in Seq(Known)
  BY SeqDef DEF Known
<1> QED BY <1>1, <1>2, LinesAssumption, PopularAssumption DEF AllLines, Written

ConfigInv == /\ section \in Sections \cup {NoSection}
             /\ acServers \in Seq(Sections)
             /\ popular \in Seq(Known)
             /\ settings \in [Settings -> Values \cup {Unset}]
             /\ daemon \in {0, 1}
             /\ HasServers

LEMMA ConfigInitInv == ConfigInit => ConfigInv
  BY DEF ConfigInit, ConfigInv, HasServers, DefaultDaemon

\* A section that ends leaves a list of servers that all have a host.
LEMMA CloseSectionInv ==
    ASSUME ConfigInv, section \in Sections, CloseSection
    PROVE  /\ acServers' \in Seq(Sections) /\ section' = NoSection
           /\ acServers # <<>> => acServers' # <<>>
           /\ \A i \in DOMAIN acServers' : acServers'[i]["Hostname"] # Unset
<1>1. CASE section["Hostname"] = Unset
  BY <1>1 DEF CloseSection, ConfigInv, HasServers
<1>2. CASE section["Hostname"] # Unset
  <2>1. acServers' = Append(acServers, section) /\ section' = NoSection
    BY <1>2 DEF CloseSection
  <2>2. /\ acServers' \in Seq(Sections) /\ acServers' # <<>>
        /\ DOMAIN acServers' = 1..Len(acServers) + 1
        /\ \A i \in 1..Len(acServers) : acServers'[i] = acServers[i]
        /\ acServers'[Len(acServers) + 1] = section
        /\ DOMAIN acServers = 1..Len(acServers) /\ Len(acServers) \in Nat
    BY <2>1, AppendProperties, LenProperties DEF ConfigInv
  <2>3. \A i \in DOMAIN acServers' : i \in DOMAIN acServers \/ i = Len(acServers) + 1
    BY <2>2
  <2> QED BY <1>2, <2>1, <2>2, <2>3 DEF ConfigInv, HasServers
<1> QED BY <1>1, <1>2

LEMMA PairOfNames ==
    ASSUME NEW S, NEW a \in S, NEW b \in S
    PROVE  <<a, b>> \in Seq(S)
  OBVIOUS

LEMMA ConfigStepInv == ConfigInv /\ ConfigNext => ConfigInv'
<1> SUFFICES ASSUME ConfigInv, ConfigNext PROVE ConfigInv'
  OBVIOUS
<1>1. ASSUME NEW l \in Lines, ReadLine(l) PROVE ConfigInv'
  <2>0. reading = "lines" /\ reading' \in {"lines", "failed"}
    BY <1>1 DEF ReadLine, TopLine, SectionLine, SetSetting, SetDaemon, AddPopular, BadOption
  <2>1. CASE section = NoSection /\ l.kind = "setting" /\ SetSetting(l)
    BY <2>0, <2>1, LineKinds DEF SetSetting, ConfigInv, HasServers
  <2>2. CASE section = NoSection /\ l.kind = "daemon" /\ SetDaemon(l)
    BY <2>0, <2>2 DEF SetDaemon, ConfigInv, HasServers
  <2>3. CASE section = NoSection /\ l.kind = "popular" /\ AddPopular(l)
    <3>1. l.value \in Seq(Known) /\ popular \in Seq(Known)
      BY <2>3, LineKinds DEF ConfigInv
    <3>2. Reverse(l.value) \in Seq(Known)
      <4>1. \A i \in 1..Len(l.value) :
              Len(l.value) - i + 1 \in 1..Len(l.value) /\ l.value[Len(l.value) - i + 1] \in Known
        BY <3>1, ElementOfSeq, LenProperties
      <4>2. Reverse(l.value) \in [1..Len(l.value) -> Known]
        BY <4>1 DEF Reverse
      <4> QED BY <3>1, <4>2, IsASeq, LenProperties
    <3>3. popular' \in Seq(Known)
      BY <2>3, <3>1, <3>2, ConcatProperties DEF AddPopular
    <3> QED BY <2>0, <2>3, <3>3 DEF AddPopular, ConfigInv, HasServers
  <2>4. CASE section = NoSection /\ l.kind = "open" /\ OpenSection
             /\ UNCHANGED <<reading, acServers, popular, settings, daemon>>
    BY <2>0, <2>4 DEF OpenSection, Sections, ConfigInv, HasServers
  <2>5. CASE section # NoSection /\ l.kind = "attribute"
             /\ section' = [section EXCEPT ![l.key] = l.value]
             /\ UNCHANGED <<reading, acServers, popular, settings, daemon>>
    BY <2>0, <2>5, LineKinds DEF Sections, ConfigInv, HasServers
  <2>6. CASE section # NoSection /\ l.kind = "close" /\ CloseSection
             /\ UNCHANGED <<reading, popular, settings, daemon>>
    BY <2>0, <2>6, CloseSectionInv DEF ConfigInv, HasServers
  <2>7. CASE BadOption \/ UNCHANGED <<reading, section, acServers, popular, settings, daemon>>
    BY <2>0, <2>7 DEF BadOption, ConfigInv, HasServers
  <2> QED BY <1>1, <2>1, <2>2, <2>3, <2>4, <2>5, <2>6, <2>7 DEF ReadLine, TopLine, SectionLine
<1>2. CASE EndOfFile
  <2>1. CASE section = NoSection
    BY <1>2, <2>1 DEF EndOfFile, ConfigInv, HasServers
  <2>2. CASE section # NoSection
    BY <1>2, <2>2, CloseSectionInv DEF EndOfFile, ConfigInv, HasServers
  <2> QED BY <2>1, <2>2
<1>3. CASE CannotOpen
  BY <1>3 DEF CannotOpen, BadOption, ConfigInv, HasServers
<1>4. CASE ConfigValidate
  <2>1. DefaultPopular \in Seq(Known)
    <3>1. "www.hao123.com" \in Known /\ "www.baidu.com" \in Known
      BY DEF Known, DefaultNames
    <3> QED BY <3>1, PairOfNames DEF DefaultPopular
  <2>2. popular' \in Seq(Known)
    BY <1>4, <2>1 DEF ConfigValidate, ConfigInv
  <2> QED BY <1>4, <2>2 DEF ConfigValidate, ConfigInv, HasServers
<1> QED BY <1>1, <1>2, <1>3, <1>4 DEF ConfigNext

\* The history holds lines of the file, and the program is at one of its four
\* stages of reading.
ReadingInv == /\ reading \in {"lines", "read", "valid", "failed"}
              /\ file \in Seq(Lines)

LEMMA ReadingStepInv == ReadingInv /\ ConfigNext => ReadingInv'
<1> SUFFICES ASSUME ReadingInv, ConfigNext PROVE ReadingInv'
  OBVIOUS
<1>1. ASSUME NEW l \in Lines, ReadLine(l) PROVE ReadingInv'
  <2>1. reading' \in {"lines", "failed"}
    BY <1>1 DEF ReadLine, TopLine, SectionLine, SetSetting, SetDaemon, AddPopular, BadOption
  <2>2. <<>> \in Seq(Lines) /\ Append(file, l) \in Seq(Lines)
    BY DEF ReadingInv
  <2> QED BY <1>1, <2>1, <2>2 DEF ReadLine, ReadingInv
<1>2. CASE EndOfFile \/ CannotOpen \/ ConfigValidate
  <2>1. <<>> \in Seq(Lines)
    OBVIOUS
  <2> QED BY <1>2, <2>1 DEF EndOfFile, CannotOpen, BadOption, ConfigValidate, ReadingInv
<1> QED BY <1>1, <1>2 DEF ConfigNext

-----------------------------------------------------------------------------
\* What is known at each step of the start.  The settings no longer change
\* when the file has been judged, and the queue is made last.
BootInv ==
    /\ ConfigInv
    /\ boot \in {"commandline", "config", "fork", "interface", "ip", "mac", "outdir", "done"}
    /\ phase # "start" => boot = "done"
    /\ boot \notin {"commandline", "config"} => reading = "valid"
    /\ boot = "commandline" => daemon = 1
    /\ boot # "commandline" => (foreground <=> daemon = 0)
    /\ foreground \in BOOLEAN /\ background \in BOOLEAN
    /\ DaemonByCommandLine
    /\ boot = "interface" => iface = settings["GatewayAcInterface"]
    /\ boot \in {"ip", "mac", "outdir", "done"} =>
         iface = IF settings["GatewayAcInterface"] = Unset THEN Detected
                 ELSE settings["GatewayAcInterface"]
    /\ boot \in {"interface", "ip", "mac"} => id = settings["GatewayAcId"]
    /\ boot \in {"outdir", "done"} =>
         id = IF settings["GatewayAcId"] = Unset THEN Detected ELSE settings["GatewayAcId"]
    /\ boot \in {"mac", "outdir", "done"} => ip = Detected
    /\ boot \in {"outdir", "done"} => mac = Detected

LEMMA BootInitInv == MainInit => BootInv
  BY ConfigInitInv DEF MainInit, Init, BootInv, DaemonByCommandLine, ConfigInit, DefaultDaemon

\* A step that leaves the configuration and what was found as it is.
LEMMA BootFrame ==
    ASSUME BootInv, UNCHANGED <<configVars, boot, found>>, phase' # "start" => boot = "done"
    PROVE  BootInv'
<1>1. ConfigInv'
  BY DEF BootInv, ConfigInv, configVars, HasServers
<1> QED BY <1>1 DEF BootInv, DaemonByCommandLine, configVars, found, gateway

LEMMA BootStepInv == BootInv /\ [MainNext]_mainVars => BootInv'
<1> SUFFICES ASSUME BootInv, [MainNext]_mainVars PROVE BootInv'
  OBVIOUS
<1> USE DEF Booting
<1>0. ASSUME UNCHANGED configVars PROVE ConfigInv'
  BY <1>0 DEF BootInv, ConfigInv, configVars, HasServers
<1>1. CASE ParseCommandline
  <2>1. ConfigInv'
    BY <1>1 DEF ParseCommandline, BootInv, ConfigInv, HasServers
  <2>2. phase' = phase
    BY <1>1 DEF ParseCommandline, Starts, vars, process
  <2> QED BY <1>1, <2>1, <2>2 DEF ParseCommandline, BootInv, DaemonByCommandLine, gateway
<1>2. CASE ReadConfig
  <2>1. ConfigInv'
    BY <1>2, ConfigStepInv DEF ReadConfig, BootInv
  <2>2. phase' = phase /\ UNCHANGED found
    BY <1>2 DEF ReadConfig, Starts, StartFails, vars, process
  <2>3. daemon' = daemon
    BY <1>2 DEF ReadConfig, ConfigNext, ReadLine, TopLine, SectionLine, SetSetting, SetDaemon,
                AddPopular, BadOption, EndOfFile, CannotOpen, ConfigValidate, BootInv, ConfigInv
  <2> QED BY <1>2, <2>1, <2>2, <2>3 DEF ReadConfig, BootInv, DaemonByCommandLine, found
<1>3. CASE Fork \/ StayInForeground
  <2>0. daemon \in {0, 1}
    BY DEF BootInv, ConfigInv
  <2>1. PICK b \in BOOLEAN : MainLoopBegins(b) /\ (b <=> daemon = 1)
    <3>1. CASE Fork
      <4>1. daemon = 1
        BY <2>0, <3>1 DEF Fork
      <4>2. MainLoopBegins(TRUE)
        BY <3>1 DEF Fork
      <4> QED BY <4>1, <4>2
    <3>2. CASE StayInForeground
      <4>1. daemon # 1 /\ daemon = 0
        BY <3>2 DEF StayInForeground
      <4>2. MainLoopBegins(FALSE)
        BY <3>2 DEF StayInForeground
      <4> QED BY <4>1, <4>2
    <3> QED BY <1>3, <3>1, <3>2
  <2>2. phase' = phase /\ ConfigInv'
    BY <1>0, <2>1 DEF MainLoopBegins, Starts, vars, process
  <2>3. background' \in BOOLEAN /\ (background' <=> daemon = 1) /\ daemon' = daemon
    BY <2>1 DEF MainLoopBegins, configVars
  <2>4. /\ boot' = "interface" /\ iface' = settings["GatewayAcInterface"]
        /\ id' = settings["GatewayAcId"] /\ UNCHANGED <<configVars, foreground>>
        /\ boot = "fork"
    BY <2>1 DEF MainLoopBegins
  <2>5. (background' <=> ~foreground) /\ (foreground <=> daemon = 0) /\ reading = "valid"
    BY <2>0, <2>3, <2>4 DEF BootInv
  <2> QED BY <2>2, <2>3, <2>4, <2>5 DEF BootInv, DaemonByCommandLine, configVars
<1>4. CASE HasInterface \/ GetExtIface \/ GetIfaceIp \/ GetIfaceMac \/ InitExcuteOutdir
  <2>1. phase' = phase /\ ConfigInv' /\ UNCHANGED <<configVars, foreground, background>>
    BY <1>0, <1>4 DEF HasInterface, GetExtIface, GetIfaceIp, GetIfaceMac, InitExcuteOutdir,
                      Starts, vars, process, found
  <2> QED BY <1>4, <2>1 DEF HasInterface, GetExtIface, GetIfaceIp, GetIfaceMac,
             InitExcuteOutdir, BootInv, DaemonByCommandLine, configVars, found, gateway
<1>5. CASE Usage \/ ForkFails \/ NoRoutingTable \/ MainLoopFails
  <2>1. UNCHANGED <<configVars, boot, found, phase>>
    BY <1>5 DEF Usage, ForkFails, NoRoutingTable, MainLoopFails, StartFails
  <2> QED BY <2>1, BootFrame DEF BootInv
<1>6. CASE LoopAndSignals
  BY <1>6, BootFrame DEF LoopAndSignals
<1>7. CASE SignalTooEarly
  <2>1. UNCHANGED <<configVars, boot, found, phase>>
    BY <1>7 DEF SignalTooEarly, Send
  <2> QED BY <2>1, BootFrame DEF BootInv
<1>8. CASE RouteChanges \/ UNCHANGED mainVars
  <2>1. UNCHANGED <<configVars, boot, found, phase>>
    BY <1>8 DEF RouteChanges, mainVars, vars, process
  <2> QED BY <2>1, BootFrame DEF BootInv
<1> QED BY <1>1, <1>2, <1>3, <1>4, <1>5, <1>6, <1>7, <1>8 DEF MainNext, Boot, BootGoesOn, BootFails

\* The threads start with a server, an interface, an address and an identifier,
\* whatever the file holds.
THEOREM MainStartsComplete == MainSpec => []StartsComplete
<1>1. BootInv => StartsComplete
  BY DEF BootInv, ConfigInv, StartsComplete
<1> QED BY <1>1, BootInitInv, BootStepInv, PTL DEF MainSpec

\* No line of the file brings the program to the foreground or the background,
\* Daemon neither, which wifismartac.conf documents as doing so.
THEOREM MainDaemonByCommandLine == MainSpec => []DaemonByCommandLine
<1>1. BootInv => DaemonByCommandLine
  BY DEF BootInv
<1> QED BY <1>1, BootInitInv, BootStepInv, PTL DEF MainSpec

-----------------------------------------------------------------------------
\* Every step of the start is a step of Termination's main thread, or none.
LEMMA MainStepIsTerminationStep == [MainNext]_mainVars => [Next]_vars
<1> SUFFICES ASSUME [MainNext]_mainVars PROVE [Next]_vars
  OBVIOUS
<1>1. CASE Boot
  <2>1. Starts \/ StartFails
    BY <1>1 DEF Boot, BootGoesOn, BootFails, ParseCommandline, Usage, ReadConfig,
                Fork, ForkFails, StayInForeground, MainLoopBegins,
                HasInterface, GetExtIface, NoRoutingTable, GetIfaceIp, GetIfaceMac, InitExcuteOutdir, MainLoopFails
  <2> QED BY <2>1 DEF Starts, Next, MainLoop
<1>2. CASE LoopAndSignals \/ SignalTooEarly
  BY <1>2 DEF LoopAndSignals, SignalTooEarly, Next
<1>3. CASE RouteChanges \/ UNCHANGED mainVars
  BY <1>3 DEF RouteChanges, mainVars
<1> QED BY <1>1, <1>2, <1>3 DEF MainNext

\* The daemon with its start is Termination, which begins where main_loop does.
THEOREM MainImplementsTermination == MainSpec => Spec
<1>1. MainInit => Init
  BY DEF MainInit
<1> QED BY <1>1, MainStepIsTerminationStep, PTL DEF MainSpec, Spec

\* One call of termination_handler goes on, from the first line of main.
THEOREM MainOnlyOnce == MainSpec => []OnlyOnce
  BY MainImplementsTermination, TerminationOnce, PTL

\* Whatever the command line, the file and the signals, no daemon that was
\* started removes the chains that its update script has made.
THEOREM MainChainsStay == MainSpec => ChainsStay
  BY MainImplementsTermination, TerminationChainsStay, PTL

\* With signals of one kind, the thread that ends the daemon is not ended by
\* another call of the handler.
THEOREM MainOwnerLives ==
    ASSUME \A sig1, sig2 \in Signals : sig1 = sig2
    PROVE  MainSpec => []OwnerLives
<1>1. Spec => []OwnerLives
  BY TerminationOwnerLives
<1> QED BY <1>1, MainImplementsTermination, PTL

-----------------------------------------------------------------------------
\* The rest of the types: what was found, and what main_loop shares with the
\* handler.
MainTypeInv == /\ BootInv /\ ReadingInv /\ TypeInv
               /\ {foreground, background, defaultRoute} \subseteq BOOLEAN
               /\ {iface, id} \subseteq Values \cup {Unset, Detected}
               /\ {ip, mac} \subseteq {Unset, Detected}

LEMMA MainTypeInitInv == MainInit => MainTypeInv
<1> SUFFICES ASSUME MainInit PROVE MainTypeInv
  OBVIOUS
<1>1. BootInv /\ TypeInv
  BY BootInitInv, InitTypes DEF MainInit
<1>2. ReadingInv
  BY DEF MainInit, ConfigInit, ReadingInv
<1> QED BY <1>1, <1>2 DEF MainInit, MainTypeInv

LEMMA MainTypeStepInv == MainTypeInv /\ [MainNext]_mainVars => MainTypeInv'
<1> SUFFICES ASSUME MainTypeInv, [MainNext]_mainVars PROVE MainTypeInv'
  OBVIOUS
<1>1. BootInv' /\ TypeInv'
  BY BootStepInv, StepTypes, MainStepIsTerminationStep DEF MainTypeInv
<1>2. ReadingInv'
  <2>1. CASE ReadConfig
    BY <2>1, ReadingStepInv DEF ReadConfig, MainTypeInv
  <2>2. CASE UNCHANGED <<reading, file>>
    BY <2>2 DEF ReadingInv, MainTypeInv
  <2>3. ReadConfig \/ UNCHANGED <<reading, file>>
    BY DEF MainNext, Boot, BootGoesOn, BootFails, ParseCommandline, Usage, Fork, ForkFails,
           StayInForeground, MainLoopBegins, HasInterface, GetExtIface, NoRoutingTable,
           GetIfaceIp, GetIfaceMac, InitExcuteOutdir, MainLoopFails, LoopAndSignals,
           SignalTooEarly, RouteChanges, mainVars, configVars
  <2> QED BY <2>1, <2>2, <2>3
<1>3. /\ {foreground', background', defaultRoute'} \subseteq BOOLEAN
      /\ {iface', id'} \subseteq Values \cup {Unset, Detected}
      /\ {ip', mac'} \subseteq {Unset, Detected}
  <2>1. settings["GatewayAcInterface"] \in Values \cup {Unset}
        /\ settings["GatewayAcId"] \in Values \cup {Unset}
    BY SettingsAssumption DEF MainTypeInv, BootInv, ConfigInv
  <2>2. CASE ParseCommandline
    BY <2>2 DEF ParseCommandline, gateway, MainTypeInv
  <2>3. CASE Fork \/ StayInForeground
    BY <2>1, <2>3 DEF Fork, StayInForeground, MainLoopBegins, MainTypeInv
  <2>4. CASE HasInterface \/ GetExtIface \/ GetIfaceIp \/ GetIfaceMac \/ InitExcuteOutdir
    BY <2>4 DEF HasInterface, GetExtIface, GetIfaceIp, GetIfaceMac, InitExcuteOutdir,
                found, gateway, MainTypeInv
  <2>5. CASE RouteChanges
    BY <2>5 DEF RouteChanges, found, gateway, MainTypeInv
  <2>6. CASE UNCHANGED <<found, defaultRoute>>
    BY <2>6 DEF found, gateway, MainTypeInv
  <2> QED BY <2>2, <2>3, <2>4, <2>5, <2>6
          DEF MainNext, Boot, BootGoesOn, BootFails, Usage, ReadConfig, ForkFails,
              NoRoutingTable, MainLoopFails, LoopAndSignals, SignalTooEarly, mainVars
<1> QED BY <1>1, <1>2, <1>3 DEF MainTypeInv

\* Every variable of the daemon has a value of its kind from the first line of
\* main to the exit: what the threads read was set before they began.
THEOREM MainTypes == MainSpec => []MainTypeOK
<1>1. MainTypeInv => MainTypeOK
  BY DEF MainTypeInv, MainTypeOK, BootInv, ConfigInv, ConfigTypeOK, ReadingInv, TypeInv, Known
<1> QED BY <1>1, MainTypeInitInv, MainTypeStepInv, PTL DEF MainSpec

-----------------------------------------------------------------------------
(* The list of servers is what the file says.  The same notions as in        *)
(* ServersAsWritten, of a file f: the sections, what their lines set, and     *)
(* the last of these lines, which is there whenever there is one.             *)
Opens(f) == {i \in DOMAIN f : f[i].kind = "open"}

ClosedIn(f, i) == \E j \in i + 1..Len(f) : f[j].kind = "close"

SetsIn(f, i, k) == {j \in i + 1..Len(f) : /\ \A n \in i + 1..j : f[n].kind # "close"
                                          /\ f[j].kind = "attribute" /\ f[j].key = k}

LastOf(set) == CHOOSE j \in set : \A n \in set : n <= j

ValueIn(f, i, k) == IF SetsIn(f, i, k) = {} THEN Unset ELSE f[LastOf(SetsIn(f, i, k))].value

HasLast(f, i, k) == SetsIn(f, i, k) # {} =>
                      \E j \in SetsIn(f, i, k) : \A n \in SetsIn(f, i, k) : n <= j

SectionIn(f, i) == [k \in Keys |-> ValueIn(f, i, k)]

LEMMA AttributeIsValue == \A i, k : Attribute(i, k) = ValueIn(file, i, k)
<1> SUFFICES ASSUME NEW i, NEW k PROVE Attribute(i, k) = ValueIn(file, i, k)
  OBVIOUS
<1> DEFINE set == {j \in Body(i) : file[j].kind = "attribute" /\ file[j].key = k}
<1>1. set = SetsIn(file, i, k)
  BY DEF Body, SetsIn
<1>2. Attribute(i, k) = IF set = {} THEN Unset
                        ELSE file[CHOOSE j \in set : \A n \in set : n <= j].value
  BY DEF Attribute
<1> HIDE DEF set
<1> QED BY <1>1, <1>2 DEF ValueIn, LastOf

LEMMA LineAppended ==
    ASSUME NEW f \in Seq(Lines), NEW l \in Lines
    PROVE  /\ Append(f, l) \in Seq(Lines)
           /\ Len(f) \in Nat /\ Len(Append(f, l)) = Len(f) + 1
           /\ DOMAIN f = 1..Len(f) /\ DOMAIN Append(f, l) = 1..(Len(f) + 1)
           /\ \A i \in 1..Len(f) : Append(f, l)[i] = f[i]
           /\ Append(f, l)[Len(f) + 1] = l
  OBVIOUS

\* A section stays closed, a brace closes every one, nothing else does.
LEMMA ClosedAppended ==
    ASSUME NEW f \in Seq(Lines), NEW l \in Lines, NEW i \in 1..Len(f)
    PROVE  ClosedIn(Append(f, l), i) <=> ClosedIn(f, i) \/ l.kind = "close"
<1>0. Len(f) \in Nat
  BY LineAppended
<1>1. Len(f) + 1 \in i + 1..Len(f) + 1
  BY <1>0
<1>2. \A j \in i + 1..Len(f) + 1 : j = Len(f) + 1 \/ (j \in i + 1..Len(f) /\ j \in 1..Len(f))
  BY <1>0
<1>3. \A j \in i + 1..Len(f) : j \in i + 1..Len(f) + 1 /\ j \in 1..Len(f)
  BY <1>0
<1> QED BY <1>1, <1>2, <1>3, LineAppended DEF ClosedIn

\* A line that is not in the section, or sets another attribute, changes
\* nothing of what the section sets.
LEMMA ValueKept ==
    ASSUME NEW f \in Seq(Lines), NEW l \in Lines, NEW i \in 1..Len(f), NEW k, HasLast(f, i, k),
           ClosedIn(f, i) \/ l.kind # "attribute" \/ l.key # k
    PROVE  ValueIn(Append(f, l), i, k) = ValueIn(f, i, k) /\ HasLast(Append(f, l), i, k)
<1> DEFINE g == Append(f, l)
<1>1. SetsIn(g, i, k) = SetsIn(f, i, k)
  <2>1. \A j \in i + 1..Len(f) + 1 : j = Len(f) + 1 \/ j \in i + 1..Len(f)
    BY LineAppended
  <2>2. \A j \in i + 1..Len(f) :
          j \in i + 1..Len(f) + 1 /\ \A n \in i + 1..j : n \in 1..Len(f) /\ g[n] = f[n]
    BY LineAppended
  <2>3. \A j \in i + 1..Len(f) : j \in i + 1..j
    BY LineAppended
  <2>4. \A j \in i + 1..Len(f) : j \in SetsIn(g, i, k) <=> j \in SetsIn(f, i, k)
    BY <2>2, <2>3, LineAppended DEF SetsIn
  <2>5. Len(f) + 1 \notin SetsIn(g, i, k)
    <3>1. CASE ClosedIn(f, i)
      <4>1. PICK n \in i + 1..Len(f) : f[n].kind = "close"
        BY <3>1 DEF ClosedIn
      <4>2. n \in i + 1..Len(f) + 1 /\ g[n].kind = "close"
        BY <4>1, LineAppended
      <4> QED BY <4>2 DEF SetsIn
    <3>2. CASE l.kind # "attribute" \/ l.key # k
      BY <3>2, LineAppended DEF SetsIn
    <3> QED BY <3>1, <3>2
  <2>6. SetsIn(g, i, k) \subseteq i + 1..Len(f) + 1 /\ SetsIn(f, i, k) \subseteq i + 1..Len(f)
    BY LineAppended DEF SetsIn
  <2> QED BY <2>1, <2>4, <2>5, <2>6
<1>2. SetsIn(f, i, k) # {} => LastOf(SetsIn(f, i, k)) \in SetsIn(f, i, k)
  BY DEF HasLast, LastOf
<1>3. \A j \in SetsIn(f, i, k) : g[j] = f[j]
  BY LineAppended DEF SetsIn
<1> QED BY <1>1, <1>2, <1>3 DEF ValueIn, HasLast

\* A line that sets an attribute of the open section is its last one.
LEMMA ValueSet ==
    ASSUME NEW f \in Seq(Lines), NEW l \in Lines, NEW i \in 1..Len(f),
           ~ClosedIn(f, i), l.kind = "attribute"
    PROVE  ValueIn(Append(f, l), i, l.key) = l.value /\ HasLast(Append(f, l), i, l.key)
<1> DEFINE g == Append(f, l)
           set == SetsIn(g, i, l.key)
<1>1. Len(f) + 1 \in set
  <2>1. Len(f) + 1 \in i + 1..Len(g)
    BY LineAppended
  <2>2. \A n \in i + 1..Len(f) + 1 : g[n].kind # "close"
    <3>1. ~ClosedIn(g, i)
      BY ClosedAppended
    <3> QED BY <3>1, LineAppended DEF ClosedIn
  <2> QED BY <2>1, <2>2, LineAppended DEF SetsIn
<1>2. \A n \in set : n \in Int /\ n <= Len(f) + 1
  BY LineAppended DEF SetsIn
<1>3. LastOf(set) \in set /\ \A n \in set : n <= LastOf(set)
  BY <1>1, <1>2 DEF LastOf
<1>4. LastOf(set) = Len(f) + 1
  BY <1>1, <1>2, <1>3, LineAppended
<1> QED BY <1>1, <1>2, <1>4, LineAppended DEF ValueIn, HasLast

\* A section begins with the defaults.
LEMMA ValueUnset ==
    ASSUME NEW f \in Seq(Lines), NEW l \in Lines, NEW k
    PROVE  /\ ValueIn(Append(f, l), Len(f) + 1, k) = Unset
           /\ HasLast(Append(f, l), Len(f) + 1, k)
           /\ ~ClosedIn(Append(f, l), Len(f) + 1)
<1>1. Len(f) + 1 + 1..Len(Append(f, l)) = {}
  BY LineAppended
<1>2. SetsIn(Append(f, l), Len(f) + 1, k) = {}
  BY <1>1 DEF SetsIn
<1> QED BY <1>1, <1>2 DEF ValueIn, HasLast, ClosedIn

\* The servers are the sections among opens that name a host, in their order.
ListsSections(servers, f, opens) ==
    \E line \in [1..Len(servers) -> DOMAIN f] :
        /\ \A m, n \in DOMAIN line : m < n => line[m] < line[n]
        /\ {line[n] : n \in DOMAIN line} = {i \in opens : ValueIn(f, i, "Hostname") # Unset}
        /\ \A n \in DOMAIN line : servers[n] = SectionIn(f, line[n])

\* While the program reads a section, it is the last one of the file and has
\* no end yet; its variables hold what its lines set so far.
InSection(f, o) == /\ o \in Opens(f) /\ ~ClosedIn(f, o)
                   /\ section = SectionIn(f, o)
                   /\ \A i \in Opens(f) \ {o} : i < o /\ ClosedIn(f, i)
                   /\ ListsSections(acServers, f, Opens(f) \ {o})

Between(f) == /\ \A i \in Opens(f) : ClosedIn(f, i)
              /\ ListsSections(acServers, f, Opens(f))

HistoryInv == /\ \A i \in Opens(file), k \in Keys : HasLast(file, i, k)
              /\ reading = "lines" => IF section = NoSection THEN Between(file)
                                      ELSE \E o \in Opens(file) : InSection(file, o)
              /\ reading = "read" => ListsSections(acServers, file, Opens(file))

LEMMA HistoryInitInv == ConfigInit => HistoryInv
<1> SUFFICES ASSUME ConfigInit PROVE HistoryInv
  OBVIOUS
<1>1. Opens(<<>>) = {} /\ Len(<<>>) = 0 /\ 1..0 = {}
  BY DEF Opens
<1>2. ListsSections(<<>>, <<>>, {})
  <2> DEFINE line == [n \in 1..0 |-> 0]
  <2>1. line \in [1..Len(<<>>) -> DOMAIN <<>>] /\ DOMAIN line = {}
    BY <1>1
  <2>2. {line[n] : n \in DOMAIN line} = {i \in {} : ValueIn(<<>>, i, "Hostname") # Unset}
    BY <2>1
  <2> HIDE DEF line
  <2> QED BY <2>1, <2>2 DEF ListsSections
<1> QED BY <1>1, <1>2 DEF ConfigInit, HistoryInv, Between

\* A line that keeps what the sections set keeps the list.
LEMMA ListKept ==
    ASSUME NEW f \in Seq(Lines), NEW l \in Lines, NEW servers, NEW opens \in SUBSET (1..Len(f)),
           \A i \in opens, k \in Keys : ValueIn(Append(f, l), i, k) = ValueIn(f, i, k),
           ListsSections(servers, f, opens)
    PROVE  ListsSections(servers, Append(f, l), opens)
<1> DEFINE g == Append(f, l)
<1>1. PICK line \in [1..Len(servers) -> DOMAIN f] :
        /\ \A m, n \in DOMAIN line : m < n => line[m] < line[n]
        /\ {line[n] : n \in DOMAIN line} = {i \in opens : ValueIn(f, i, "Hostname") # Unset}
        /\ \A n \in DOMAIN line : servers[n] = SectionIn(f, line[n])
  BY DEF ListsSections
<1>2. "Hostname" \in Keys
  BY DEF Keys
<1>3. line \in [1..Len(servers) -> DOMAIN g]
  BY LineAppended
<1>4. {i \in opens : ValueIn(f, i, "Hostname") # Unset} = {i \in opens : ValueIn(g, i, "Hostname") # Unset}
  BY <1>2
<1>5. \A n \in DOMAIN line : line[n] \in opens
  BY <1>1
<1>6. \A n \in DOMAIN line : SectionIn(g, line[n]) = SectionIn(f, line[n])
  BY <1>5 DEF SectionIn
<1> QED BY <1>1, <1>3, <1>4, <1>6 DEF ListsSections

\* A section that ends joins the list if it names a host.
LEMMA SectionListed ==
    ASSUME NEW f \in Seq(Lines), NEW o \in Opens(f), acServers \in Seq(Sections),
           \A i \in Opens(f) \ {o} : i < o,
           section = SectionIn(f, o), ListsSections(acServers, f, Opens(f) \ {o}),
           CloseSection
    PROVE  ListsSections(acServers', f, Opens(f))
<1>0. section["Hostname"] = ValueIn(f, o, "Hostname")
  BY DEF SectionIn, Keys
<1>1. PICK line \in [1..Len(acServers) -> DOMAIN f] :
        /\ \A m, n \in DOMAIN line : m < n => line[m] < line[n]
        /\ {line[n] : n \in DOMAIN line} =
             {i \in Opens(f) \ {o} : ValueIn(f, i, "Hostname") # Unset}
        /\ \A n \in DOMAIN line : acServers[n] = SectionIn(f, line[n])
  BY DEF ListsSections
<1>2. CASE section["Hostname"] = Unset
  <2>1. {i \in Opens(f) \ {o} : ValueIn(f, i, "Hostname") # Unset} =
          {i \in Opens(f) : ValueIn(f, i, "Hostname") # Unset}
    BY <1>0, <1>2
  <2> QED BY <1>1, <1>2, <2>1 DEF CloseSection, ListsSections
<1>3. CASE section["Hostname"] # Unset
  <2> DEFINE len == Len(acServers)
             longer == [n \in 1..len + 1 |-> IF n = len + 1 THEN o ELSE line[n]]
  <2>1. /\ acServers' = Append(acServers, section) /\ len \in Nat /\ Len(acServers') = len + 1
        /\ \A n \in 1..len : acServers'[n] = acServers[n]
        /\ acServers'[len + 1] = section
    BY <1>3, AppendProperties, LenProperties DEF CloseSection
  <2>2. /\ DOMAIN longer = 1..len + 1 /\ DOMAIN line = 1..len
        /\ longer[len + 1] = o /\ \A n \in 1..len : longer[n] = line[n]
        /\ \A n \in 1..len + 1 : n = len + 1 \/ n \in 1..len
    BY <2>1
  <2>3. o \in DOMAIN f /\ \A n \in 1..len : line[n] \in Opens(f) \ {o} /\ line[n] < o
    BY <1>1, <2>2 DEF Opens
  <2>4. longer \in [1..Len(acServers') -> DOMAIN f]
    BY <2>1, <2>2, <2>3
  <2>5. \A m, n \in DOMAIN longer : m < n => longer[m] < longer[n]
    BY <1>1, <2>1, <2>2, <2>3
  <2>6. {longer[n] : n \in DOMAIN longer} = {line[n] : n \in DOMAIN line} \cup {o}
    BY <2>1, <2>2
  <2>7. {longer[n] : n \in DOMAIN longer} = {i \in Opens(f) : ValueIn(f, i, "Hostname") # Unset}
    BY <1>0, <1>1, <1>3, <2>6
  <2>8. \A n \in DOMAIN longer : acServers'[n] = SectionIn(f, longer[n])
    BY <1>1, <2>1, <2>2
  <2> HIDE DEF longer
  <2> QED BY <2>4, <2>5, <2>7, <2>8 DEF ListsSections
<1> QED BY <1>2, <1>3

LEMMA OpensAppended ==
    ASSUME NEW f \in Seq(Lines), NEW l \in Lines
    PROVE  /\ Opens(f) \subseteq 1..Len(f)
           /\ l.kind # "open" => Opens(Append(f, l)) = Opens(f)
           /\ l.kind = "open" => Opens(Append(f, l)) = Opens(f) \cup {Len(f) + 1}
<1>1. \A i \in 1..Len(f) + 1 : i = Len(f) + 1 \/ i \in 1..Len(f)
  BY LineAppended
<1>2. \A i \in 1..Len(f) : i \in 1..Len(f) + 1
  BY LineAppended
<1>3. Len(f) + 1 \in 1..Len(f) + 1
  BY LineAppended
<1> QED BY <1>1, <1>2, <1>3, LineAppended DEF Opens

\* The lines outside the sections that open none.
LEMMA BetweenKept ==
    ASSUME NEW f \in Seq(Lines), NEW l \in Lines, l.kind # "open",
           \A i \in Opens(f), k \in Keys : HasLast(f, i, k),
           Between(f), UNCHANGED acServers
    PROVE  /\ Between(Append(f, l))'
           /\ \A i \in Opens(Append(f, l)), k \in Keys : HasLast(Append(f, l), i, k)
<1> DEFINE g == Append(f, l)
<1>1. Opens(g) = Opens(f) /\ Opens(f) \subseteq 1..Len(f)
  BY OpensAppended
<1>2. \A i \in Opens(f) : ClosedIn(f, i) /\ ClosedIn(g, i)
  BY <1>1, ClosedAppended DEF Between
<1>3. \A i \in Opens(f), k \in Keys : ValueIn(g, i, k) = ValueIn(f, i, k) /\ HasLast(g, i, k)
  BY <1>1, <1>2, ValueKept
<1>4. ListsSections(acServers, g, Opens(g))
  BY <1>1, <1>3, ListKept DEF Between
<1> QED BY <1>1, <1>2, <1>3, <1>4 DEF Between

\* The line that opens a section.
LEMMA SectionOpened ==
    ASSUME NEW f \in Seq(Lines), NEW l \in Lines, l.kind = "open",
           \A i \in Opens(f), k \in Keys : HasLast(f, i, k),
           Between(f), OpenSection, UNCHANGED acServers
    PROVE  /\ InSection(Append(f, l), Len(f) + 1)' /\ Len(f) + 1 \in Opens(Append(f, l))
           /\ \A i \in Opens(Append(f, l)), k \in Keys : HasLast(Append(f, l), i, k)
           /\ section' # NoSection
<1> DEFINE g == Append(f, l)
           o == Len(f) + 1
<1>1. Opens(g) = Opens(f) \cup {o} /\ Opens(f) \subseteq 1..Len(f)
  BY OpensAppended
<1>2. Opens(g) \ {o} = Opens(f) /\ \A i \in Opens(f) : i < o
  BY <1>1, LineAppended
<1>3. \A i \in Opens(f) : ClosedIn(f, i) /\ ClosedIn(g, i)
  BY <1>1, ClosedAppended DEF Between
<1>4. \A i \in Opens(f), k \in Keys : ValueIn(g, i, k) = ValueIn(f, i, k) /\ HasLast(g, i, k)
  BY <1>1, <1>3, ValueKept
<1>5. ~ClosedIn(g, o) /\ \A k \in Keys : ValueIn(g, o, k) = Unset /\ HasLast(g, o, k)
  BY ValueUnset
<1>6. section' = SectionIn(g, o)
  BY <1>5 DEF OpenSection, SectionIn
<1>7. ListsSections(acServers, g, Opens(g) \ {o})
  BY <1>1, <1>2, <1>4, ListKept DEF Between
<1>8. section' # NoSection
  <2>1. DOMAIN section' = Keys /\ "Hostname" \in Keys
    BY DEF OpenSection, Keys
  <2>2. DOMAIN <<>> = 1..0 /\ 1..0 = {}
    OBVIOUS
  <2> QED BY <2>1, <2>2 DEF NoSection
<1>9. o \in Opens(g)
  BY <1>1
<1> HIDE DEF g, o
<1>10. InSection(g, o)'
  BY <1>2, <1>3, <1>5, <1>6, <1>7, <1>9 DEF InSection
<1>11. \A i \in Opens(g), k \in Keys : HasLast(g, i, k)
  BY <1>1, <1>4, <1>5
<1> QED BY <1>8, <1>9, <1>10, <1>11 DEF g, o

\* A line of the section o.
LEMMA SectionGoesOn ==
    ASSUME NEW f \in Seq(Lines), NEW l \in Lines, NEW o \in Opens(f), NEW g, g = Append(f, l),
           \A i \in Opens(f), k \in Keys : HasLast(f, i, k),
           InSection(f, o), l.kind \in {"blank", "attribute", "close"},
           l.kind = "attribute" => l.key \in Keys
    PROVE  /\ Opens(g) = Opens(f)
           /\ \A i \in Opens(g), k \in Keys : HasLast(g, i, k)
           /\ \A i \in Opens(g) \ {o} : i < o /\ ClosedIn(g, i)
           /\ ListsSections(acServers, g, Opens(g) \ {o})
           /\ ClosedIn(g, o) <=> l.kind = "close"
           /\ SectionIn(g, o) = IF l.kind = "attribute"
                                THEN [section EXCEPT ![l.key] = l.value] ELSE section
<1>1. Opens(g) = Opens(f) /\ Opens(f) \subseteq 1..Len(f)
  BY OpensAppended
<1>2. \A i \in Opens(f) \ {o} : i < o /\ ClosedIn(f, i) /\ ClosedIn(g, i)
  BY <1>1, ClosedAppended DEF InSection
<1>3. \A i \in Opens(f) \ {o}, k \in Keys : ValueIn(g, i, k) = ValueIn(f, i, k) /\ HasLast(g, i, k)
  BY <1>1, <1>2, ValueKept
<1>4. ListsSections(acServers, g, Opens(g) \ {o})
  BY <1>1, <1>3, ListKept DEF InSection
<1>5. ClosedIn(g, o) <=> l.kind = "close"
  BY <1>1, ClosedAppended DEF InSection
<1>6. \A k \in Keys : ~(l.kind = "attribute" /\ l.key = k) =>
                        ValueIn(g, o, k) = ValueIn(f, o, k) /\ HasLast(g, o, k)
  BY <1>1, ValueKept
<1>7. l.kind = "attribute" => ValueIn(g, o, l.key) = l.value /\ HasLast(g, o, l.key)
  BY <1>1, ValueSet DEF InSection
<1>8. SectionIn(g, o) = IF l.kind = "attribute"
                        THEN [section EXCEPT ![l.key] = l.value] ELSE section
  BY <1>6, <1>7 DEF InSection, SectionIn
<1>9. \A i \in Opens(g), k \in Keys : HasLast(g, i, k)
  BY <1>1, <1>3, <1>6, <1>7
<1> QED BY <1>1, <1>2, <1>4, <1>5, <1>8, <1>9

LEMMA NoFileInv == file' = <<>> /\ reading' \in {"failed", "valid"} => HistoryInv'
<1>1. Opens(<<>>) = {}
  BY DEF Opens
<1> QED BY <1>1 DEF HistoryInv

LEMMA HistoryStepInv == ConfigInv /\ ReadingInv /\ HistoryInv /\ ConfigNext => HistoryInv'
<1> SUFFICES ASSUME ConfigInv, ReadingInv, HistoryInv, ConfigNext PROVE HistoryInv'
  OBVIOUS
<1>0. PICK f \in Seq(Lines) : f = file
  BY DEF ReadingInv
<1>a. \A i \in Opens(f), k \in Keys : HasLast(f, i, k)
  BY <1>0 DEF HistoryInv
<1>1. ASSUME NEW l \in Lines, ReadLine(l) PROVE HistoryInv'
  <2>1. CASE reading' = "failed"
    BY <1>1, <2>1, NoFileInv DEF ReadLine
  <2> SUFFICES ASSUME reading' # "failed" PROVE HistoryInv'
    BY <2>1
  <2> DEFINE g == Append(f, l)
  <2>2. file' = g /\ reading = "lines" /\ ~BadOption
    BY <1>0, <1>1 DEF ReadLine, BadOption
  <2>3. CASE section = NoSection /\ l.kind # "open"
    <3>1. UNCHANGED <<reading, section, acServers>>
      BY <1>1, <2>2, <2>3 DEF ReadLine, TopLine, SetSetting, SetDaemon, AddPopular
    <3>2. Between(f)
      BY <1>0, <2>2, <2>3 DEF HistoryInv
    <3>3. Between(g)' /\ \A i \in Opens(g), k \in Keys : HasLast(g, i, k)
      BY <1>a, <2>3, <3>1, <3>2, BetweenKept
    <3> HIDE DEF g
    <3> QED BY <2>2, <2>3, <3>1, <3>3 DEF HistoryInv
  <2>4. CASE section = NoSection /\ l.kind = "open"
    <3>1. OpenSection /\ UNCHANGED <<reading, acServers>>
      BY <1>1, <2>2, <2>4 DEF ReadLine, TopLine
    <3>2. Between(f)
      BY <1>0, <2>2, <2>4 DEF HistoryInv
    <3>3. /\ \E o \in Opens(g) : InSection(g, o)'
          /\ \A i \in Opens(g), k \in Keys : HasLast(g, i, k)
          /\ section' # NoSection
      BY <1>a, <2>4, <3>1, <3>2, SectionOpened
    <3> HIDE DEF g
    <3> QED BY <2>2, <3>1, <3>3 DEF HistoryInv
  <2>5. CASE section # NoSection
    <3>0. g = Append(f, l)
      OBVIOUS
    <3> HIDE DEF g
    <3>1. PICK o \in Opens(f) : InSection(f, o)
      BY <1>0, <2>2, <2>5 DEF HistoryInv
    <3>2. /\ l.kind \in {"blank", "attribute", "close"}
          /\ l.kind = "attribute" => l.key \in Keys
          /\ reading' = reading
      BY <1>1, <2>2, <2>5, LineKinds DEF ReadLine, SectionLine
    <3>3. /\ Opens(g) = Opens(f)
          /\ \A i \in Opens(g), k \in Keys : HasLast(g, i, k)
          /\ \A i \in Opens(g) \ {o} : i < o /\ ClosedIn(g, i)
          /\ ListsSections(acServers, g, Opens(g) \ {o})
          /\ ClosedIn(g, o) <=> l.kind = "close"
          /\ SectionIn(g, o) = IF l.kind = "attribute"
                               THEN [section EXCEPT ![l.key] = l.value] ELSE section
      BY <1>a, <3>0, <3>1, <3>2, SectionGoesOn
    <3>4. CASE l.kind = "close"
      <4>1. CloseSection
        BY <1>1, <2>2, <2>5, <3>4 DEF ReadLine, SectionLine
      <4>2. g \in Seq(Lines) /\ o \in Opens(g) /\ section = SectionIn(g, o)
        BY <3>0, <3>3, <3>4, LineAppended
      <4>3. ListsSections(acServers', g, Opens(g)) /\ section' = NoSection
        BY <3>3, <4>1, <4>2, SectionListed DEF ConfigInv, CloseSection
      <4>4. Between(g)'
        BY <3>3, <3>4, <4>3 DEF Between
      <4> QED BY <2>2, <3>2, <3>3, <4>3, <4>4 DEF HistoryInv
    <3>5. CASE l.kind # "close"
      <4>1. section' = SectionIn(g, o) /\ UNCHANGED acServers
        BY <1>1, <2>2, <2>5, <3>2, <3>3, <3>5 DEF ReadLine, SectionLine
      <4>2. section' # NoSection
        <5>1. DOMAIN section' = Keys /\ "Hostname" \in Keys
          BY <4>1 DEF SectionIn, Keys
        <5>2. DOMAIN <<>> = 1..0 /\ 1..0 = {}
          OBVIOUS
        <5> QED BY <5>1, <5>2 DEF NoSection
      <4>3. InSection(g, o)' /\ o \in Opens(g)
        BY <3>3, <3>5, <4>1 DEF InSection
      <4> QED BY <2>2, <3>2, <3>3, <4>2, <4>3 DEF HistoryInv
    <3> QED BY <3>4, <3>5
  <2> QED BY <2>3, <2>4, <2>5
<1>2. CASE EndOfFile
  <2>1. reading = "lines" /\ reading' = "read" /\ file' = f
    BY <1>0, <1>2 DEF EndOfFile
  <2>2. CASE section = NoSection
    BY <1>0, <1>2, <1>a, <2>1, <2>2 DEF EndOfFile, HistoryInv, Between
  <2>3. CASE section # NoSection
    <3>1. PICK o \in Opens(f) : InSection(f, o)
      BY <1>0, <2>1, <2>3 DEF HistoryInv
    <3>2. ListsSections(acServers', f, Opens(f))
      BY <1>2, <2>3, <3>1, SectionListed DEF EndOfFile, InSection, ConfigInv
    <3> QED BY <1>a, <2>1, <3>2 DEF HistoryInv
  <2> QED BY <2>2, <2>3
<1>3. CASE CannotOpen
  BY <1>3, NoFileInv DEF CannotOpen, BadOption
<1>4. CASE ConfigValidate
  BY <1>4, NoFileInv DEF ConfigValidate
<1> QED BY <1>1, <1>2, <1>3, <1>4 DEF ConfigNext

LEMMA MainHistoryStepInv == MainTypeInv /\ HistoryInv /\ [MainNext]_mainVars => HistoryInv'
<1> SUFFICES ASSUME MainTypeInv, HistoryInv, [MainNext]_mainVars PROVE HistoryInv'
  OBVIOUS
<1>1. CASE ReadConfig
  BY <1>1, HistoryStepInv DEF ReadConfig, MainTypeInv, BootInv
<1>2. CASE UNCHANGED <<reading, file, section, acServers>>
  <2>1. HistoryInv <=> HistoryInv'
    BY <1>2 DEF HistoryInv, Between, InSection
  <2> QED BY <2>1
<1>3. ReadConfig \/ UNCHANGED <<reading, file, section, acServers>>
  BY DEF MainNext, Boot, BootGoesOn, BootFails, ParseCommandline, Usage, Fork, ForkFails,
         StayInForeground, MainLoopBegins, HasInterface, GetExtIface, NoRoutingTable,
         GetIfaceIp, GetIfaceMac, InitExcuteOutdir, MainLoopFails, LoopAndSignals,
         SignalTooEarly, RouteChanges, mainVars, configVars
<1> QED BY <1>1, <1>2, <1>3

\* Whatever sections the file has, in whatever order their lines stand and
\* however often one sets the same attribute, each section that names a host
\* becomes one server, in the order of the file, with what its own lines say.
THEOREM MainServersAsWritten == MainSpec => []ServersAsWritten
<1>1. MainInit => MainTypeInv /\ HistoryInv
  BY MainTypeInitInv, HistoryInitInv DEF MainInit
<1>2. MainTypeInv /\ HistoryInv /\ [MainNext]_mainVars => (MainTypeInv /\ HistoryInv)'
  BY MainTypeStepInv, MainHistoryStepInv
<1>3. HistoryInv => ServersAsWritten
  <2> SUFFICES ASSUME HistoryInv, reading = "read" PROVE ServersAsWritten
    BY DEF ServersAsWritten
  <2>1. PICK line \in [1..Len(acServers) -> DOMAIN file] :
          /\ \A m, n \in DOMAIN line : m < n => line[m] < line[n]
          /\ {line[n] : n \in DOMAIN line} =
               {i \in Opens(file) : ValueIn(file, i, "Hostname") # Unset}
          /\ \A n \in DOMAIN line : acServers[n] = SectionIn(file, line[n])
    BY DEF HistoryInv, ListsSections
  <2>2. {i \in Opens(file) : ValueIn(file, i, "Hostname") # Unset} =
          {i \in DOMAIN file : file[i].kind = "open" /\ Attribute(i, "Hostname") # Unset}
    BY AttributeIsValue DEF Opens
  <2>3. \A n \in DOMAIN line : acServers[n] = [k \in Keys |-> Attribute(line[n], k)]
    BY <2>1, AttributeIsValue DEF SectionIn
  <2> QED BY <2>1, <2>2, <2>3 DEF ServersAsWritten
<1> QED BY <1>1, <1>2, <1>3, PTL DEF MainSpec
=============================================================================
