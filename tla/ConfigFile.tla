----------------------------- MODULE ConfigFile -----------------------------
(***************************************************************************)
(* The configuration file: config_init, config_read with parse_ac_server   *)
(* and parse_popular_servers, and config_validate.  The file is read line  *)
(* by line; a SmartAcServer section is read by a loop of its own, which    *)
(* takes lines from the same file until one that contains a brace.         *)
(* A line is a record of its kind, its keyword and its value.              *)
(***************************************************************************)
EXTENDS Integers, Sequences, SequencesExt

CONSTANTS Settings,         \* keywords of single values that the file may set
          Attributes,       \* keywords of a section besides Hostname
          Values,           \* what can be written behind a keyword
          Names,            \* popular servers
          PopularLists,     \* lists of names a PopularServers line can have
          Lines,            \* of the lines there can be, those that are written
          MaxLines          \* bound on the length of the file

Unset == "unset"            \* a NULL pointer, or a default of the program
Keys == {"Hostname"} \cup Attributes
Sections == [Keys -> Values \cup {Unset}]

ASSUME KeysAssumption == Settings \cap Keys = {} /\ "Hostname" \notin Attributes
ASSUME ValuesAssumption == Unset \notin Values
ASSUME PopularAssumption == \A list \in PopularLists : list \in Seq(Names)

\* What a line can be: a comment or a blank line, the beginning and the end
\* of a section, one of the known keywords with a value, or something else.
Written(kind, keys, values) == [kind : {kind}, key : keys, value : values]

AllLines == Written("blank", {Unset}, {Unset}) \cup Written("open", {Unset}, {Unset})
         \cup Written("close", {Unset}, {Unset}) \cup Written("bad", {Unset}, {Unset})
         \cup Written("setting", Settings, Values)
         \cup Written("daemon", {Unset}, {-1, 0, 1})
         \cup Written("attribute", Keys, Values)
         \cup Written("popular", {Unset}, PopularLists)

ASSUME LinesAssumption == Lines \subseteq AllLines /\ MaxLines \in Nat

VARIABLES reading,          \* how far config_read and config_validate are
          file,             \* history: the lines read, until the file is judged
          section,          \* parse_ac_server's variables, or NoSection
          acServers,        \* config.ac_servers as it is appended to
          popular,          \* config.popular_servers
          settings,         \* the other fields of config
          daemon            \* config.daemon

configVars == <<reading, file, section, acServers, popular, settings, daemon>>

NoSection == <<>>           \* a function without keywords

DefaultDaemon == 1          \* DEFAULT_DAEMON, which config_init assigns

\* config_init.
ConfigInit == /\ reading = "lines"
              /\ file = <<>>
              /\ section = NoSection
              /\ acServers = <<>>
              /\ popular = <<>>
              /\ settings = [k \in Settings |-> Unset]
              /\ daemon = DefaultDaemon

-----------------------------------------------------------------------------
\* exit(-1) on a keyword that does not belong where it is written.
BadOption == /\ reading' = "failed"
             /\ UNCHANGED <<section, acServers, popular, settings, daemon>>

\* The last value of a setting counts.
SetSetting(l) == /\ settings' = [settings EXCEPT ![l.key] = l.value]
                 /\ UNCHANGED <<reading, section, acServers, popular, daemon>>

\* Daemon counts only while config.daemon is -1; a value of -1 stands for one
\* that is neither yes, no, 1 nor 0.
SetDaemon(l) == /\ daemon' = IF daemon = -1 /\ l.value # -1 THEN l.value ELSE daemon
                /\ UNCHANGED <<reading, section, acServers, popular, settings>>

\* parse_popular_servers: each name goes in front of the list.
AddPopular(l) == /\ popular' = Reverse(l.value) \o popular
                 /\ UNCHANGED <<reading, section, acServers, settings, daemon>>

\* parse_ac_server begins with the defaults of every attribute and no host.
OpenSection == section' = [k \in Keys |-> Unset]

\* Mutant of CloseSection: the servers are prepended, as the popular ones are.
CloseSectionPrepends ==
    /\ acServers' = IF section["Hostname"] = Unset THEN acServers
                    ELSE <<section>> \o acServers
    /\ section' = NoSection

\* A section without a host is forgotten; any other one becomes the last server.
CloseSection == /\ acServers' = IF section["Hostname"] = Unset THEN acServers
                                ELSE Append(acServers, section)
                /\ section' = NoSection

\* A line outside a section.  A brace alone is a keyword without a value,
\* which is passed over as a comment is.
TopLine(l) ==
    \/ /\ l.kind \in {"blank", "close"}
       /\ UNCHANGED <<reading, section, acServers, popular, settings, daemon>>
    \/ l.kind = "setting" /\ SetSetting(l)
    \/ l.kind = "daemon" /\ SetDaemon(l)
    \/ l.kind = "popular" /\ AddPopular(l)
    \/ /\ l.kind = "open" /\ OpenSection
       /\ UNCHANGED <<reading, acServers, popular, settings, daemon>>
    \/ l.kind \in {"attribute", "bad"} /\ BadOption

\* A line inside a section.
SectionLine(l) ==
    \/ l.kind = "blank" /\ UNCHANGED <<reading, section, acServers, popular, settings, daemon>>
    \/ /\ l.kind = "attribute"
       /\ section' = [section EXCEPT ![l.key] = l.value]
       /\ UNCHANGED <<reading, acServers, popular, settings, daemon>>
    \/ l.kind = "close" /\ CloseSection /\ UNCHANGED <<reading, popular, settings, daemon>>
    \/ l.kind \in {"setting", "daemon", "popular", "open", "bad"} /\ BadOption

ReadLine(l) == /\ reading = "lines" /\ Len(file) < MaxLines
               /\ IF section = NoSection THEN TopLine(l) ELSE SectionLine(l)
               /\ file' = IF reading' = "failed" THEN <<>> ELSE Append(file, l)

\* The end of the file also ends a section.
EndOfFile == /\ reading = "lines"
             /\ reading' = "read"
             /\ IF section = NoSection THEN UNCHANGED <<section, acServers>> ELSE CloseSection
             /\ UNCHANGED <<file, popular, settings, daemon>>

CannotOpen == /\ reading = "lines" /\ file = <<>>
              /\ BadOption
              /\ UNCHANGED file

\* The two names that validate_popular_servers adds, the last one in front.
DefaultNames == {"www.baidu.com", "www.hao123.com"}
DefaultPopular == <<"www.hao123.com", "www.baidu.com">>

\* Mutant of ConfigValidate: a missing server is reported and no more.
ConfigValidateWarns == /\ reading = "read"
                       /\ reading' = "valid"
                       /\ popular' = IF popular = <<>> THEN DefaultPopular ELSE popular
                       /\ file' = <<>>
                       /\ UNCHANGED <<section, acServers, settings, daemon>>

\* config_validate: the popular servers have a default, the servers have none.
\* The history of the file ends here.
ConfigValidate == /\ reading = "read"
                  /\ reading' = IF acServers = <<>> THEN "failed" ELSE "valid"
                  /\ popular' = IF popular = <<>> THEN DefaultPopular ELSE popular
                  /\ file' = <<>>
                  /\ UNCHANGED <<section, acServers, settings, daemon>>

ConfigNext == \/ \E l \in Lines : ReadLine(l)
              \/ EndOfFile \/ CannotOpen \/ ConfigValidate

ConfigSpec == ConfigInit /\ [][ConfigNext]_configVars

-----------------------------------------------------------------------------
ConfigTypeOK == /\ reading \in {"lines", "read", "valid", "failed"}
                /\ file \in Seq(Lines)
                /\ section \in Sections \cup {NoSection}
                /\ acServers \in Seq(Sections)
                /\ popular \in Seq(Names \cup DefaultNames)
                /\ settings \in [Settings -> Values \cup {Unset}]
                /\ daemon \in {-1, 0, 1}

\* The lines of the section that is opened at line i.
Body(i) == {j \in i + 1..Len(file) : \A n \in i + 1..j : file[n].kind # "close"}

\* What the last of these lines that sets an attribute sets it to.
Attribute(i, k) ==
    LET set == {j \in Body(i) : file[j].kind = "attribute" /\ file[j].key = k}
    IN IF set = {} THEN Unset ELSE file[CHOOSE j \in set : \A n \in set : n <= j].value

\* "It can be configured several times": the list of servers has one entry for
\* each section that names a host, in the order of the file, with what this
\* section sets and the program's defaults for the rest: line[n] is where the
\* section of the n-th server is opened.  The two reading loops, the copies and
\* the defaults of one section leave nothing to the next.
ServersAsWritten == reading = "read" =>
    \E line \in [1..Len(acServers) -> DOMAIN file] :
        /\ \A m, n \in DOMAIN line : m < n => line[m] < line[n]
        /\ {line[n] : n \in DOMAIN line} =
             {i \in DOMAIN file : file[i].kind = "open" /\ Attribute(i, "Hostname") # Unset}
        /\ \A n \in DOMAIN line : acServers[n] = [k \in Keys |-> Attribute(line[n], k)]

\* What the threads rely on: the program goes on with at least one server, and
\* every one has a host.  get_ac_server and mark_ac_server_bad dereference the
\* head of the list without a test.
HasServers == /\ reading = "valid" => acServers # <<>>
              /\ \A i \in DOMAIN acServers : acServers[i]["Hostname"] # Unset
=============================================================================
