---------------------------- MODULE SmartacMain ----------------------------
(***************************************************************************)
(* The whole life of the daemon, from smartac_main to the exit: the        *)
(* command line, the configuration (ConfigFile), the fork, what main_loop  *)
(* finds out about the machine, and then the threads, the signals and the  *)
(* end (Termination).  Until init_signals a signal kills the process.      *)
(***************************************************************************)
EXTENDS ConfigFile, Termination

ASSUME SettingsAssumption == {"GatewayAcInterface", "GatewayAcId"} \subseteq Settings

VARIABLES boot,             \* how far smartac_main and main_loop are
          foreground,       \* -f was given
          background,       \* the process is a child of safe_fork
          defaultRoute,     \* the routing table has a default route
          iface, ip, mac,   \* of the gateway: config.gw_ac_interface, ...
          id                \* config.gw_ac_id

gateway == <<iface, ip, mac, id>>
found == <<foreground, background, gateway>>
mainVars == <<configVars, vars, boot, found, defaultRoute>>

Detected == "detected"      \* what the machine tells, as opposed to the file

MainInit == /\ Init /\ ConfigInit
            /\ boot = "commandline"
            /\ foreground = FALSE /\ background = FALSE
            /\ defaultRoute = FALSE
            /\ iface = Unset /\ ip = Unset /\ mac = Unset /\ id = Unset

\* Termination's variables while the program starts.
Starts == UNCHANGED vars

\* The program is at a step of its start.
Booting(step) == Free("main") /\ boot = step

-----------------------------------------------------------------------------
\* parse_commandline: -f, or not; the other options name files and log levels.
ParseCommandline == /\ Booting("commandline")
                    /\ foreground' \in BOOLEAN
                    /\ daemon' = IF foreground' THEN 0 ELSE daemon
                    /\ boot' = "config"
                    /\ Starts
                    /\ UNCHANGED <<reading, file, section, acServers, popular, settings,
                                   background, gateway, defaultRoute>>

\* -h, -v and unknown options; or the write to restartargv, at an index that
\* was never set, ends the program.
Usage == /\ Booting("commandline")
         /\ StartFails
         /\ UNCHANGED <<configVars, boot, found, defaultRoute>>

\* config_read and config_validate, which exit when they fail.
ReadConfig == /\ Booting("config")
              /\ ConfigNext
              /\ boot' = IF reading' = "valid" THEN "fork" ELSE boot
              /\ IF reading' = "failed" THEN StartFails ELSE Starts
              /\ UNCHANGED <<found, defaultRoute>>

\* safe_fork in a daemon; the parent exits at once.  main_loop begins, with
\* the values of the file.
MainLoopBegins(inBackground) ==
    /\ Booting("fork")
    /\ background' = inBackground
    /\ boot' = "interface"
    /\ iface' = settings["GatewayAcInterface"]
    /\ id' = settings["GatewayAcId"]
    /\ Starts
    /\ UNCHANGED <<configVars, foreground, ip, mac, defaultRoute>>

Fork == daemon # 0 /\ MainLoopBegins(TRUE)

ForkFails == Booting("fork") /\ daemon # 0 /\ StartFails
             /\ UNCHANGED <<configVars, boot, found, defaultRoute>>

StayInForeground == daemon = 0 /\ MainLoopBegins(FALSE)

HasInterface == /\ Booting("interface") /\ iface # Unset
                /\ boot' = "ip"
                /\ Starts
                /\ UNCHANGED <<configVars, found, defaultRoute>>

\* Mutant of GetExtIface: the loop goes on with the name it has found.
GetExtIfaceGoesOn == /\ Booting("interface") /\ iface = Unset /\ defaultRoute
                     /\ UNCHANGED mainVars

\* get_ext_iface reads the routing table every second until there is a
\* default route: NUM_EXT_INTERFACE_DETECT_RETRY is 0, which is no limit.
GetExtIface == /\ Booting("interface") /\ iface = Unset /\ defaultRoute
               /\ iface' = Detected
               /\ boot' = "ip"
               /\ Starts
               /\ UNCHANGED <<configVars, foreground, background, ip, mac, id, defaultRoute>>

\* /proc/net/route cannot be opened.
NoRoutingTable == /\ Booting("interface") /\ iface = Unset
                  /\ StartFails
                  /\ UNCHANGED <<configVars, boot, found, defaultRoute>>

GetIfaceIp == /\ Booting("ip")
              /\ ip' = Detected
              /\ boot' = "mac"
              /\ Starts
              /\ UNCHANGED <<configVars, foreground, background, iface, mac, id, defaultRoute>>

\* Mutant of GetIfaceMac: the identifier of the file is not looked at.
GetIfaceMacIsId == /\ Booting("mac")
                   /\ mac' = Detected
                   /\ id' = mac'
                   /\ boot' = "outdir"
                   /\ Starts
                   /\ UNCHANGED <<configVars, foreground, background, iface, ip, defaultRoute>>

\* get_iface_mac; the address is the identifier unless the file has one.
GetIfaceMac == /\ Booting("mac")
               /\ mac' = Detected
               /\ id' = IF id = Unset THEN mac' ELSE id
               /\ boot' = "outdir"
               /\ Starts
               /\ UNCHANGED <<configVars, foreground, background, iface, ip, defaultRoute>>

InitExcuteOutdir == /\ Booting("outdir")
                    /\ boot' = "done"
                    /\ Starts
                    /\ UNCHANGED <<configVars, found, defaultRoute>>

\* No socket, no such interface, no address, or no directory for the outputs.
MainLoopFails == /\ Running /\ boot \in {"ip", "mac", "outdir"}
                 /\ StartFails
                 /\ UNCHANGED <<configVars, boot, found, defaultRoute>>

-----------------------------------------------------------------------------
BootGoesOn == \/ ParseCommandline \/ ReadConfig \/ Fork \/ StayInForeground
              \/ HasInterface \/ GetExtIface \/ GetIfaceIp \/ GetIfaceMac
              \/ InitExcuteOutdir

BootFails == Usage \/ ForkFails \/ NoRoutingTable \/ MainLoopFails

Boot == BootGoesOn \/ BootFails

\* From then on main_loop goes on as in Termination.
LoopAndSignals == /\ boot = "done" /\ Next
                  /\ UNCHANGED <<configVars, boot, found, defaultRoute>>

SignalTooEarly == /\ boot # "done" /\ \E sig \in Signals : Send(sig)
                  /\ UNCHANGED <<configVars, boot, found, defaultRoute>>

\* Environment: the route to the provider comes and goes.
RouteChanges == /\ Booting("interface")
                /\ defaultRoute' = ~defaultRoute
                /\ UNCHANGED <<configVars, vars, boot, found>>

MainNext == Boot \/ LoopAndSignals \/ SignalTooEarly \/ RouteChanges

MainSpec == MainInit /\ [][MainNext]_mainVars

\* The program runs, and the file has an end (MaxLines).  Nothing has to fail.
MainFairness == Fairness /\ WF_mainVars(BootGoesOn)

MainFairSpec == MainSpec /\ MainFairness

-----------------------------------------------------------------------------
\* Every variable of the start has a value of its kind, also after the
\* configuration was read.
MainTypeOK == /\ ConfigTypeOK /\ TypeOK
              /\ boot \in {"commandline", "config", "fork", "interface", "ip", "mac",
                           "outdir", "done"}
              /\ {foreground, background, defaultRoute} \subseteq BOOLEAN
              /\ {iface, id} \subseteq Values \cup {Unset, Detected}
              /\ {ip, mac} \subseteq {Unset, Detected}

\* The threads run on a complete configuration: main_loop makes the queue only
\* with a server to talk to and everything known that the messages hold, the
\* file's interface and identifier before those of the machine ("the default
\* is the MAC address of GatewayAcInterface").
StartsComplete == phase # "start" =>
    /\ reading = "valid" /\ HasServers
    /\ iface = IF settings["GatewayAcInterface"] = Unset THEN Detected
               ELSE settings["GatewayAcInterface"]
    /\ id = IF settings["GatewayAcId"] = Unset THEN Detected ELSE settings["GatewayAcId"]
    /\ ip = Detected /\ mac = Detected

\* Whether the program goes to the background is decided by -f alone: config_init
\* has set config.daemon, and config_read takes the file's Daemon only for -1.
\* wifismartac.conf documents that line as deciding it.
DaemonByCommandLine ==
    boot \in {"interface", "ip", "mac", "outdir", "done"} => (background <=> ~foreground)

\* Waiting for the default route is no dead end: once there is a route for
\* good, the start comes to its end, in the loop or with an exit.
StartUpEnds == <>[]defaultRoute => <>(boot = "done" \/ ~Running)
=============================================================================
