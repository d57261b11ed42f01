# smartAC in TLA+

smartAC is a daemon for wireless routers (OpenWrt). It reports to a management
server ("AC server") at regular intervals, runs the commands that the server
answers with, and posts their results. This directory holds TLA+ models of its
parts, TLC configurations that check them on small instances, and proofs, checked
by TLAPS, of the properties that matter most for every instance.

## 1. The system

### Processes and threads

| actor | code | what it does |
|---|---|---|
| main thread | `main_loop`, `src/src/smartac.c` | starts the threads, then every 5 s takes one result from the queue and starts a thread that posts it |
| ping thread | `thread_ping` / `ping`, `src/src/smartac_ping.c` | runs the information scripts, reads their files, builds the report, sends it, runs the command in the answer |
| posting threads | `thread_post_result`, `src/src/smartac_post_result.c` | one per result; each posts it to a server |
| child processes | `execute`, `src/src/smartac_util.c` | the shell with an information script or a remote command |
| signal handlers | `sigchld_handler`, `termination_handler`, `src/src/smartac.c` | run on any thread, between any two of its steps |
| network | kernel, clients, servers | clients come and go, packets are counted, servers answer, fail or stay silent |

### Shared state and who touches it

* `cmdrets_queue`, guarded by `queue_mutex`: the ping thread inserts, the main
  thread takes; `destroy_queue` at the end (without the lock).
* `config.ac_servers`, guarded by `config_mutex`, which `connect_ac_server` holds
  over name look-ups and connects; `get_ac_server` reads the head without it.
* the child's exit status: `execute` and the handler of SIGCHLD both wait for it.
* files under `/tmp`: the scripts write, the ping thread reads after they end.
* the firewall: rules and chains outlive the scripts and the daemon.

### Components

| component | state | operations | hard part | what makes it correct | module |
|---|---|---|---|---|---|
| result queue | linked list, mutex, heap | `initial_queue`, `insert_queue`, `getout_queue` | interleaving inside both procedures, freed addresses coming back, the empty test | stays a chain in order, no freed node is touched, implements a FIFO | `ResultQueue`, `ResultFifo` |
| AC servers, HTTP | server list, mutex, sockets, the answer's buffer | `get_ac_server`, `mark_ac_server_bad`, `connect_ac_server`, `http_get`, `pstr_cat` | the retry is a recursion that rotates a shared list; unlocked read; a buffer that grows while the answer arrives | `connect_ac_server` is one step to its callers, each server once per call, list only rotated, sockets closed, mutex released, answer whole | `AcServers`, `HttpGet`, `ServerChoice` |
| command relay | child, output file, `t_result`s | `excute_open`, `execute`, `cmdresult_malloc`, main loop, `thread_post_result` | ownership across three threads; two waiters for one child; every error path | one owner, commands in order, only successes posted and only once, nothing stuck | `CommandRelay`, `CommandLife` |
| configuration file | `s_config` | `config_init`, `config_read`, `parse_ac_server`, `parse_popular_servers`, `config_validate` | two loops read one file; defaults, file and command line set the same fields | the list is that of the file; no thread starts without it | `ConfigFile` |
| start | gateway's interface, address, identifier | `parse_commandline`, `smartac_main`, `get_ext_iface`, `get_iface_ip`, `get_iface_mac` | every step can fail; the wait for a route has no limit; signals before the handler is there | the threads start on a complete configuration; the wait is no dead end | `SmartacMain` |
| termination | threads, handlers' stacks, mutex | `init_signals`, `termination_handler` | handlers on any thread and on top of each other | one call goes on, and it ends the process | `Termination` |
| traffic accounting | chains, rules, counters, file | `update_ac_information.sh` | clients come and go during the script; `grep` on addresses; the two calls on a client's rules can fail or be cut off between | rules in pairs but for what has failed, none for a client that was not there, figures are the client's own | `FwAccounting` |
| client report | two heap lists | `ping()`, `smartac_json_util.c` | four functions free the same two lists on failures; a failed script leaves the file of an earlier one | no list freed twice; the report tells what the file says | `ClientReport` |
| MAC lists | two tables, two files | `accmd_mac_set_white_black`, `accmd_update_mac_fw_tables` | rules are found again only through a file; the other service restarts | tables disjoint, no rule without its entry in the file, tables those of the last command | `MacTables` |

## 2. How the modules are made

Every module has its state as VARIABLES, `Init`, one action for each step or
handler, `Next`, `Spec`, and where liveness is checked `Fairness` and `FairSpec`.
Properties come last, each under a comment that says which code it is about.
Definitions whose names are variants of another one (`InsertRearForgotten` next
to `InsertRear`, `MarkBadDrop` next to `MarkAcServerBad`) are faults a programmer
could have made there; they are not used by `Next` and serve to show that the
properties are sensitive to the code.

```
ResultFifo  <- refinement - ResultQueue                        ResultQueueProof
ServerChoice <- refinement - AcServers
AcServers   <- EXTENDS ---- HttpGet      <- MCHttpGet          AcServersProof, HttpGetProof
CommandLife, ResultFifo
            <- refinement - CommandRelay                       CommandRelayProof
                            (HTTP as one step)
ConfigFile, Termination
            <- EXTENDS ---- SmartacMain  <- MCSmartacMain      TerminationProof, SmartacMainProof
FwAccounting <- EXTENDS --- ClientReport <- MCClientReport     ClientReportProof
MacTables   <- MCMacTables                                     MacTablesProof
```

**ResultQueue.** A heap of `Nodes`; `alloc` is what malloc has handed out, and a
freed node can be handed out again. The two procedures are split at each access
to the list: `InsertAlloc`, `InsertLock`, `InsertLink`, `InsertRear`,
`InsertUnlock`; `GetoutLock`, `GetoutEmpty` / `GetoutFirst`, `GetoutUnlink`,
`GetoutFixRear`, `GetoutFree`, `GetoutUnlock`. `ResultFifo` is the promise: the set
of numbers that wait, the last one put and the last one taken, with `Get` fair. A
put takes effect in `InsertLink`, a get in `GetoutUnlink`, and every other step
is a stutter; `QueueInv` says why that is right.

**AcServers.** `servers` is the linked list as a sequence, its head first.
`ConnectAcServer` takes the mutex; every way through one level of
`_connect_ac_server` is an action: `GiveUp`, `NoDns`, `UnknownHost`, `NoSocket`,
`Refused`, `Connected`. Those that go on to the next level call
`MarkAcServerBad`, which rotates. `HttpSend`, `HttpDone`, `HttpError` are
`http_get`. What the name service and the servers answer is free. `Configured`
is the list that `ConfigFile` makes. `ServerChoice` is the promise to the callers:
one step turns the list by less than a round and connects to the server that is
then first, or to none. While a thread holds the mutex the list of `ServerChoice`
is the one it found, so that a whole walk takes effect in `UnlockConfig`.

**HttpGet.** EXTENDS `AcServers` and puts the reading loop in the place of its one
step: `ReadSome` is select and read, which give up to `MaxBuf` - 1 bytes of which
the string before the first NUL counts; `PstrGrow` and `PstrCat` are the loop and
the copy of `pstr_cat`. `size` and `len` are the fields of `pstr_t`, `text` is the
length of the string that is really in the buffer, and `received` what came from
the server. Every step is a step of `AcServers` or leaves its variables alone.

**CommandRelay.** A command from `ReceiveCommand` (fork) over `ChildExits`,
`SigchldHandler`, `WaitReaps` / `WaitFails`, `OpenFails` / `StatFails` /
`ReadOutput`, `InsertResult`, `ExcuteReturns`, then `GetoutResult`, `CreatePost` /
`CreateFails`, `BuildRequest`, and `PostArrives` / `PostFails`. `heap` is the set
of `t_result`s that are allocated. A post whose answer is lost has arrived.
Outputs have any size. `CmdresultSize` is the size of the buffer that
`cmdresult_malloc` gives, and `Put` stands for each of the three copies that do not
look at it: `excute_read` reads all of a file into the buffer, `getout_queue` copies
it into the next one, and `thread_post_result` into `data[MAX_CMD_OUT_BUF]`. When
something is put where it does not fit, the process ends or goes on.
`free(out_file)` of a pointer that was never assigned (`smartac_remotecmd.c:122`)
is undefined: `ExcuteReturns` ends the process or does nothing. `CommandLife` is
the promise to the sender of commands: each is unknown, running, dropped, queued,
posting or done, one runs at a time and in order, only one that ended with status
0 is queued, the oldest is posted first, and none is posted again. `LifeOf` reads
the stage of a command off the program counters. `ResultFifo` is used a second
time: with results numbered by `Rank`, their order of insertion, the `queue` of
this module is the FIFO that `ResultQueue` implements.

**ConfigFile.** One action reads one line (`ReadLine`), a record of kind, keyword
and value; `section` holds the locals of `parse_ac_server`, so that `TopLine` and
`SectionLine` are the two reading loops. Any line with a closing brace ends a
section, a comment too, and so does the end of the file. How a line is cut into
words is abstracted; a setting's value is what was written last. `file` is the
history that `ServersAsWritten` compares the list with.

**SmartacMain.** EXTENDS `ConfigFile` and `Termination`: one process from the first
line of `smartac_main` to its end. `boot` says which statement is next;
`ParseCommandline`, `ReadConfig`, `Fork` / `StayInForeground`, `HasInterface` /
`GetExtIface`, `GetIfaceIp`, `GetIfaceMac`, `InitExcuteOutdir`, each beside the
action in which it fails and exits. Once `boot` is "done", `main_loop` is that of
`Termination`. A signal before `init_signals` kills the process (`SignalTooEarly`
before the queue). `Usage` also stands for the write to `restartargv[i]` with an
`i` that was never set (`smartac_commandline.c:72`), which may end the process.

**Termination.** `frames[t]` is the stack of handler frames on thread t. A signal
is pending (once per kind) until the kernel delivers it to a thread that does not
block it; a handler blocks only its own signal, for `sa_mask` is empty.
`KillPing` is `pthread_kill(tid_ping, SIGKILL)`, which ends the process.

**FwAccounting.** `forward[rule]` counts how often FORWARD holds a rule, so that a
rule inserted twice shows. The loops of the script (`InsertRule`, `DeleteRule`,
`CleanUpRule`) run over a copy in a temporary file, `list`; a turn of a loop decides
on one address, and the two iptables calls on its rules are steps of their own:
`calls` is the one that comes next, `RuleCall` makes it, and in `RuleCallFails` it
fails, which the script does not notice. `ScriptKilled` ends the script between any
two steps, also between the two calls and in the middle of writing the file;
`ScriptFails` is a popen that fails. Rules, chains and `.client.traffic.info` stay as
they are then, and the next script starts on them. Clients come and go and packets
are counted between any two steps, the calls included. `faults` is a history: how
many calls on an address's rules have failed, or were cut off after the first of
the pair (up to `MaxFaults`); a client whose call failed no longer counts as
having been there undisturbed (`stayed`, `seen`). `Matches` says which addresses
contain the text of an address, which is what the script's `grep` goes by. The
order of the two columns of `.client.traffic` is the order that the code writes,
download first (the heading in the script names them the other way round).

**ClientReport.** EXTENDS `FwAccounting`: it is the same system with the ping
thread, which goes on when the script has ended, was killed or did not start: as in
`smartac_ping.c:92-94`, it does not ask, and reads the `info` that is there. `heap`
holds the state of the two lists, and every allocation and every `fopen` can fail. A
node is "raw" until its link is written; `DestroyFrom` walks the links, and behind a
raw node it finds the end of the list or an address that is no list's (`badFree` =
"link"). That is what happens at `smartac_ping.c:105`, where the second malloc has
failed and `init_client_list` has not run; what that free damages is not modelled.

**MacTables.** `rules[flag]` and `file[flag]` for the two lists. `Sets(f)` is the
branch the script takes: its test of an unquoted list is true for exactly one
address and fails for several. `DogStarts` and `DogStops` are WiFiDog, which
makes and removes the chain that holds the white rules.

## 3. Runs

All "pass" runs end with the whole state space explored.

| run | module, cfg | bounds | what it shows |
|---|---|---|---|
| `queue` | ResultQueue | 4 nodes, 5 results, 30 716 states | chain, memory safety, exact empty test, no leak; implements the fair FIFO, so that every result is taken |
| `servers` | MCHttpGet | 2 threads, 3 servers, buffer of 2, answers of up to 3 bytes, 120 375 states | `connect_ac_server` is one step to its callers, every server tried before it gives up, sockets, the mutex comes back, the answer is whole, a thread returns |
| `servers_path` | MCAcServersPath | 1 thread, 3 servers | **violation**: the request of one server is sent to another |
| `relay` | CommandRelay | 3 commands, outputs of 0, 1 and 5 bytes where the limit is 2, 32 686 states | owners, exact limits of the buffers, delivery, `CommandLife` and the FIFO implemented, nothing stuck |
| `relay_buffers` | MCCommandRelayBuffers | 2 commands, outputs of 0 to 3 bytes where the limit is 3 | **violation**: an output below the limit overruns the posting thread's array |
| `relay_status` | MCCommandRelayStatus | 2 commands | **violation**: a command that succeeded is reported as failed |
| `main` | MCSmartacMain | files of up to 5 lines, 1 signal, sent 3 times, 193 655 states | the servers are the file's, complete start, no dead end, one call goes on, its thread lives, the process ends |
| `termination_two` | MCTerminationTwo | 2 signals | **violation**: the process goes on for ever |
| `termination_clean` | MCTerminationClean | 1 signal | **violation**: the chains stay |
| `report` | MCClientReport | 2 clients, packets until a counter is 1, 1 fault per client, 2 014 877 states (up to symmetry) | rules, figures, clean-up, lists, the report, with failing calls and killed scripts |
| `report_prefix` | MCClientReportPrefix | 192.168.1.1 beside 192.168.1.10 | **violation**: one client is never counted |
| `mac_tables` | MCMacTables | 2 addresses, lists of up to 2, 4 100 states | tables disjoint, rules listed, tables exactly those of the last command |

Why the bounds are enough to meet the interesting cases:

* *queue*: with the empty node, a node being inserted, one being freed and one in
  the list, four nodes are the least that let both procedures be in the middle;
  a fifth result has to use an address that was freed. The proofs do away with
  the bound on both.
* *servers*: with two servers a rotation and a swap are the same, three tell them
  apart; two threads meet at the mutex. `level` needs no bound: it ends at N + 1.
  `MaxBuf` 2 makes every read one byte long, so that of three bytes (`MaxBytes`)
  the first fills the buffer, the second makes it grow and the third fills it
  again; the proofs are for all sizes.
* *relay*: one command runs while another is queued and a third is being posted.
  `MaxOut` stands for `MAX_CMD_OUT_BUF`. With 2, an output of 0 bytes (`MaxOut` - 2)
  is the largest that fits the array in `thread_post_result`, one of 1 byte the
  smallest that does not, and one of 5 bytes (`MaxOut` + 3) the smallest that does
  not fit the buffer of `cmdresult_malloc` either. The proof is for all sizes.
* *main*: five lines (`MaxLines`) hold two sections, where the first has a path and
  no host, or each has a host of its own: one leaking into the other and a wrong
  order both show. One value per keyword, two for hosts.
  For the end of the process: three threads, so three signals let the handler run on each of
  them (`MaxSent`); a second kind is needed for one handler on top of another.
* *report*: two clients are enough for one to be mistaken for the other. Packets
  pass while every counter is below `MaxPackets`; one tells a reading before it from
  a reading after it. With `MaxFaults` 1 a call on each client's rules can fail, or
  be cut off, at any moment of any script; scripts are killed elsewhere as often as
  one likes. The addresses are interchangeable, hence the symmetry.
* *mac_tables*: a list has no address, one, or several, which are the three cases
  of the shell's test; two addresses let one move from list to list.

### Fairness

Fairness is stated for steps of running code, not for what the network does.

* *queue*: weak fairness of the steps of both procedures: a thread that can run
  does run. Strong fairness of `InsertLock`, because the main loop gives the mutex
  back and then sleeps for five seconds, in which a waiting ping thread gets it;
  the ping thread does not insert without end in the same way, so weak is enough
  for the main loop.
* *servers*: weak fairness of the levels of the recursion and of the unlock (name
  look-up and connect end, by their own time-outs), strong fairness of taking the
  mutex, and weak fairness of `http_get`: send returns and select does so within
  thirty seconds. That an answer is finite is the bound `MaxBytes`; the code has
  no limit for a server that keeps sending.
* *relay*: weak fairness of the threads and of `ChildExits`: commands end. The
  code has no time-out for one that does not, so this is an assumption about the
  commands. `SigchldHandler` has none: it may come at any time or not be needed.
* *main*: weak fairness of `BootGoesOn`, the steps of the start that do not fail:
  the program runs and the file has an end. None of the failures, of the routes
  or of `main_loop`. `StartUpEnds` assumes a route that comes for good. Weak
  fairness of the delivery of each kind of signal and of the handler's steps: a
  pending signal that some thread does not block is delivered.

`CHECK_DEADLOCK FALSE` stands where the process may have ended, in the runs of
`CommandRelay`, `SmartacMain` and `Termination`.

## 4. Where code and text disagree

1. `servers_path`: `ping` (`smartac_ping.c:85`) and `thread_post_result` take path
   and Host header from the head of the list before the connection is made.
   `wifismartac.conf:45-51` gives each server paths of its own.
2. `relay_status`: `sigchld_handler` (`smartac.c:59`) calls `waitpid(-1)` and can
   take the status that `execute` (`smartac_util.c:259`) waits for, which then
   reports a failure. The comment at line 270 reserves that for a child that did
   not exit cleanly. The output of the command is lost.
3. `termination_two`: `smartac.c:78` takes a busy mutex to mean "another thread";
   it can be the same thread, one handler below, and `pthread_exit` ends it.
4. `termination_clean`: `smartac.c:65` promises a clean-up of the firewall, which
   SIGKILL (line 91), or a NULL `data` in `destroy_queue`, prevents.
5. `report_prefix`: `update_ac_information.sh:84` finds an address in a longer one.
6. `relay_buffers`: `MAX_CMD_OUT_BUF` (`smartac_common.h:16`) is the size of the
   array in `thread_post_result`, but each of the two buffers before it is made a
   byte larger than asked for, and `smartac_post_result.c:53` copies all of it: an
   output of `MAX_CMD_OUT_BUF` - 1 bytes overruns the array. `OverflowBeyond`, which
   run `relay` checks, has the exact limits, also that of `excute_read`, which reads
   a file of any size (`smartac_remotecmd.c:113`) into a buffer of at most
   `MAX_CMD_OUT_BUF` + 2 bytes.

Also noted and not checked by a run:

* `Daemon` in the configuration file has no effect: `config_init` sets the field to
  1, `config_read` (`smartac_config.c:374`) takes the file's value only while it is
  -1, and `config_init_override`, which belongs between them, is never called.
  `wifismartac.conf:117-126` describes the parameter with a default of 0 and says
  that it decides between daemon and foreground. The theorem `MainDaemonByCommandLine`
  states what the code does instead, for every file.
* `accmd_mac_set_white_black:36` has its condition the wrong way round: a black list
  of one address is cancelled instead of set, and the script reports success.
  `Sets` in `MacTables` is the branch as the script takes it.
* `smartac_ping.c:105` destroys a node whose link was never written
  (`BadFreeOnlyAtMalloc` says that it is the only place).
* A call on one rule of a client that fails, or a kill between the two, leaves a
  rule without its pair. When it is the UPLOAD rule, the next update finds no
  DOWNLOAD rule and inserts both again: of the two UPLOAD rules that there are from
  then on, later scripts read both counters in one field and delete only one; and
  `chain_clean_up`, which looks for DOWNLOAD rules, leaves it and its chain.
* When the update script fails, the ping that follows reports the file of an
  earlier run, or half of this one, as if it were new (`smartac_ping.c:92`).
* `DebugLevel` sets `config.debuglevel`, which nothing reads; `ArpTablePath` in the
  file replaces what `-a` gave, for the file is read later.
* `restartargv[i++]` in `parse_commandline` uses an `i` that was never set.
* What a failing command writes is thrown away by `excute_open`, although
  `doc/command_output_format.txt` has a form for it.
* `accmd_setreboottime` sets the clock; `main_loop` and the ping thread sleep until
  an absolute time, so that a clock set back lengthens the sleep by as much.
* `accmd_setnetwork` replies a status of false also when it succeeds;
  `accmd_setwireless` passes its arguments unquoted, so that an SSID with a space
  shifts those behind it.

## 5. Proofs

Each proof module EXTENDS the module it is about. Every theorem is about `Spec`
(no fairness) and all values of the constants that the ASSUMEs admit.

**ResultQueueProof** (assumes only that NULL is no node, and `MaxResults \in Nat`).
`QueueInv` is inductive: `LockInv` relates the mutex to the two program counters,
`HeldInv` says what each thread knows of its local node, `ChainInv` and `OrderInv`
describe the list by its neighbours only: a linked node is the last one or its
`next` is linked and numbered one higher. This form needs no recursive notion of
reachability, which is why it can be proved, and it gives
`QueueMemorySafe` (no freed node is touched), `QueueEmptyTest` (front = rear iff
no result waits) and `QueueImplementsFifo` (each step is a step of `ResultFifo`
or a stutter). Without the exact empty test the FIFO would lose its last result
or hand one out twice. `QueueNoLeak` counts: `AllocInv` says that as many nodes
are allocated as results were made and not yet freed, and one; only `InsertAlloc`
and `GetoutFree` change the number, and that `GetoutFirst` copies the next number
follows from the chain.

**AcServersProof** (assumes a non-empty list without doubles). `ServersInv` adds
to the types that each server has one place, and for the holder of the mutex
`Walk`: the list is what it was when the mutex was taken, rotated by `level - 1`
places, and the servers tried are its first `level - 1`. `MarkBadRotates` is the
lemma about the relinking. Thence `ServersExhausted`, `ServersNeverTwice`,
`ServersKept` and `ServersSockets`. `ServersImplementChoice` is the refinement:
`UnlockInv` says that at the unlock the list is the one found, turned by some
d < N (`WalkTurns` takes d = `level` - 1 from `Walk`; a walk through all servers
has come round to d = 0), so that `UnlockConfig` is a step of `ServerChoice` and
every step before it a stutter. A `get_ac_server` without the lock in the middle
of another thread's walk reads the head of a list that `ServerChoice` never has;
`ServersInv` shows that it is one of its servers all the same, and more is not
promised. `SingleServerMatches`: with one server `RequestMatchesServer` holds, so
that the second server in run `servers_path` is needed.

**HttpGetProof** (assumes a buffer of at least two bytes). `HttpImplementsServers`:
every step of `HttpGet` is a step of `AcServers` or a stutter, so that
`HttpServersInvariant` follows from `ServersInvariant`. `HttpResponseWhole` is
inductive with the types of `AcServers`: a thread that is not in `http_get` has no
answer, a step of the loop changes one thread's answer, and `Needed` leaves room
for the end of the string at each growth. `HttpImplementsChoice` carries the
promise of `ServerChoice` over.

**TerminationProof.** `OnceInv`: the stacks are well typed, a frame past the mutex is
on the thread that took it, and there is one such frame: `TerminationOnce`, for
any set of signals. `TerminationOwnerLives` assumes in addition that all signals
are of one kind. `LifeInv` says what is needed then: a stack has no two frames of
one signal, because a handler blocks its own, and the call that `main_loop` makes
itself when the ping thread cannot be created, which blocks nothing, is made
while no other thread is there. Run `termination_two` shows that the assumption
on the signals is needed. `TerminationTypes` adds to the types that a signal waits
only for a process that has installed its handler. `TerminationChainsStay` is what
the code does in the place of `CleansUp`: the queue's empty node has no data from
`initial_queue` on (`FrontInv`), so that a handler that gets as far as
`destroy_queue` ends the process there, and no daemon ever removes its chains.
That is why `FwAccounting` may start on the rules of an earlier one.

**SmartacMainProof** (assumes that the keywords of sections and of settings differ and
that the defaults are no values of the file). `ConfigInv` types what has been read
and says that each server has a host and the program goes on only with a server;
`BootInv` adds what is known at each value of `boot`. Thence `MainStartsComplete` and
`MainDaemonByCommandLine`, for files of any length. `MainImplementsTermination`:
a step of the start is no step of `Termination`, or its `StartFails`; `MainOnlyOnce`,
`MainOwnerLives` and `MainChainsStay` carry over what is proved there, and
`MainTypes` joins `BootInv`, `ReadingInv` and the `TypeInv` of the handler.
`MainServersAsWritten` compares the list, which the two loops build line by line,
with the whole file. What a section is, is said without recursion: it is opened by
a line outside any section, closed by the next closing brace or the end of the
file, and an attribute is the last line that sets it in between. `HistoryInv`
follows the reading: the servers closed so far are the sections closed so far, in
order, through a strictly increasing map from places in the list to lines, and the
locals of the section that is open are the last values of its lines. One lemma per
way a line can change that (`SectionOpened`, `SectionGoesOn`, `SectionListed`,
`ListKept`) rests on what one more line does to "opens", "closed in" and "last of".

**CommandRelayProof** (assumes that sizes are natural numbers, with no limit).
`RelayInv` has a part for each owner: `PingInv` (child, file and `made` against the
program counter of the ping thread), `OrderInv` (the queue grows by the number of
the command, and what waits has not been posted), `MainInv` (what is in the hand has
left the queue), `PostInv` (a thread exists only for a queued command, and its body
is gone with its first step), and `HeapInv`, which is `OneOwner` spelt out by owner.
That owners never hold the same result is not a part of it but follows: the queue
holds results made by the ping thread and unposted, the hand and the threads copies
made by the main loop, of different commands. `RelayImplementsLife` maps each step
to one of `CommandLife` or a stutter; beyond `RelayInv` it needs `StatusInv`: a
command has a status from the moment its child ends and not before, which the
reuse of `child` and `exit` for every command does not say by itself.
`RelayImplementsFifo` needs `RankInv`: the results in the queue have the last ranks
without a gap. Only the numbers of the commands that were queued are
counted, which is where `Rank` differs from the number of the command.
`RelayOverflowBeyond` says for every size of output which buffers it fits; that each
one's length and size are those `CmdresultSize` gives is the part of `RelayInv` it
rests on. `BuffersFit`, which run `relay_buffers` refutes, is what it would be with
an assumption on the outputs that the code does not have.

**ClientReportProof.** `FwInv` holds for any addresses and any faults: types, chains
where there are rules, `CleanUpComplete`, and for each address `AddressInv`, which
says at every step of the three loops, between the two calls of a pair too, by how
much its two rules can differ in number. `CallStepInv`, `CallFailsInv` and
`KillStepInv` are its three hard steps: the call that restores the pair, the one
that does not and is counted, and the kill in between. In the clean-up it says that
what is not in the list any more is gone but for the faults, which gives
`FwCleanUpComplete`. What is said of each client is proved under `Exact`: no
address is contained in another one. `SeenInv` follows the list from the first loop
to the second (who stayed is in the list or has rules; who has rules is in the list
or was seen), `ReadInv` the counters from reading to reading for the addresses that
are `Counted` (listed, and no fault): each is no more than the next, which
`FoundExact` needs `Exact` for. Run `report_prefix` shows that the assumption is
needed. `ReportImplementsScript` carries this over to the composition.
`ListInv` gives `ReportBadFree` and `ReportListsOwned`, and `ReportTells` joins
the two sides: from the moment ping goes on, whatever the script's end, to the
report the lines of the file do not change.

**MacTablesProof** (assumes that lists are sequences of addresses). `MacInv` adds
to `NoMacInBoth` and `RulesAreListed` that white rules exist only with WiFiDog
(`DogInv`) and, in each loop, what is still to be removed or added (`LoopInv`):
while a table is being emptied every rule is in `todo`, while one is being filled
the rules are among the new list. Thence `MacNotInBoth` and `MacRulesListed`.
`ExactInv` says exactly what the black table holds at each step of the two scripts,
and with it `MacTablesOfCommand`: a command leaves its own lists and nothing else.
That these lists are not always the ones the sender meant is noted in section 4.

Only model-checked: the liveness properties (`ExchangeReturns`, `PingReturns`,
`QueuedIsPosted`, `StartUpEnds`, `RequestEnds`) and the fair part of `FifoFairSpec`,
which TLAPS does not prove here. Every invariant and every refinement that a
passing run checks is also a theorem.

## 6. What is not modelled, and why

* How a line of the configuration file is cut into words and numbers, lines longer
  than `MAX_BUF`, and the command line's options that name files and log levels.
* `last_ip` of a server: it is remembered and compared with the next address of the
  same name, and nothing but log lines depends on it.
* The texts: JSON, log lines, version, the array of 10 240 bytes the report is
  built in.
* What is damaged by an output that overruns a buffer, and by the free at
  `smartac_ping.c:105`: in the model the process ends or goes on (the first), or
  goes on (the second), with everything else as it was.
* `update_device_info`: formats readings of `/proc`.
* The other `accmd_*` scripts: sequences of `uci set`, `uci commit` and a restart
  of a service. The state they change belongs to uci and the network's daemon, no
  part of this repository; a model would restate the scripts. To the daemon each
  is a command with an exit status and an output, which `CommandRelay` has.
* `CommandRelay` takes the exchange with a server as one step and the queue as its
  FIFO; `HttpGet` and `ResultQueue` say what these steps do.
* Two runs of the update script at once, which a kill of the daemon (the init script
  uses SIGKILL) and a quick restart can bring about, and a clean-up by the handler
  while the ping thread's update runs. Scripts one after the other, the earlier one
  killed anywhere, are modelled.
* A listing (`iptables -L`, `/proc/net/arp`) that fails; iptables is called with -w,
  which waits for its lock. A file that does not exist yet is an empty one that may
  fail to open. Of a kill during the script's last step, the writing of the file may
  leave any of its lines.
* Locks inside the C library that `debug()` takes in signal handlers.
* A command that never ends and a server that keeps sending: the liveness
  properties assume that there is none, for the code has no time-out.
* A clock that is set while a thread sleeps.
* In `MacTables`: whether a router has WiFiDog does not change while it is up, and
  a reboot loses the files in `/tmp` and the rules together.

## 7. What is left

Everything that keeps state between two steps of the daemon is modelled, except
what section 6 lists. Worth doing next:

1. The sizes of the JSON that `build_ping_json_data` builds in 10 240 bytes, which
   overrun the array; a model needs bytes where this one has records.
2. `CommandRelay` composed with `HttpGet`, in place of its one-step exchange.
3. Two runs of the update script at the same time, or an update and a clean-up.
