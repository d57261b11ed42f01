---------------------------- MODULE CommandRelay ----------------------------
(***************************************************************************)
(* The life of a remote command: the ping thread receives it, runs it in a *)
(* child process whose output goes to a file, reads the file and queues    *)
(* the result; the main loop takes results from the queue and starts a     *)
(* thread for each, which posts it to a server.  The handler of SIGCHLD    *)
(* runs in between.  The queue is the one ResultQueue implements; the      *)
(* exchange with a server is one step here (AcServers has its detail).     *)
(* Commands are numbered in the order in which they are received.          *)
(***************************************************************************)
EXTENDS Naturals, Sequences, FiniteSets

CONSTANTS MaxCmds,          \* bound on the commands a behaviour receives
          MaxOut,           \* MAX_CMD_OUT_BUF
          Sizes             \* sizes of the outputs that commands write: the code
                            \* sets no limit

Cmds == 1..MaxCmds

ASSUME CmdsAssumption == MaxCmds \in Nat
ASSUME SizesAssumption == MaxOut \in Nat /\ Sizes \subseteq Nat

VARIABLES alive,            \* the process runs
          cmd, pcP,         \* ping thread: last command, where it is
          child, exit,      \* the child process and its exit status
          outLen,           \* the size of its output
          sigPending,       \* SIGCHLD is pending
          files,            \* output files under PREFIX, by command
          made,             \* the t_result that the ping thread holds, <<>> if none
          queue,            \* cmdrets_queue
          pcM, hand,        \* main loop: where it is, its local cmdrets
          post, body,       \* each posting thread: where it is, its t_result
          heap,             \* t_results allocated and not freed
          queued, status,   \* history: results queued, exit status of commands
          delivered         \* history: how often a result reached a server

ping == <<cmd, pcP, made, queued>>
process == <<child, exit, outLen, sigPending, status>>
mainLoop == <<pcM, hand>>
posting == <<post, body, delivered>>
vars == <<alive, ping, process, files, queue, mainLoop, posting, heap>>

NoResult == <<>>

\* Mutant of CmdresultSize: no room for the terminating zero.
CmdresultSizeNoZero(n) == IF n > MaxOut + 1 THEN MaxOut + 1 ELSE n

\* cmdresult_malloc: the size of the buffer for n bytes.
CmdresultSize(n) == 1 + (IF n > MaxOut + 1 THEN MaxOut + 1 ELSE n)

\* A t_result: whose output it is, who made it, and its size and c_size.
Result(k, by, n, len) == [cmd |-> k, by |-> by, size |-> CmdresultSize(n), len |-> len]

\* n bytes are put into room for some.  When there are too many, what lies
\* behind is overwritten, and the process may end of it.
Put(n, room) == alive' \in (IF n <= room THEN {TRUE} ELSE BOOLEAN)

Init == /\ alive = TRUE
        /\ cmd = 0 /\ pcP = "sleep" /\ made = NoResult /\ queued = {}
        /\ child = "none" /\ exit = "none" /\ outLen = 0 /\ sigPending = FALSE
        /\ status = [k \in Cmds |-> "none"]
        /\ files = {}
        /\ queue = <<>>
        /\ pcM = "get" /\ hand = NoResult
        /\ post = [k \in Cmds |-> "none"]
        /\ body = [k \in Cmds |-> NoResult]
        /\ delivered = [k \in Cmds |-> 0]
        /\ heap = {}

-----------------------------------------------------------------------------
\* ping gets "Pong | id | command"; excute_open forks the shell, which opens
\* the output file.
ReceiveCommand == /\ alive /\ pcP = "sleep" /\ cmd < MaxCmds
                  /\ cmd' = cmd + 1
                  /\ child' = "running"
                  /\ files' = files \cup {cmd + 1}
                  /\ pcP' = "wait"
                  /\ UNCHANGED <<alive, made, queued, exit, outLen, sigPending, status,
                                 queue, mainLoop, posting, heap>>

\* safe_fork ends the program when fork fails.
ForkFails == /\ alive /\ pcP = "sleep" /\ cmd < MaxCmds
             /\ alive' = FALSE
             /\ UNCHANGED <<ping, process, files, queue, mainLoop, posting, heap>>

\* The command ends; a script that fails has written an ErrorMessage.
ChildExits == /\ alive /\ child = "running"
              /\ \E st \in {"ok", "error"}, n \in Sizes :
                   /\ exit' = st
                   /\ outLen' = n
                   /\ status' = [status EXCEPT ![cmd] = st]
              /\ child' = "zombie"
              /\ sigPending' = TRUE
              /\ UNCHANGED <<alive, ping, files, queue, mainLoop, posting, heap>>

\* sigchld_handler: one waitpid(-1, WNOHANG), in whichever thread the kernel
\* picks, at any moment after the signal.
SigchldHandler == /\ alive /\ sigPending
                  /\ sigPending' = FALSE
                  /\ child' = IF child = "zombie" THEN "reaped" ELSE child
                  /\ UNCHANGED <<alive, ping, exit, outLen, status, files, queue,
                                 mainLoop, posting, heap>>

\* Mutant of DropOutput: the file is left behind.
DropOutputKeepFile == /\ pcP' = "sleep"
                      /\ UNCHANGED <<cmd, made, queued, files>>

\* The command's output is dropped and its file removed.
DropOutput == /\ pcP' = "sleep"
              /\ files' = files \ {cmd}
              /\ UNCHANGED <<cmd, made, queued>>

\* Mutant of WaitReaps: the exit status is ignored.
WaitReapsAnyStatus ==
    /\ alive /\ pcP = "wait" /\ child = "zombie"
    /\ child' = "none"
    /\ pcP' = "open"
    /\ UNCHANGED <<alive, cmd, made, queued, exit, outLen, sigPending, status, files,
                   queue, mainLoop, posting, heap>>

\* waitpid in execute gives the child's status.
WaitReaps == /\ alive /\ pcP = "wait" /\ child = "zombie"
             /\ child' = "none"
             /\ IF exit = "ok" THEN pcP' = "open" /\ UNCHANGED <<cmd, made, queued, files>>
                               ELSE DropOutput
             /\ UNCHANGED <<alive, exit, outLen, sigPending, status, queue, mainLoop,
                            posting, heap>>

\* Mutant of WaitFails: execute waits again when waitpid fails.
WaitAgain == /\ alive /\ pcP = "wait" /\ child = "reaped"
             /\ UNCHANGED vars

\* waitpid fails because the handler has the status: execute returns 1.
WaitFails == /\ alive /\ pcP = "wait" /\ child = "reaped"
             /\ child' = "none"
             /\ DropOutput
             /\ UNCHANGED <<alive, exit, outLen, sigPending, status, queue, mainLoop,
                            posting, heap>>

\* fopen fails.
OpenFails == /\ alive /\ pcP = "open"
             /\ DropOutput
             /\ UNCHANGED <<alive, process, queue, mainLoop, posting, heap>>

\* free(out_file) of a pointer that was never set: it does nothing or it
\* ends the process.
FreeOutFile(ok) == alive' = ok

\* get_file_length fails.
StatFails == /\ alive /\ pcP = "open"
             /\ \E ok \in BOOLEAN : FreeOutFile(ok)
             /\ DropOutput
             /\ UNCHANGED <<process, queue, mainLoop, posting, heap>>

\* The whole file is read into a new t_result, closed and removed.
ReadOutput == /\ alive /\ pcP = "open"
              /\ made' = Result(cmd, "ping", outLen, outLen)
              /\ Put(outLen, made'.size)
              /\ heap' = heap \cup {made'}
              /\ files' = files \ {cmd}
              /\ pcP' = "insert"
              /\ UNCHANGED <<cmd, queued, process, queue, mainLoop, posting>>

\* Mutant of InsertResult: the newest result is taken first.
InsertResultInFront ==
    /\ alive /\ pcP = "insert"
    /\ queue' = <<made>> \o queue
    /\ queued' = queued \cup {cmd}
    /\ made' = NoResult
    /\ pcP' = "free"
    /\ UNCHANGED <<alive, cmd, process, files, mainLoop, posting, heap>>

\* insert_queue takes the t_result over.
InsertResult == /\ alive /\ pcP = "insert"
                /\ queue' = Append(queue, made)
                /\ queued' = queued \cup {cmd}
                /\ made' = NoResult
                /\ pcP' = "free"
                /\ UNCHANGED <<alive, cmd, process, files, mainLoop, posting, heap>>

ExcuteReturns == /\ alive /\ pcP = "free"
                 /\ \E ok \in BOOLEAN : FreeOutFile(ok)
                 /\ pcP' = "sleep"
                 /\ UNCHANGED <<cmd, made, queued, process, files, queue, mainLoop,
                                posting, heap>>

-----------------------------------------------------------------------------
\* Mutant of GetoutNothing: the loop ends on an empty queue.
GetoutNothingBreaks ==
    /\ alive /\ pcM = "get" /\ queue = <<>>
    /\ pcM' = "ended"
    /\ UNCHANGED <<alive, ping, process, files, queue, hand, posting, heap>>

\* main_loop: the queue is empty, or its first result is copied and freed.
GetoutNothing == /\ alive /\ pcM = "get" /\ queue = <<>>
                 /\ pcM' = "sleep"
                 /\ UNCHANGED <<alive, ping, process, files, queue, hand, posting, heap>>

GetoutResult ==
    /\ alive /\ pcM = "get" /\ queue # <<>>
    /\ hand' = Result(Head(queue).cmd, "main", Head(queue).size, Head(queue).len)
    /\ Put(Head(queue).size, hand'.size)
    /\ queue' = Tail(queue)
    /\ heap' = (heap \ {Head(queue)}) \cup {hand'}
    /\ pcM' = "create"
    /\ UNCHANGED <<ping, process, files, posting>>

\* Mutant of CreatePost: the loop keeps its pointer.
CreatePostKeepsHand == /\ alive /\ pcM = "create"
                       /\ post' = [post EXCEPT ![hand.cmd] = "start"]
                       /\ body' = [body EXCEPT ![hand.cmd] = hand]
                       /\ pcM' = "sleep"
                       /\ UNCHANGED <<alive, ping, process, files, queue, hand, delivered, heap>>

\* pthread_create gives the t_result to a thread_post_result.
CreatePost == /\ alive /\ pcM = "create"
              /\ post' = [post EXCEPT ![hand.cmd] = "start"]
              /\ body' = [body EXCEPT ![hand.cmd] = hand]
              /\ hand' = NoResult
              /\ pcM' = "sleep"
              /\ UNCHANGED <<alive, ping, process, files, queue, delivered, heap>>

\* Mutant of CreateFails: the t_result is forgotten.
CreateFailsNoFree == /\ alive /\ pcM = "create"
                     /\ post' = [post EXCEPT ![hand.cmd] = "done"]
                     /\ hand' = NoResult
                     /\ pcM' = "sleep"
                     /\ UNCHANGED <<alive, ping, process, files, queue, body, delivered, heap>>

\* pthread_create fails: the t_result is freed, the result is lost.
CreateFails == /\ alive /\ pcM = "create"
               /\ post' = [post EXCEPT ![hand.cmd] = "done"]
               /\ heap' = heap \ {hand}
               /\ hand' = NoResult
               /\ pcM' = "sleep"
               /\ UNCHANGED <<alive, ping, process, files, queue, body, delivered>>

\* Five seconds have passed.
WakeUp == /\ alive /\ pcM = "sleep"
          /\ pcM' = "get"
          /\ UNCHANGED <<alive, ping, process, files, queue, hand, posting, heap>>

-----------------------------------------------------------------------------
\* thread_post_result: the t_result is copied to an array of MaxOut bytes, from
\* which the request is made, and freed.
BuildRequest(k) == /\ alive /\ post[k] = "start"
                   /\ Put(body[k].size, MaxOut)
                   /\ post' = [post EXCEPT ![k] = "request"]
                   /\ heap' = heap \ {body[k]}
                   /\ body' = [body EXCEPT ![k] = NoResult]
                   /\ UNCHANGED <<ping, process, files, queue, mainLoop, delivered>>

\* No server can be reached, or the request does not get out whole.
PostFails(k) == /\ alive /\ post[k] = "request"
                /\ post' = [post EXCEPT ![k] = "done"]
                /\ UNCHANGED <<alive, ping, process, files, queue, mainLoop, body,
                               delivered, heap>>

\* Mutant of PostArrives: a post that has no reply is repeated.
PostArrivesRetry(k) ==
    /\ alive /\ post[k] = "request"
    /\ \E answered \in BOOLEAN :
         post' = [post EXCEPT ![k] = IF answered THEN "done" ELSE "request"]
    /\ delivered' = [delivered EXCEPT ![k] = @ + 1]
    /\ UNCHANGED <<alive, ping, process, files, queue, mainLoop, body, heap>>

\* The server has the result; its answer is logged only, and may be missing.
PostArrives(k) == /\ alive /\ post[k] = "request"
                  /\ post' = [post EXCEPT ![k] = "done"]
                  /\ delivered' = [delivered EXCEPT ![k] = @ + 1]
                  /\ UNCHANGED <<alive, ping, process, files, queue, mainLoop, body, heap>>

-----------------------------------------------------------------------------
PingStep == WaitReaps \/ WaitFails \/ OpenFails \/ StatFails \/ ReadOutput
            \/ InsertResult \/ ExcuteReturns
MainStep == GetoutNothing \/ GetoutResult \/ CreatePost \/ CreateFails \/ WakeUp
PostStep(k) == BuildRequest(k) \/ PostFails(k) \/ PostArrives(k)

Next == \/ ReceiveCommand \/ ForkFails \/ ChildExits \/ SigchldHandler
        \/ PingStep \/ MainStep
        \/ \E k \in Cmds : PostStep(k)

Spec == Init /\ [][Next]_vars

\* Every thread runs, connect and read have timeouts, and commands end.
Fairness == /\ WF_vars(ChildExits)
            /\ WF_vars(PingStep)
            /\ WF_vars(MainStep)
            /\ \A k \in Cmds : WF_vars(PostStep(k))

FairSpec == Spec /\ Fairness

-----------------------------------------------------------------------------
IsResult(r, by) == /\ r.cmd \in Cmds /\ r.by = by
                   /\ r.size \in Nat /\ r.len \in Nat

\* A posting thread exists only for a result that has been taken, and the
\* results are where the program counters say.
TypeOK == /\ alive \in BOOLEAN
          /\ cmd \in 0..MaxCmds
          /\ pcP \in {"sleep", "wait", "open", "insert", "free"}
          /\ child \in {"none", "running", "zombie", "reaped"}
          /\ exit \in {"none", "ok", "error"}
          /\ outLen \in Nat
          /\ sigPending \in BOOLEAN
          /\ status \in [Cmds -> {"none", "ok", "error"}]
          /\ files \subseteq Cmds /\ queued \subseteq Cmds
          /\ pcP = "insert" => IsResult(made, "ping")
          /\ pcP # "insert" => made = NoResult
          /\ \A i \in DOMAIN queue : IsResult(queue[i], "ping")
          /\ pcM \in {"get", "create", "sleep"}
          /\ pcM = "create" => IsResult(hand, "main")
          /\ pcM # "create" => hand = NoResult
          /\ post \in [Cmds -> {"none", "start", "request", "done"}]
          /\ \A k \in Cmds : post[k] = "start" => IsResult(body[k], "main")

InQueue == {queue[i] : i \in DOMAIN queue}

\* The t_results that some variable of the program still points to.
Held == InQueue \cup {made, hand} \cup {body[k] : k \in Cmds}

\* Every t_result that is allocated has an owner and no owner holds a freed
\* one: the queue, the hand-over to the thread and the paths on which a call
\* fails neither leak a result nor free it twice.
OneOwner == heap = Held \ {NoResult}

\* MAX_CMD_OUT_BUF is the largest output, as cmdresult_malloc has it: each
\* buffer holds its output and a terminating zero, each copy fits into the
\* buffer it is made into, and the last one into the post thread's array.
BuffersFit == \A r \in heap :
    /\ r.len < r.size
    /\ CmdresultSize(r.size) >= r.size
    /\ r.by = "main" => r.size <= MaxOut

\* How far that is so.  The buffers of cmdresult_malloc hold a zero after an
\* output of up to MaxOut + 1 bytes and all of one that is a byte longer, and
\* the main loop's copy always fits, but each of the two buffers adds a byte:
\* the array of the post thread overflows exactly for the outputs of more than
\* MaxOut - 2 bytes.
OverflowBeyond == \A r \in heap :
    /\ r.len < r.size <=> r.len <= MaxOut + 1
    /\ r.len <= r.size <=> r.len <= MaxOut + 2
    /\ CmdresultSize(r.size) >= r.size
    /\ r.by = "main" => (r.size > MaxOut <=> r.len + 2 > MaxOut)

\* A result gets to a server at most once, whatever fails on the way.
AtMostOnce == \A k \in Cmds : delivered[k] <= 1

\* What gets to a server is the complete output of a command that ended with
\* status 0 and was queued.
OnlySuccesses == \A k \in Cmds : delivered[k] > 0 => k \in queued /\ status[k] = "ok"

\* When the ping thread goes back to sleep it has removed the output file, on
\* every path through excute_remote_shell_command.
NoFileLeft == pcP = "sleep" => files = {}

\* Results wait in the order of their commands, and one that has left the
\* queue never comes back to it.
QueueInOrder ==
    /\ \A i, j \in DOMAIN queue : i < j => queue[i].cmd < queue[j].cmd
    /\ \A i \in DOMAIN queue : post[queue[i].cmd] = "none"

\* The ping thread comes back from every command, also when the handler of
\* SIGCHLD has taken the child's status from it.
PingReturns == pcP = "wait" ~> pcP = "sleep" \/ ~alive

\* Every queued result ends in a post that was tried, while the process lives.
QueuedIsPosted == \A k \in Cmds : k \in queued ~> post[k] = "done" \/ ~alive

\* execute says that it returns a non-zero code when the child did not exit
\* cleanly: a command that ended with status 0 counts as successful.
ExecuteReturnsStatus ==
    [][pcP = "wait" /\ pcP' # "wait" /\ exit = "ok" => pcP' = "open"]_vars

-----------------------------------------------------------------------------
\* The stage of a command, from where the threads are and what they hold.
LifeOf(k) == IF k > cmd THEN "unknown"
             ELSE IF k = cmd /\ pcP \in {"wait", "open", "insert"} THEN "running"
             ELSE IF k \notin queued THEN "dropped"
             ELSE IF k \in {queue[i].cmd : i \in DOMAIN queue} THEN "queued"
             ELSE IF post[k] # "done" THEN "posting"
             ELSE "done"

Life == INSTANCE CommandLife WITH life <- [k \in Cmds |-> LifeOf(k)]

\* The threads, the child process, the handler and the queue together do what
\* CommandLife says of the commands: none is run twice or overtaken, none that
\* failed is posted, and none is posted again.
LifeSpec == Life!Spec

\* Results are numbered in the order in which they are queued.
Rank(k) == Cardinality({j \in queued : j <= k})

Fifo == INSTANCE ResultFifo WITH MaxResults <- MaxCmds,
                                 put <- Cardinality(queued),
                                 waiting <- {Rank(queue[i].cmd) : i \in DOMAIN queue},
                                 last <- Cardinality(queued) - Len(queue)

\* To the ping thread and the main loop the queue of this module is the one
\* that smartac_resultqueue.c implements: first in, first out, nothing lost.
FifoSpec == Fifo!Spec
=============================================================================
