---------------------------- MODULE Termination ----------------------------
(***************************************************************************)
(* How the daemon stops: main_loop starts the threads, init_signals        *)
(* installs termination_handler for the signals that ask the process to    *)
(* end, and the kernel runs the handler on any thread, on top of whatever  *)
(* the thread was doing.  A signal is blocked in its own handler (sa_mask  *)
(* is empty), so that another signal, or another thread, can enter the     *)
(* handler a second time.                                                  *)
(***************************************************************************)
EXTENDS Naturals, Sequences

CONSTANTS Signals,          \* of SIGTERM, SIGQUIT and SIGINT, those that are sent
          MaxSent,          \* bound on the signals sent
          NULL

Threads == {"main", "ping", "post"}

ASSUME SentAssumption == MaxSent \in Nat
ASSUME NullAssumption == NULL \notin Threads \cup Signals

VARIABLES status,           \* of the process
          phase,            \* how far main_loop has come
          threads,          \* the threads that run
          tidPing,          \* tid_ping, NULL before the thread is created
          frontData,        \* cmdrets_queue.front->data
          pending, sent,    \* signals the kernel has not delivered; how many were sent
          frames,           \* handler frames on each thread's stack, the top first
          sigtermMutex,     \* the thread that has taken sigterm_mutex, or NULL
          chains            \* the firewall chains of the update script exist

process == <<status, phase, threads, tidPing, frontData>>
vars == <<process, pending, sent, frames, sigtermMutex, chains>>

Init == /\ status = "running"
        /\ phase = "start"
        /\ threads = {"main"}
        /\ tidPing = NULL
        /\ frontData = "unset"
        /\ pending = {} /\ sent = 0
        /\ frames = [t \in Threads |-> <<>>]
        /\ sigtermMutex = NULL
        /\ chains = FALSE

Running == status = "running"

\* A thread does its own work when no handler runs on it.
Free(t) == Running /\ t \in threads /\ frames[t] = <<>>

-----------------------------------------------------------------------------
\* initial_queue: safe_malloc fills the empty node with zeroes.
InitialQueue == /\ Free("main") /\ phase = "start"
                /\ frontData' = NULL
                /\ phase' = "queue"
                /\ UNCHANGED <<status, threads, tidPing, pending, sent, frames,
                               sigtermMutex, chains>>

\* exit() in what comes before the queue, or because there is no memory for it.
StartFails == /\ Free("main") /\ phase = "start"
              /\ status' = "exited"
              /\ UNCHANGED <<phase, threads, tidPing, frontData, pending, sent, frames,
                             sigtermMutex, chains>>

InitSignals == /\ Free("main") /\ phase = "queue"
               /\ phase' = "signals"
               /\ UNCHANGED <<status, threads, tidPing, frontData, pending, sent,
                              frames, sigtermMutex, chains>>

CreatePing == /\ Free("main") /\ phase = "signals"
              /\ tidPing' = "ping"
              /\ threads' = threads \cup {"ping"}
              /\ phase' = "loop"
              /\ UNCHANGED <<status, frontData, pending, sent, frames, sigtermMutex, chains>>

Frame(sig) == [sig |-> sig, pc |-> "try"]

Push(t, frame) == frames' = [frames EXCEPT ![t] = <<frame>> \o @]

\* pthread_create fails: main_loop calls termination_handler(0) itself.
CreatePingFails == /\ Free("main") /\ phase = "signals"
                   /\ phase' = "loop"
                   /\ Push("main", Frame(NULL))
                   /\ UNCHANGED <<status, threads, tidPing, frontData, pending, sent,
                                  sigtermMutex, chains>>

\* The update script makes its chains when the ping thread runs it.
UpdateInformation == /\ Free("ping") /\ ~chains
                     /\ chains' = TRUE
                     /\ UNCHANGED <<process, pending, sent, frames, sigtermMutex>>

StartPost == /\ Free("main") /\ phase = "loop" /\ "post" \notin threads
             /\ threads' = threads \cup {"post"}
             /\ UNCHANGED <<status, phase, tidPing, frontData, pending, sent, frames,
                            sigtermMutex, chains>>

PostEnds == /\ Free("post")
            /\ threads' = threads \ {"post"}
            /\ UNCHANGED <<status, phase, tidPing, frontData, pending, sent, frames,
                           sigtermMutex, chains>>

-----------------------------------------------------------------------------
\* Mutant of Send: the handler is installed before there is a queue.
SendAlwaysHandled(sig) ==
    /\ Running /\ sent < MaxSent
    /\ sent' = sent + 1
    /\ pending' = pending \cup {sig}
    /\ UNCHANGED <<process, frames, sigtermMutex, chains>>

\* A signal arrives.  Before init_signals it ends the process.
Send(sig) == /\ Running /\ sent < MaxSent
             /\ sent' = sent + 1
             /\ IF phase \in {"start", "queue"}
                  THEN status' = "killed" /\ UNCHANGED pending
                  ELSE pending' = pending \cup {sig} /\ UNCHANGED status
             /\ UNCHANGED <<phase, threads, tidPing, frontData, frames, sigtermMutex, chains>>

\* Mutant of Blocked: a handler can be interrupted by its own signal.
BlockedNever(t, sig) == FALSE

\* The signals that are blocked while their handlers run on a thread.
Blocked(t, sig) == \E i \in DOMAIN frames[t] : frames[t][i].sig = sig

Deliver(t, sig) == /\ Running /\ t \in threads
                   /\ sig \in pending /\ ~Blocked(t, sig)
                   /\ pending' = pending \ {sig}
                   /\ Push(t, Frame(sig))
                   /\ UNCHANGED <<process, sent, sigtermMutex, chains>>

\* The innermost handler of a thread is at a step.
At(t, pc) == Running /\ t \in threads /\ frames[t] # <<>> /\ Head(frames[t]).pc = pc

Goto(t, pc) == frames' = [frames EXCEPT ![t][1].pc = pc]

\* Mutant of TryLock: the mutex is not tested.
TryLockAlways(t) == /\ At(t, "try")
                    /\ sigtermMutex' = t
                    /\ Goto(t, "kill")
                    /\ UNCHANGED <<process, pending, sent, chains>>

\* pthread_mutex_trylock succeeds for the first caller.
TryLock(t) == /\ At(t, "try") /\ sigtermMutex = NULL
              /\ sigtermMutex' = t
              /\ Goto(t, "kill")
              /\ UNCHANGED <<process, pending, sent, chains>>

\* Every other caller ends its thread, and the process with the last thread.
TryLockFails(t) == /\ At(t, "try") /\ sigtermMutex # NULL
                   /\ threads' = threads \ {t}
                   /\ frames' = [frames EXCEPT ![t] = <<>>]
                   /\ status' = IF threads' = {} THEN "exited" ELSE status
                   /\ UNCHANGED <<phase, tidPing, frontData, pending, sent,
                                  sigtermMutex, chains>>

\* pthread_kill(tid_ping, SIGKILL): SIGKILL ends the process, whichever thread
\* it is sent to.  The identifier of a detached thread that has ended means
\* nothing: the call does nothing or touches memory that is gone.
KillPing(t) == /\ At(t, "kill") /\ tidPing \notin {NULL, t}
               /\ IF tidPing \in threads
                    THEN status' = "killed" /\ UNCHANGED frames
                    ELSE \/ status' = "segv" /\ UNCHANGED frames
                         \/ Goto(t, "destroy") /\ UNCHANGED status
               /\ UNCHANGED <<phase, threads, tidPing, frontData, pending, sent,
                              sigtermMutex, chains>>

KeepPing(t) == /\ At(t, "kill") /\ tidPing \in {NULL, t}
               /\ Goto(t, "destroy")
               /\ UNCHANGED <<process, pending, sent, sigtermMutex, chains>>

\* destroy_queue frees front->data first, which dereferences it; then the
\* script removes the chains and the process exits.
DestroyAndExit(t) == /\ At(t, "destroy")
                     /\ IF frontData = NULL
                          THEN status' = "segv" /\ UNCHANGED chains
                          ELSE status' = "exited" /\ chains' = FALSE
                     /\ UNCHANGED <<phase, threads, tidPing, frontData, pending, sent,
                                    frames, sigtermMutex>>

-----------------------------------------------------------------------------
TerminationHandler(t) == \/ TryLock(t) \/ TryLockFails(t) \/ KillPing(t)
                         \/ KeepPing(t) \/ DestroyAndExit(t)

MainLoop == \/ StartFails \/ InitialQueue \/ InitSignals
            \/ CreatePing \/ CreatePingFails \/ StartPost

Next == \/ MainLoop \/ UpdateInformation \/ PostEnds
        \/ \E sig \in Signals : Send(sig)
        \/ \E t \in Threads, sig \in Signals : Deliver(t, sig)
        \/ \E t \in Threads : TerminationHandler(t)

Spec == Init /\ [][Next]_vars

\* The kernel delivers a signal to some thread that does not block it, and
\* every thread runs.
Fairness ==
    /\ \A sig \in Signals : WF_vars(\E t \in Threads : Deliver(t, sig))
    /\ \A t \in Threads : WF_vars(TerminationHandler(t))

FairSpec == Spec /\ Fairness

-----------------------------------------------------------------------------
\* Handlers run on live threads of a process that has installed them.
TypeOK == /\ status \in {"running", "killed", "segv", "exited"}
          /\ phase \in {"start", "queue", "signals", "loop"}
          /\ threads \subseteq Threads
          /\ tidPing \in {NULL, "ping"}
          /\ pending \subseteq Signals
          /\ sent \in 0..MaxSent
          /\ sigtermMutex \in Threads \cup {NULL}
          /\ chains \in BOOLEAN
          /\ \A t \in Threads : frames[t] # <<>> =>
               t \in threads /\ phase \in {"signals", "loop"}

\* A call of the handler that got past the mutex.
Past(frame) == frame.pc # "try"

\* "Makes sure we only call fw_destroy() once": at most one call of the
\* handler gets past the mutex, on whatever threads the signals arrive.
OnlyOnce == \A t, u \in Threads :
    \A i \in DOMAIN frames[t], j \in DOMAIN frames[u] :
        Past(frames[t][i]) /\ Past(frames[u][j]) => t = u /\ i = j

\* The thread that has begun the termination lives until the process ends: a
\* signal that is sent again does not end it.
OwnerLives == Running /\ sigtermMutex # NULL =>
    sigtermMutex \in threads /\ \E i \in DOMAIN frames[sigtermMutex] : Past(frames[sigtermMutex][i])

\* A request to end ends the process.
RequestEnds == pending # {} ~> ~Running

\* "Exits cleanly after cleaning up the firewall": when the handler has begun
\* and the process has ended, the chains are gone.
CleansUp == sigtermMutex # NULL /\ ~Running => ~chains
=============================================================================
