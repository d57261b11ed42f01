----------------------------- MODULE AcServers -----------------------------
(***************************************************************************)
(* The list of AC servers and the exchanges with them: get_ac_server,      *)
(* connect_ac_server, mark_ac_server_bad and http_get, called by the ping  *)
(* thread and by the threads that post results.  The list is shared and    *)
(* guarded by config_mutex; get_ac_server reads its head without the lock. *)
(* DNS and the servers answer as they like; last_ip, which only remembers  *)
(* the address that a name had, is left out.                               *)
(***************************************************************************)
EXTENDS Naturals, Sequences

CONSTANTS Threads,          \* threads that talk to the servers
          Configured,       \* the servers of the configuration file, in order
          NULL

N == Len(Configured)

Servers == {Configured[i] : i \in 1..N}

\* config_validate ends the program when no server is configured; every
\* SmartAcServer section makes a record of its own.
ASSUME ConfiguredAssumption ==
    /\ Configured \in Seq(Servers) /\ N > 0
    /\ \A i, j \in 1..N : Configured[i] = Configured[j] => i = j
ASSUME NullAssumption == NULL \notin Servers \cup Threads

VARIABLES servers,          \* config.ac_servers, the head first
          configMutex,      \* the thread that holds config_mutex, or NULL
          pc,               \* where each thread is
          level,            \* argument of _connect_ac_server
          target,           \* server whose paths and name are in the request
          conn,             \* server the thread's socket is connected to
          socks,            \* sockets the thread has open
          outcome,          \* how its last _connect_ac_server ended
          listAtLock,       \* history: the list when it took the mutex
          tried             \* history: servers that have failed in this call

call == <<level, conn, socks, outcome, listAtLock, tried>>
vars == <<servers, configMutex, pc, target, call>>

Init == /\ servers = Configured
        /\ configMutex = NULL
        /\ pc = [t \in Threads |-> "idle"]
        /\ level = [t \in Threads |-> 0]
        /\ target = [t \in Threads |-> NULL]
        /\ conn = [t \in Threads |-> NULL]
        /\ socks = [t \in Threads |-> 0]
        /\ outcome = [t \in Threads |-> "none"]
        /\ listAtLock = [t \in Threads |-> Configured]
        /\ tried = [t \in Threads |-> {}]

-----------------------------------------------------------------------------
\* get_ac_server at the start of ping and of thread_post_result, without the
\* lock; the request is built from its fields.
GetAcServer(t) == /\ pc[t] = "idle"
                  /\ target' = [target EXCEPT ![t] = Head(servers)]
                  /\ pc' = [pc EXCEPT ![t] = "build"]
                  /\ UNCHANGED <<servers, configMutex, call>>

\* Mutant of ConnectAcServer: the mutex is taken whoever has it.
ConnectAcServerUnlocked(t) ==
    /\ pc[t] = "build"
    /\ configMutex' = t
    /\ pc' = [pc EXCEPT ![t] = "attempt"]
    /\ level' = [level EXCEPT ![t] = 1]
    /\ tried' = [tried EXCEPT ![t] = {}]
    /\ listAtLock' = [listAtLock EXCEPT ![t] = servers]
    /\ UNCHANGED <<servers, target, conn, socks, outcome>>

\* connect_ac_server: LOCK_CONFIG and the first call, whose level becomes 1.
ConnectAcServer(t) ==
    /\ pc[t] = "build"
    /\ configMutex = NULL
    /\ configMutex' = t
    /\ pc' = [pc EXCEPT ![t] = "attempt"]
    /\ level' = [level EXCEPT ![t] = 1]
    /\ tried' = [tried EXCEPT ![t] = {}]
    /\ listAtLock' = [listAtLock EXCEPT ![t] = servers]
    /\ UNCHANGED <<servers, target, conn, socks, outcome>>

\* Mutant of MarkAcServerBad: the bad server is dropped from the list.
MarkBadDrop(s) == IF Head(servers) = s /\ N > 1
                  THEN Append(Tail(servers), Head(Tail(servers)))
                  ELSE servers

\* mark_ac_server_bad: the head becomes the last one.
MarkAcServerBad(s) == IF Head(servers) = s /\ N > 1
                      THEN Append(Tail(servers), s)
                      ELSE servers

\* _connect_ac_server returns.
Return(t, how, s) == /\ pc' = [pc EXCEPT ![t] = "unlock"]
                     /\ outcome' = [outcome EXCEPT ![t] = how]
                     /\ conn' = [conn EXCEPT ![t] = s]
                     /\ UNCHANGED <<configMutex, target, level, listAtLock, tried>>

\* _connect_ac_server marks the head bad and calls itself.
NextLevel(t) == /\ servers' = MarkAcServerBad(Head(servers))
                /\ level' = [level EXCEPT ![t] = @ + 1]
                /\ tried' = [tried EXCEPT ![t] = @ \cup {Head(servers)}]
                /\ UNCHANGED <<configMutex, pc, target, conn, outcome, listAtLock>>

\* There is a server that this call has not tried.
MayTry(t) == pc[t] = "attempt" /\ level[t] <= N

\* Mutant of TooManyLevels: gives up when the last server is to be tried.
TooManyLevelsOffByOne(t) == pc[t] = "attempt" /\ level[t] >= N

TooManyLevels(t) == pc[t] = "attempt" /\ level[t] > N

GiveUp(t) == /\ TooManyLevels(t)
             /\ Return(t, "exhausted", NULL)
             /\ UNCHANGED <<servers, socks>>

\* Neither the server's name nor any popular one resolves.
NoDns(t) == /\ MayTry(t)
            /\ Return(t, "offline", NULL)
            /\ UNCHANGED <<servers, socks>>

\* Only the server's own name does not resolve.
UnknownHost(t) == /\ MayTry(t)
                  /\ NextLevel(t)
                  /\ UNCHANGED socks

\* The name resolves and socket() fails.
NoSocket(t) == /\ MayTry(t)
               /\ Return(t, "nosocket", NULL)
               /\ UNCHANGED <<servers, socks>>

\* Mutant of Refused: the socket is not closed.
RefusedNoClose(t) ==
    /\ MayTry(t)
    /\ NextLevel(t)
    /\ socks' = [socks EXCEPT ![t] = @ + 1]

\* The name resolves and connect() fails; the socket is closed again.
Refused(t) == /\ MayTry(t)
              /\ NextLevel(t)
              /\ UNCHANGED socks

Connected(t) == /\ MayTry(t)
                /\ Return(t, "connected", Head(servers))
                /\ socks' = [socks EXCEPT ![t] = @ + 1]
                /\ UNCHANGED servers

\* The caller goes on to http_get, or returns when it got no socket; what was
\* local to _connect_ac_server is gone.
LeaveConnect(t) ==
    /\ pc' = [pc EXCEPT ![t] = IF conn[t] = NULL THEN "idle" ELSE "send"]
    /\ target' = [target EXCEPT ![t] = IF conn[t] = NULL THEN NULL ELSE @]
    /\ level' = [level EXCEPT ![t] = 0]
    /\ outcome' = [outcome EXCEPT ![t] = "none"]
    /\ listAtLock' = [listAtLock EXCEPT ![t] = Configured]
    /\ tried' = [tried EXCEPT ![t] = {}]
    /\ UNCHANGED <<servers, conn, socks>>

\* Mutant of UnlockConfig: the mutex is kept on failure.
UnlockIfConnected(t) ==
    /\ pc[t] = "unlock"
    /\ configMutex' = IF conn[t] = NULL THEN configMutex ELSE NULL
    /\ LeaveConnect(t)

\* UNLOCK_CONFIG.
UnlockConfig(t) == /\ pc[t] = "unlock"
                   /\ configMutex' = NULL
                   /\ LeaveConnect(t)

-----------------------------------------------------------------------------
\* http_get: the request goes out whole.
HttpSend(t) == /\ pc[t] = "send"
               /\ pc' = [pc EXCEPT ![t] = "read"]
               /\ UNCHANGED <<servers, configMutex, target, call>>

CloseSocket(t) == /\ pc' = [pc EXCEPT ![t] = "idle"]
                  /\ socks' = [socks EXCEPT ![t] = @ - 1]
                  /\ conn' = [conn EXCEPT ![t] = NULL]
                  /\ target' = [target EXCEPT ![t] = NULL]
                  /\ UNCHANGED <<servers, configMutex, level, outcome,
                                 listAtLock, tried>>

\* The server has closed the connection: the response is complete.
HttpDone(t) == pc[t] = "read" /\ CloseSocket(t)

\* send fails or is partial; select or read fails or 30 seconds pass.
HttpError(t) == pc[t] \in {"send", "read"} /\ CloseSocket(t)

-----------------------------------------------------------------------------
Attempt(t) == \/ GiveUp(t) \/ NoDns(t) \/ UnknownHost(t) \/ NoSocket(t)
              \/ Refused(t) \/ Connected(t)

Step(t) == GetAcServer(t) \/ ConnectAcServer(t) \/ Attempt(t) \/ UnlockConfig(t)
           \/ HttpSend(t) \/ HttpDone(t) \/ HttpError(t)

Next == \E t \in Threads : Step(t)

Spec == Init /\ [][Next]_vars

\* DNS and connect() return in the end, and a thread that waits for the
\* mutex gets it: between two calls the others sleep or end.
Fairness == \A t \in Threads : /\ WF_vars(Attempt(t))
                               /\ WF_vars(UnlockConfig(t))
                               /\ SF_vars(ConnectAcServer(t))

FairSpec == Spec /\ Fairness

-----------------------------------------------------------------------------
\* The list has one place per server and the mutex at most one holder.
TypeOK == /\ servers \in [1..N -> Servers]
          /\ configMutex \in Threads \cup {NULL}
          /\ pc \in [Threads -> {"idle", "build", "attempt", "unlock", "send", "read"}]
          /\ level \in [Threads -> 0..N + 1]
          /\ target \in [Threads -> Servers \cup {NULL}]
          /\ conn \in [Threads -> Servers \cup {NULL}]
          /\ socks \in [Threads -> Nat]
          /\ outcome \in [Threads -> {"none", "connected", "exhausted", "offline", "nosocket"}]
          /\ listAtLock \in [Threads -> [1..N -> Servers]]
          /\ tried \in [Threads -> SUBSET Servers]

\* Rotation neither loses nor doubles a server: mark_ac_server_bad relinks
\* three pointers, whichever thread and however often it is called.
EveryServerListed == \A s \in Servers : \E i \in 1..N : servers[i] = s

\* connect_ac_server says that no server can be reached only after it has
\* tried every one of them, and then leaves the list in the order it found.
ExhaustedMeansAll ==
    \A t \in Threads : pc[t] = "unlock" /\ outcome[t] = "exhausted" =>
        /\ tried[t] = Servers
        /\ servers = listAtLock[t]

\* No call tries the same server twice: the head is new at each level.
NeverTwice == \A t \in Threads : MayTry(t) => Head(servers) \notin tried[t]

\* Each thread has one socket open while it exchanges and none when it is
\* done, whatever failed on the way.
NoSocketLeak == \A t \in Threads :
    /\ pc[t] \in {"idle", "build", "attempt"} => socks[t] = 0
    /\ socks[t] <= 1

\* The inductive invariant behind these: the holder of the mutex walks through
\* the list as it found it, one place per level.
Walk(t) == LET old == listAtLock[t]
               done == level[t] - 1
           IN /\ \A i \in 1..N : servers[i] = IF i + done <= N THEN old[i + done]
                                             ELSE old[i + done - N]
              /\ tried[t] = {old[i] : i \in 1..done}

OnePlaceEach(list) == /\ \A i, j \in 1..N : list[i] = list[j] => i = j
                      /\ \A s \in Servers : \E i \in 1..N : list[i] = s

ThreadInv(t) ==
    /\ pc[t] \in {"attempt", "unlock"} <=> configMutex = t
    /\ OnePlaceEach(listAtLock[t])
    /\ pc[t] = "attempt" => level[t] \in 1..N + 1 /\ Walk(t)
    /\ pc[t] = "unlock" /\ outcome[t] = "exhausted" =>
         tried[t] = Servers /\ servers = listAtLock[t]
    /\ socks[t] = IF conn[t] = NULL THEN 0 ELSE 1
    /\ pc[t] \in {"idle", "build", "attempt"} => conn[t] = NULL
    /\ pc[t] \in {"send", "read"} => conn[t] # NULL

\* connect_ac_server tries the servers in the order of the list, each once,
\* while it holds config_mutex, and its sockets match its result.
ServersInv == TypeOK /\ OnePlaceEach(servers) /\ \A t \in Threads : ThreadInv(t)

\* wifismartac.conf gives every server its own PingPath and ResultPath: the
\* request that goes to a server was made from that server's record.
RequestMatchesServer == \A t \in Threads : pc[t] \in {"send", "read"} => conn[t] = target[t]

-----------------------------------------------------------------------------
StageOf(where) == IF where = "idle" THEN "idle"
                  ELSE IF where \in {"send", "read"} THEN "connected"
                  ELSE "prepared"

\* A walk through the list that is going on shows when it ends.
Choice == INSTANCE ServerChoice WITH
    list <- IF configMutex = NULL THEN servers ELSE listAtLock[configMutex],
    stage <- [t \in Threads |-> StageOf(pc[t])],
    conn <- [t \in Threads |-> IF pc[t] \in {"send", "read"} THEN conn[t] ELSE NULL]

\* To its callers connect_ac_server, with its recursion, its name look-ups and
\* the list that mark_ac_server_bad relinks at each level, is one step: no two
\* walks mix, each passes over fewer servers than there are, and the list never
\* gets out of the order of the file.
ChoiceSpec == Choice!Spec
=============================================================================
