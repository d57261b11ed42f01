--------------------------- MODULE AcServersProof ---------------------------
(***************************************************************************)
(* ServersInv is an invariant of AcServers for every configured list and   *)
(* any number of threads: connect_ac_server tries each server once and     *)
(* reports failure only after all of them.                                 *)
(***************************************************************************)
EXTENDS AcServers, SequenceTheorems, TLAPS

\* The configured list, as a function.
LEMMA ConfiguredList ==
    /\ N \in Nat \ {0}
    /\ Configured \in [1..N -> Servers]
    /\ OnePlaceEach(Configured)
<1>1. N \in Nat /\ Configured \in [1..N -> Servers]
  BY ConfiguredAssumption, LenProperties DEF N
<1>2. OnePlaceEach(Configured)
  BY ConfiguredAssumption DEF OnePlaceEach, Servers
<1> QED BY <1>1, <1>2, ConfiguredAssumption

\* mark_ac_server_bad of the head is a rotation by one place.
LEMMA MarkBadRotates ==
    ASSUME servers \in [1..N -> Servers]
    PROVE  LET new == MarkAcServerBad(Head(servers))
           IN  /\ new \in [1..N -> Servers]
               /\ \A i \in 1..N : new[i] = IF i < N THEN servers[i + 1] ELSE servers[1]
               /\ Head(servers) = servers[1]
<1>0. N \in Nat \ {0}
  BY ConfiguredList
<1>1. servers \in Seq(Servers) /\ Len(servers) = N
  BY <1>0, IsASeq, LenProperties
<1>2. Head(servers) = servers[1] /\ servers[1] \in Servers
  BY <1>0, <1>1
<1>3. CASE N = 1
  BY <1>0, <1>2, <1>3 DEF MarkAcServerBad
<1>4. CASE N > 1
  <2>1. /\ Tail(servers) \in Seq(Servers) /\ Len(Tail(servers)) = N - 1
        /\ \A i \in 1..N - 1 : Tail(servers)[i] = servers[i + 1]
    BY <1>0, <1>1, <1>4, EmptySeq, HeadTailProperties
  <2> DEFINE new == Append(Tail(servers), Head(servers))
  <2>2. /\ new \in Seq(Servers) /\ Len(new) = N /\ new[N] = servers[1]
        /\ \A i \in 1..N - 1 : new[i] = Tail(servers)[i]
    BY <1>0, <1>2, <2>1, <1>4, AppendProperties
  <2>3. new \in [1..N -> Servers]
    BY <2>2, LenProperties
  <2>4. \A i \in 1..N : new[i] = IF i < N THEN servers[i + 1] ELSE servers[1]
    BY <1>0, <2>1, <2>2
  <2>5. MarkAcServerBad(Head(servers)) = new
    BY <1>4 DEF MarkAcServerBad
  <2> QED BY <1>2, <2>3, <2>4, <2>5
<1> QED BY <1>0, <1>3, <1>4

LEMMA InitServers == Init => ServersInv
<1> SUFFICES ASSUME Init PROVE ServersInv
    OBVIOUS
<1> USE ConfiguredList, NullAssumption DEF Init
<1>1. TypeOK
  BY DEF TypeOK
<1>2. \A t \in Threads : ThreadInv(t)
  BY DEF ThreadInv
<1> QED BY <1>1, <1>2 DEF ServersInv

\* A step that leaves alone what a thread's invariant speaks of.
LEMMA ThreadFrame ==
    ASSUME NEW u \in Threads, ThreadInv(u), UNCHANGED servers,
           pc'[u] = pc[u], listAtLock'[u] = listAtLock[u], level'[u] = level[u],
           tried'[u] = tried[u], conn'[u] = conn[u], socks'[u] = socks[u],
           outcome'[u] = outcome[u], configMutex' = u <=> configMutex = u
    PROVE  ThreadInv(u)'
<1>1. Walk(u) => Walk(u)'
  BY DEF Walk
<1>2. OnePlaceEach(listAtLock[u])'
  BY DEF ThreadInv, OnePlaceEach
<1> QED BY <1>1, <1>2 DEF ThreadInv

\* Marking the head bad and going one level deeper keeps the walk.
LEMMA NextLevelWalks ==
    ASSUME ServersInv, NEW t \in Threads, MayTry(t), NextLevel(t),
           UNCHANGED socks
    PROVE  ServersInv'
<1> USE ConfiguredList, NullAssumption
<1>1. /\ TypeOK /\ OnePlaceEach(servers) /\ ThreadInv(t)
      /\ pc[t] = "attempt" /\ level[t] \in 1..N /\ configMutex = t
  BY DEF ServersInv, ThreadInv, MayTry, TypeOK
<1>2. /\ servers' \in [1..N -> Servers]
      /\ \A i \in 1..N : servers'[i] = IF i < N THEN servers[i + 1] ELSE servers[1]
      /\ Head(servers) = servers[1] /\ servers[1] \in Servers
  BY <1>1, MarkBadRotates DEF NextLevel, TypeOK
<1>3. TypeOK'
  BY <1>1, <1>2 DEF TypeOK, NextLevel
<1>4. OnePlaceEach(servers)'
  <2>1. ASSUME NEW i \in 1..N, NEW j \in 1..N, servers'[i] = servers'[j]
        PROVE  i = j
    <3>1. servers'[i] = IF i < N THEN servers[i + 1] ELSE servers[1]
      BY <1>2
    <3>2. servers'[j] = IF j < N THEN servers[j + 1] ELSE servers[1]
      BY <1>2
    <3>3. \A k, m \in 1..N : servers[k] = servers[m] => k = m
      BY <1>1 DEF OnePlaceEach
    <3>4. CASE i < N /\ j < N
      <4>1. i + 1 \in 1..N /\ j + 1 \in 1..N /\ servers[i + 1] = servers[j + 1]
        BY <3>1, <3>2, <3>4, <2>1
      <4>2. i + 1 = j + 1
        BY <4>1, <3>3
      <4> QED BY <4>2
    <3>5. CASE i < N /\ ~(j < N)
      <4>1. i + 1 \in 1..N /\ 1 \in 1..N /\ servers[i + 1] = servers[1]
        BY <3>1, <3>2, <3>5, <2>1
      <4> QED BY <4>1, <3>3
    <3>6. CASE ~(i < N) /\ j < N
      <4>1. j + 1 \in 1..N /\ 1 \in 1..N /\ servers[j + 1] = servers[1]
        BY <3>1, <3>2, <3>6, <2>1
      <4> QED BY <4>1, <3>3
    <3>7. CASE ~(i < N) /\ ~(j < N)
      BY <3>7
    <3> QED BY <3>4, <3>5, <3>6, <3>7
  <2>2. ASSUME NEW s \in Servers PROVE \E i \in 1..N : servers'[i] = s
    <3>1. PICK i \in 1..N : servers[i] = s
      BY <1>1 DEF OnePlaceEach
    <3>2. CASE i = 1
      BY <3>1, <3>2, <1>2
    <3>3. CASE i > 1
      BY <3>1, <3>3, <1>2
    <3> QED BY <3>2, <3>3
  <2> QED BY <2>1, <2>2 DEF OnePlaceEach
<1>5. Walk(t)'
  <2> DEFINE old == listAtLock[t]
             done == level[t] - 1
  <2>1. /\ \A i \in 1..N : servers[i] = IF i + done <= N THEN old[i + done]
                                         ELSE old[i + done - N]
        /\ tried[t] = {old[i] : i \in 1..done}
        /\ done \in 0..N - 1
    <3>1. Walk(t)
      BY <1>1 DEF ThreadInv
    <3>2. done \in 0..N - 1
      BY <1>1
    <3> QED BY <3>1, <3>2 DEF Walk
  <2>2. /\ level'[t] = level[t] + 1 /\ listAtLock'[t] = old
        /\ tried'[t] = tried[t] \cup {servers[1]}
    BY <1>1, <1>2 DEF NextLevel, TypeOK
  <2>3. servers[1] = old[done + 1]
    BY <2>1
  <2>4. ASSUME NEW i \in 1..N
        PROVE  servers'[i] = IF i + (done + 1) <= N THEN old[i + (done + 1)]
                             ELSE old[i + (done + 1) - N]
    <3>1. CASE i < N
      <4>1. servers'[i] = servers[i + 1] /\ i + 1 \in 1..N
        BY <3>1, <1>2
      <4>2. servers[i + 1] = IF (i + 1) + done <= N THEN old[(i + 1) + done]
                             ELSE old[(i + 1) + done - N]
        BY <4>1, <2>1
      <4>3. (i + 1) + done = i + (done + 1) /\ (i + 1) + done - N = i + (done + 1) - N
        BY <2>1
      <4> QED BY <4>1, <4>2, <4>3
    <3>2. CASE i = N
      <4>1. servers'[i] = old[done + 1]
        BY <3>2, <1>2, <2>3
      <4>2. ~(i + (done + 1) <= N) /\ i + (done + 1) - N = done + 1
        BY <3>2, <2>1
      <4> QED BY <4>1, <4>2
    <3> QED BY <3>1, <3>2
  <2>5. tried'[t] = {old[i] : i \in 1..done + 1}
    <3>1. 1..done + 1 = (1..done) \cup {done + 1}
      <4>1. done \in Int /\ 0 <= done
        BY <2>1
      <4> HIDE DEF done
      <4> QED BY <4>1
    <3> HIDE DEF done, old
    <3> QED BY <2>1, <2>2, <2>3, <3>1
  <2>6. level'[t] - 1 = done + 1
    BY <1>1, <2>2
  <2> QED BY <2>2, <2>4, <2>5, <2>6 DEF Walk
<1>6. ThreadInv(t)'
  <2>1. level'[t] \in 1..N + 1
    BY <1>1 DEF NextLevel, TypeOK
  <2> QED BY <1>1, <1>5, <2>1 DEF ThreadInv, NextLevel, OnePlaceEach
<1>7. ASSUME NEW u \in Threads, u # t PROVE ThreadInv(u)'
  <2>1. ThreadInv(u) /\ pc[u] \notin {"attempt", "unlock"}
    BY <1>1, <1>7 DEF ServersInv, ThreadInv
  <2> QED BY <1>1, <1>7, <2>1 DEF ThreadInv, NextLevel, OnePlaceEach
<1> QED BY <1>3, <1>4, <1>6, <1>7 DEF ServersInv

\* Returning from _connect_ac_server, whatever the reason.
LEMMA ReturnKeeps ==
    ASSUME ServersInv, NEW t \in Threads, pc[t] = "attempt",
           NEW how \in {"connected", "exhausted", "offline", "nosocket"},
           NEW s \in Servers \cup {NULL},
           Return(t, how, s), UNCHANGED servers,
           socks' = [socks EXCEPT ![t] = IF s = NULL THEN @ ELSE @ + 1],
           how = "exhausted" => level[t] > N
    PROVE  ServersInv'
<1> USE ConfiguredList, NullAssumption
<1>1. TypeOK /\ ThreadInv(t) /\ configMutex = t
  BY DEF ServersInv, ThreadInv
<1>2. TypeOK'
  BY <1>1 DEF TypeOK, Return
<1>3. how = "exhausted" => tried[t] = Servers /\ servers = listAtLock[t]
  <2> SUFFICES ASSUME how = "exhausted" PROVE tried[t] = Servers /\ servers = listAtLock[t]
    OBVIOUS
  <2> DEFINE old == listAtLock[t]
  <2>1. level[t] - 1 = N /\ Walk(t)
    <3>1. level[t] \in 1..N + 1 /\ Walk(t)
      BY <1>1 DEF ThreadInv
    <3>2. level[t] > N
      OBVIOUS
    <3> QED BY <3>1, <3>2
  <2>2. /\ \A i \in 1..N : servers[i] = IF i + N <= N THEN old[i + N] ELSE old[i + N - N]
        /\ tried[t] = {old[i] : i \in 1..N}
    BY <2>1 DEF Walk
  <2>3. \A i \in 1..N : ~(i + N <= N) /\ i + N - N = i
    OBVIOUS
  <2>4. \A i \in 1..N : servers[i] = old[i]
    BY <2>2, <2>3
  <2>5. servers = old
    BY <1>1, <2>4 DEF TypeOK
  <2>6. tried[t] = Servers
    <3>1. \A i \in 1..N : old[i] \in Servers
      BY <1>1 DEF TypeOK
    <3>2. \A x \in Servers : \E i \in 1..N : old[i] = x
      BY <1>1 DEF ThreadInv, OnePlaceEach
    <3>3. tried[t] = {old[i] : i \in 1..N}
      BY <2>2
    <3> HIDE DEF old
    <3>4. {old[i] : i \in 1..N} \subseteq Servers
      BY <3>1
    <3>5. Servers \subseteq {old[i] : i \in 1..N}
      BY <3>2
    <3> QED BY <3>3, <3>4, <3>5
  <2> QED BY <2>5, <2>6
<1>4. ThreadInv(t)'
  BY <1>1, <1>3 DEF ThreadInv, Return, OnePlaceEach, TypeOK
<1>5. ASSUME NEW u \in Threads, u # t PROVE ThreadInv(u)'
  <2>1. ThreadInv(u) /\ pc[u] \notin {"attempt", "unlock"}
    BY <1>1, <1>5 DEF ServersInv, ThreadInv
  <2> QED BY <1>1, <1>5, <2>1, ThreadFrame DEF Return, TypeOK
<1> QED BY <1>2, <1>4, <1>5 DEF ServersInv, OnePlaceEach

LEMMA ServersStep == ServersInv /\ [Next]_vars => ServersInv'
<1> SUFFICES ASSUME ServersInv, [Next]_vars PROVE ServersInv'
    OBVIOUS
<1> USE ConfiguredList, NullAssumption
<1>0. TypeOK /\ OnePlaceEach(servers) /\ \A u \in Threads : ThreadInv(u)
  BY DEF ServersInv
<1>h. Head(servers) \in Servers
  BY <1>0, MarkBadRotates DEF TypeOK
<1>1. CASE UNCHANGED vars
  <2> USE <1>0, <1>1 DEF vars, call
  <2>1. TypeOK'
    BY DEF TypeOK
  <2>2. \A u \in Threads : ThreadInv(u)'
    BY ThreadFrame
  <2> QED BY <2>1, <2>2 DEF ServersInv, OnePlaceEach
<1>2. ASSUME NEW t \in Threads, GetAcServer(t) PROVE ServersInv'
  <2> USE <1>0, <1>2 DEF GetAcServer, call
  <2>1. TypeOK'
    BY <1>h DEF TypeOK
  <2>2. OnePlaceEach(listAtLock[t])'
    BY DEF ThreadInv, OnePlaceEach
  <2>3. ThreadInv(t)'
    BY <2>2 DEF ThreadInv, TypeOK
  <2>4. ASSUME NEW u \in Threads, u # t PROVE ThreadInv(u)'
    BY <2>4, ThreadFrame DEF TypeOK
  <2> QED BY <2>1, <2>3, <2>4 DEF ServersInv, OnePlaceEach
<1>3. ASSUME NEW t \in Threads, ConnectAcServer(t) PROVE ServersInv'
  <2> USE <1>0, <1>3 DEF ConnectAcServer
  <2>1. TypeOK'
    BY DEF TypeOK
  <2>2. OnePlaceEach(servers)'
    BY DEF OnePlaceEach
  <2>3. Walk(t)'
    <3>1. listAtLock'[t] = servers /\ tried'[t] = {} /\ level'[t] - 1 = 0 /\ servers' = servers
      BY DEF TypeOK
    <3>2. \A i \in 1..N : i + 0 <= N /\ i + 0 = i
      OBVIOUS
    <3>3. {servers[i] : i \in 1..0} = {}
      OBVIOUS
    <3> QED BY <3>1, <3>2, <3>3 DEF Walk
  <2>4. ThreadInv(t)'
    <3>1. OnePlaceEach(listAtLock[t])'
      BY DEF OnePlaceEach, TypeOK
    <3>2. /\ pc'[t] = "attempt" /\ configMutex' = t /\ level'[t] = 1
          /\ conn'[t] = conn[t] /\ socks'[t] = socks[t] /\ pc[t] = "build"
      BY DEF TypeOK
    <3>3. socks[t] = 0 /\ conn[t] = NULL
      BY <3>2 DEF ThreadInv
    <3> QED BY <2>3, <3>1, <3>2, <3>3 DEF ThreadInv
  <2>5. ASSUME NEW u \in Threads, u # t PROVE ThreadInv(u)'
    BY <2>5, ThreadFrame DEF TypeOK
  <2> QED BY <2>1, <2>2, <2>4, <2>5 DEF ServersInv
<1>4. ASSUME NEW t \in Threads, GiveUp(t) \/ NoDns(t) PROVE ServersInv'
  <2>1. PICK how \in {"exhausted", "offline"} :
          Return(t, how, NULL) /\ (how = "exhausted" => level[t] > N)
    BY <1>4 DEF GiveUp, NoDns, TooManyLevels
  <2>2. socks' = [socks EXCEPT ![t] = @]
    BY <1>0, <1>4 DEF GiveUp, NoDns, TypeOK
  <2>3. pc[t] = "attempt" /\ UNCHANGED servers
    BY <1>4 DEF GiveUp, NoDns, TooManyLevels, MayTry
  <2>5. how \in {"connected", "exhausted", "offline", "nosocket"}
    OBVIOUS
  <2>6. socks' = [socks EXCEPT ![t] = IF NULL = NULL THEN @ ELSE @ + 1]
    BY <2>2
  <2> QED BY <2>1, <2>3, <2>5, <2>6, ReturnKeeps
<1>5. ASSUME NEW t \in Threads, UnknownHost(t) PROVE ServersInv'
  BY <1>5, NextLevelWalks DEF UnknownHost
<1>6. ASSUME NEW t \in Threads, NoSocket(t) PROVE ServersInv'
  <2>1. socks' = [socks EXCEPT ![t] = @]
    BY <1>0, <1>6 DEF NoSocket, TypeOK
  <2> QED BY <1>6, <2>1, ReturnKeeps DEF NoSocket, MayTry
<1>7. ASSUME NEW t \in Threads, Refused(t) PROVE ServersInv'
  BY <1>7, NextLevelWalks DEF Refused
<1>8. ASSUME NEW t \in Threads, Connected(t) PROVE ServersInv'
  <2>2. Head(servers) # NULL
    BY <1>h
  <2> QED BY <1>8, <1>h, <2>2, ReturnKeeps DEF Connected, MayTry
<1>9. ASSUME NEW t \in Threads, UnlockConfig(t) PROVE ServersInv'
  <2> USE <1>0, <1>9 DEF UnlockConfig, LeaveConnect
  <2>1. TypeOK'
    BY DEF TypeOK
  <2>2. ThreadInv(t)'
    <3>1. OnePlaceEach(listAtLock[t])'
      BY DEF OnePlaceEach, TypeOK
    <3> QED BY <3>1 DEF ThreadInv, TypeOK
  <2>3. ASSUME NEW u \in Threads, u # t PROVE ThreadInv(u)'
    <3>1. configMutex = t
      BY DEF ThreadInv
    <3> QED BY <2>3, <3>1, ThreadFrame DEF TypeOK
  <2> QED BY <2>1, <2>2, <2>3 DEF ServersInv, OnePlaceEach
<1>10. ASSUME NEW t \in Threads, HttpSend(t) PROVE ServersInv'
  <2> USE <1>0, <1>10 DEF HttpSend, call
  <2>1. TypeOK'
    BY DEF TypeOK
  <2>2. OnePlaceEach(listAtLock[t])'
    BY DEF ThreadInv, OnePlaceEach
  <2>3. ThreadInv(t)'
    BY <2>2 DEF ThreadInv, TypeOK
  <2>4. ASSUME NEW u \in Threads, u # t PROVE ThreadInv(u)'
    BY <2>4, ThreadFrame DEF TypeOK
  <2> QED BY <2>1, <2>3, <2>4 DEF ServersInv, OnePlaceEach
<1>11. ASSUME NEW t \in Threads, HttpDone(t) \/ HttpError(t) PROVE ServersInv'
  <2>1. pc[t] \in {"send", "read"} /\ CloseSocket(t)
    BY <1>11 DEF HttpDone, HttpError
  <2> USE <1>0, <2>1 DEF CloseSocket
  <2>2. socks[t] = 1
    BY DEF ThreadInv
  <2>3. TypeOK'
    BY <2>2 DEF TypeOK
  <2>4. ThreadInv(t)'
    <3>1. OnePlaceEach(listAtLock[t])'
      BY DEF ThreadInv, OnePlaceEach
    <3> QED BY <2>2, <3>1 DEF ThreadInv, TypeOK
  <2>5. ASSUME NEW u \in Threads, u # t PROVE ThreadInv(u)'
    BY <2>5, ThreadFrame DEF TypeOK
  <2> QED BY <2>3, <2>4, <2>5 DEF ServersInv, OnePlaceEach
<1> QED
  BY <1>1, <1>2, <1>3, <1>4, <1>5, <1>6, <1>7, <1>8, <1>9, <1>10, <1>11
     DEF Next, Step, Attempt

\* connect_ac_server walks the list in order under the lock, for any list of
\* servers and any number of threads.
THEOREM ServersInvariant == Spec => []ServersInv
  BY InitServers, ServersStep, PTL DEF Spec

\* A call reports failure for want of servers only after it has tried all,
\* and leaves the list as it found it (_connect_ac_server, level > num_servers).
THEOREM ServersExhausted == Spec => []ExhaustedMeansAll
<1>1. ServersInv => ExhaustedMeansAll
  BY DEF ServersInv, ThreadInv, ExhaustedMeansAll
<1> QED BY <1>1, ServersInvariant, PTL

\* No call connects twice to the same server.
THEOREM ServersNeverTwice == Spec => []NeverTwice
<1>1. ServersInv => NeverTwice
  <2> SUFFICES ASSUME ServersInv, NEW t \in Threads, MayTry(t)
               PROVE  Head(servers) \notin tried[t]
    BY DEF NeverTwice
  <2> USE ConfiguredList
  <2> DEFINE old == listAtLock[t]
             done == level[t] - 1
  <2>1. TypeOK /\ Walk(t) /\ OnePlaceEach(old) /\ done \in 0..N - 1
    BY DEF ServersInv, ThreadInv, MayTry, TypeOK
  <2>2. Head(servers) = servers[1]
    BY <2>1, MarkBadRotates DEF TypeOK
  <2>3. servers[1] = old[done + 1] /\ tried[t] = {old[i] : i \in 1..done}
    BY <2>1 DEF Walk
  <2>4. \A i \in 1..done : old[i] # old[done + 1]
    <3>1. \A i, j \in 1..N : old[i] = old[j] => i = j
      BY <2>1 DEF OnePlaceEach
    <3>2. ASSUME NEW i \in 1..done PROVE i \in 1..N /\ done + 1 \in 1..N /\ i # done + 1
      BY <2>1
    <3> HIDE DEF done, old
    <3> QED BY <3>1, <3>2
  <2> QED BY <2>2, <2>3, <2>4
<1> QED BY <1>1, ServersInvariant, PTL

\* Rotating the list loses no server (mark_ac_server_bad).
THEOREM ServersKept == Spec => []EveryServerListed
<1>1. ServersInv => EveryServerListed
  BY DEF ServersInv, OnePlaceEach, EveryServerListed
<1> QED BY <1>1, ServersInvariant, PTL

\* A thread that is done with an exchange has closed its socket.
THEOREM ServersSockets == Spec => []NoSocketLeak
<1>1. ServersInv => NoSocketLeak
  <2> SUFFICES ASSUME ServersInv, NEW t \in Threads
               PROVE  /\ pc[t] \in {"idle", "build", "attempt"} => socks[t] = 0
                      /\ socks[t] <= 1
    BY DEF NoSocketLeak
  <2>1. ThreadInv(t)
    BY DEF ServersInv
  <2>2. socks[t] \in {0, 1}
    BY <2>1 DEF ThreadInv
  <2>3. pc[t] \in {"idle", "build", "attempt"} => socks[t] = 0
    BY <2>1 DEF ThreadInv
  <2> QED BY <2>2, <2>3
<1> QED BY <1>1, ServersInvariant, PTL

-----------------------------------------------------------------------------
\* A thread has a request from get_ac_server on until it is idle again.
TargetInv == \A t \in Threads : pc[t] # "idle" => target[t] \in Servers

LEMMA TargetStep == ServersInv /\ TargetInv /\ [Next]_vars => TargetInv'
<1> SUFFICES ASSUME ServersInv, TargetInv, [Next]_vars PROVE TargetInv'
  OBVIOUS
<1>0. TypeOK
  BY DEF ServersInv
<1>h. Head(servers) \in Servers
  BY <1>0, MarkBadRotates, ConfiguredList DEF TypeOK
<1>1. CASE UNCHANGED vars
  BY <1>1 DEF vars, TargetInv
<1>2. ASSUME NEW t \in Threads, GetAcServer(t) PROVE TargetInv'
  BY <1>0, <1>h, <1>2 DEF GetAcServer, TypeOK, TargetInv
<1>3. ASSUME NEW t \in Threads, ConnectAcServer(t) PROVE TargetInv'
  BY <1>0, <1>3 DEF ConnectAcServer, TypeOK, TargetInv
<1>4. ASSUME NEW t \in Threads, Attempt(t) PROVE TargetInv'
  BY <1>0, <1>4 DEF Attempt, GiveUp, NoDns, UnknownHost, NoSocket, Refused, Connected,
                    TooManyLevels, MayTry, Return, NextLevel, TypeOK, TargetInv
<1>5. ASSUME NEW t \in Threads, UnlockConfig(t) PROVE TargetInv'
  BY <1>0, <1>5 DEF UnlockConfig, LeaveConnect, TypeOK, TargetInv
<1>6. ASSUME NEW t \in Threads, HttpSend(t) PROVE TargetInv'
  BY <1>0, <1>6 DEF HttpSend, TypeOK, TargetInv
<1>7. ASSUME NEW t \in Threads, HttpDone(t) \/ HttpError(t) PROVE TargetInv'
  BY <1>0, <1>7 DEF HttpDone, HttpError, CloseSocket, TypeOK, TargetInv
<1> QED BY <1>1, <1>2, <1>3, <1>4, <1>5, <1>6, <1>7 DEF Next, Step

LEMMA TargetInvariant == Spec => []TargetInv
<1>1. Init => TargetInv
  BY DEF Init, TargetInv
<1> QED BY <1>1, TargetStep, ServersInvariant, PTL DEF Spec

\* A daemon with one server sends every request to the server for which it was
\* made, although ping and thread_post_result read the list without the lock.
THEOREM SingleServerMatches ==
    ASSUME N = 1
    PROVE  Spec => []RequestMatchesServer
<1>1. \A r, s \in Servers : r = s
  BY DEF Servers
<1>2. ServersInv /\ TargetInv => RequestMatchesServer
  BY <1>1 DEF ServersInv, ThreadInv, TypeOK, TargetInv, RequestMatchesServer
<1> QED BY <1>2, ServersInvariant, TargetInvariant, PTL

-----------------------------------------------------------------------------
\* What a walk has done to the list when connect_ac_server is about to unlock.
UnlockInv == \A t \in Threads : pc[t] = "unlock" =>
    /\ \E d \in 0..N - 1 : servers = Choice!Turned(listAtLock[t], d)
    /\ conn[t] # NULL => conn[t] = servers[1]

\* A walk that has not tried all servers has turned the list by one place for
\* each server it has tried.
LEMMA WalkTurns ==
    ASSUME ServersInv, NEW t \in Threads, MayTry(t)
    PROVE  \E d \in 0..N - 1 : servers = Choice!Turned(listAtLock[t], d)
<1> USE ConfiguredList
<1>1. PICK d \in 0..N - 1 : d = level[t] - 1
  BY DEF ServersInv, ThreadInv, MayTry
<1>2. Walk(t) /\ TypeOK
  BY DEF ServersInv, ThreadInv, MayTry
<1>3. \A i \in 1..N : servers[i] = IF i + d <= N THEN listAtLock[t][i + d]
                                   ELSE listAtLock[t][i + d - N]
  BY <1>1, <1>2 DEF Walk
<1>4. servers = [i \in 1..N |-> servers[i]]
  BY <1>2 DEF TypeOK
<1>5. servers = Choice!Turned(listAtLock[t], d)
  BY <1>3, <1>4 DEF Choice!Turned, Choice!N, N
<1> QED BY <1>5

\* A list turned by no place is the list.
LEMMA TurnedByNone ==
    ASSUME NEW l \in [1..N -> Servers]
    PROVE  l = Choice!Turned(l, 0) /\ 0 \in 0..N - 1
<1> USE ConfiguredList
<1>1. \A i \in 1..N : i + 0 <= N /\ i + 0 = i
  OBVIOUS
<1> QED BY <1>1 DEF Choice!Turned, Choice!N, N

\* Returning from _connect_ac_server, whatever the reason, leaves UnlockInv.
LEMMA ReturnTurns ==
    ASSUME ServersInv, UnlockInv, NEW t \in Threads, Attempt(t)
    PROVE  UnlockInv'
<1> USE ConfiguredList, NullAssumption
<1>1. TypeOK /\ pc[t] = "attempt" /\ configMutex = t
  BY DEF ServersInv, ThreadInv, Attempt, GiveUp, NoDns, UnknownHost, NoSocket, Refused,
         Connected, TooManyLevels, MayTry
<1>2. \A u \in Threads : u # t => pc[u] # "unlock"
  BY <1>1 DEF ServersInv, ThreadInv
<1>3. CASE UnknownHost(t) \/ Refused(t)
  <2>1. \A u \in Threads : pc'[u] # "unlock"
    BY <1>1, <1>2, <1>3 DEF UnknownHost, Refused, NextLevel
  <2> QED BY <2>1 DEF UnlockInv
<1>4. ASSUME NEW how, NEW s, Return(t, how, s), UNCHANGED servers,
             s # NULL => s = servers[1],
             \E d \in 0..N - 1 : servers = Choice!Turned(listAtLock[t], d)
      PROVE  UnlockInv'
  <2>1. PICK d \in 0..N - 1 : servers = Choice!Turned(listAtLock[t], d)
    BY <1>4
  <2>2. servers' = Choice!Turned(listAtLock'[t], d)
    BY <1>4, <2>1 DEF Return
  <2>3. \A u \in Threads : u # t => pc'[u] # "unlock"
    BY <1>1, <1>2, <1>4 DEF Return, TypeOK
  <2>4. conn'[t] # NULL => conn'[t] = servers'[1]
    BY <1>1, <1>4 DEF Return, TypeOK
  <2> QED BY <2>2, <2>3, <2>4 DEF UnlockInv, Choice!Turned, Choice!N
<1>5. CASE GiveUp(t)
  <2>1. Return(t, "exhausted", NULL) /\ UNCHANGED servers
    BY <1>5 DEF GiveUp
  <2>2. servers' = listAtLock'[t] /\ listAtLock'[t] = listAtLock[t]
    <3>1. ServersInv'
      BY ServersStep, <1>5 DEF Next, Step, Attempt
    <3>2. pc'[t] = "unlock" /\ outcome'[t] = "exhausted"
      BY <1>1, <2>1 DEF Return, TypeOK
    <3> QED BY <3>1, <3>2, <2>1 DEF ServersInv, ThreadInv, Return
  <2>3. servers = listAtLock[t] /\ listAtLock[t] \in [1..N -> Servers]
    BY <1>1, <2>1, <2>2 DEF TypeOK
  <2>4. \E d \in 0..N - 1 : servers = Choice!Turned(listAtLock[t], d)
    BY <2>3, TurnedByNone
  <2> QED BY <1>4, <2>1, <2>4
<1>6. CASE NoDns(t) \/ NoSocket(t)
  <2>1. PICK how : Return(t, how, NULL) /\ UNCHANGED servers
    BY <1>6 DEF NoDns, NoSocket
  <2> QED BY <1>4, <1>6, <2>1, WalkTurns DEF NoDns, NoSocket
<1>7. CASE Connected(t)
  <2>1. Return(t, "connected", Head(servers)) /\ UNCHANGED servers /\ Head(servers) = servers[1]
    BY <1>1, <1>7, MarkBadRotates DEF Connected, TypeOK
  <2> QED BY <1>4, <1>7, <2>1, WalkTurns DEF Connected
<1> QED BY <1>3, <1>5, <1>6, <1>7 DEF Attempt

LEMMA UnlockStep == ServersInv /\ UnlockInv /\ [Next]_vars => UnlockInv'
<1> SUFFICES ASSUME ServersInv, UnlockInv, [Next]_vars PROVE UnlockInv'
  OBVIOUS
<1> USE NullAssumption
<1>0. TypeOK /\ \A u \in Threads : ThreadInv(u)
  BY DEF ServersInv
<1>1. ASSUME NEW t \in Threads, Attempt(t) PROVE UnlockInv'
  BY <1>1, ReturnTurns
<1>2. ASSUME UNCHANGED servers,
             \A u \in Threads : pc'[u] = "unlock" =>
                 /\ pc[u] = "unlock" /\ conn'[u] = conn[u]
                 /\ listAtLock'[u] = listAtLock[u]
      PROVE  UnlockInv'
  BY <1>2 DEF UnlockInv, Choice!Turned, Choice!N
<1>3. CASE UNCHANGED vars
  BY <1>2, <1>3 DEF vars, call
<1>4. ASSUME NEW t \in Threads, GetAcServer(t) \/ ConnectAcServer(t) \/ UnlockConfig(t) PROVE UnlockInv'
  BY <1>0, <1>2, <1>4 DEF GetAcServer, ConnectAcServer, UnlockConfig, LeaveConnect, TypeOK, call
<1>5. ASSUME NEW t \in Threads, HttpSend(t) \/ HttpDone(t) \/ HttpError(t) PROVE UnlockInv'
  BY <1>0, <1>2, <1>5 DEF HttpSend, HttpDone, HttpError, CloseSocket, TypeOK, call
<1> QED BY <1>1, <1>3, <1>4, <1>5 DEF Next, Step

LEMMA UnlockInvariant == Spec => []UnlockInv
<1>1. Init => UnlockInv
  BY DEF Init, UnlockInv
<1> QED BY <1>1, UnlockStep, ServersInvariant, PTL DEF Spec

\* The variables of ServerChoice, under the mapping.
List == IF configMutex = NULL THEN servers ELSE listAtLock[configMutex]
Stage == [t \in Threads |-> StageOf(pc[t])]
Peer == [t \in Threads |-> IF pc[t] \in {"send", "read"} THEN conn[t] ELSE NULL]

\* A step of one thread, or none, inside connect_ac_server or http_get is not
\* seen by the callers.
LEMMA Unseen ==
    ASSUME List' = List, UNCHANGED target,
           \A u \in Threads : StageOf(pc'[u]) = StageOf(pc[u]),
           \A u \in Threads : StageOf(pc[u]) = "connected" => conn'[u] = conn[u]
    PROVE  UNCHANGED Choice!choiceVars
<1>1. Stage' = Stage
  BY DEF Stage
<1>2. \A where : (StageOf(where) = "connected") <=> (where \in {"send", "read"})
  BY DEF StageOf
<1>3. Peer' = Peer
  <2>1. ASSUME NEW u \in Threads
        PROVE  (IF pc'[u] \in {"send", "read"} THEN conn'[u] ELSE NULL)
               = (IF pc[u] \in {"send", "read"} THEN conn[u] ELSE NULL)
    <3>1. StageOf(pc'[u]) = StageOf(pc[u])
      OBVIOUS
    <3>2. pc'[u] \in {"send", "read"} <=> pc[u] \in {"send", "read"}
      BY <1>2, <3>1
    <3>3. pc[u] \in {"send", "read"} => conn'[u] = conn[u]
      BY <1>2
    <3> QED BY <3>2, <3>3
  <2> QED BY <2>1 DEF Peer
<1> QED BY <1>1, <1>3 DEF Choice!choiceVars, List, Stage, Peer

LEMMA ChoiceStep == ServersInv /\ UnlockInv /\ [Next]_vars => [Choice!Next]_Choice!choiceVars
<1> SUFFICES ASSUME ServersInv, UnlockInv, [Next]_vars PROVE [Choice!Next]_Choice!choiceVars
  OBVIOUS
<1> USE NullAssumption
<1>0. /\ TypeOK /\ OnePlaceEach(servers) /\ N \in Nat \ {0}
      /\ \A u \in Threads : ThreadInv(u)
  BY ConfiguredList DEF ServersInv
<1>1. CASE UNCHANGED vars
  BY <1>1, Unseen DEF vars, call, List
<1>2. ASSUME NEW t \in Threads, GetAcServer(t) PROVE Choice!Prepare(t)
  <2>1. OnePlaceEach(List)
    BY <1>0 DEF List, ThreadInv, TypeOK
  <2>2. \E i \in 1..N : List[i] = Head(servers)
    <3>1. Head(servers) \in Servers
      BY <1>0, MarkBadRotates DEF TypeOK
    <3> QED BY <2>1, <3>1 DEF OnePlaceEach
  <2>3. Stage[t] = "idle" /\ Stage' = [Stage EXCEPT ![t] = "prepared"]
    BY <1>0, <1>2 DEF GetAcServer, Stage, StageOf, TypeOK
  <2>4. List' = List /\ Peer' = Peer
    BY <1>0, <1>2 DEF GetAcServer, call, List, Peer, TypeOK
  <2> QED
    BY <1>2, <2>2, <2>3, <2>4 DEF GetAcServer, Choice!Prepare, Choice!N, N, List, Stage, Peer
<1>3. ASSUME NEW t \in Threads, ConnectAcServer(t) PROVE UNCHANGED Choice!choiceVars
  <2>1. List' = List /\ UNCHANGED <<target, conn>>
    BY <1>0, <1>3 DEF ConnectAcServer, List, TypeOK
  <2>2. \A u \in Threads : StageOf(pc'[u]) = StageOf(pc[u])
    BY <1>0, <1>3 DEF ConnectAcServer, StageOf, TypeOK
  <2> QED BY <2>1, <2>2, Unseen
<1>4. ASSUME NEW t \in Threads, Attempt(t) PROVE UNCHANGED Choice!choiceVars
  <2> USE DEF Attempt, GiveUp, NoDns, UnknownHost, NoSocket, Refused, Connected,
              TooManyLevels, MayTry, Return, NextLevel
  <2>1. pc[t] = "attempt" /\ configMutex = t
    BY <1>0, <1>4 DEF ThreadInv
  <2>2. UNCHANGED <<configMutex, listAtLock, target>>
    BY <1>4
  <2>3. List' = List
    BY <2>1, <2>2 DEF List
  <2>4. /\ pc'[t] \in {"attempt", "unlock"}
        /\ \A u \in Threads : u # t => pc'[u] = pc[u] /\ conn'[u] = conn[u]
    BY <1>0, <1>4 DEF TypeOK
  <2>5. StageOf(pc'[t]) = "prepared" /\ StageOf(pc[t]) = "prepared"
    BY <2>1, <2>4 DEF StageOf
  <2> QED BY <2>2, <2>3, <2>4, <2>5, Unseen
<1>5. ASSUME NEW t \in Threads, UnlockConfig(t) PROVE Choice!NoServer(t) \/ Choice!Connect(t)
  <2>1. pc[t] = "unlock" /\ configMutex = t /\ configMutex' = NULL /\ UNCHANGED <<servers, conn>>
    BY <1>0, <1>5 DEF UnlockConfig, LeaveConnect, ThreadInv
  <2>2. List = listAtLock[t] /\ List' = servers /\ Stage[t] = "prepared"
    BY <2>1 DEF List, Stage, StageOf
  <2>3. PICK d \in 0..N - 1 : servers = Choice!Turned(listAtLock[t], d)
    BY <2>1 DEF UnlockInv
  <2>4. Choice!Turn
    <3>1. List' = Choice!Turned(List, d)
      BY <2>2, <2>3
    <3> QED BY <3>1 DEF Choice!Turn, Choice!N, N, List
  <2>5. CASE conn[t] = NULL
    <3>1. /\ Stage' = [Stage EXCEPT ![t] = "idle"]
          /\ target' = [target EXCEPT ![t] = NULL]
          /\ Peer' = [Peer EXCEPT ![t] = NULL]
      BY <1>0, <1>5, <2>5 DEF UnlockConfig, LeaveConnect, Stage, StageOf, Peer, TypeOK
    <3> QED BY <2>2, <2>4, <3>1 DEF Choice!NoServer, Choice!GoIdle, Stage, Peer
  <2>6. CASE conn[t] # NULL
    <3>1. conn[t] = servers[1] /\ conn'[t] = List'[1]
      BY <2>1, <2>2, <2>6 DEF UnlockInv
    <3>2. /\ Stage' = [Stage EXCEPT ![t] = "connected"]
          /\ target' = target
          /\ Peer' = [Peer EXCEPT ![t] = List'[1]]
      BY <1>0, <1>5, <2>6, <3>1 DEF UnlockConfig, LeaveConnect, Stage, StageOf, Peer, TypeOK
    <3> QED BY <2>2, <2>4, <3>2 DEF Choice!Connect, List, Stage, Peer
  <2> QED BY <2>5, <2>6
<1>6. ASSUME NEW t \in Threads, HttpSend(t) PROVE UNCHANGED Choice!choiceVars
  <2>1. List' = List /\ UNCHANGED <<target, conn>>
    BY <1>6 DEF HttpSend, List, call
  <2>2. \A u \in Threads : StageOf(pc'[u]) = StageOf(pc[u])
    BY <1>0, <1>6 DEF HttpSend, StageOf, TypeOK
  <2> QED BY <2>1, <2>2, Unseen
<1>7. ASSUME NEW t \in Threads, HttpDone(t) \/ HttpError(t) PROVE Choice!Disconnect(t)
  <2>1. pc[t] \in {"send", "read"} /\ CloseSocket(t)
    BY <1>7 DEF HttpDone, HttpError
  <2>2. List' = List /\ Stage[t] = "connected"
    BY <2>1 DEF CloseSocket, List, Stage, StageOf
  <2>3. /\ Stage' = [Stage EXCEPT ![t] = "idle"]
        /\ target' = [target EXCEPT ![t] = NULL]
        /\ Peer' = [Peer EXCEPT ![t] = NULL]
    BY <1>0, <2>1 DEF CloseSocket, Stage, StageOf, Peer, TypeOK
  <2> QED BY <2>2, <2>3 DEF Choice!Disconnect, Choice!GoIdle, List, Stage, Peer
<1> QED BY <1>1, <1>2, <1>3, <1>4, <1>5, <1>6, <1>7 DEF Next, Step, Choice!Next

\* connect_ac_server is one step to its callers: whatever fails at its levels
\* and however the threads interleave, it turns the list by less than a round
\* and connects to the server that is then first, or to none.
THEOREM ServersImplementChoice == Spec => ChoiceSpec
<1>1. Init => Choice!Init
  <2> SUFFICES ASSUME Init PROVE Choice!Init
    OBVIOUS
  <2>1. List = Configured
    BY DEF Init, List
  <2>2. Stage = [t \in Threads |-> "idle"] /\ Peer = [t \in Threads |-> NULL]
    BY DEF Init, Stage, StageOf, Peer
  <2> QED BY <2>1, <2>2 DEF Init, Choice!Init, List, Stage, Peer
<1> QED
  BY <1>1, ChoiceStep, ServersInvariant, UnlockInvariant, PTL
     DEF Spec, ChoiceSpec, Choice!Spec
=============================================================================
