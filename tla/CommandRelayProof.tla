------------------------- MODULE CommandRelayProof -------------------------
(***************************************************************************)
(* Proofs about CommandRelay, for any number of commands and any sizes of  *)
(* their outputs: every t_result has one owner, each queued result reaches *)
(* a server at most once, and where the buffers overflow.                  *)
(***************************************************************************)
EXTENDS CommandRelay, TLAPS, SequenceTheorems, FiniteSetTheorems

\* What the ping thread makes of an output, and the copy of the main loop.
PingResults == {Result(k, "ping", n, n) : k \in Cmds, n \in Sizes}
MainResults == {Result(k, "main", CmdresultSize(n), n) : k \in Cmds, n \in Sizes}

\* The child's status decides what the ping thread does with the output.
PingInv ==
    /\ alive \in BOOLEAN /\ sigPending \in BOOLEAN
    /\ cmd \in 0..MaxCmds
    /\ pcP \in {"sleep", "wait", "open", "insert", "free"}
    /\ child \in {"none", "running", "zombie", "reaped"}
    /\ exit \in {"none", "ok", "error"}
    /\ outLen \in Nat
    /\ status \in [Cmds -> {"none", "ok", "error"}]
    /\ queued \subseteq Cmds
    /\ \A k \in queued : k <= cmd /\ status[k] = "ok"
    /\ pcP \in {"wait", "open", "insert"} => cmd \in Cmds /\ cmd \notin queued
    /\ pcP = "wait" <=> child # "none"
    /\ child \in {"zombie", "reaped"} => status[cmd] = exit /\ outLen \in Sizes
    /\ pcP \in {"open", "insert"} => status[cmd] = "ok" /\ outLen \in Sizes
    /\ files = IF pcP \in {"wait", "open"} THEN {cmd} ELSE {}
    /\ made = IF pcP = "insert" THEN Result(cmd, "ping", outLen, outLen) ELSE NoResult

\* The queue: results of queued commands, in order, that no one has posted.
OrderInv ==
    /\ queue \in Seq(PingResults)
    /\ \A i \in DOMAIN queue : queue[i].cmd \in queued /\ post[queue[i].cmd] = "none"
    /\ \A i, j \in DOMAIN queue : i < j => queue[i].cmd < queue[j].cmd

\* The main loop holds a result that has left the queue and is not posted yet.
MainInv ==
    /\ pcM \in {"get", "create", "sleep"}
    /\ pcM # "create" => hand = NoResult
    /\ pcM = "create" => /\ hand \in MainResults
                         /\ hand.cmd \in queued /\ post[hand.cmd] = "none"
                         /\ \A i \in DOMAIN queue : queue[i].cmd # hand.cmd

PostInv ==
    /\ post \in [Cmds -> {"none", "start", "request", "done"}]
    /\ body \in [Cmds -> MainResults \cup {NoResult}]
    /\ delivered \in [Cmds -> {0, 1}]
    /\ \A k \in Cmds : /\ post[k] # "none" => k \in queued
                       /\ post[k] # "done" => delivered[k] = 0
                       /\ IF post[k] = "start" THEN body[k] \in MainResults /\ body[k].cmd = k
                                               ELSE body[k] = NoResult

\* OneOwner, by owner.
HeapInv ==
    \A r : r \in heap <=> \/ \E i \in DOMAIN queue : r = queue[i]
                          \/ pcP = "insert" /\ r = made
                          \/ pcM = "create" /\ r = hand
                          \/ \E k \in Cmds : post[k] = "start" /\ r = body[k]

RelayInv == PingInv /\ OrderInv /\ MainInv /\ PostInv /\ HeapInv

-----------------------------------------------------------------------------
LEMMA ResultFields ==
    ASSUME NEW k, NEW by, NEW n, NEW len
    PROVE  /\ Result(k, by, n, len).cmd = k /\ Result(k, by, n, len).by = by
           /\ Result(k, by, n, len).size = CmdresultSize(n)
           /\ Result(k, by, n, len).len = len
           /\ Result(k, by, n, len) # NoResult
<1>1. Result(k, by, n, len) # NoResult
  <2>1. "cmd" \in DOMAIN Result(k, by, n, len)
    BY DEF Result
  <2>2. DOMAIN NoResult = {}
    BY DEF NoResult
  <2> QED BY <2>1, <2>2
<1> QED BY <1>1 DEF Result

\* The sizes of the two buffers an output passes, and which of them hold it.
LEMMA Fits ==
    ASSUME NEW n \in Sizes
    PROVE  /\ n \in Nat /\ MaxOut \in Nat
           /\ CmdresultSize(n) = IF n > MaxOut + 1 THEN MaxOut + 2 ELSE n + 1
           /\ CmdresultSize(CmdresultSize(n)) = IF n > MaxOut THEN MaxOut + 2 ELSE n + 2
           /\ CmdresultSize(CmdresultSize(CmdresultSize(n))) =
                IF n + 1 > MaxOut THEN MaxOut + 2 ELSE n + 3
<1>1. n \in Nat /\ MaxOut \in Nat
  BY SizesAssumption
<1>2. CmdresultSize(n) = IF n > MaxOut + 1 THEN MaxOut + 2 ELSE n + 1
  BY <1>1 DEF CmdresultSize
<1>3. CmdresultSize(CmdresultSize(n)) = IF n > MaxOut THEN MaxOut + 2 ELSE n + 2
  BY <1>1, <1>2 DEF CmdresultSize
<1>4. CmdresultSize(CmdresultSize(CmdresultSize(n))) = IF n + 1 > MaxOut THEN MaxOut + 2 ELSE n + 3
  BY <1>1, <1>3 DEF CmdresultSize
<1> QED BY <1>1, <1>2, <1>3, <1>4

LEMMA PingFields ==
    ASSUME NEW r \in PingResults
    PROVE  /\ r.cmd \in Cmds /\ r.by = "ping" /\ r.len \in Sizes /\ r.size = CmdresultSize(r.len)
           /\ r.size \in Nat /\ r # NoResult
<1> PICK k \in Cmds, n \in Sizes : r = Result(k, "ping", n, n)
  BY DEF PingResults
<1>1. CmdresultSize(n) \in Nat
  BY Fits
<1> QED BY <1>1, ResultFields

LEMMA MainFields ==
    ASSUME NEW r \in MainResults
    PROVE  /\ r.cmd \in Cmds /\ r.by = "main" /\ r.len \in Sizes
           /\ r.size = CmdresultSize(CmdresultSize(r.len))
           /\ r.size \in Nat /\ r # NoResult
<1> PICK k \in Cmds, n \in Sizes : r = Result(k, "main", CmdresultSize(n), n)
  BY DEF MainResults
<1>1. CmdresultSize(CmdresultSize(n)) \in Nat
  BY Fits
<1> QED BY <1>1, ResultFields

LEMMA QueueFields ==
    ASSUME OrderInv
    PROVE  /\ Len(queue) \in Nat /\ DOMAIN queue = 1..Len(queue)
           /\ \A i \in DOMAIN queue : queue[i] \in PingResults
  BY ElementOfSeq, LenProperties DEF OrderInv

-----------------------------------------------------------------------------
LEMMA InitInv == Init => RelayInv
<1> SUFFICES ASSUME Init PROVE RelayInv
  OBVIOUS
<1>1. PingInv
  <2>1. cmd = 0 /\ cmd \in 0..MaxCmds /\ queued = {} /\ files = {} /\ made = NoResult
    BY CmdsAssumption DEF Init
  <2>2. /\ status \in [Cmds -> {"none", "ok", "error"}]
        /\ pcP = "sleep" /\ child = "none" /\ exit = "none" /\ outLen = 0
        /\ alive = TRUE /\ sigPending = FALSE
    BY DEF Init
  <2> QED BY <2>1, <2>2 DEF PingInv
<1>2. OrderInv
  BY EmptySeq DEF Init, OrderInv
<1>3. MainInv /\ PostInv
  BY DEF Init, MainInv, PostInv
<1>4. HeapInv
  <2>1. DOMAIN queue = {} /\ heap = {} /\ pcP # "insert" /\ pcM # "create"
        /\ \A k \in Cmds : post[k] # "start"
    BY DEF Init
  <2> QED BY <2>1 DEF HeapInv
<1> QED BY <1>1, <1>2, <1>3, <1>4 DEF RelayInv

\* Steps of the ping thread and of its child that touch no t_result.
LEMMA KeepResults ==
    ASSUME RelayInv, PingInv', UNCHANGED <<queue, queued, mainLoop, posting, heap>>,
           pcP # "insert", pcP' # "insert"
    PROVE  RelayInv'
<1>1. OrderInv'
  BY DEF RelayInv, OrderInv, posting
<1>2. MainInv' /\ PostInv'
  BY DEF RelayInv, MainInv, PostInv, mainLoop, posting
<1>3. HeapInv'
  BY DEF RelayInv, HeapInv, mainLoop, posting
<1> QED BY <1>1, <1>2, <1>3 DEF RelayInv

LEMMA ChildStep ==
    RelayInv /\ (ReceiveCommand \/ ChildExits \/ SigchldHandler \/ ForkFails) => RelayInv'
<1> SUFFICES ASSUME RelayInv,
                    ReceiveCommand \/ ChildExits \/ SigchldHandler \/ ForkFails
             PROVE  RelayInv'
  OBVIOUS
<1> USE DEF RelayInv
<1>1. CASE ReceiveCommand
  <2>1. cmd + 1 \in Cmds /\ cmd + 1 \notin queued
    BY <1>1, CmdsAssumption DEF ReceiveCommand, PingInv, Cmds
  <2>2. PingInv'
    BY <1>1, <2>1, CmdsAssumption DEF ReceiveCommand, PingInv, Cmds
  <2> QED BY <1>1, <2>2, KeepResults DEF ReceiveCommand
<1>2. CASE ForkFails
  <2>1. PingInv'
    BY <1>2 DEF ForkFails, PingInv, ping, process
  <2> QED BY <1>2, <2>1, KeepResults DEF ForkFails, ping, PingInv
<1>3. CASE ChildExits
  <2>1. pcP = "wait" /\ cmd \in Cmds /\ cmd \notin queued /\ pcP' = pcP
    BY <1>3 DEF ChildExits, PingInv, ping
  <2>2. PICK st \in {"ok", "error"}, n \in Sizes :
          exit' = st /\ outLen' = n /\ status' = [status EXCEPT ![cmd] = st]
    BY <1>3 DEF ChildExits
  <2>3. PingInv'
    BY <1>3, <2>1, <2>2, SizesAssumption DEF ChildExits, PingInv, ping
  <2> QED BY <1>3, <2>1, <2>3, KeepResults DEF ChildExits, ping
<1>4. CASE SigchldHandler
  <2>1. PingInv'
    BY <1>4 DEF SigchldHandler, PingInv, ping
  <2>2. CASE pcP # "insert"
    BY <1>4, <2>1, <2>2, KeepResults DEF SigchldHandler, ping
  <2>3. CASE pcP = "insert"
    <3>1. OrderInv' /\ MainInv' /\ PostInv' /\ HeapInv'
      BY <1>4 DEF SigchldHandler, OrderInv, MainInv, PostInv, HeapInv, ping, mainLoop, posting
    <3> QED BY <2>1, <3>1
  <2> QED BY <2>2, <2>3
<1> QED BY <1>1, <1>2, <1>3, <1>4

LEMMA PingStepInv == RelayInv /\ PingStep => RelayInv'
<1> SUFFICES ASSUME RelayInv, PingStep PROVE RelayInv'
  OBVIOUS
<1> USE DEF RelayInv
<1>1. CASE WaitReaps
  <2>1. pcP = "wait" /\ pcP' \in {"open", "sleep"} /\ queued' = queued
    BY <1>1 DEF WaitReaps, DropOutput
  <2>2. PingInv'
    <3>1. CASE exit = "ok"
      BY <1>1, <3>1 DEF WaitReaps, PingInv
    <3>2. CASE exit # "ok"
      BY <1>1, <3>2 DEF WaitReaps, DropOutput, PingInv
    <3> QED BY <3>1, <3>2
  <2> QED BY <1>1, <2>1, <2>2, KeepResults DEF WaitReaps
<1>2. CASE WaitFails
  <2>1. PingInv'
    BY <1>2 DEF WaitFails, DropOutput, PingInv
  <2> QED BY <1>2, <2>1, KeepResults DEF WaitFails, DropOutput
<1>3. CASE OpenFails
  <2>1. PingInv'
    BY <1>3 DEF OpenFails, DropOutput, PingInv, process
  <2> QED BY <1>3, <2>1, KeepResults DEF OpenFails, DropOutput
<1>4. CASE StatFails
  <2>1. PingInv'
    BY <1>4 DEF StatFails, FreeOutFile, DropOutput, PingInv, process
  <2> QED BY <1>4, <2>1, KeepResults DEF StatFails, DropOutput
<1>5. CASE ReadOutput
  <2>1. PingInv'
    BY <1>5 DEF ReadOutput, Put, PingInv, process
  <2>2. OrderInv' /\ MainInv' /\ PostInv'
    BY <1>5 DEF ReadOutput, OrderInv, MainInv, PostInv, mainLoop, posting
  <2>3. HeapInv'
    BY <1>5 DEF ReadOutput, HeapInv, mainLoop, posting
  <2> QED BY <2>1, <2>2, <2>3
<1>6. CASE InsertResult
  <2>0. /\ pcP = "insert" /\ pcP' = "free" /\ cmd \in Cmds /\ cmd \notin queued
        /\ outLen \in Sizes /\ made = Result(cmd, "ping", outLen, outLen)
        /\ queued' = queued \cup {cmd} /\ \A k \in queued : k < cmd
    BY <1>6, CmdsAssumption DEF InsertResult, PingInv, Cmds
  <2>1. PingInv'
    BY <1>6, <2>0 DEF InsertResult, PingInv, process
  <2>2. made \in PingResults /\ made.cmd = cmd
    BY <2>0, ResultFields DEF PingResults
  <2>3. /\ queue' \in Seq(PingResults)
        /\ DOMAIN queue' = 1..Len(queue) + 1
        /\ \A i \in DOMAIN queue : queue'[i] = queue[i]
        /\ queue'[Len(queue) + 1] = made
    BY <1>6, <2>2, QueueFields, AppendProperties DEF InsertResult, OrderInv
  <2>4. \A i \in DOMAIN queue' : i \in DOMAIN queue \/ i = Len(queue) + 1
    BY <2>3, QueueFields
  <2>5. Len(queue) + 1 \in DOMAIN queue' /\ \A i \in DOMAIN queue : i \in DOMAIN queue' /\ i < Len(queue) + 1
    BY <2>3, QueueFields
  <2>6. post[cmd] = "none" /\ post' = post
    BY <1>6, <2>0 DEF InsertResult, PostInv, posting
  <2>7. OrderInv'
    <3>1. \A i \in DOMAIN queue' : queue'[i].cmd \in queued' /\ post'[queue'[i].cmd] = "none"
      BY <2>0, <2>2, <2>3, <2>4, <2>6 DEF OrderInv
    <3>2. ASSUME NEW i \in DOMAIN queue', NEW j \in DOMAIN queue', i < j
          PROVE  queue'[i].cmd < queue'[j].cmd
      <4>1. i \in DOMAIN queue
        BY <3>2, <2>3, <2>4, QueueFields
      <4>2. CASE j \in DOMAIN queue
        BY <3>2, <4>1, <4>2, <2>3 DEF OrderInv
      <4>3. CASE j = Len(queue) + 1
        BY <4>1, <4>3, <2>0, <2>2, <2>3 DEF OrderInv
      <4> QED BY <4>2, <4>3, <2>4
    <3> QED BY <2>3, <3>1, <3>2 DEF OrderInv
  <2>8. MainInv'
    BY <1>6, <2>0, <2>2, <2>3, <2>4 DEF InsertResult, MainInv, mainLoop, posting
  <2>9. PostInv'
    BY <1>6, <2>0 DEF InsertResult, PostInv, posting
  <2>10. HeapInv'
    <3>1. \A r : (\E i \in DOMAIN queue' : r = queue'[i])
                 <=> (\E i \in DOMAIN queue : r = queue[i]) \/ r = made
      BY <2>3, <2>4, <2>5
    <3> QED BY <1>6, <2>0, <3>1 DEF InsertResult, HeapInv, mainLoop, posting
  <2> QED BY <2>1, <2>7, <2>8, <2>9, <2>10
<1>7. CASE ExcuteReturns
  <2>1. PingInv'
    BY <1>7 DEF ExcuteReturns, FreeOutFile, PingInv, process
  <2> QED BY <1>7, <2>1, KeepResults DEF ExcuteReturns
<1> QED BY <1>1, <1>2, <1>3, <1>4, <1>5, <1>6, <1>7 DEF PingStep

LEMMA MainStepInv == RelayInv /\ MainStep => RelayInv'
<1> SUFFICES ASSUME RelayInv, MainStep PROVE RelayInv'
  OBVIOUS
<1> USE DEF RelayInv
<1>0. /\ UNCHANGED <<ping, process, files>> /\ PingInv'
  BY DEF MainStep, GetoutNothing, GetoutResult, CreatePost, CreateFails, WakeUp, Put, PingInv,
         ping, process
<1>1. CASE GetoutNothing \/ WakeUp
  BY <1>0, <1>1 DEF GetoutNothing, WakeUp, OrderInv, MainInv, PostInv, HeapInv, ping, posting
<1>2. CASE GetoutResult
  <2> DEFINE first == Head(queue)
  <2>1. queue # <<>> /\ pcM = "get" /\ pcM' = "create" /\ UNCHANGED <<posting, ping>>
    BY <1>2 DEF GetoutResult, posting, ping
  <2>2. /\ first = queue[1] /\ 1 \in DOMAIN queue /\ first \in PingResults
        /\ queue' = Tail(queue) /\ queue' \in Seq(PingResults)
        /\ DOMAIN queue' = 1..Len(queue) - 1
        /\ \A i \in 1..Len(queue) - 1 : queue'[i] = queue[i + 1]
    BY <1>2, <2>1, QueueFields, EmptySeq, HeadTailProperties DEF GetoutResult, OrderInv
  <2>3. \A i \in DOMAIN queue' : i + 1 \in DOMAIN queue /\ queue'[i] = queue[i + 1] /\ 1 < i + 1
    BY <2>2, QueueFields
  <2>4. \A i \in DOMAIN queue : i = 1 \/ (i - 1 \in DOMAIN queue' /\ queue'[i - 1] = queue[i])
    BY <2>2, QueueFields
  <2>5. PICK k \in Cmds, n \in Sizes : first = Result(k, "ping", n, n)
    BY <2>2 DEF PingResults
  <2>6. hand' = Result(k, "main", CmdresultSize(n), n) /\ hand'.cmd = first.cmd
    BY <1>2, <2>5, ResultFields DEF GetoutResult
  <2>7. hand' \in MainResults
    BY <2>6 DEF MainResults
  <2>8. OrderInv'
    <3>1. \A i \in DOMAIN queue' : queue'[i].cmd \in queued' /\ post'[queue'[i].cmd] = "none"
      BY <2>1, <2>3 DEF OrderInv, posting, ping
    <3>2. \A i, j \in DOMAIN queue' : i < j => queue'[i].cmd < queue'[j].cmd
      <4> SUFFICES ASSUME NEW i \in DOMAIN queue', NEW j \in DOMAIN queue', i < j
                   PROVE  queue'[i].cmd < queue'[j].cmd
        OBVIOUS
      <4>1. i + 1 < j + 1
        BY <2>2, QueueFields
      <4> QED BY <4>1, <2>3 DEF OrderInv
    <3> QED BY <2>2, <3>1, <3>2 DEF OrderInv
  <2>9. \A i \in DOMAIN queue' : first.cmd < queue'[i].cmd
    BY <2>2, <2>3 DEF OrderInv
  <2>10. \A i \in DOMAIN queue' : queue'[i].cmd # hand'.cmd
    <3>1. \A i \in DOMAIN queue' : first.cmd \in Nat /\ queue'[i].cmd \in Nat
      BY <2>2, <2>3, QueueFields, PingFields DEF Cmds
    <3> QED BY <2>6, <2>9, <3>1
  <2>11. MainInv'
    BY <2>1, <2>2, <2>6, <2>7, <2>10 DEF MainInv, OrderInv, posting, ping
  <2>12. PostInv'
    BY <2>1 DEF PostInv, posting, ping
  <2>13. HeapInv'
    <3>1. heap' = (heap \ {first}) \cup {hand'}
      BY <1>2 DEF GetoutResult
    <3>2. \A i \in DOMAIN queue' : queue'[i] # first
      BY <2>6, <2>10
    <3>3. pcP = "insert" => made # first
      BY <2>2, ResultFields DEF PingInv, OrderInv
    <3>4. \A j \in Cmds : post[j] = "start" => body[j] # first
      BY <2>2, PingFields, MainFields DEF PostInv
    <3>5. \A r : (\E i \in DOMAIN queue : r = queue[i])
                 <=> (\E i \in DOMAIN queue' : r = queue'[i]) \/ r = first
      <4> SUFFICES ASSUME NEW r
                   PROVE  (\E i \in DOMAIN queue : r = queue[i])
                          <=> (\E i \in DOMAIN queue' : r = queue'[i]) \/ r = first
        OBVIOUS
      <4>1. ASSUME NEW i \in DOMAIN queue, r = queue[i]
            PROVE  (\E j \in DOMAIN queue' : r = queue'[j]) \/ r = first
        <5>1. CASE i = 1
          BY <4>1, <5>1, <2>2
        <5>2. CASE i # 1
          <6>1. i - 1 \in DOMAIN queue' /\ r = queue'[i - 1]
            BY <4>1, <5>2, <2>4
          <6> QED BY <6>1
        <5> QED BY <5>1, <5>2
      <4>2. ASSUME NEW j \in DOMAIN queue', r = queue'[j]
            PROVE  \E i \in DOMAIN queue : r = queue[i]
        <5>1. j + 1 \in DOMAIN queue /\ r = queue[j + 1]
          BY <4>2, <2>3
        <5> QED BY <5>1
      <4>3. ASSUME r = first PROVE \E i \in DOMAIN queue : r = queue[i]
        BY <4>3, <2>2
      <4> QED BY <4>1, <4>2, <4>3
    <3> QED BY <2>1, <3>1, <3>2, <3>3, <3>4, <3>5 DEF HeapInv, posting, ping
  <2> QED BY <1>0, <2>8, <2>11, <2>12, <2>13
<1>3. CASE CreatePost
  <2>1. /\ pcM = "create" /\ pcM' = "sleep" /\ hand' = NoResult
        /\ hand \in MainResults /\ hand.cmd \in Cmds /\ hand.cmd \in queued
        /\ post[hand.cmd] = "none" /\ \A i \in DOMAIN queue : queue[i].cmd # hand.cmd
        /\ post' = [post EXCEPT ![hand.cmd] = "start"]
        /\ body' = [body EXCEPT ![hand.cmd] = hand]
        /\ UNCHANGED <<queue, delivered, heap>>
    BY <1>3, MainFields DEF CreatePost, MainInv
  <2>2. OrderInv'
    BY <1>0, <2>1, QueueFields, PingFields DEF OrderInv, PostInv, ping
  <2>3. MainInv' /\ PostInv'
    BY <1>0, <2>1 DEF MainInv, PostInv, ping
  <2>4. HeapInv'
    <3>1. \A r : (\E k \in Cmds : post'[k] = "start" /\ r = body'[k])
                 <=> (\E k \in Cmds : post[k] = "start" /\ r = body[k]) \/ r = hand
      BY <2>1 DEF PostInv
    <3> QED BY <1>0, <2>1, <3>1 DEF HeapInv, ping
  <2> QED BY <1>0, <2>2, <2>3, <2>4
<1>4. CASE CreateFails
  <2>1. /\ pcM = "create" /\ pcM' = "sleep" /\ hand' = NoResult
        /\ hand \in MainResults /\ hand.cmd \in Cmds /\ hand.cmd \in queued
        /\ post[hand.cmd] = "none" /\ \A i \in DOMAIN queue : queue[i].cmd # hand.cmd
        /\ post' = [post EXCEPT ![hand.cmd] = "done"]
        /\ heap' = heap \ {hand}
        /\ UNCHANGED <<queue, delivered, body>>
    BY <1>4, MainFields DEF CreateFails, MainInv
  <2>2. OrderInv'
    BY <1>0, <2>1, QueueFields, PingFields DEF OrderInv, PostInv, ping
  <2>3. MainInv' /\ PostInv'
    BY <1>0, <2>1 DEF MainInv, PostInv, ping
  <2>4. HeapInv'
    <3>1. \A i \in DOMAIN queue : queue[i] # hand
      BY <2>1
    <3>2. pcP = "insert" => made # hand
      BY <2>1, ResultFields, MainFields DEF PingInv
    <3>3. \A k \in Cmds : post[k] = "start" => body[k] # hand
      BY <2>1 DEF PostInv
    <3>4. \A k \in Cmds : post'[k] = "start" <=> post[k] = "start"
      BY <2>1 DEF PostInv
    <3> QED BY <1>0, <2>1, <3>1, <3>2, <3>3, <3>4 DEF HeapInv, ping
  <2> QED BY <1>0, <2>2, <2>3, <2>4
<1> QED BY <1>1, <1>2, <1>3, <1>4 DEF MainStep

LEMMA PostStepInv == \A k \in Cmds : RelayInv /\ PostStep(k) => RelayInv'
<1> SUFFICES ASSUME NEW k \in Cmds, RelayInv, PostStep(k) PROVE RelayInv'
  OBVIOUS
<1> USE DEF RelayInv
<1>0. /\ UNCHANGED <<ping, process, files, queue, mainLoop>> /\ PingInv'
  BY DEF PostStep, BuildRequest, PostFails, PostArrives, Put, PingInv, ping, process
<1>1. post[k] # "none" /\ post' \in [Cmds -> {"none", "start", "request", "done"}]
      /\ post'[k] # "none" /\ \A j \in Cmds : j # k => post'[j] = post[j]
  BY DEF PostStep, BuildRequest, PostFails, PostArrives, PostInv
<1>2. OrderInv'
  BY <1>0, <1>1, QueueFields, PingFields DEF OrderInv, ping
<1>3. MainInv'
  BY <1>0, <1>1, MainFields DEF MainInv, mainLoop, ping
<1>4. CASE BuildRequest(k)
  <2>1. /\ post[k] = "start" /\ post' = [post EXCEPT ![k] = "request"]
        /\ heap' = heap \ {body[k]} /\ body' = [body EXCEPT ![k] = NoResult]
        /\ delivered' = delivered
    BY <1>4 DEF BuildRequest
  <2>2. PostInv'
    BY <1>0, <2>1 DEF PostInv, ping
  <2>3. HeapInv'
    <3>1. body[k] \in MainResults /\ body[k].cmd = k
      BY <2>1 DEF PostInv
    <3>2. \A i \in DOMAIN queue : queue[i] # body[k]
      BY <3>1, QueueFields, PingFields, MainFields
    <3>3. pcP = "insert" => made # body[k]
      BY <3>1, ResultFields, MainFields DEF PingInv
    <3>4. pcM = "create" => hand # body[k]
      BY <3>1, <2>1 DEF MainInv
    <3>5. \A j \in Cmds : post'[j] = "start" => j # k /\ post[j] = "start" /\ body'[j] = body[j]
      BY <2>1 DEF PostInv
    <3>6. \A j \in Cmds : post[j] = "start" /\ j # k =>
            post'[j] = "start" /\ body'[j] = body[j] /\ body[j] # body[k]
      BY <2>1 DEF PostInv
    <3>7. \A r : (\E j \in Cmds : post'[j] = "start" /\ r = body'[j])
                 <=> (\E j \in Cmds : post[j] = "start" /\ r = body[j]) /\ r # body[k]
      BY <3>5, <3>6
    <3>8. UNCHANGED <<queue, pcP, made, pcM, hand>> /\ post[k] = "start"
      BY <1>0, <2>1 DEF ping, mainLoop
    <3>9. \A r : r \in heap' <=> r \in heap /\ r # body[k]
      BY <2>1
    <3> QED BY <3>2, <3>3, <3>4, <3>7, <3>8, <3>9 DEF HeapInv
  <2> QED BY <1>0, <1>2, <1>3, <2>2, <2>3
<1>5. CASE PostFails(k) \/ PostArrives(k)
  <2>1. /\ post[k] = "request" /\ post' = [post EXCEPT ![k] = "done"]
        /\ UNCHANGED <<heap, body>>
        /\ delivered' \in {delivered, [delivered EXCEPT ![k] = @ + 1]}
    BY <1>5 DEF PostFails, PostArrives
  <2>2. PostInv'
    BY <1>0, <2>1 DEF PostInv, ping
  <2>3. HeapInv'
    <3>1. \A j \in Cmds : post'[j] = "start" <=> post[j] = "start"
      BY <2>1 DEF PostInv
    <3> QED BY <1>0, <2>1, <3>1 DEF HeapInv, ping, mainLoop
  <2> QED BY <1>0, <1>2, <1>3, <2>2, <2>3
<1> QED BY <1>4, <1>5 DEF PostStep

LEMMA StutterInv == RelayInv /\ UNCHANGED vars => RelayInv'
  BY DEF RelayInv, PingInv, OrderInv, MainInv, PostInv, HeapInv, vars, ping, process,
         mainLoop, posting

\* The invariant of the relay: by owner, every t_result and where it is in
\* its life.
THEOREM RelayInvariant == Spec => []RelayInv
<1>1. RelayInv /\ [Next]_vars => RelayInv'
  BY ChildStep, PingStepInv, MainStepInv, PostStepInv, StutterInv DEF Next
<1> QED BY InitInv, <1>1, PTL DEF Spec

-----------------------------------------------------------------------------
\* The types hold, and the results are where the program counters of the
\* ping thread, the main loop and the posting threads say.
THEOREM RelayTypeCorrect == Spec => []TypeOK
<1>1. RelayInv => TypeOK
  <2> SUFFICES ASSUME RelayInv PROVE TypeOK
    OBVIOUS
  <2>1. pcP = "insert" => IsResult(made, "ping")
    BY ResultFields, Fits DEF RelayInv, PingInv, IsResult
  <2>2. \A i \in DOMAIN queue : IsResult(queue[i], "ping")
    BY QueueFields, PingFields, Fits DEF RelayInv, IsResult
  <2>3. \A r \in MainResults : IsResult(r, "main")
    BY MainFields, Fits DEF IsResult
  <2>4. /\ pcM \in {"get", "create", "sleep"}
        /\ pcM = "create" => IsResult(hand, "main")
        /\ pcM # "create" => hand = NoResult
    BY <2>3 DEF RelayInv, MainInv
  <2>5. \A k \in Cmds : post[k] = "start" => IsResult(body[k], "main")
    BY <2>3 DEF RelayInv, PostInv
  <2>6. files \subseteq Cmds /\ (pcP # "insert" => made = NoResult)
    BY DEF RelayInv, PingInv
  <2> QED BY <2>1, <2>2, <2>4, <2>5, <2>6 DEF RelayInv, PingInv, PostInv, TypeOK
<1> QED BY RelayInvariant, <1>1, PTL

\* Every t_result that is allocated has exactly the owners that the program
\* still points from: none leaks and none is used after it was freed.
THEOREM RelayOneOwner == Spec => []OneOwner
<1>1. RelayInv => OneOwner
  <2> SUFFICES ASSUME RelayInv, NEW r
               PROVE  r \in heap <=> r \in Held \ {NoResult}
    BY DEF OneOwner
  <2>1. /\ \A i \in DOMAIN queue : queue[i] # NoResult
        /\ pcM = "create" => hand # NoResult
        /\ \A k \in Cmds : post[k] = "start" => body[k] # NoResult
    BY QueueFields, PingFields, MainFields DEF RelayInv, MainInv, PostInv
  <2>2. pcP = "insert" => made # NoResult
    BY ResultFields DEF RelayInv, PingInv
  <2>3. pcP # "insert" => made = NoResult
    BY DEF RelayInv, PingInv
  <2>4. pcM # "create" => hand = NoResult
    BY DEF RelayInv, MainInv
  <2>5. \A k \in Cmds : post[k] # "start" => body[k] = NoResult
    BY DEF RelayInv, PostInv
  <2>6. r \in Held <=> \/ \E i \in DOMAIN queue : r = queue[i]
                       \/ r = made \/ r = hand \/ \E k \in Cmds : r = body[k]
    BY DEF Held, InQueue
  <2> QED BY <2>1, <2>2, <2>3, <2>4, <2>5, <2>6 DEF RelayInv, HeapInv
<1> QED BY RelayInvariant, <1>1, PTL

\* For any output a command can write: the buffers of cmdresult_malloc hold it
\* up to MaxOut + 2 bytes, the main loop's copy fits, and the copy into the
\* posting thread's array overflows exactly beyond MaxOut - 2 bytes.
THEOREM RelayOverflowBeyond == Spec => []OverflowBeyond
<1>1. RelayInv => OverflowBeyond
  <2> SUFFICES ASSUME RelayInv, NEW r \in heap
               PROVE  /\ r.len < r.size <=> r.len <= MaxOut + 1
                      /\ r.len <= r.size <=> r.len <= MaxOut + 2
                      /\ CmdresultSize(r.size) >= r.size
                      /\ r.by = "main" => (r.size > MaxOut <=> r.len + 2 > MaxOut)
    BY DEF OverflowBeyond
  <2>1. r \in PingResults \/ r \in MainResults
    BY QueueFields DEF RelayInv, HeapInv, PingInv, MainInv, PostInv, PingResults
  <2>2. CASE r \in PingResults
    BY <2>2, PingFields, Fits
  <2>3. CASE r \in MainResults
    BY <2>3, MainFields, Fits
  <2> QED BY <2>1, <2>2, <2>3
<1> QED BY RelayInvariant, <1>1, PTL

\* However the posts fail, no result is delivered twice.
THEOREM RelayAtMostOnce == Spec => []AtMostOnce
<1>1. RelayInv => AtMostOnce
  BY DEF RelayInv, PostInv, AtMostOnce
<1> QED BY RelayInvariant, <1>1, PTL

\* Only the output of a command that ended with status 0 is delivered.
THEOREM RelayOnlySuccesses == Spec => []OnlySuccesses
<1>1. RelayInv => OnlySuccesses
  BY DEF RelayInv, PingInv, PostInv, OnlySuccesses
<1> QED BY RelayInvariant, <1>1, PTL

\* Whatever fails, the ping thread removes the output file of a command.
THEOREM RelayNoFileLeft == Spec => []NoFileLeft
<1>1. RelayInv => NoFileLeft
  BY DEF RelayInv, PingInv, NoFileLeft
<1> QED BY RelayInvariant, <1>1, PTL

\* The queue keeps the order of the commands, and gives each result once.
THEOREM RelayQueueInOrder == Spec => []QueueInOrder
<1>1. RelayInv => QueueInOrder
  BY DEF RelayInv, OrderInv, QueueInOrder
<1> QED BY RelayInvariant, <1>1, PTL

-----------------------------------------------------------------------------
\* A command has a status from the moment its child ends, and not before.
StatusInv ==
    /\ \A k \in Cmds : k > cmd => status[k] = "none"
    /\ child = "running" => status[cmd] = "none"
    /\ child \in {"zombie", "reaped"} => exit \in {"ok", "error"}

LEMMA StatusInitInv == Init => StatusInv
  BY DEF Init, StatusInv

LEMMA StatusStepInv == RelayInv /\ StatusInv /\ [Next]_vars => StatusInv'
<1> SUFFICES ASSUME RelayInv, StatusInv, [Next]_vars PROVE StatusInv'
  OBVIOUS
<1>0. cmd \in 0..MaxCmds /\ (pcP = "wait" <=> child # "none")
      /\ (pcP = "wait" => cmd \in Cmds) /\ status \in [Cmds -> {"none", "ok", "error"}]
  BY DEF RelayInv, PingInv
<1>1. CASE ReceiveCommand
  <2>1. cmd \in Nat /\ cmd + 1 \in Cmds /\ cmd' = cmd + 1 /\ child' = "running" /\ status' = status
    BY <1>0, <1>1, CmdsAssumption DEF ReceiveCommand, Cmds
  <2>2. \A k \in Cmds : k > cmd + 1 => k > cmd
    BY <2>1 DEF Cmds
  <2>3. cmd + 1 > cmd
    BY <2>1
  <2> QED BY <2>1, <2>2, <2>3 DEF StatusInv
<1>2. CASE ChildExits
  <2>1. PICK st \in {"ok", "error"} : exit' = st /\ status' = [status EXCEPT ![cmd] = st]
    BY <1>2 DEF ChildExits
  <2>2. child' = "zombie" /\ cmd' = cmd
    BY <1>2 DEF ChildExits, ping
  <2> QED BY <1>0, <2>1, <2>2 DEF StatusInv, Cmds
<1>3. CASE SigchldHandler
  BY <1>0, <1>3 DEF SigchldHandler, ping, StatusInv
<1>4. CASE PingStep
  <2>1. cmd' = cmd /\ status' = status /\ exit' = exit /\ child' \in {child, "none"}
    BY <1>4 DEF PingStep, WaitReaps, WaitFails, OpenFails, StatFails, ReadOutput,
                InsertResult, ExcuteReturns, DropOutput, process
  <2> QED BY <2>1 DEF StatusInv
<1>5. CASE ForkFails \/ MainStep \/ (\E k \in Cmds : PostStep(k)) \/ UNCHANGED vars
  <2>1. UNCHANGED <<cmd, status, exit, child>>
    BY <1>5 DEF ForkFails, MainStep, GetoutNothing, GetoutResult, CreatePost, CreateFails,
                WakeUp, PostStep, BuildRequest, PostFails, PostArrives, vars, ping, process
  <2> QED BY <2>1 DEF StatusInv
<1> QED BY <1>1, <1>2, <1>3, <1>4, <1>5 DEF Next

-----------------------------------------------------------------------------
(* CommandRelay implements CommandLife.                                      *)
InQueueCmd(k) == \E i \in DOMAIN queue : queue[i].cmd = k

\* What the stage of a command depends on.
StageOfEach ==
    \A k : LifeOf(k) = IF k > cmd THEN "unknown"
                       ELSE IF k = cmd /\ pcP \in {"wait", "open", "insert"} THEN "running"
                       ELSE IF k \notin queued THEN "dropped"
                       ELSE IF InQueueCmd(k) THEN "queued"
                       ELSE IF post[k] # "done" THEN "posting"
                       ELSE "done"

LEMMA Stages == StageOfEach
<1> SUFFICES ASSUME NEW k
             PROVE  k \in {queue[i].cmd : i \in DOMAIN queue} <=> InQueueCmd(k)
  BY DEF LifeOf, StageOfEach
<1> QED BY DEF InQueueCmd

\* A step that changes the stage of one command.
LEMMA OneBecomes ==
    ASSUME NEW c \in Cmds, NEW stage, LifeOf(c)' = stage,
           \A k \in Cmds \ {c} : LifeOf(k)' = LifeOf(k)
    PROVE  Life!Becomes(c, stage)
<1>1. [k \in Cmds |-> LifeOf(k)]' = [[k \in Cmds |-> LifeOf(k)] EXCEPT ![c] = stage]
  OBVIOUS
<1> QED BY <1>1 DEF Life!Becomes

\* A step that changes none.
LEMMA NoneBecomes ==
    ASSUME \A k \in Cmds : LifeOf(k)' = LifeOf(k), UNCHANGED <<status, delivered>>
    PROVE  UNCHANGED Life!lifeVars
<1>1. [k \in Cmds |-> LifeOf(k)]' = [k \in Cmds |-> LifeOf(k)]
  OBVIOUS
<1> QED BY <1>1 DEF Life!lifeVars

LEMMA LifeInit == Init => Life!Init
<1> SUFFICES ASSUME Init PROVE Life!Init
  OBVIOUS
<1>1. \A k \in Cmds : LifeOf(k) = "unknown"
  BY DEF Init, LifeOf, Cmds
<1> QED BY <1>1 DEF Init, Life!Init, Life!Cmds, Cmds

LEMMA ReceiveLives == RelayInv /\ ReceiveCommand => \E k \in Cmds : Life!Receive(k)
<1> SUFFICES ASSUME RelayInv, ReceiveCommand PROVE \E k \in Cmds : Life!Receive(k)
  OBVIOUS
<1>a. cmd \in Nat /\ cmd + 1 \in Cmds
  BY CmdsAssumption DEF ReceiveCommand, RelayInv, PingInv, Cmds
<1>b. PICK c \in Cmds : c = cmd + 1
  BY <1>a
<1>0. /\ cmd \in Nat /\ c = cmd + 1 /\ pcP = "sleep" /\ cmd' = c /\ pcP' = "wait"
      /\ UNCHANGED <<queued, queue, post, status, delivered>>
  BY <1>a, <1>b DEF ReceiveCommand, process, posting
<1>1. LifeOf(c) = "unknown" /\ LifeOf(c)' = "running"
  BY <1>0 DEF LifeOf
<1>2. \A k \in Cmds \ {c} : LifeOf(k)' = LifeOf(k)
  BY <1>0 DEF LifeOf, Cmds
<1>3. \A k \in Cmds : k < c => LifeOf(k) \notin {"unknown", "running"}
  BY <1>0 DEF LifeOf, Cmds
<1>4. Life!Receive(c)
  BY <1>0, <1>1, <1>2, <1>3, OneBecomes DEF Life!Receive, Life!Cmds, Cmds
<1> QED BY <1>0, <1>4

LEMMA ChildLives ==
    RelayInv /\ StatusInv /\ ChildExits => Life!End(cmd) /\ cmd \in Cmds
<1> SUFFICES ASSUME RelayInv, StatusInv, ChildExits PROVE Life!End(cmd) /\ cmd \in Cmds
  OBVIOUS
<1>1. /\ pcP = "wait" /\ cmd \in Cmds /\ status[cmd] = "none"
      /\ \E st \in {"ok", "error"} : status' = [status EXCEPT ![cmd] = st]
      /\ UNCHANGED <<cmd, pcP, queued, queue, post, delivered>>
  BY DEF ChildExits, RelayInv, PingInv, StatusInv, ping, posting
<1>2. LifeOf(cmd) = "running"
  BY <1>1 DEF LifeOf, Cmds
<1>3. \A k \in Cmds : LifeOf(k)' = LifeOf(k)
  BY <1>1 DEF LifeOf
<1>4. [k \in Cmds |-> LifeOf(k)]' = [k \in Cmds |-> LifeOf(k)]
  BY <1>3
<1> QED BY <1>1, <1>2, <1>4 DEF Life!End

\* The ping thread takes a result to the queue, or drops it.
LEMMA PingLives ==
    RelayInv /\ StatusInv /\ PingStep =>
      \/ UNCHANGED Life!lifeVars
      \/ \E k \in Cmds : Life!Drop(k) \/ Life!Queue(k)
<1> SUFFICES ASSUME RelayInv, StatusInv, PingStep
             PROVE  \/ UNCHANGED Life!lifeVars
                    \/ \E k \in Cmds : Life!Drop(k) \/ Life!Queue(k)
  OBVIOUS
<1>0. UNCHANGED <<cmd, post, status, delivered>>
  BY DEF PingStep, WaitReaps, WaitFails, OpenFails, StatFails, ReadOutput, InsertResult,
         ExcuteReturns, DropOutput, process, posting
<1>1. CASE pcP \in {"wait", "open"} /\ pcP' = "sleep" /\ UNCHANGED <<queued, queue>>
  <2>1. /\ cmd \in Cmds /\ cmd \notin queued /\ status[cmd] # "none"
    BY <1>1 DEF RelayInv, PingInv, StatusInv, PingStep, WaitReaps, WaitFails, OpenFails,
                StatFails, ReadOutput, InsertResult, ExcuteReturns
  <2>2. PICK c \in Cmds : c = cmd
    BY <2>1
  <2>3. LifeOf(c) = "running" /\ LifeOf(c)' = "dropped"
    BY <1>0, <1>1, <2>1, <2>2 DEF LifeOf, Cmds
  <2>4. \A k \in Cmds \ {c} : LifeOf(k)' = LifeOf(k)
    BY <1>0, <1>1, <2>2 DEF LifeOf
  <2>5. Life!Drop(c)
    BY <1>0, <2>1, <2>2, <2>3, <2>4, OneBecomes DEF Life!Drop
  <2> QED BY <2>5
<1>2. CASE UNCHANGED <<queued, queue>> /\ (pcP \in {"wait", "open", "insert"} <=>
                                           pcP' \in {"wait", "open", "insert"})
  <2>1. \A k \in Cmds : LifeOf(k)' = LifeOf(k)
    BY <1>0, <1>2 DEF LifeOf
  <2> QED BY <1>0, <2>1, NoneBecomes
<1>3. CASE InsertResult
  <2>1. /\ cmd \in Cmds /\ status[cmd] = "ok" /\ pcP = "insert" /\ pcP' = "free"
        /\ queue' = Append(queue, made) /\ queued' = queued \cup {cmd} /\ made.cmd = cmd
        /\ queue \in Seq(PingResults)
    BY <1>3, ResultFields DEF InsertResult, RelayInv, PingInv, OrderInv
  <2>2. PICK c \in Cmds : c = cmd
    BY <2>1
  <2>3. \A k : InQueueCmd(k)' <=> InQueueCmd(k) \/ k = c
    <3>1. /\ Len(queue) \in Nat /\ DOMAIN queue = 1..Len(queue)
          /\ DOMAIN queue' = 1..(Len(queue) + 1) /\ queue'[Len(queue) + 1] = made
          /\ \A i \in 1..Len(queue) : queue'[i] = queue[i]
      BY <2>1, AppendProperties, LenProperties
    <3>2. \A i \in 1..(Len(queue) + 1) : i \in 1..Len(queue) \/ i = Len(queue) + 1
      BY <3>1
    <3>3. Len(queue) + 1 \in 1..(Len(queue) + 1) /\ \A i \in 1..Len(queue) : i \in 1..(Len(queue) + 1)
      BY <3>1
    <3> SUFFICES ASSUME NEW k PROVE InQueueCmd(k)' <=> InQueueCmd(k) \/ k = c
      OBVIOUS
    <3> QED BY <2>1, <2>2, <3>1, <3>2, <3>3 DEF InQueueCmd
  <2>4. LifeOf(c) = "running"
    BY <2>1, <2>2 DEF LifeOf, Cmds
  <2>5. StageOfEach /\ StageOfEach'
    BY Stages, PTL
  <2>6. LifeOf(c)' = "queued"
    BY <1>0, <2>1, <2>2, <2>3, <2>5 DEF StageOfEach, Cmds
  <2>7. \A k \in Cmds \ {c} : LifeOf(k)' = LifeOf(k)
    BY <1>0, <2>1, <2>2, <2>3, <2>5 DEF StageOfEach
  <2>8. Life!Queue(c)
    BY <1>0, <2>1, <2>2, <2>4, <2>6, <2>7, OneBecomes DEF Life!Queue
  <2> QED BY <2>8
<1>4. CASE WaitReaps \/ WaitFails \/ OpenFails \/ StatFails \/ ReadOutput \/ ExcuteReturns
  BY <1>1, <1>2, <1>4 DEF WaitReaps, WaitFails, OpenFails, StatFails, ReadOutput,
                          ExcuteReturns, DropOutput
<1> QED BY <1>3, <1>4 DEF PingStep

\* The first result of the queue is the oldest; from then on it is posted or lost.
LEMMA MainLives ==
    RelayInv /\ MainStep => UNCHANGED Life!lifeVars \/ \E k \in Cmds : Life!Take(k) \/ Life!Lose(k)
<1> SUFFICES ASSUME RelayInv, MainStep
             PROVE  UNCHANGED Life!lifeVars \/ \E k \in Cmds : Life!Take(k) \/ Life!Lose(k)
  OBVIOUS
<1>0. /\ UNCHANGED <<cmd, pcP, queued, status, delivered>>
      /\ pcP \in {"wait", "open", "insert"} => cmd \notin queued
      /\ \A k \in queued : k <= cmd
      /\ cmd \in Nat /\ queued \subseteq Cmds
  BY DEF MainStep, GetoutNothing, GetoutResult, CreatePost, CreateFails, WakeUp, ping, process,
         posting, RelayInv, PingInv
<1>a. StageOfEach /\ StageOfEach'
  BY Stages, PTL
<1>b. \A k \in queued : LifeOf(k) = IF InQueueCmd(k) THEN "queued"
                                    ELSE IF post[k] # "done" THEN "posting" ELSE "done"
  BY <1>0, <1>a DEF StageOfEach, Cmds
<1>c. \A k \in queued : LifeOf(k)' = IF InQueueCmd(k)' THEN "queued"
                                     ELSE IF post'[k] # "done" THEN "posting" ELSE "done"
  BY <1>0, <1>a DEF StageOfEach, Cmds
<1>d. \A k \in Cmds : k \notin queued => LifeOf(k)' = LifeOf(k)
  BY <1>0, <1>a DEF StageOfEach
<1>1. CASE GetoutNothing \/ WakeUp
  <2>1. \A k \in Cmds : LifeOf(k)' = LifeOf(k)
    BY <1>0, <1>1 DEF GetoutNothing, WakeUp, posting, LifeOf
  <2> QED BY <1>0, <2>1, NoneBecomes
<1>2. CASE GetoutResult
  <2>1. /\ queue' = Tail(queue) /\ post' = post /\ queue # <<>> /\ queue \in Seq(PingResults)
    BY <1>2 DEF GetoutResult, posting, RelayInv, OrderInv
  <2>2. /\ Len(queue) \in Nat /\ Len(queue) # 0 /\ DOMAIN queue = 1..Len(queue)
        /\ DOMAIN queue' = 1..(Len(queue) - 1)
        /\ \A i \in 1..(Len(queue) - 1) : queue'[i] = queue[i + 1]
    BY <2>1, HeadTailProperties, LenProperties, EmptySeq
  <2>3. /\ 1 \in DOMAIN queue
        /\ \A i \in DOMAIN queue : queue[i].cmd \in queued /\ post[queue[i].cmd] = "none"
        /\ \A i, j \in DOMAIN queue : i < j => queue[i].cmd < queue[j].cmd
    BY <2>2 DEF RelayInv, OrderInv
  <2>4. PICK c \in queued : c = queue[1].cmd
    BY <2>3
  <2>5. c \in Cmds /\ \A i \in DOMAIN queue : queue[i].cmd \in Cmds
    BY <1>0, <2>3, <2>4
  <2>6. \A i \in DOMAIN queue : i # 1 => i - 1 \in 1..(Len(queue) - 1) /\ (i - 1) + 1 = i
    BY <2>2
  <2>7. \A i \in 1..(Len(queue) - 1) : i + 1 \in DOMAIN queue /\ i + 1 > 1
    BY <2>2
  <2>8. \A k : InQueueCmd(k)' <=> InQueueCmd(k) /\ k # c
    <3> SUFFICES ASSUME NEW k PROVE InQueueCmd(k)' <=> InQueueCmd(k) /\ k # c
      OBVIOUS
    <3>1. ASSUME InQueueCmd(k)' PROVE InQueueCmd(k) /\ k # c
      <4>1. PICK i \in 1..(Len(queue) - 1) : queue[i + 1].cmd = k
        BY <2>2, <3>1 DEF InQueueCmd
      <4>2. c < k
        BY <2>3, <2>4, <2>7, <4>1
      <4> QED BY <2>5, <2>7, <4>1, <4>2 DEF InQueueCmd, Cmds
    <3>2. ASSUME InQueueCmd(k), k # c PROVE InQueueCmd(k)'
      <4>1. PICK i \in DOMAIN queue : queue[i].cmd = k /\ i # 1
        BY <2>4, <3>2 DEF InQueueCmd
      <4>2. queue'[i - 1].cmd = k
        BY <2>2, <2>6, <4>1
      <4> QED BY <2>2, <2>6, <4>1, <4>2 DEF InQueueCmd
    <3> QED BY <3>1, <3>2
  <2>9. LifeOf(c) = "queued" /\ LifeOf(c)' = "posting"
    BY <1>b, <1>c, <2>1, <2>3, <2>4, <2>8 DEF InQueueCmd
  <2>10. \A k \in Cmds \ {c} : LifeOf(k)' = LifeOf(k)
    BY <1>b, <1>c, <1>d, <2>1, <2>8
  <2>11. \A k \in Cmds : LifeOf(k) = "queued" => c <= k
    <3> SUFFICES ASSUME NEW k \in Cmds, LifeOf(k) = "queued" PROVE c <= k
      OBVIOUS
    <3>1. PICK i \in DOMAIN queue : queue[i].cmd = k
      BY <1>a DEF StageOfEach, InQueueCmd
    <3> QED BY <2>2, <2>3, <2>4, <2>5, <3>1 DEF Cmds
  <2>12. Life!Take(c)
    BY <1>0, <2>5, <2>9, <2>10, <2>11, OneBecomes DEF Life!Take, Life!Cmds, Cmds
  <2> QED BY <2>5, <2>12
<1>3. CASE CreatePost \/ CreateFails
  <2>1. /\ pcM = "create" /\ queue' = queue
        /\ \/ post' = [post EXCEPT ![hand.cmd] = "start"]
           \/ post' = [post EXCEPT ![hand.cmd] = "done"]
    BY <1>3 DEF CreatePost, CreateFails
  <2>2. /\ hand.cmd \in queued /\ hand.cmd \in Cmds /\ post[hand.cmd] = "none" /\ ~InQueueCmd(hand.cmd)
        /\ post \in [Cmds -> {"none", "start", "request", "done"}]
    BY <1>0, <2>1 DEF RelayInv, MainInv, PostInv, InQueueCmd
  <2>3. PICK c \in Cmds : c = hand.cmd
    BY <2>2
  <2>4. \A k : InQueueCmd(k)' <=> InQueueCmd(k)
    BY <2>1 DEF InQueueCmd
  <2>5. \A k \in Cmds \ {c} : LifeOf(k)' = LifeOf(k)
    BY <1>b, <1>c, <1>d, <2>1, <2>2, <2>3, <2>4
  <2>6. LifeOf(c) = "posting"
    BY <1>b, <2>2, <2>3
  <2>7. CASE post' = [post EXCEPT ![hand.cmd] = "start"]
    <3>1. LifeOf(c)' = LifeOf(c)
      BY <1>c, <2>2, <2>3, <2>4, <2>6, <2>7
    <3> QED BY <1>0, <2>5, <3>1, NoneBecomes
  <2>8. CASE post' = [post EXCEPT ![hand.cmd] = "done"]
    <3>1. LifeOf(c)' = "done"
      BY <1>c, <2>2, <2>3, <2>4, <2>8
    <3>2. Life!Lose(c)
      BY <1>0, <2>5, <2>6, <3>1, OneBecomes DEF Life!Lose
    <3> QED BY <3>2
  <2> QED BY <2>1, <2>7, <2>8
<1> QED BY <1>1, <1>2, <1>3 DEF MainStep

\* A post that was tried is over, with the result delivered or lost.
LEMMA PostLives ==
    ASSUME RelayInv, NEW c \in Cmds, PostStep(c)
    PROVE  UNCHANGED Life!lifeVars \/ Life!Deliver(c) \/ Life!Lose(c)
<1>0. UNCHANGED <<cmd, pcP, queued, queue, status>>
  BY DEF PostStep, BuildRequest, PostFails, PostArrives, ping, process
<1>1. /\ post \in [Cmds -> {"none", "start", "request", "done"}]
      /\ post[c] # "none" => c \in queued /\ c <= cmd /\ ~InQueueCmd(c)
      /\ pcP \in {"wait", "open", "insert"} => cmd \notin queued
      /\ cmd \in Nat
  BY DEF RelayInv, PostInv, OrderInv, PingInv, InQueueCmd
<1>a. StageOfEach /\ StageOfEach'
  BY Stages, PTL
<1>b. \A k : InQueueCmd(k)' <=> InQueueCmd(k)
  BY <1>0 DEF InQueueCmd
<1>2. ASSUME post' = [post EXCEPT ![c] = "done"], post[c] = "request"
      PROVE  Life!Becomes(c, "done") /\ LifeOf(c) = "posting"
  <2>1. LifeOf(c) = "posting" /\ LifeOf(c)' = "done"
    BY <1>0, <1>1, <1>2, <1>a, <1>b DEF StageOfEach, Cmds
  <2>2. \A k \in Cmds \ {c} : LifeOf(k)' = LifeOf(k)
    BY <1>0, <1>1, <1>2, <1>a, <1>b DEF StageOfEach
  <2> QED BY <2>1, <2>2, OneBecomes
<1>3. CASE BuildRequest(c)
  <2>1. post[c] = "start" /\ post' = [post EXCEPT ![c] = "request"] /\ delivered' = delivered
    BY <1>3 DEF BuildRequest
  <2>2. \A k \in Cmds : LifeOf(k)' = LifeOf(k)
    BY <1>0, <1>1, <1>a, <1>b, <2>1 DEF StageOfEach
  <2> QED BY <1>0, <2>1, <2>2, NoneBecomes
<1>4. CASE PostFails(c)
  <2>1. post[c] = "request" /\ post' = [post EXCEPT ![c] = "done"] /\ delivered' = delivered
    BY <1>4 DEF PostFails
  <2>2. Life!Lose(c)
    BY <1>0, <1>2, <2>1 DEF Life!Lose
  <2> QED BY <2>2
<1>5. CASE PostArrives(c)
  <2>1. /\ post[c] = "request" /\ post' = [post EXCEPT ![c] = "done"]
        /\ delivered' = [delivered EXCEPT ![c] = @ + 1]
    BY <1>5 DEF PostArrives
  <2>2. Life!Deliver(c)
    BY <1>0, <1>2, <2>1 DEF Life!Deliver
  <2> QED BY <2>2
<1> QED BY <1>3, <1>4, <1>5 DEF PostStep

LEMMA LifeStep == RelayInv /\ StatusInv /\ [Next]_vars => [Life!Next]_(Life!lifeVars)
<1> SUFFICES ASSUME RelayInv, StatusInv, [Next]_vars PROVE [Life!Next]_(Life!lifeVars)
  OBVIOUS
<1>0. Life!Cmds = Cmds
  BY DEF Life!Cmds, Cmds
<1>1. CASE ForkFails \/ SigchldHandler \/ UNCHANGED vars
  <2>1. UNCHANGED <<cmd, pcP, queued, queue, post, status, delivered>>
    BY <1>1 DEF ForkFails, SigchldHandler, vars, ping, process, posting
  <2>2. \A k \in Cmds : LifeOf(k)' = LifeOf(k)
    BY <2>1 DEF LifeOf
  <2> QED BY <2>1, <2>2, NoneBecomes
<1>2. CASE ReceiveCommand
  BY <1>0, <1>2, ReceiveLives DEF Life!Next
<1>3. CASE ChildExits
  BY <1>0, <1>3, ChildLives DEF Life!Next
<1>4. CASE PingStep
  BY <1>0, <1>4, PingLives DEF Life!Next
<1>5. CASE MainStep
  BY <1>0, <1>5, MainLives DEF Life!Next
<1>6. ASSUME NEW k \in Cmds, PostStep(k) PROVE [Life!Next]_(Life!lifeVars)
  BY <1>0, <1>6, PostLives DEF Life!Next
<1> QED BY <1>1, <1>2, <1>3, <1>4, <1>5, <1>6 DEF Next

\* From the answer to a ping to the post, with the child process, the handler
\* of SIGCHLD, the queue and the posting threads in between, every command has
\* the life that CommandLife allows it.
THEOREM RelayImplementsLife == Spec => LifeSpec
<1>1. RelayInv /\ StatusInv /\ [Next]_vars => (RelayInv /\ StatusInv)'
  BY ChildStep, PingStepInv, MainStepInv, PostStepInv, StutterInv, StatusStepInv DEF Next
<1> QED BY InitInv, StatusInitInv, LifeInit, LifeStep, <1>1, PTL DEF Spec, LifeSpec, Life!Spec

-----------------------------------------------------------------------------
(* The queue of CommandRelay implements ResultFifo.  Its results have         *)
(* consecutive ranks, the last one that of the result queued last.            *)
RankIn(set, k) == Cardinality({j \in set : j <= k})

RanksIn(set, results) == {RankIn(set, results[i].cmd) : i \in DOMAIN results}

RankInv == \A i \in DOMAIN queue :
             RankIn(queued, queue[i].cmd) = Cardinality(queued) - Len(queue) + i

\* What Fifo's variables stand for.
LEMMA FifoVariables ==
    /\ {Rank(queue[i].cmd) : i \in DOMAIN queue} = RanksIn(queued, queue)
    /\ {Rank(queue[i].cmd) : i \in DOMAIN queue}' = RanksIn(queued', queue')
  BY DEF Rank, RankIn, RanksIn

LEMMA QueuedFinite ==
    ASSUME PingInv
    PROVE  IsFiniteSet(queued) /\ Cardinality(queued) \in Nat
<1>1. IsFiniteSet(1..MaxCmds)
  BY CmdsAssumption, FS_Interval
<1> QED BY <1>1, FS_Subset, FS_CardinalityType DEF PingInv, Cmds

LEMMA RankInitInv == Init => RankInv /\ Fifo!Init
<1> SUFFICES ASSUME Init PROVE RankInv /\ Fifo!Init
  OBVIOUS
<1>1. queue = <<>> /\ queued = {} /\ DOMAIN queue = {} /\ Len(queue) = 0
  BY DEF Init
<1>2. Cardinality(queued) = 0 /\ RanksIn(queued, queue) = {}
  BY <1>1, FS_EmptySet DEF RanksIn
<1> QED BY <1>1, <1>2, FifoVariables DEF RankInv, Fifo!Init

\* The result that the ping thread queues has the next rank; the others keep theirs.
LEMMA RankPut ==
    ASSUME RelayInv, RankInv, InsertResult
    PROVE  RankInv' /\ Fifo!Put
<1> DEFINE put == Cardinality(queued)
           len == Len(queue)
<1>1. /\ queue' = Append(queue, made) /\ queued' = queued \cup {cmd} /\ made.cmd = cmd
      /\ cmd \in Cmds /\ cmd \notin queued /\ (\A k \in queued : k <= cmd) /\ queued \subseteq Cmds
      /\ queue \in Seq(PingResults) /\ (\A i \in DOMAIN queue : queue[i].cmd \in queued)
  BY ResultFields DEF InsertResult, RelayInv, PingInv, OrderInv
<1>2. /\ IsFiniteSet(queued) /\ put \in Nat
      /\ IsFiniteSet(queued') /\ Cardinality(queued') = put + 1
  BY <1>1, QueuedFinite, FS_AddElement DEF RelayInv
<1>3. put + 1 <= MaxCmds
  <2>1. IsFiniteSet(1..MaxCmds) /\ Cardinality(1..MaxCmds) = MaxCmds
    <3>1. 0 > MaxCmds \/ MaxCmds - 1 + 1 = MaxCmds
      BY CmdsAssumption
    <3>2. /\ 1 \in Int /\ MaxCmds \in Int /\ (1 > MaxCmds => MaxCmds = 0)
      BY CmdsAssumption
    <3> QED BY <3>2, CmdsAssumption, FS_Interval
  <2>2. queued' \in SUBSET (1..MaxCmds)
    BY <1>1 DEF Cmds
  <2> QED BY <1>2, <2>1, <2>2, FS_Subset
<1>4. \A k \in queued : RankIn(queued', k) = RankIn(queued, k)
  <2> SUFFICES ASSUME NEW k \in queued
               PROVE  {j \in queued' : j <= k} = {j \in queued : j <= k}
    BY DEF RankIn
  <2>1. k < cmd
    BY <1>1 DEF Cmds
  <2> QED BY <1>1, <2>1 DEF Cmds
<1>6. RankIn(queued', cmd) = put + 1
  <2>0. \A j \in queued' : j <= cmd
    <3>1. cmd <= cmd
      BY <1>1 DEF Cmds
    <3> QED BY <1>1, <3>1
  <2>1. {j \in queued' : j <= cmd} = queued'
    BY <2>0
  <2> QED BY <1>2, <2>1 DEF RankIn
<1>7. /\ len \in Nat /\ DOMAIN queue = 1..len /\ Len(queue') = len + 1
      /\ DOMAIN queue' = 1..(len + 1) /\ queue'[len + 1].cmd = cmd
      /\ \A i \in 1..len : queue'[i] = queue[i]
  BY <1>1, AppendProperties, LenProperties
<1>8. \A i \in 1..(len + 1) : i \in 1..len \/ i = len + 1
  BY <1>7
<1>9. \A i \in 1..len : /\ i \in 1..(len + 1)
                        /\ RankIn(queued', queue'[i].cmd) = RankIn(queued, queue[i].cmd)
                        /\ RankIn(queued, queue[i].cmd) = put - len + i
  <2> SUFFICES ASSUME NEW i \in 1..len
               PROVE  /\ i \in 1..(len + 1)
                      /\ RankIn(queued', queue'[i].cmd) = RankIn(queued, queue[i].cmd)
                      /\ RankIn(queued, queue[i].cmd) = put - len + i
    OBVIOUS
  <2>1. i \in 1..(len + 1)
    BY <1>7
  <2>2. queue'[i] = queue[i] /\ queue[i].cmd \in queued
    BY <1>1, <1>7
  <2>3. RankIn(queued', queue'[i].cmd) = RankIn(queued, queue[i].cmd)
    BY <1>4, <2>2
  <2>4. RankIn(queued, queue[i].cmd) = put - len + i
    BY <1>7 DEF RankInv
  <2> QED BY <2>1, <2>3, <2>4
<1>10. \A i \in 1..(len + 1) : RankIn(queued', queue'[i].cmd) = (put + 1) - (len + 1) + i
  <2> SUFFICES ASSUME NEW i \in 1..(len + 1)
               PROVE  RankIn(queued', queue'[i].cmd) = (put + 1) - (len + 1) + i
    OBVIOUS
  <2>1. CASE i \in 1..len
    <3>1. (put + 1) - (len + 1) + i = put - len + i
      BY <1>2, <1>7
    <3> QED BY <1>9, <2>1, <3>1
  <2>2. CASE i = len + 1
    <3>1. (put + 1) - (len + 1) + (len + 1) = put + 1
      BY <1>2, <1>7
    <3> QED BY <1>6, <1>7, <2>2, <3>1
  <2> QED BY <1>8, <2>1, <2>2
<1>11. RankInv'
  BY <1>2, <1>7, <1>10 DEF RankInv
<1>12. RanksIn(queued', queue') = RanksIn(queued, queue) \cup {put + 1}
  <2>1. \A x : x \in RanksIn(queued', queue') <=>
                 \E i \in 1..(len + 1) : x = RankIn(queued', queue'[i].cmd)
    BY <1>7 DEF RanksIn
  <2>2. \A x : x \in RanksIn(queued, queue) <=>
                 \E i \in 1..len : x = RankIn(queued, queue[i].cmd)
    BY <1>7 DEF RanksIn
  <2>3. RankIn(queued', queue'[len + 1].cmd) = put + 1 /\ len + 1 \in 1..(len + 1)
    BY <1>6, <1>7
  <2>4. \A x : x \in RanksIn(queued', queue') <=> x \in RanksIn(queued, queue) \/ x = put + 1
    BY <1>8, <1>9, <2>1, <2>2, <2>3
  <2> QED BY <2>4
<1>13. Cardinality(queued') - Len(queue') = put - len
  BY <1>2, <1>7
<1>14. put < MaxCmds
  BY <1>2, <1>3, CmdsAssumption
<1>15. Fifo!Put
  BY <1>2, <1>12, <1>13, <1>14, FifoVariables DEF Fifo!Put
<1> QED BY <1>11, <1>15

\* The main loop takes the result of the smallest rank.
LEMMA RankGet ==
    ASSUME RelayInv, RankInv, GetoutResult
    PROVE  RankInv' /\ Fifo!Get
<1> DEFINE put == Cardinality(queued)
           len == Len(queue)
           r == RankIn(queued, queue[1].cmd)
<1>1. queue' = Tail(queue) /\ queue # <<>> /\ queued' = queued /\ queue \in Seq(PingResults)
  BY DEF GetoutResult, ping, RelayInv, OrderInv
<1>2. put \in Nat
  BY QueuedFinite DEF RelayInv
<1>3. /\ len \in Nat /\ len # 0 /\ DOMAIN queue = 1..len /\ Len(queue') = len - 1
      /\ DOMAIN queue' = 1..(len - 1)
      /\ \A i \in 1..(len - 1) : queue'[i] = queue[i + 1]
  BY <1>1, HeadTailProperties, LenProperties, EmptySeq
<1>4. \A i \in 1..len : RankIn(queued, queue[i].cmd) = put - len + i
  BY <1>3 DEF RankInv
<1>5. r = put - len + 1 /\ 1 \in 1..len
  BY <1>3, <1>4
<1>6. \A i \in 1..(len - 1) : RankIn(queued', queue'[i].cmd) = put - (len - 1) + i
  <2> SUFFICES ASSUME NEW i \in 1..(len - 1)
               PROVE  RankIn(queued', queue'[i].cmd) = put - (len - 1) + i
    OBVIOUS
  <2>1. i + 1 \in 1..len /\ put - len + (i + 1) = put - (len - 1) + i
    BY <1>2, <1>3
  <2> QED BY <1>1, <1>3, <1>4, <2>1
<1>7. RankInv'
  BY <1>1, <1>3, <1>6 DEF RankInv
<1>8. \A x : x \in RanksIn(queued, queue) <=> \E i \in 1..len : x = put - len + i
  BY <1>3, <1>4 DEF RanksIn
<1>9. \A x : x \in RanksIn(queued', queue') <=> \E i \in 1..(len - 1) : x = put - (len - 1) + i
  BY <1>3, <1>6 DEF RanksIn
<1>10. r \in RanksIn(queued, queue) /\ \A s \in RanksIn(queued, queue) : r <= s
  <2>1. \A i \in 1..len : put - len + 1 <= put - len + i
    BY <1>2, <1>3
  <2> QED BY <1>5, <1>8, <2>1
<1>11. RanksIn(queued', queue') = RanksIn(queued, queue) \ {r}
  <2>1. ASSUME NEW i \in 1..(len - 1)
        PROVE  /\ i + 1 \in 1..len /\ put - (len - 1) + i = put - len + (i + 1)
               /\ put - (len - 1) + i # r
    BY <1>2, <1>3, <1>5
  <2>2. ASSUME NEW i \in 1..len, put - len + i # r
        PROVE  i - 1 \in 1..(len - 1) /\ put - len + i = put - (len - 1) + (i - 1)
    BY <1>2, <1>3, <1>5, <2>2
  <2>3. \A x \in RanksIn(queued', queue') : x \in RanksIn(queued, queue) \ {r}
    BY <1>8, <1>9, <2>1
  <2>4. \A x \in RanksIn(queued, queue) \ {r} : x \in RanksIn(queued', queue')
    BY <1>8, <1>9, <2>2
  <2> QED BY <2>3, <2>4
<1>12. Cardinality(queued') - Len(queue') = r
  <2>1. put - (len - 1) = put - len + 1
    BY <1>2, <1>3
  <2> QED BY <1>1, <1>3, <1>5, <2>1
<1>13. Fifo!Get
  BY <1>1, <1>10, <1>11, <1>12, FifoVariables DEF Fifo!Get
<1> QED BY <1>7, <1>13

LEMMA FifoStep == RelayInv /\ RankInv /\ [Next]_vars => RankInv' /\ [Fifo!Next]_(Fifo!fifoVars)
<1> SUFFICES ASSUME RelayInv, RankInv, [Next]_vars
             PROVE  RankInv' /\ [Fifo!Next]_(Fifo!fifoVars)
  OBVIOUS
<1>1. CASE InsertResult
  BY <1>1, RankPut DEF Fifo!Next
<1>2. CASE GetoutResult
  BY <1>2, RankGet DEF Fifo!Next
<1>3. CASE UNCHANGED <<queue, queued>>
  <2>1. RankInv'
    BY <1>3 DEF RankInv
  <2>2. UNCHANGED Fifo!fifoVars
    BY <1>3, FifoVariables DEF Fifo!fifoVars
  <2> QED BY <2>1, <2>2
<1>4. InsertResult \/ GetoutResult \/ UNCHANGED <<queue, queued>>
  BY DEF Next, ReceiveCommand, ForkFails, ChildExits, SigchldHandler, PingStep, MainStep,
         WaitReaps, WaitFails, OpenFails, StatFails, ReadOutput, ExcuteReturns, DropOutput,
         GetoutNothing, CreatePost, CreateFails, WakeUp, PostStep, BuildRequest, PostFails,
         PostArrives, vars, ping
<1> QED BY <1>1, <1>2, <1>3, <1>4

\* Seen from the ping thread and the main loop the queue is first in, first
\* out: the contract that QueueImplementsFifo proves of smartac_resultqueue.c.
THEOREM RelayImplementsFifo == Spec => FifoSpec
<1>1. RelayInv /\ RankInv /\ [Next]_vars => (RelayInv /\ RankInv)'
  BY ChildStep, PingStepInv, MainStepInv, PostStepInv, StutterInv, FifoStep DEF Next
<1>2. Init => RankInv /\ Fifo!Init
  BY RankInitInv
<1> QED BY InitInv, <1>1, <1>2, FifoStep, PTL DEF Spec, FifoSpec, Fifo!Spec
=============================================================================
