---------------------------- MODULE HttpGetProof ----------------------------
(***************************************************************************)
(* Proofs about HttpGet, for any number of threads and servers, any size   *)
(* of the buffer and answers of any length: the exchange in detail is an   *)
(* exchange of AcServers, so that what is proved there holds here, and     *)
(* nothing that is appended to the answer is cut off.                      *)
(***************************************************************************)
EXTENDS HttpGet, AcServersProof

\* Each step of the detailed exchange is a step of AcServers or none.
LEMMA StepIsServersStep == [HttpNext]_httpVars => [Next]_vars
<1> SUFFICES ASSUME [HttpNext]_httpVars PROVE [Next]_vars
  OBVIOUS
<1>1. CASE UNCHANGED httpVars
  BY <1>1 DEF httpVars
<1>2. ASSUME NEW t \in Threads, Connect(t) PROVE [Next]_vars
  <2>1. Step(t)
    BY <1>2 DEF Connect, Step
  <2> QED BY <2>1 DEF Next
<1>3. ASSUME NEW t \in Threads, Exchange(t) PROVE [Next]_vars
  <2>1. CASE SendRequest(t) \/ SendFails(t) \/ ReadEnds(t) \/ ReadFails(t)
    <3>1. Step(t)
      BY <2>1 DEF SendRequest, SendFails, ReadEnds, ReadFails, Step
    <3> QED BY <3>1 DEF Next
  <2>2. CASE ReadSome(t) \/ PstrGrow(t) \/ PstrCat(t)
    <3>1. UNCHANGED vars
      BY <2>2 DEF ReadSome, PstrGrow, PstrCat, Change
    <3> QED BY <3>1
  <2> QED BY <1>3, <2>1, <2>2 DEF Exchange, ReadLoop
<1> QED BY <1>1, <1>2, <1>3 DEF HttpNext

\* http_get, piece by piece, is the exchange that AcServers takes for one step.
THEOREM HttpImplementsServers == HttpSpec => Spec
<1>1. HttpInit => Init
  BY DEF HttpInit
<1> QED BY <1>1, StepIsServersStep, PTL DEF HttpSpec, Spec

\* Whatever is proved of AcServers holds with the exchange in detail.
THEOREM HttpServersInvariant == HttpSpec => []ServersInv
  BY HttpImplementsServers, ServersInvariant, PTL

\* Also with the exchange in detail connect_ac_server is one step.
THEOREM HttpImplementsChoice == HttpSpec => ChoiceSpec
  BY HttpImplementsServers, ServersImplementChoice, PTL

-----------------------------------------------------------------------------
LEMMA HttpInitInv == HttpInit => HttpInv
  BY BufAssumption DEF HttpInit, Init, HttpInv, ResponseWhole, Responses, NoResponse

\* A step that leaves every answer as it is, or gives one up, and starts none.
LEMMA NoReading ==
    ASSUME HttpInv, NEW t \in Threads,
           response' = [response EXCEPT ![t] = NoResponse] \/ UNCHANGED response,
           \A u \in Threads : pc'[u] = "read" => u # t /\ pc[u] = "read"
    PROVE  HttpInv'
<1>1. NoResponse \in Responses
  BY BufAssumption DEF NoResponse, Responses
<1>2. response' \in [Threads -> Responses]
  BY <1>1 DEF HttpInv
<1>3. \A u \in Threads : u # t => response'[u] = response[u]
  BY DEF HttpInv
<1> QED BY <1>2, <1>3 DEF HttpInv, ResponseWhole

\* A step of the reading loop on one thread's answer.
LEMMA ChangeKeeps ==
    ASSUME HttpInv, NEW t \in Threads, NEW r \in Responses, Change(t, r),
           r.text = r.len, r.len < r.size,
           r.len + (IF r.chunk = NULL THEN 0 ELSE r.chunk) <= r.received
    PROVE  HttpInv'
<1>1. /\ response' \in [Threads -> Responses]
      /\ response'[t] = r
      /\ \A u \in Threads : u # t => response'[u] = response[u]
      /\ pc' = pc
  BY DEF HttpInv, Change, vars
<1> QED BY <1>1 DEF HttpInv, ResponseWhole

LEMMA HttpStepInv == HttpInv /\ TypeOK /\ [HttpNext]_httpVars => HttpInv'
<1> SUFFICES ASSUME HttpInv, TypeOK, [HttpNext]_httpVars PROVE HttpInv'
  OBVIOUS
<1> USE BufAssumption
<1>1. CASE UNCHANGED httpVars
  BY <1>1 DEF httpVars, vars, HttpInv, ResponseWhole
<1>2. ASSUME NEW t \in Threads, Connect(t) PROVE HttpInv'
  <2>1. UNCHANGED response
    BY <1>2 DEF Connect
  <2>2. \A u \in Threads : pc'[u] = "read" => u # t /\ pc[u] = "read"
    BY <1>2 DEF Connect, GetAcServer, ConnectAcServer, Attempt, UnlockConfig, GiveUp, NoDns,
                UnknownHost, NoSocket, Refused, Connected, Return, NextLevel, MayTry,
                LeaveConnect, TypeOK
  <2> QED BY <2>1, <2>2, NoReading
<1>3. ASSUME NEW t \in Threads, SendRequest(t) PROVE HttpInv'
  <2>1. /\ PstrNew \in Responses /\ PstrNew.text = PstrNew.len /\ PstrNew.len < PstrNew.size
        /\ PstrNew.chunk = NULL /\ PstrNew.len <= PstrNew.received
    BY DEF PstrNew, NoResponse, Responses
  <2>2. /\ response' = [response EXCEPT ![t] = PstrNew]
        /\ pc' = [pc EXCEPT ![t] = "read"]
    BY <1>3 DEF SendRequest, HttpSend
  <2>3. \A u \in Threads : u # t => response'[u] = response[u] /\ pc'[u] = pc[u]
    BY <2>2 DEF HttpInv, TypeOK
  <2>4. response' \in [Threads -> Responses] /\ response'[t] = PstrNew
    BY <2>1, <2>2 DEF HttpInv
  <2>5. PstrNew.len + 0 <= PstrNew.received
    BY <2>1 DEF Responses
  <2> QED BY <2>1, <2>3, <2>4, <2>5 DEF HttpInv, ResponseWhole
<1>4. ASSUME NEW t \in Threads, SendFails(t) \/ ReadEnds(t) \/ ReadFails(t) PROVE HttpInv'
  <2>1. CloseSocket(t)
    BY <1>4 DEF SendFails, ReadEnds, ReadFails, HttpError, HttpDone
  <2>2. \A u \in Threads : pc'[u] = "read" => u # t /\ pc[u] = "read"
    BY <2>1 DEF CloseSocket, TypeOK
  <2> QED BY <1>4, <2>2, NoReading DEF SendFails, ReadEnds, ReadFails
<1>5. ASSUME NEW t \in Threads, NEW n \in 1..MaxBuf - 1, NEW inlen \in 0..n, Reading(t),
             Change(t, [response[t] EXCEPT !.chunk = inlen, !.received = @ + n])
      PROVE  HttpInv'
  <2> DEFINE r == response[t]
             new == [r EXCEPT !.chunk = inlen, !.received = @ + n]
  <2>1. r \in Responses /\ pc[t] = "read" /\ r.chunk = NULL
    BY <1>5 DEF Reading, HttpInv
  <2>2. r.text = r.len /\ r.len < r.size /\ r.len + 0 <= r.received
    BY <2>1 DEF HttpInv, ResponseWhole
  <2>3. inlen \in 0..MaxBuf - 1 \cup {NULL} /\ n \in Nat
    OBVIOUS
  <2>4. r.len \in Nat /\ r.received \in Nat /\ r.received + n \in Nat
    BY <2>1, <2>3 DEF Responses
  <2>5. new \in Responses
    BY <2>1, <2>3, <2>4 DEF Responses
  <2>6. new.text = r.text /\ new.len = r.len /\ new.size = r.size /\ new.chunk = inlen
        /\ new.received = r.received + n
    BY <2>1 DEF Responses
  <2>7. new.len + (IF new.chunk = NULL THEN 0 ELSE new.chunk) <= new.received
    BY <2>2, <2>6, <2>4
  <2> QED BY <1>5, <2>2, <2>5, <2>6, <2>7, ChangeKeeps
<1>6. ASSUME NEW t \in Threads, PstrGrow(t) PROVE HttpInv'
  <2> DEFINE r == response[t]
             new == [r EXCEPT !.size = @ + MaxBuf]
  <2>1. Change(t, new) /\ r \in Responses /\ pc[t] = "read"
    BY <1>6 DEF PstrGrow, HttpInv
  <2>2. r.text = r.len /\ r.len < r.size
        /\ r.len + (IF r.chunk = NULL THEN 0 ELSE r.chunk) <= r.received
    BY <2>1 DEF HttpInv, ResponseWhole
  <2>3. new \in Responses
    BY <2>1 DEF Responses
  <2>4. new.text = r.text /\ new.len = r.len /\ new.chunk = r.chunk
        /\ new.received = r.received /\ new.size = r.size + MaxBuf
    BY <2>1 DEF Responses
  <2>5. r.len \in Nat /\ r.size \in Nat
    BY <2>1 DEF Responses
  <2>6. new.len < new.size
    BY <2>2, <2>4, <2>5
  <2> QED BY <2>1, <2>2, <2>3, <2>4, <2>6, ChangeKeeps
<1>7. ASSUME NEW t \in Threads, PstrCat(t) PROVE HttpInv'
  <2> DEFINE r == response[t]
             new == [r EXCEPT !.text = @ + Smaller(r.chunk, r.size - r.len - 1),
                              !.len = @ + r.chunk, !.chunk = NULL]
  <2>1. Change(t, new) /\ r \in Responses /\ pc[t] = "read"
        /\ r.chunk # NULL /\ r.len + r.chunk + 1 <= r.size
    BY <1>7 DEF PstrCat, HttpInv, Needed
  <2>2. r.text = r.len /\ r.len + r.chunk <= r.received
    BY <2>1 DEF HttpInv, ResponseWhole
  <2>3. r.chunk \in Nat /\ r.len \in Nat /\ r.size \in Nat /\ r.received \in Nat
    BY <2>1 DEF Responses
  <2>4. Smaller(r.chunk, r.size - r.len - 1) = r.chunk
    BY <2>1, <2>3 DEF Smaller
  <2>5. new = [r EXCEPT !.text = @ + r.chunk, !.len = @ + r.chunk, !.chunk = NULL]
    BY <2>4
  <2>6. new \in Responses
    <3>1. r.text + r.chunk \in Nat /\ r.len + r.chunk \in Nat
      BY <2>2, <2>3
    <3> QED BY <2>1, <2>5, <3>1 DEF Responses
  <2>7. new.text = r.len + r.chunk /\ new.len = r.len + r.chunk /\ new.chunk = NULL
        /\ new.received = r.received /\ new.size = r.size
    BY <2>1, <2>2, <2>5 DEF Responses
  <2>8. new.len < new.size /\ new.len + 0 <= new.received
    BY <2>1, <2>2, <2>3, <2>7
  <2> HIDE DEF new
  <2> QED BY <2>1, <2>6, <2>7, <2>8, ChangeKeeps
<1> QED BY <1>1, <1>2, <1>3, <1>4, <1>5, <1>6, <1>7 DEF HttpNext, Exchange, ReadLoop, ReadSome

\* The answer is whole: for buffers of any size, whatever pieces come in.
THEOREM HttpResponseWhole == HttpSpec => []HttpInv
<1>1. ServersInv => TypeOK
  BY DEF ServersInv
<1> QED BY <1>1, HttpInitInv, HttpStepInv, HttpServersInvariant, PTL DEF HttpSpec
=============================================================================
