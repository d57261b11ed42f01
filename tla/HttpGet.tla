------------------------------ MODULE HttpGet ------------------------------
(***************************************************************************)
(* AcServers with the exchange in detail: http_get sends the request and   *)
(* reads the answer in pieces, which pstr_cat appends to a buffer that     *)
(* grows by MAX_BUF (smartac_util.c).  Bytes are counted, not modelled.    *)
(***************************************************************************)
EXTENDS AcServers

CONSTANTS MaxBuf,           \* MAX_BUF: the first size, the growth, and 1 + the longest read
          MaxBytes          \* bound on the bytes that a server sends

ASSUME BufAssumption == MaxBuf \in Nat /\ MaxBuf > 1 /\ MaxBytes \in Nat

VARIABLE response           \* of every thread: pstr_t and what was read into readbuf

NoResponse == [size |-> 0, len |-> 0, text |-> 0, chunk |-> NULL, received |-> 0]

\* pstr_new: size and len are the fields of pstr_t, text the length of the
\* string that is in the buffer.
PstrNew == [NoResponse EXCEPT !.size = MaxBuf]

httpVars == <<vars, response>>

HttpInit == Init /\ response = [t \in Threads |-> NoResponse]

\* A thread's response changes and nothing else does.
Change(t, r) == response' = [response EXCEPT ![t] = r] /\ UNCHANGED vars

-----------------------------------------------------------------------------
SendRequest(t) == /\ HttpSend(t)
                  /\ response' = [response EXCEPT ![t] = PstrNew]

\* The request does not go out, or not whole.
SendFails(t) == /\ pc[t] = "send" /\ HttpError(t)
                /\ UNCHANGED response

\* In the loop, with nothing read that has not been appended.
Reading(t) == pc[t] = "read" /\ response[t].chunk = NULL

\* select and read give n bytes; the string in readbuf ends at the first NUL
\* among them, or behind them.
ReadSome(t) ==
    /\ Reading(t)
    /\ \E n \in 1..MaxBuf - 1 : \E inlen \in 0..n :
         /\ response[t].received + n <= MaxBytes
         /\ Change(t, [response[t] EXCEPT !.chunk = inlen, !.received = @ + n])

\* Mutant of Needed: no room for the NUL at the end.
NeededNoNul(r) == r.len + r.chunk

Needed(r) == r.len + r.chunk + 1

\* pstr_cat: the loop of _pstr_grow, then strncat with the room that is left.
PstrGrow(t) == LET r == response[t]
               IN /\ pc[t] = "read" /\ r.chunk # NULL /\ Needed(r) > r.size
                  /\ Change(t, [r EXCEPT !.size = @ + MaxBuf])

Smaller(a, b) == IF a < b THEN a ELSE b

PstrCat(t) == LET r == response[t]
              IN /\ pc[t] = "read" /\ r.chunk # NULL /\ Needed(r) <= r.size
                 /\ Change(t, [r EXCEPT !.text = @ + Smaller(r.chunk, r.size - r.len - 1),
                                        !.len = @ + r.chunk,
                                        !.chunk = NULL])

\* Mutant of ReadEnds: the end of the answer is one more empty piece.
ReadEndsNot(t) == Reading(t) /\ Change(t, [response[t] EXCEPT !.chunk = 0])

\* read returns 0: the caller has the whole string.
ReadEnds(t) == /\ Reading(t) /\ HttpDone(t)
               /\ response' = [response EXCEPT ![t] = NoResponse]

\* select fails or 30 seconds pass, or read fails: everything is freed.
ReadFails(t) == /\ Reading(t) /\ HttpError(t)
                /\ response' = [response EXCEPT ![t] = NoResponse]

-----------------------------------------------------------------------------
ReadLoop(t) == ReadSome(t) \/ PstrGrow(t) \/ PstrCat(t) \/ ReadEnds(t) \/ ReadFails(t)

Exchange(t) == SendRequest(t) \/ SendFails(t) \/ ReadLoop(t)

Connect(t) == /\ GetAcServer(t) \/ ConnectAcServer(t) \/ Attempt(t) \/ UnlockConfig(t)
              /\ UNCHANGED response

HttpNext == \E t \in Threads : Connect(t) \/ Exchange(t)

HttpSpec == HttpInit /\ [][HttpNext]_httpVars

\* As in AcServers.  send returns and select does so within 30 seconds; that
\* a server does not send for ever is the bound MaxBytes.
HttpFairness == \A t \in Threads : /\ WF_httpVars(Connect(t) /\ Attempt(t))
                                   /\ WF_httpVars(Connect(t) /\ UnlockConfig(t))
                                   /\ SF_httpVars(Connect(t) /\ ConnectAcServer(t))
                                   /\ WF_httpVars(Exchange(t))

HttpFairSpec == HttpSpec /\ HttpFairness

-----------------------------------------------------------------------------
Responses == [size : Nat, len : Nat, text : Nat, chunk : 0..MaxBuf - 1 \cup {NULL},
              received : Nat]

\* Nothing that pstr_cat appends is cut off or written behind the buffer: len
\* is the length of the string, there is room for its end, and no byte that
\* did not come from the server is in it.
ResponseWhole == \A t \in Threads : pc[t] = "read" =>
    LET r == response[t]
    IN /\ r.text = r.len /\ r.len < r.size
       /\ r.len + (IF r.chunk = NULL THEN 0 ELSE r.chunk) <= r.received

HttpInv == /\ response \in [Threads -> Responses]
           /\ ResponseWhole

\* A thread that talks to the servers comes back: it gets config_mutex, finds
\* a server or none, and its exchange ends, when the answer is finite.
ExchangeReturns == \A t \in Threads : pc[t] = "build" ~> pc[t] = "idle"
=============================================================================
