---------------------------- MODULE ServerChoice ----------------------------
(***************************************************************************)
(* What connect_ac_server promises to the threads that call it.  A caller  *)
(* made its request for some server of the list.  In one step the list is  *)
(* turned by less than a full round and the caller is connected to the     *)
(* server that is then first, or the list is turned and the caller gets    *)
(* nothing.  The order of the servers, as a ring, is that of the file.     *)
(***************************************************************************)
EXTENDS Naturals, Sequences

CONSTANTS Threads,          \* threads that talk to the servers
          Configured,       \* the servers of the configuration file, in order
          NULL

N == Len(Configured)

VARIABLES list,             \* the servers, the one to be tried first in front
          stage,            \* of each thread
          target,           \* server its request was made for
          conn              \* server it is connected to

choiceVars == <<list, stage, target, conn>>

Init == /\ list = Configured
        /\ stage = [t \in Threads |-> "idle"]
        /\ target = [t \in Threads |-> NULL]
        /\ conn = [t \in Threads |-> NULL]

\* A list turned by d places: its first d elements come last.
Turned(l, d) == [i \in 1..N |-> IF i + d <= N THEN l[i + d] ELSE l[i + d - N]]

\* The request is made before there is a connection, for any of the servers.
Prepare(t) == /\ stage[t] = "idle"
              /\ \E i \in 1..N : target' = [target EXCEPT ![t] = list[i]]
              /\ stage' = [stage EXCEPT ![t] = "prepared"]
              /\ UNCHANGED <<list, conn>>

\* Fewer than N servers are passed over.
Turn == \E d \in 0..N - 1 : list' = Turned(list, d)

Connect(t) == /\ stage[t] = "prepared"
              /\ Turn
              /\ conn' = [conn EXCEPT ![t] = list'[1]]
              /\ stage' = [stage EXCEPT ![t] = "connected"]
              /\ UNCHANGED target

GoIdle(t) == /\ stage' = [stage EXCEPT ![t] = "idle"]
             /\ target' = [target EXCEPT ![t] = NULL]
             /\ conn' = [conn EXCEPT ![t] = NULL]

\* No name resolves, there is no socket, or no server accepts.
NoServer(t) == stage[t] = "prepared" /\ Turn /\ GoIdle(t)

\* The exchange is over.
Disconnect(t) == stage[t] = "connected" /\ GoIdle(t) /\ UNCHANGED list

Next == \E t \in Threads : Prepare(t) \/ Connect(t) \/ NoServer(t) \/ Disconnect(t)

Spec == Init /\ [][Next]_choiceVars
=============================================================================
