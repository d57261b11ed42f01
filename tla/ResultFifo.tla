----------------------------- MODULE ResultFifo -----------------------------
(***************************************************************************)
(* What smartac_resultqueue.c promises to its two callers.  The results    *)
(* of remote commands carry the numbers 1, 2, ... in the order in which    *)
(* the ping thread inserts them.  The queue holds the numbers that wait;   *)
(* inserting adds the next number, taking removes the smallest one, so     *)
(* nothing is lost, invented, duplicated or overtaken.                     *)
(***************************************************************************)
EXTENDS Naturals

CONSTANT MaxResults         \* bound on the commands a behaviour executes

VARIABLES put,              \* number of the last result inserted
          waiting,          \* results in the queue
          last              \* number of the last result taken, 0 before any

fifoVars == <<put, waiting, last>>

Init == /\ put = 0
        /\ waiting = {}
        /\ last = 0

\* insert_queue: a result joins the queue behind all the others.
Put == /\ put < MaxResults
       /\ put' = put + 1
       /\ waiting' = waiting \cup {put + 1}
       /\ UNCHANGED last

\* getout_queue on a queue that is not empty: the oldest result leaves.
Get == \E r \in waiting : /\ \A s \in waiting : r <= s
                          /\ last' = r
                          /\ waiting' = waiting \ {r}
                          /\ UNCHANGED put

Next == Put \/ Get

Spec == Init /\ [][Next]_fifoVars

\* The main loop keeps asking, so a result that waits is taken.
FairSpec == Spec /\ WF_fifoVars(Get)
=============================================================================
