---------------------------- MODULE CommandLife ----------------------------
(***************************************************************************)
(* What the daemon promises about a remote command to those who send it.   *)
(* Commands run one at a time, in the order in which they come.  One that  *)
(* has ended is dropped, or its result waits; one that ended with an error *)
(* is always dropped.  The results that wait are posted in the order of    *)
(* their commands, and each of them reaches a server once or is lost.      *)
(***************************************************************************)
EXTENDS Naturals

CONSTANT MaxCmds            \* bound on the commands a behaviour receives

Cmds == 1..MaxCmds

VARIABLES life,             \* of each command
          status,           \* how it ended
          delivered         \* how often its result reached a server

lifeVars == <<life, status, delivered>>

Init == /\ life = [k \in Cmds |-> "unknown"]
        /\ status = [k \in Cmds |-> "none"]
        /\ delivered = [k \in Cmds |-> 0]

Becomes(k, stage) == life' = [life EXCEPT ![k] = stage]

\* A command comes when all those before it have been dropped or queued.
Receive(k) == /\ life[k] = "unknown"
              /\ \A j \in Cmds : j < k => life[j] \notin {"unknown", "running"}
              /\ Becomes(k, "running")
              /\ UNCHANGED <<status, delivered>>

End(k) == /\ life[k] = "running" /\ status[k] = "none"
          /\ \E st \in {"ok", "error"} : status' = [status EXCEPT ![k] = st]
          /\ UNCHANGED <<life, delivered>>

\* The result of a command that has ended may be dropped, also when it succeeded.
Drop(k) == /\ life[k] = "running" /\ status[k] # "none"
           /\ Becomes(k, "dropped")
           /\ UNCHANGED <<status, delivered>>

Queue(k) == /\ life[k] = "running" /\ status[k] = "ok"
            /\ Becomes(k, "queued")
            /\ UNCHANGED <<status, delivered>>

\* The oldest result that waits is taken.
Take(k) == /\ life[k] = "queued"
           /\ \A j \in Cmds : life[j] = "queued" => k <= j
           /\ Becomes(k, "posting")
           /\ UNCHANGED <<status, delivered>>

Deliver(k) == /\ life[k] = "posting"
              /\ Becomes(k, "done")
              /\ delivered' = [delivered EXCEPT ![k] = @ + 1]
              /\ UNCHANGED status

\* There is no second try.
Lose(k) == /\ life[k] = "posting"
           /\ Becomes(k, "done")
           /\ UNCHANGED <<status, delivered>>

Next == \E k \in Cmds : \/ Receive(k) \/ End(k) \/ Drop(k) \/ Queue(k)
                        \/ Take(k) \/ Deliver(k) \/ Lose(k)

Spec == Init /\ [][Next]_lifeVars
=============================================================================
