---------------------------- MODULE ResultQueue ----------------------------
(***************************************************************************)
(* The queue of command results (smartac_resultqueue.c): a singly linked   *)
(* list that starts with an empty node, shared by the ping thread, which   *)
(* inserts, and the main loop, which takes.  One action per step that      *)
(* reads or writes the list, so that every interleaving of the two         *)
(* procedures is a behaviour.  Malloc returns any node that is not         *)
(* allocated: the address of a freed node can come back.  A result is      *)
(* abstracted to the number of its command.                                *)
(***************************************************************************)
EXTENDS Naturals, FiniteSets

CONSTANTS Nodes,            \* addresses malloc can return for a QNode
          NULL,             \* the null pointer
          MaxResults        \* bound on the results inserted

ASSUME NodesAssumption == NULL \notin Nodes
ASSUME ResultsAssumption == MaxResults \in Nat

VARIABLES front, rear,      \* the two pointers of t_queue
          next, data,       \* the two fields of every QNode
          alloc,            \* nodes that are allocated
          mutex,            \* owner of queue_mutex, or "free"
          pcP, newNode,     \* ping thread: where in insert_queue, its local p
          pcM, oldNode,     \* main loop: where in getout_queue, its local p
          produced,         \* results the ping thread has made
          res               \* number of the last result main has copied out

list == <<front, rear, next, data, alloc>>
ping == <<pcP, newNode, produced>>
main == <<pcM, oldNode, res>>
vars == <<list, mutex, ping, main>>

-----------------------------------------------------------------------------
\* initial_queue: the empty node, its fields zeroed by safe_malloc.
InitialQueue == \E s \in Nodes : /\ front = s
                                 /\ rear = s
                                 /\ alloc = {s}

Init == /\ InitialQueue
        /\ next = [n \in Nodes |-> NULL]
        /\ data = [n \in Nodes |-> 0]
        /\ mutex = "free"
        /\ pcP = "idle" /\ newNode = NULL /\ produced = 0
        /\ pcM = "idle" /\ oldNode = NULL /\ res = 0

-----------------------------------------------------------------------------
\* Mutant of InsertAlloc: the next pointer of a node that is used again stays.
InsertAllocKeepsNext ==
    /\ pcP = "idle"
    /\ produced < MaxResults
    /\ \E n \in Nodes \ alloc : /\ newNode' = n
                               /\ alloc' = alloc \cup {n}
                               /\ data' = [data EXCEPT ![n] = produced + 1]
    /\ produced' = produced + 1
    /\ pcP' = "lock"
    /\ UNCHANGED <<front, rear, next, mutex, main>>

\* insert_queue, called by excute_remote_shell_command.  The node is filled
\* in before the lock is taken.
InsertAlloc == /\ pcP = "idle"
               /\ produced < MaxResults
               /\ \E n \in Nodes \ alloc :
                    /\ newNode' = n
                    /\ alloc' = alloc \cup {n}
                    /\ data' = [data EXCEPT ![n] = produced + 1]
                    /\ next' = [next EXCEPT ![n] = NULL]
               /\ produced' = produced + 1
               /\ pcP' = "lock"
               /\ UNCHANGED <<front, rear, mutex, main>>

InsertLock == /\ pcP = "lock"
              /\ mutex = "free"
              /\ mutex' = "ping"
              /\ pcP' = "link"
              /\ UNCHANGED <<list, newNode, produced, main>>

InsertLink == /\ pcP = "link"
              /\ next' = [next EXCEPT ![rear] = newNode]
              /\ pcP' = "rear"
              /\ UNCHANGED <<front, rear, data, alloc, mutex, newNode, produced, main>>

\* Mutant of InsertRear: rear stays where it is.
InsertRearForgotten == /\ pcP = "rear"
                       /\ pcP' = "unlock"
                       /\ UNCHANGED <<list, mutex, newNode, produced, main>>

InsertRear == /\ pcP = "rear"
              /\ rear' = newNode
              /\ pcP' = "unlock"
              /\ UNCHANGED <<front, next, data, alloc, mutex, newNode, produced, main>>

InsertUnlock == /\ pcP = "unlock"
                /\ mutex' = "free"
                /\ pcP' = "idle"
                /\ UNCHANGED <<list, newNode, produced, main>>

-----------------------------------------------------------------------------
\* getout_queue, called by main_loop on every turn.
GetoutLock == /\ pcM = "idle"
              /\ mutex = "free"
              /\ mutex' = "main"
              /\ pcM' = "test"
              /\ UNCHANGED <<list, ping, oldNode, res>>

GetoutEmpty == /\ pcM = "test"
               /\ front = rear
               /\ mutex' = "free"
               /\ pcM' = "idle"
               /\ UNCHANGED <<list, ping, oldNode, res>>

\* Mutant of GetoutFirst: the result of the last node is copied.
GetoutFirstCopiesRear == /\ pcM = "test"
                         /\ front # rear
                         /\ oldNode' = next[front]
                         /\ res' = data[rear]
                         /\ pcM' = "unlink"
                         /\ UNCHANGED <<list, mutex, ping>>

\* The first node is found and its result copied.
GetoutFirst == /\ pcM = "test"
               /\ front # rear
               /\ oldNode' = next[front]
               /\ res' = data[next[front]]
               /\ pcM' = "unlink"
               /\ UNCHANGED <<list, mutex, ping>>

GetoutUnlink == /\ pcM = "unlink"
                /\ next' = [next EXCEPT ![front] = next[oldNode]]
                /\ pcM' = "fixrear"
                /\ UNCHANGED <<front, rear, data, alloc, mutex, ping, oldNode, res>>

\* Mutant of GetoutFixRear: rear is left on the node that is freed.
GetoutFixRearNever == /\ pcM = "fixrear"
                      /\ pcM' = "free"
                      /\ UNCHANGED <<list, mutex, ping, oldNode, res>>

\* When the last node leaves, rear goes back to the empty node.
GetoutFixRear == /\ pcM = "fixrear"
                 /\ rear' = IF rear = oldNode THEN front ELSE rear
                 /\ pcM' = "free"
                 /\ UNCHANGED <<front, next, data, alloc, mutex, ping, oldNode, res>>

\* Mutant of GetoutFree: the node is unlinked and not freed.
GetoutFreeNothing == /\ pcM = "free"
                     /\ pcM' = "unlock"
                     /\ UNCHANGED <<list, mutex, ping, oldNode, res>>

GetoutFree == /\ pcM = "free"
              /\ alloc' = alloc \ {oldNode}
              /\ pcM' = "unlock"
              /\ UNCHANGED <<front, rear, next, data, mutex, ping, oldNode, res>>

GetoutUnlock == /\ pcM = "unlock"
                /\ mutex' = "free"
                /\ pcM' = "idle"
                /\ UNCHANGED <<list, ping, oldNode, res>>

-----------------------------------------------------------------------------
InsertStep == InsertAlloc \/ InsertLink \/ InsertRear \/ InsertUnlock
GetoutStep == \/ GetoutLock \/ GetoutEmpty \/ GetoutFirst \/ GetoutUnlink
              \/ GetoutFixRear \/ GetoutFree \/ GetoutUnlock

Next == InsertStep \/ InsertLock \/ GetoutStep

Spec == Init /\ [][Next]_vars

\* Both threads run.  Main leaves the mutex free for the five seconds of its
\* sleep, so a ping thread that waits for it gets it: strong fairness.
Fairness == /\ WF_vars(InsertStep)
            /\ SF_vars(InsertLock)
            /\ WF_vars(GetoutStep)

FairSpec == Spec /\ Fairness

-----------------------------------------------------------------------------
\* The list as the two threads have built it so far.

\* The node insert_queue holds and has not linked yet.
Private == IF pcP \in {"lock", "link"} THEN {newNode} ELSE {}

\* The node getout_queue has unlinked and not freed yet.
Unlinked == IF pcM \in {"fixrear", "free"} THEN {oldNode} ELSE {}

Linked == alloc \ (Private \cup Unlinked)

\* The node whose next is NULL: rear, but for the step in which it is late.
LastNode == IF pcP = "rear" THEN newNode
            ELSE IF pcM = "fixrear" /\ rear = oldNode THEN front
            ELSE rear

\* How many results have left the list and how many have entered it.
Taken == IF pcM = "unlink" THEN res - 1 ELSE res
Inserted == IF pcP \in {"lock", "link"} THEN produced - 1 ELSE produced

\* The place of a node in the order of insertion; the empty node stands for
\* the result that left last.
Num(n) == IF n = front THEN Taken ELSE data[n]

-----------------------------------------------------------------------------
\* Every pointer of the queue is a node or NULL where the code allows it, and
\* the queue's own two pointers are never NULL.
TypeOK == /\ front \in Nodes /\ rear \in Nodes
          /\ next \in [Nodes -> Nodes \cup {NULL}]
          /\ data \in [Nodes -> Nat]
          /\ alloc \subseteq Nodes
          /\ mutex \in {"free", "ping", "main"}
          /\ pcP \in {"idle", "lock", "link", "rear", "unlock"}
          /\ pcM \in {"idle", "test", "unlink", "fixrear", "free", "unlock"}
          /\ newNode \in Nodes \cup {NULL} /\ oldNode \in Nodes \cup {NULL}
          /\ produced \in 0..MaxResults
          /\ res \in 0..MaxResults

\* No thread is about to touch memory that the other one has freed: the nodes
\* that the next step of insert_queue or getout_queue dereferences are
\* allocated (rear->next = p; front->next->data; front->next = p->next).
NoDangling ==
    /\ pcP = "link" => rear \in alloc /\ newNode \in alloc
    /\ front \in alloc
    /\ pcM = "test" /\ front # rear => next[front] \in alloc
    /\ pcM \in {"unlink", "fixrear", "free"} => oldNode \in alloc

\* getout_queue compares two pointers to see whether the queue is empty.  The
\* comparison is exact: it says so only when every inserted result is out.
EmptyTestExact == pcM = "test" => (front = rear <=> Taken = Inserted)

\* Between calls the queue owns its empty node and one node per result that
\* waits: no node leaks and none is freed early.
NoLeak == pcP = "idle" /\ pcM = "idle" => Cardinality(alloc) = 1 + (Inserted - Taken)

\* The inductive invariant: what every step of both procedures preserves and
\* the properties above follow from.  It speaks of a node and its neighbour
\* only, never of paths.

\* The mutex is held exactly between lock and unlock.
LockInv == /\ mutex = "ping" <=> pcP \in {"link", "rear", "unlock"}
           /\ mutex = "main" <=> pcM # "idle"

\* The nodes that the two procedures hold in their local variables.
HeldInv ==
    /\ pcP \in {"lock", "link"} => /\ newNode \in alloc \ {front, rear}
                                   /\ next[newNode] = NULL
                                   /\ data[newNode] = produced
    /\ pcP = "rear" => newNode \in alloc
    /\ pcM \in {"unlink", "fixrear", "free"} =>
         /\ oldNode \in alloc \ (Private \cup {front})
         /\ data[oldNode] = res
    /\ pcM = "unlink" => next[front] = oldNode
    /\ pcM = "free" => rear # oldNode

\* The linked nodes form a chain whose numbers grow by one and that ends in
\* LastNode.
ChainInv ==
    /\ front \in Linked /\ LastNode \in Linked
    /\ \A n \in Linked :
         /\ next[n] = NULL <=> n = LastNode
         /\ next[n] # NULL => next[n] \in Linked /\ Num(next[n]) = Num(n) + 1

\* The chain holds the numbers from Taken to Inserted, each in one node.
OrderInv ==
    /\ Taken \in Nat /\ Inserted \in Nat
    /\ Num(LastNode) = Inserted
    /\ \A n \in Linked \ {front} : Taken < data[n] /\ data[n] <= Inserted
    /\ \A n, m \in Linked : Num(n) = Num(m) => n = m

\* insert_queue and getout_queue keep the list a chain from the empty node to
\* rear, in the order of insertion, whatever the other thread is doing.
QueueInv == TypeOK /\ LockInv /\ HeldInv /\ ChainInv /\ OrderInv

\* Results leave in the order in which they came, each once.
Fifo == INSTANCE ResultFifo WITH put <- Inserted,
                                 waiting <- {data[n] : n \in Linked \ {front}},
                                 last <- Taken

FifoSpec == Fifo!Spec

\* The same with the promise that a result that waits is taken.
FifoFairSpec == Fifo!FairSpec
=============================================================================
