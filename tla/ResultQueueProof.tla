-------------------------- MODULE ResultQueueProof --------------------------
(***************************************************************************)
(* QueueInv is an invariant of ResultQueue for every set of nodes and any  *)
(* number of results; the absence of dangling accesses, the exactness of   *)
(* the test for emptiness and the refinement of ResultFifo follow from it. *)
(***************************************************************************)
EXTENDS ResultQueue, FiniteSetTheorems, TLAPS

\* initial_queue makes a chain of one node.
LEMMA InitInv == Init => QueueInv
<1> SUFFICES ASSUME Init PROVE QueueInv
    OBVIOUS
<1> USE NodesAssumption, ResultsAssumption DEF Init, InitialQueue
<1>1. TypeOK
    BY DEF TypeOK
<1>2. LockInv /\ HeldInv
    BY DEF LockInv, HeldInv
<1>3. Linked = {front} /\ LastNode = front /\ Taken = 0 /\ Inserted = 0
    BY DEF Linked, Private, Unlinked, LastNode, Taken, Inserted
<1>4. Num(front) = 0
    BY <1>3 DEF Num
<1>5. ChainInv
    BY <1>3 DEF ChainInv
<1>6. OrderInv
    BY <1>3, <1>4 DEF OrderInv
<1> QED BY <1>1, <1>2, <1>5, <1>6 DEF QueueInv

\* Each step of insert_queue keeps the chain.
LEMMA InsertInv == QueueInv /\ (InsertStep \/ InsertLock) => QueueInv'
<1> SUFFICES ASSUME QueueInv, InsertStep \/ InsertLock PROVE QueueInv'
    OBVIOUS
<1> USE NodesAssumption, ResultsAssumption
<1> USE DEF QueueInv
<1>1. CASE InsertAlloc
  <2> USE <1>1 DEF InsertAlloc, main
  <2>1. TypeOK'
    BY DEF TypeOK
  <2>2. /\ newNode' \in Nodes \ alloc
        /\ Linked \subseteq alloc /\ front \in Linked /\ rear \in alloc
        /\ mutex # "ping"
    BY DEF LockInv, ChainInv, Linked, LastNode, Private, Unlinked, TypeOK, HeldInv
  <2>3. /\ Linked' = Linked /\ LastNode' = LastNode
        /\ Taken' = Taken /\ Inserted' = Inserted
    BY <2>2 DEF Linked, Private, Unlinked, LastNode, Taken, Inserted, HeldInv, TypeOK
  <2>4. \A n \in Linked : next'[n] = next[n] /\ data'[n] = data[n] /\ Num(n)' = Num(n)
    BY <2>2, <2>3 DEF Num, TypeOK
  <2>5. LockInv'
    BY DEF LockInv
  <2>6. HeldInv'
    BY <2>2 DEF HeldInv, Private, TypeOK
  <2>7. ChainInv'
    BY <2>2, <2>3, <2>4 DEF ChainInv
  <2>8. OrderInv'
    BY <2>2, <2>3, <2>4 DEF OrderInv, ChainInv
  <2> QED BY <2>1, <2>5, <2>6, <2>7, <2>8
<1>2. CASE InsertLock
  <2> USE <1>2 DEF InsertLock, main, list
  <2>1. TypeOK'
    BY DEF TypeOK
  <2>2. /\ Linked' = Linked /\ LastNode' = LastNode
        /\ Taken' = Taken /\ Inserted' = Inserted
    BY DEF Linked, Private, Unlinked, LastNode, Taken, Inserted
  <2>3. LockInv' /\ HeldInv'
    BY DEF LockInv, HeldInv, Private
  <2>4. ChainInv' /\ OrderInv'
    BY <2>2 DEF ChainInv, OrderInv, Num
  <2> QED BY <2>1, <2>3, <2>4
<1>3. CASE InsertLink
  <2> USE <1>3 DEF InsertLink, main
  <2>1. pcM = "idle" /\ mutex = "ping"
    BY DEF LockInv
  <2>2. /\ newNode \in alloc \ {front, rear} /\ next[newNode] = NULL
        /\ data[newNode] = produced /\ newNode \in Nodes
    BY DEF HeldInv, TypeOK
  <2>3. /\ Linked = alloc \ {newNode} /\ Linked' = Linked \cup {newNode}
        /\ LastNode = rear /\ LastNode' = newNode
        /\ Taken' = Taken /\ Inserted = produced - 1 /\ Inserted' = produced
        /\ Taken = res
    BY <2>1, <2>2 DEF Linked, Private, Unlinked, LastNode, Taken, Inserted
  <2>4. /\ rear \in Linked /\ front \in Linked /\ Num(rear) = Inserted
        /\ produced \in Nat /\ res \in Nat /\ Taken <= Inserted
    <3>1. rear \in Linked /\ front \in Linked /\ Num(rear) = Inserted
      BY <2>3 DEF ChainInv, OrderInv
    <3>2. produced \in Nat /\ res \in Nat
      BY DEF TypeOK
    <3>3. Taken <= Inserted
      BY <2>3, <3>1, <3>2 DEF OrderInv, Num
    <3> QED BY <3>1, <3>2, <3>3
  <2>5. /\ next' = [next EXCEPT ![rear] = newNode]
        /\ \A n \in Linked : Num(n)' = Num(n)
        /\ Num(newNode)' = produced
    BY <2>2, <2>3, <2>4 DEF Num
  <2>6. TypeOK'
    BY DEF TypeOK
  <2>7. LockInv' /\ HeldInv'
    BY <2>1, <2>2 DEF LockInv, HeldInv
  <2>8. ChainInv'
    <3>1. front' \in Linked' /\ LastNode' \in Linked'
      BY <2>3, <2>4
    <3> SUFFICES ASSUME NEW n \in Linked'
                 PROVE /\ next'[n] = NULL <=> n = LastNode'
                       /\ next'[n] # NULL => /\ next'[n] \in Linked'
                                             /\ Num(next[n])' = Num(n)' + 1
      BY <3>1 DEF ChainInv
    <3>2. CASE n = newNode
      BY <3>2, <2>2, <2>3, <2>5 DEF TypeOK
    <3>3. CASE n = rear
      BY <3>3, <2>2, <2>3, <2>4, <2>5 DEF TypeOK
    <3>4. CASE n \in Linked \ {rear}
      <4>1. next'[n] = next[n] /\ next[n] # NULL /\ next[n] \in Linked
            /\ Num(next[n]) = Num(n) + 1
        BY <3>4, <2>3, <2>5 DEF ChainInv, TypeOK
      <4> QED BY <4>1, <3>4, <2>2, <2>3, <2>5
    <3> QED BY <3>2, <3>3, <3>4, <2>3
  <2>9. OrderInv'
    <3>1. \A n \in Linked \ {front} : data[n] \in Nat /\ Taken < data[n] /\ data[n] <= Inserted
      BY <2>3 DEF OrderInv, TypeOK, Linked
    <3>2. \A n \in Linked : Num(n) \in Nat /\ Num(n) <= Inserted
      BY <3>1, <2>3, <2>4 DEF Num
    <3>3. \A n, m \in Linked' : Num(n)' = Num(m)' => n = m
      <4>1. \A n \in Linked : Num(n)' # Num(newNode)'
        BY <3>2, <2>3, <2>4, <2>5
      <4>2. \A n, m \in Linked : Num(n)' = Num(m)' => n = m
        BY <2>5 DEF OrderInv
      <4> QED BY <4>1, <4>2, <2>3
    <3>4. \A n \in Linked' \ {front'} : Taken' < data'[n] /\ data'[n] <= Inserted'
      BY <3>1, <2>2, <2>3, <2>4
    <3>5. Taken' \in Nat /\ Inserted' \in Nat /\ Num(LastNode)' = Inserted'
      BY <2>3, <2>4, <2>5
    <3> QED BY <3>3, <3>4, <3>5 DEF OrderInv
  <2> QED BY <2>6, <2>7, <2>8, <2>9
<1>4. CASE InsertRear
  <2> USE <1>4 DEF InsertRear, main
  <2>1. pcM = "idle"
    BY DEF LockInv
  <2>2. /\ Linked' = Linked /\ LastNode' = LastNode
        /\ Taken' = Taken /\ Inserted' = Inserted
    BY <2>1 DEF Linked, Private, Unlinked, LastNode, Taken, Inserted
  <2>3. TypeOK' /\ LockInv' /\ HeldInv'
    <3>1. newNode \in Nodes
      BY DEF HeldInv, TypeOK
    <3> QED BY <3>1, <2>1 DEF TypeOK, LockInv, HeldInv, Private
  <2>4. ChainInv' /\ OrderInv'
    BY <2>2 DEF ChainInv, OrderInv, Num
  <2> QED BY <2>3, <2>4
<1>5. CASE InsertUnlock
  <2> USE <1>5 DEF InsertUnlock, main, list
  <2>1. /\ Linked' = Linked /\ LastNode' = LastNode
        /\ Taken' = Taken /\ Inserted' = Inserted
    BY DEF Linked, Private, Unlinked, LastNode, Taken, Inserted
  <2>2. TypeOK' /\ LockInv' /\ HeldInv'
    BY DEF TypeOK, LockInv, HeldInv, Private
  <2>3. ChainInv' /\ OrderInv'
    BY <2>1 DEF ChainInv, OrderInv, Num
  <2> QED BY <2>2, <2>3
<1> QED BY <1>1, <1>2, <1>3, <1>4, <1>5 DEF InsertStep

\* Each step of getout_queue keeps the chain.
LEMMA GetoutInv == QueueInv /\ GetoutStep => QueueInv'
<1> SUFFICES ASSUME QueueInv, GetoutStep PROVE QueueInv'
    OBVIOUS
<1> USE NodesAssumption, ResultsAssumption
<1> USE DEF QueueInv
<1>1. CASE GetoutLock \/ GetoutEmpty \/ GetoutUnlock
  <2> USE <1>1 DEF GetoutLock, GetoutEmpty, GetoutUnlock, ping, list
  <2>1. /\ Linked' = Linked /\ LastNode' = LastNode
        /\ Taken' = Taken /\ Inserted' = Inserted
    BY DEF Linked, Private, Unlinked, LastNode, Taken, Inserted
  <2>2. TypeOK' /\ LockInv' /\ HeldInv'
    BY DEF TypeOK, LockInv, HeldInv, Private
  <2>3. ChainInv' /\ OrderInv'
    BY <2>1 DEF ChainInv, OrderInv, Num
  <2> QED BY <2>2, <2>3
<1>2. CASE GetoutFirst
  <2> USE <1>2 DEF GetoutFirst, ping, list
  <2>1. pcP \in {"idle", "lock"} /\ mutex = "main"
    BY DEF LockInv, TypeOK
  <2>2. LastNode = rear /\ front \in Linked /\ Taken = res
    BY <2>1 DEF LastNode, ChainInv, Taken
  <2>3. /\ next[front] \in Linked /\ Num(next[front]) = Num(front) + 1
        /\ Num(front) = res /\ res \in Nat
    BY <2>2 DEF ChainInv, Num, TypeOK
  <2>4. next[front] # front /\ data[next[front]] = res + 1
    BY <2>3 DEF Num
  <2>5. /\ Linked' = Linked /\ LastNode' = LastNode
        /\ Taken' = Taken /\ Inserted' = Inserted
    BY <2>1, <2>2, <2>3, <2>4 DEF Linked, Private, Unlinked, LastNode, Taken, Inserted
  <2>6. TypeOK'
    <3>1. res + 1 <= Inserted /\ Inserted <= MaxResults
      BY <2>3, <2>4 DEF OrderInv, Inserted, TypeOK
    <3>2. next[front] \in Nodes
      BY <2>3 DEF Linked, TypeOK
    <3> QED BY <3>1, <3>2, <2>3, <2>4 DEF TypeOK, OrderInv
  <2>7. LockInv' /\ HeldInv'
    BY <2>1, <2>3, <2>4 DEF LockInv, HeldInv, Private, Linked
  <2>8. ChainInv' /\ OrderInv'
    BY <2>5 DEF ChainInv, OrderInv, Num
  <2> QED BY <2>6, <2>7, <2>8
<1>3. CASE GetoutUnlink
  <2> USE <1>3 DEF GetoutUnlink, ping
  <2>1. pcP \in {"idle", "lock"} /\ mutex = "main"
    BY DEF LockInv, TypeOK
  <2>2. /\ oldNode \in Linked \ {front} /\ next[front] = oldNode
        /\ data[oldNode] = res /\ Linked \subseteq Nodes /\ front \in Linked
    BY <2>1 DEF HeldInv, Linked, Unlinked, TypeOK, ChainInv
  <2>3. /\ Linked' = Linked \ {oldNode}
        /\ LastNode = rear
        /\ LastNode' = IF rear = oldNode THEN front ELSE rear
        /\ Taken = res - 1 /\ Taken' = res /\ Inserted' = Inserted
    BY <2>1, <2>2 DEF Linked, Private, Unlinked, LastNode, Taken, Inserted
  <2>4. /\ res \in Nat /\ Num(front) = res - 1 /\ Num(oldNode) = res
        /\ Num(front)' = res
    BY <2>2, <2>3 DEF Num, TypeOK
  <2>5. \A n \in Linked \ {front} : Num(n) = data[n] /\ Num(n)' = data[n]
    BY DEF Num
  <2>6. TypeOK'
    BY <2>2 DEF TypeOK
  <2>7. LockInv' /\ HeldInv'
    BY <2>1, <2>2 DEF LockInv, HeldInv, Private, TypeOK
  <2>8. ChainInv'
    <3>1. front' \in Linked' /\ LastNode' \in Linked'
      BY <2>2, <2>3 DEF ChainInv
    <3> SUFFICES ASSUME NEW n \in Linked'
                 PROVE /\ next'[n] = NULL <=> n = LastNode'
                       /\ next'[n] # NULL => /\ next'[n] \in Linked'
                                             /\ Num(next[n])' = Num(n)' + 1
      BY <3>1 DEF ChainInv
    <3>2. CASE n = front
      <4>1. next'[n] = next[oldNode]
        BY <3>2, <2>2 DEF TypeOK
      <4>2. /\ next[oldNode] = NULL <=> oldNode = rear
            /\ next[oldNode] # NULL => /\ next[oldNode] \in Linked
                                       /\ Num(next[oldNode]) = res + 1
        BY <2>2, <2>3, <2>4 DEF ChainInv
      <4>3. next[oldNode] # NULL => next[oldNode] \notin {front, oldNode}
        BY <4>2, <2>4
      <4>4. rear # front
        BY <2>2, <2>3 DEF ChainInv
      <4> QED BY <4>1, <4>2, <4>3, <4>4, <3>2, <2>2, <2>3, <2>4, <2>5
    <3>3. CASE n # front
      <4>1. next'[n] = next[n] /\ n \in Linked \ {oldNode, front}
        BY <3>3, <2>2, <2>3
      <4>2. /\ next[n] = NULL <=> n = rear
            /\ next[n] # NULL => /\ next[n] \in Linked /\ Num(next[n]) = data[n] + 1
        BY <4>1, <2>3, <2>5 DEF ChainInv
      <4>3. data[n] # res - 1 /\ data[n] \in Nat
        BY <4>1, <2>2, <2>3 DEF OrderInv, TypeOK
      <4>4. next[n] # NULL => next[n] # oldNode
        BY <4>2, <4>3, <2>4
      <4>5. next[n] # NULL => next[n] # front
        BY <4>1, <4>2, <4>3, <2>3, <2>4 DEF OrderInv
      <4> QED BY <4>1, <4>2, <4>4, <4>5, <2>3, <2>5
    <3> QED BY <3>2, <3>3
  <2>9. OrderInv'
    <3>1. \A n \in Linked \ {front} : data[n] \in Nat /\ Taken < data[n] /\ data[n] <= Inserted
      BY <2>2 DEF OrderInv, TypeOK
    <3>2. \A n \in Linked \ {front, oldNode} : data[n] # res
      BY <2>2, <2>4, <2>5 DEF OrderInv
    <3>3. \A n \in Linked' \ {front'} : Taken' < data'[n] /\ data'[n] <= Inserted'
      BY <3>1, <3>2, <2>3, <2>4
    <3>4. \A n, m \in Linked' : Num(n)' = Num(m)' => n = m
      BY <3>1, <3>2, <2>3, <2>4, <2>5 DEF OrderInv
    <3>5. Num(LastNode)' = Inserted'
      BY <2>2, <2>3, <2>4, <2>5 DEF OrderInv, ChainInv
    <3>6. Taken' \in Nat /\ Inserted' \in Nat
      BY <2>3, <2>4 DEF OrderInv
    <3> QED BY <3>3, <3>4, <3>5, <3>6 DEF OrderInv
  <2> QED BY <2>6, <2>7, <2>8, <2>9
<1>4. CASE GetoutFixRear
  <2> USE <1>4 DEF GetoutFixRear, ping
  <2>1. pcP \in {"idle", "lock"} /\ mutex = "main" /\ oldNode # front
    BY DEF LockInv, TypeOK, HeldInv
  <2>2. /\ Linked' = Linked /\ LastNode' = LastNode
        /\ Taken' = Taken /\ Inserted' = Inserted
    BY <2>1 DEF Linked, Private, Unlinked, LastNode, Taken, Inserted
  <2>3. TypeOK' /\ LockInv' /\ HeldInv'
    BY <2>1 DEF TypeOK, LockInv, HeldInv, Private
  <2>4. ChainInv' /\ OrderInv'
    BY <2>2 DEF ChainInv, OrderInv, Num
  <2> QED BY <2>3, <2>4
<1>5. CASE GetoutFree
  <2> USE <1>5 DEF GetoutFree, ping
  <2>1. /\ pcP \in {"idle", "lock"} /\ mutex = "main" /\ oldNode # front
        /\ oldNode # rear /\ oldNode \notin Private
    BY DEF LockInv, TypeOK, HeldInv
  <2>2. /\ Linked' = Linked /\ LastNode' = LastNode
        /\ Taken' = Taken /\ Inserted' = Inserted
    BY <2>1 DEF Linked, Private, Unlinked, LastNode, Taken, Inserted
  <2>3. TypeOK' /\ LockInv' /\ HeldInv'
    BY <2>1 DEF TypeOK, LockInv, HeldInv, Private
  <2>4. ChainInv' /\ OrderInv'
    BY <2>2 DEF ChainInv, OrderInv, Num
  <2> QED BY <2>3, <2>4
<1> QED BY <1>1, <1>2, <1>3, <1>4, <1>5 DEF GetoutStep

\* The list is well formed in every reachable state (smartac_resultqueue.c:
\* insert_queue and getout_queue), for any heap and any number of results.
THEOREM QueueInvariant == Spec => []QueueInv
<1>1. QueueInv /\ UNCHANGED vars => QueueInv'
  BY DEF QueueInv, vars, list, ping, main, TypeOK, LockInv, HeldInv, ChainInv, OrderInv,
         Num, Linked, LastNode, Private, Unlinked, Taken, Inserted
<1>2. QueueInv /\ [Next]_vars => QueueInv'
  BY <1>1, InsertInv, GetoutInv DEF Next
<1> QED BY <1>2, InitInv, PTL DEF Spec

\* Neither thread dereferences a node the other one has freed.
THEOREM QueueMemorySafe == Spec => []NoDangling
<1>1. QueueInv => NoDangling
  <2> SUFFICES ASSUME QueueInv PROVE NoDangling
    OBVIOUS
  <2> USE NodesAssumption DEF QueueInv
  <2>1. front \in alloc
    BY DEF ChainInv, Linked
  <2>2. pcP = "link" => rear \in alloc /\ newNode \in alloc
    BY DEF LockInv, ChainInv, Linked, LastNode, HeldInv
  <2>3. pcM = "test" /\ front # rear => next[front] \in alloc
    BY DEF LockInv, ChainInv, Linked, LastNode
  <2>4. pcM \in {"unlink", "fixrear", "free"} => oldNode \in alloc
    BY DEF HeldInv
  <2> QED BY <2>1, <2>2, <2>3, <2>4 DEF NoDangling
<1> QED BY <1>1, QueueInvariant, PTL

\* getout_queue returns NULL exactly when no result waits.
THEOREM QueueEmptyTest == Spec => []EmptyTestExact
<1>1. QueueInv => EmptyTestExact
  <2> SUFFICES ASSUME QueueInv, pcM = "test" PROVE front = rear <=> Taken = Inserted
    BY DEF EmptyTestExact
  <2>1. LastNode = rear /\ front \in Linked /\ rear \in Linked
    BY DEF QueueInv, LockInv, LastNode, ChainInv
  <2>2. Num(front) = Taken /\ Num(rear) = Inserted
    BY <2>1 DEF QueueInv, OrderInv, Num
  <2> QED BY <2>1, <2>2 DEF QueueInv, OrderInv
<1> QED BY <1>1, QueueInvariant, PTL

-----------------------------------------------------------------------------
\* How many nodes getout_queue has freed, and what is allocated therefore.
Freed == IF pcM \in {"unlink", "fixrear", "free"} THEN res - 1 ELSE res

AllocInv == IsFiniteSet(alloc) /\ Cardinality(alloc) = 1 + (produced - Freed)

\* Only InsertAlloc and GetoutFree change what is allocated, by one node each.
LEMMA AllocStep ==
    ASSUME QueueInv, QueueInv', AllocInv, [Next]_vars
    PROVE  AllocInv'
<1> produced \in Nat /\ res \in Nat
  BY DEF QueueInv, TypeOK
<1>1. CASE InsertAlloc
  <2>1. PICK n \in Nodes \ alloc : alloc' = alloc \cup {n}
    BY <1>1 DEF InsertAlloc
  <2>2. IsFiniteSet(alloc') /\ Cardinality(alloc') = Cardinality(alloc) + 1
    BY <2>1, FS_AddElement DEF AllocInv
  <2>3. produced' = produced + 1 /\ Freed' = Freed /\ Freed \in Int
    BY <1>1 DEF InsertAlloc, main, Freed
  <2> QED BY <2>2, <2>3 DEF AllocInv
<1>2. CASE GetoutFree
  <2>1. alloc' = alloc \ {oldNode} /\ oldNode \in alloc
    BY <1>2 DEF GetoutFree, QueueInv, HeldInv
  <2>2. IsFiniteSet(alloc') /\ Cardinality(alloc') = Cardinality(alloc) - 1
    BY <2>1, FS_RemoveElement DEF AllocInv
  <2>3. produced' = produced /\ Freed = res - 1 /\ Freed' = res
    BY <1>2 DEF GetoutFree, ping, Freed
  <2> QED BY <2>2, <2>3 DEF AllocInv
<1>3. CASE GetoutFirst
  <2>1. pcP \in {"idle", "lock"} /\ LastNode = rear
    BY <1>3 DEF GetoutFirst, QueueInv, LockInv, TypeOK, LastNode
  <2>2. /\ next[front] \in Linked /\ Num(next[front]) = res + 1 /\ Num(front) = res
    BY <1>3, <2>1 DEF GetoutFirst, QueueInv, ChainInv, Num, Taken, TypeOK
  <2>3. res' = res + 1
    BY <1>3, <2>2 DEF GetoutFirst, Num
  <2>4. Freed' = Freed
    BY <1>3, <2>3 DEF GetoutFirst, Freed
  <2> QED BY <1>3, <2>4 DEF GetoutFirst, list, ping, AllocInv
<1>4. CASE InsertLock \/ InsertLink \/ InsertRear \/ InsertUnlock
  BY <1>4 DEF InsertLock, InsertLink, InsertRear, InsertUnlock, list, main, AllocInv, Freed
<1>5. CASE GetoutLock \/ GetoutEmpty \/ GetoutUnlink \/ GetoutFixRear \/ GetoutUnlock
  BY <1>5 DEF GetoutLock, GetoutEmpty, GetoutUnlink, GetoutFixRear, GetoutUnlock,
              list, ping, AllocInv, Freed
<1>6. CASE UNCHANGED vars
  BY <1>6 DEF vars, list, ping, main, AllocInv, Freed
<1> QED
  BY <1>1, <1>2, <1>3, <1>4, <1>5, <1>6 DEF Next, InsertStep, GetoutStep

\* Between calls there is a node for each result that waits and one more:
\* nothing leaks, however many results have passed through the queue.
THEOREM QueueNoLeak == Spec => []NoLeak
<1>1. Init => AllocInv
  <2> SUFFICES ASSUME Init PROVE AllocInv
    OBVIOUS
  <2>1. IsFiniteSet(alloc) /\ Cardinality(alloc) = 1
    BY FS_Singleton DEF Init, InitialQueue
  <2> QED BY <2>1 DEF Init, AllocInv, Freed
<1>2. AllocInv => NoLeak
  BY DEF AllocInv, NoLeak, Freed, Inserted, Taken
<1> QED BY <1>1, <1>2, AllocStep, QueueInvariant, PTL DEF Spec

-----------------------------------------------------------------------------
Waiting == {data[n] : n \in Linked \ {front}}

\* Linking a node is the abstract Put, unlinking one the abstract Get, and
\* every other step of the two procedures is invisible.
LEMMA QueueStep ==
    QueueInv /\ QueueInv' /\ [Next]_vars => [Fifo!Next]_(Fifo!fifoVars)
<1> SUFFICES ASSUME QueueInv, QueueInv', [Next]_vars
             PROVE  [Fifo!Next]_(Fifo!fifoVars)
    OBVIOUS
<1> USE NodesAssumption, ResultsAssumption
<1> USE DEF QueueInv
<1>0. ASSUME Linked' = Linked, Taken' = Taken, Inserted' = Inserted, front' = front,
             \A n \in Linked : data'[n] = data[n]
      PROVE  UNCHANGED Fifo!fifoVars
  BY <1>0 DEF Fifo!fifoVars
<1>1. CASE InsertAlloc
  <2> USE <1>1 DEF InsertAlloc, main
  <2>1. newNode' \in Nodes \ alloc /\ Linked \subseteq alloc /\ mutex # "ping"
    BY DEF LockInv, Linked
  <2>2. /\ Linked' = Linked /\ Taken' = Taken /\ Inserted' = Inserted
        /\ \A n \in Linked : data'[n] = data[n]
    BY <2>1 DEF Linked, Private, Unlinked, Taken, Inserted, HeldInv, TypeOK
  <2> QED BY <2>2, <1>0
<1>2. CASE InsertLock \/ InsertRear \/ InsertUnlock
  <2>1. /\ Linked' = Linked /\ Taken' = Taken /\ Inserted' = Inserted
        /\ front' = front /\ data' = data
    BY <1>2 DEF InsertLock, InsertRear, InsertUnlock, main, list,
                Linked, Private, Unlinked, Taken, Inserted
  <2> QED BY <2>1, <1>0
<1>3. CASE InsertLink
  <2> USE <1>3 DEF InsertLink, main
  <2>1. pcM = "idle" /\ newNode \in alloc \ {front} /\ data[newNode] = produced
    BY DEF LockInv, HeldInv
  <2>2. /\ Linked' = Linked \cup {newNode} /\ Taken' = Taken
        /\ Inserted = produced - 1 /\ Inserted' = produced
        /\ produced \in 0..MaxResults
    BY <2>1 DEF Linked, Private, Unlinked, Taken, Inserted, TypeOK
  <2>3. Waiting' = Waiting \cup {produced}
    BY <2>1, <2>2 DEF Waiting
  <2>4. Inserted < MaxResults /\ Inserted' = Inserted + 1
    BY <2>2
  <2>5. Fifo!Put
    BY <2>2, <2>3, <2>4 DEF Fifo!Put, Waiting
  <2> QED BY <2>5 DEF Fifo!Next
<1>4. CASE GetoutLock \/ GetoutEmpty \/ GetoutUnlock
  <2>1. /\ Linked' = Linked /\ Taken' = Taken /\ Inserted' = Inserted
        /\ front' = front /\ data' = data
    BY <1>4 DEF GetoutLock, GetoutEmpty, GetoutUnlock, ping, list,
                Linked, Private, Unlinked, Taken, Inserted
  <2> QED BY <2>1, <1>0
<1>5. CASE GetoutFirst
  <2> USE <1>5 DEF GetoutFirst, ping, list
  <2>1. pcP \in {"idle", "lock"} /\ LastNode = rear
    BY DEF LockInv, TypeOK, LastNode
  <2>2. /\ next[front] \in Linked /\ Num(next[front]) = res + 1
        /\ Num(front) = res /\ res \in Nat
    BY <2>1 DEF ChainInv, Num, Taken, TypeOK
  <2>3. data[next[front]] = res + 1
    BY <2>2 DEF Num
  <2>4. Linked' = Linked /\ Taken' = Taken /\ Inserted' = Inserted
    BY <2>2, <2>3 DEF Linked, Private, Unlinked, Taken, Inserted
  <2> QED BY <2>4, <1>0
<1>6. CASE GetoutUnlink
  <2> USE <1>6 DEF GetoutUnlink, ping
  <2>1. pcP \in {"idle", "lock"}
    BY DEF LockInv, TypeOK
  <2>2. /\ oldNode \in Linked \ {front} /\ data[oldNode] = res
        /\ Linked \subseteq Nodes
    BY <2>1 DEF HeldInv, Linked, Unlinked, TypeOK, ChainInv
  <2>3. /\ Linked' = Linked \ {oldNode} /\ Taken = res - 1 /\ Taken' = res
        /\ Inserted' = Inserted /\ res \in Nat
    BY <2>1, <2>2 DEF Linked, Private, Unlinked, Taken, Inserted, TypeOK
  <2>4. \A n \in Linked \ {front} : data[n] \in Nat /\ res <= data[n]
    BY <2>2, <2>3 DEF OrderInv, TypeOK
  <2>5. \A n \in Linked \ {front, oldNode} : data[n] # res
    BY <2>2 DEF OrderInv, Num
  <2>6. Waiting' = Waiting \ {res}
    BY <2>2, <2>3, <2>5 DEF Waiting
  <2>7. res \in Waiting /\ \A s \in Waiting : res <= s
    BY <2>2, <2>4 DEF Waiting
  <2>8. Fifo!Get
    BY <2>3, <2>6, <2>7 DEF Fifo!Get, Waiting
  <2> QED BY <2>8 DEF Fifo!Next
<1>7. CASE GetoutFixRear
  <2>1. /\ Linked' = Linked /\ Taken' = Taken /\ Inserted' = Inserted
        /\ front' = front /\ data' = data
    BY <1>7 DEF GetoutFixRear, ping, Linked, Private, Unlinked, Taken, Inserted
  <2> QED BY <2>1, <1>0
<1>8. CASE GetoutFree
  <2>1. /\ Linked' = Linked /\ Taken' = Taken /\ Inserted' = Inserted
        /\ front' = front /\ data' = data
    BY <1>8 DEF GetoutFree, ping, Linked, Private, Unlinked, Taken, Inserted, HeldInv
  <2> QED BY <2>1, <1>0
<1>9. CASE UNCHANGED vars
  <2>1. /\ Linked' = Linked /\ Taken' = Taken /\ Inserted' = Inserted
        /\ front' = front /\ data' = data
    BY <1>9 DEF vars, list, ping, main, Linked, Private, Unlinked, Taken, Inserted
  <2> QED BY <2>1, <1>0
<1> QED
  BY <1>1, <1>2, <1>3, <1>4, <1>5, <1>6, <1>7, <1>8, <1>9
     DEF Next, InsertStep, GetoutStep

\* The linked list implements ResultFifo: results leave in the order in
\* which they came, each exactly once, for any heap and any number of them.
THEOREM QueueImplementsFifo == Spec => FifoSpec
<1>1. Init => Fifo!Init
  <2> SUFFICES ASSUME Init PROVE Fifo!Init
    OBVIOUS
  <2>1. Linked = {front} /\ Taken = 0 /\ Inserted = 0
    BY DEF Init, InitialQueue, Linked, Private, Unlinked, Taken, Inserted
  <2> QED BY <2>1 DEF Fifo!Init
<1>2. QueueInv /\ QueueInv' /\ [Next]_vars => [Fifo!Next]_(Fifo!fifoVars)
  BY QueueStep
<1> QED BY <1>1, <1>2, QueueInvariant, PTL DEF Spec, FifoSpec, Fifo!Spec
=============================================================================
