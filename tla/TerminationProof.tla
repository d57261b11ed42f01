-------------------------- MODULE TerminationProof --------------------------
(***************************************************************************)
(* Proofs about Termination, for any set of signals and any number of      *)
(* signals sent: one call of termination_handler gets past the mutex; and, *)
(* when there is only one kind of signal, the thread that is past it is    *)
(* not ended by another one.                                               *)
(***************************************************************************)
EXTENDS Termination, SequenceTheorems, TLAPS

Steps == {"try", "kill", "destroy"}

FrameSet == [sig : Signals \cup {NULL}, pc : Steps]

\* The stacks, and the mutex whose owner alone is past it.
StackInv == /\ frames \in [Threads -> Seq(FrameSet)]
            /\ threads \subseteq Threads
            /\ sigtermMutex \in Threads \cup {NULL}
            /\ \A t \in Threads : \A i \in DOMAIN frames[t] :
                 Past(frames[t][i]) => sigtermMutex = t

OnceInv == StackInv /\ OnlyOnce

-----------------------------------------------------------------------------
\* A call of the handler pushes a frame: the others keep their order, one
\* place further down.
LEMMA PushFrame ==
    ASSUME NEW s \in Seq(FrameSet), NEW f \in FrameSet
    PROVE  /\ <<f>> \o s \in Seq(FrameSet)
           /\ (<<f>> \o s)[1] = f
           /\ DOMAIN (<<f>> \o s) = 1..(Len(s) + 1)
           /\ DOMAIN s = 1..Len(s)
           /\ \A i \in 2..(Len(s) + 1) : i - 1 \in DOMAIN s /\ (<<f>> \o s)[i] = s[i - 1]
  <1>1. Len(<<f>>) = 1 /\ <<f>> \in Seq(FrameSet) /\ <<f>>[1] = f
    OBVIOUS
  <1>2. <<f>> \o s \in Seq(FrameSet) /\ Len(<<f>> \o s) = Len(s) + 1
    BY <1>1, ConcatProperties
  <1>3. \A i \in 1..(Len(s) + 1) :
          (<<f>> \o s)[i] = IF i <= 1 THEN <<f>>[i] ELSE s[i - 1]
    BY <1>1, ConcatProperties
  <1>4. QED
    BY <1>1, <1>2, <1>3, LenProperties

\* A step of the handler changes the step of the frame on top, and no other.
LEMMA TopFrame ==
    ASSUME NEW s \in Seq(FrameSet), s # <<>>, NEW pc \in Steps
    PROVE  LET r == [s EXCEPT ![1].pc = pc]
           IN  /\ r \in Seq(FrameSet)
               /\ DOMAIN r = DOMAIN s
               /\ 1 \in DOMAIN s
               /\ r[1].pc = pc /\ r[1].sig = s[1].sig
               /\ \A i \in DOMAIN s : i # 1 => r[i] = s[i]
  <1> DEFINE r == [s EXCEPT ![1].pc = pc]
  <1>1. Len(s) \in Nat /\ DOMAIN s = 1..Len(s) /\ s \in [1..Len(s) -> FrameSet]
    BY LenProperties
  <1>2. Len(s) # 0
    BY EmptySeq
  <1>3. 1 \in DOMAIN s /\ s[1] \in FrameSet
    BY <1>1, <1>2
  <1>4. [s[1] EXCEPT !.pc = pc] \in FrameSet
    BY <1>3 DEF FrameSet
  <1>5. r \in [1..Len(s) -> FrameSet]
    BY <1>1, <1>3, <1>4
  <1>6. r \in Seq(FrameSet)
    BY <1>1, <1>5, SeqDef
  <1>7. r[1].pc = pc /\ r[1].sig = s[1].sig
    BY <1>1, <1>3 DEF FrameSet
  <1>8. QED
    BY <1>1, <1>3, <1>6, <1>7

-----------------------------------------------------------------------------
LEMMA InitOnce == Init => OnceInv
  <1> SUFFICES ASSUME Init PROVE OnceInv
    OBVIOUS
  <1>1. \A t \in Threads : frames[t] = <<>> /\ DOMAIN frames[t] = {}
    <2>1. DOMAIN <<>> = 1..0
      OBVIOUS
    <2>2. QED
      BY <2>1 DEF Init
  <1>2. frames \in [Threads -> Seq(FrameSet)]
    BY DEF Init
  <1>3. threads \subseteq Threads /\ sigtermMutex \in Threads \cup {NULL}
    BY DEF Init, Threads
  <1>4. QED
    BY <1>1, <1>2, <1>3 DEF OnceInv, StackInv, OnlyOnce

\* A new frame is before the mutex, so that the calls past it stay the same.
LEMMA PushOnce ==
    ASSUME OnceInv, NEW t \in Threads, NEW f \in FrameSet, f.pc = "try",
           Push(t, f), sigtermMutex' = sigtermMutex, threads' = threads
    PROVE  OnceInv'
  <1>1. frames[t] \in Seq(FrameSet)
    BY DEF OnceInv, StackInv
  <1>2. /\ frames' = [frames EXCEPT ![t] = <<f>> \o frames[t]]
        /\ frames'[t] = <<f>> \o frames[t]
        /\ \A u \in Threads : u # t => frames'[u] = frames[u]
    BY DEF OnceInv, StackInv, Push
  <1>3. frames' \in [Threads -> Seq(FrameSet)]
    BY <1>1, <1>2, PushFrame DEF OnceInv, StackInv
  <1>4. \A i \in DOMAIN frames'[t] : Past(frames'[t][i]) =>
          i \in 2..(Len(frames[t]) + 1) /\ i - 1 \in DOMAIN frames[t] /\ Past(frames[t][i - 1])
    BY <1>1, <1>2, PushFrame, LenProperties DEF Past
  <1>5. \A u \in Threads : \A i \in DOMAIN frames'[u] :
          Past(frames'[u][i]) => sigtermMutex = u
    BY <1>2, <1>4 DEF OnceInv, StackInv
  <1>6. OnlyOnce'
    <2> SUFFICES ASSUME NEW u \in Threads, NEW v \in Threads,
                        NEW i \in DOMAIN frames'[u], NEW j \in DOMAIN frames'[v],
                        Past(frames'[u][i]), Past(frames'[v][j])
                 PROVE  u = v /\ i = j
      BY DEF OnlyOnce, Past
    <2>1. u = v /\ u \in Threads
      BY <1>5
    <2>2. CASE u = t
      <3>1. i \in Int /\ j \in Int /\ i - 1 = j - 1
        BY <1>1, <1>4, <2>1, <2>2, LenProperties DEF OnceInv, OnlyOnce
      <3>2. QED
        BY <2>1, <3>1
    <2>3. CASE u # t
      BY <1>2, <2>1, <2>3 DEF OnceInv, OnlyOnce
    <2>4. QED
      BY <2>2, <2>3
  <1>7. QED
    BY <1>3, <1>5, <1>6 DEF OnceInv, StackInv, Past

\* A step that neither calls nor leaves the handler.
LEMMA FrameOnce ==
    ASSUME OnceInv, UNCHANGED <<frames, sigtermMutex>>, threads' \subseteq Threads
    PROVE  OnceInv'
  BY DEF OnceInv, StackInv, OnlyOnce, Past

\* The four steps of the handler.
LEMMA HandlerOnce ==
    ASSUME OnceInv, NEW t \in Threads, TerminationHandler(t)
    PROVE  OnceInv'
  <1> USE DEF At, Goto
  <1>1. frames[t] \in Seq(FrameSet)
    BY DEF OnceInv, StackInv
  <1>2. CASE TryLock(t)
    <2>1. /\ frames[t] # <<>> /\ sigtermMutex = NULL /\ sigtermMutex' = t
          /\ threads' = threads
          /\ frames' = [frames EXCEPT ![t][1].pc = "kill"]
      BY <1>2 DEF TryLock, process
    <2>2. \A u \in Threads : \A i \in DOMAIN frames[u] : ~Past(frames[u][i])
      BY <2>1, NullAssumption DEF OnceInv, StackInv
    <2>3. frames'[t] = [frames[t] EXCEPT ![1].pc = "kill"]
          /\ \A u \in Threads : u # t => frames'[u] = frames[u]
      BY <2>1 DEF OnceInv, StackInv
    <2>4. frames' \in [Threads -> Seq(FrameSet)]
      BY <1>1, <2>1, <2>3, TopFrame DEF OnceInv, StackInv, Steps
    <2>5. \A u \in Threads : \A i \in DOMAIN frames'[u] :
            Past(frames'[u][i]) => u = t /\ i = 1
      BY <1>1, <2>1, <2>2, <2>3, TopFrame DEF Past, Steps
    <2>6. QED
      BY <2>1, <2>4, <2>5 DEF OnceInv, StackInv, OnlyOnce, Past
  <1>3. CASE TryLockFails(t)
    <2>1. /\ frames' = [frames EXCEPT ![t] = <<>>]
          /\ sigtermMutex' = sigtermMutex /\ threads' = threads \ {t}
      BY <1>3 DEF TryLockFails
    <2>2. frames'[t] = <<>> /\ \A u \in Threads : u # t => frames'[u] = frames[u]
      BY <2>1 DEF OnceInv, StackInv
    <2>3. frames' \in [Threads -> Seq(FrameSet)]
      BY <2>1 DEF OnceInv, StackInv
    <2>4. \A u \in Threads : \A i \in DOMAIN frames'[u] : u # t /\ frames'[u] = frames[u]
      BY <2>2
    <2>5. QED
      BY <2>1, <2>3, <2>4 DEF OnceInv, StackInv, OnlyOnce, Past
  <1>4. ASSUME Goto(t, "destroy"), At(t, "kill"), sigtermMutex' = sigtermMutex,
               threads' = threads
        PROVE  OnceInv'
    <2>1. frames[t] # <<>> /\ frames' = [frames EXCEPT ![t][1].pc = "destroy"]
      BY <1>4
    <2>2. frames'[t] = [frames[t] EXCEPT ![1].pc = "destroy"]
          /\ \A u \in Threads : u # t => frames'[u] = frames[u]
      BY <2>1 DEF OnceInv, StackInv
    <2>3. frames' \in [Threads -> Seq(FrameSet)]
      BY <1>1, <2>1, <2>2, TopFrame DEF OnceInv, StackInv, Steps
    <2>4. Head(frames[t]) = frames[t][1]
      BY <1>1, <2>1
    <2>5. 1 \in DOMAIN frames[t] /\ Past(frames[t][1])
      BY <1>1, <1>4, <2>1, <2>4, TopFrame DEF Past, Steps
    <2>6. \A u \in Threads :
            /\ DOMAIN frames'[u] = DOMAIN frames[u]
            /\ \A i \in DOMAIN frames[u] : Past(frames'[u][i]) => Past(frames[u][i])
      BY <1>1, <2>1, <2>2, <2>5, TopFrame DEF Steps
    <2>7. QED
      BY <1>4, <2>3, <2>6 DEF OnceInv, StackInv, OnlyOnce, Past
  <1>5. CASE KillPing(t)
    <2>1. CASE UNCHANGED frames
      BY <1>5, <2>1, FrameOnce DEF KillPing, OnceInv, StackInv
    <2>2. CASE Goto(t, "destroy")
      BY <1>4, <1>5, <2>2 DEF KillPing
    <2>3. QED
      BY <1>5, <2>1, <2>2 DEF KillPing
  <1>6. CASE KeepPing(t)
    BY <1>4, <1>6 DEF KeepPing, process
  <1>7. CASE DestroyAndExit(t)
    BY <1>7, FrameOnce DEF DestroyAndExit, OnceInv, StackInv
  <1>8. QED
    BY <1>2, <1>3, <1>5, <1>6, <1>7 DEF TerminationHandler

LEMMA StepOnce == OnceInv /\ [Next]_vars => OnceInv'
  <1> SUFFICES ASSUME OnceInv, [Next]_vars PROVE OnceInv'
    OBVIOUS
  <1>1. CASE StartFails \/ InitialQueue \/ InitSignals \/ CreatePing \/ StartPost
    BY <1>1, FrameOnce DEF StartFails, InitialQueue, InitSignals, CreatePing, StartPost,
                           OnceInv, StackInv, Threads
  <1>2. CASE CreatePingFails
    <2>1. Frame(NULL) \in FrameSet /\ Frame(NULL).pc = "try"
      BY DEF Frame, FrameSet, Steps
    <2>2. QED
      BY <1>2, <2>1, PushOnce DEF CreatePingFails, Threads
  <1>3. CASE UpdateInformation \/ PostEnds
    BY <1>3, FrameOnce DEF UpdateInformation, PostEnds, process, OnceInv, StackInv
  <1>4. CASE \E sig \in Signals : Send(sig)
    BY <1>4, FrameOnce DEF Send, OnceInv, StackInv
  <1>5. ASSUME NEW t \in Threads, NEW sig \in Signals, Deliver(t, sig)
        PROVE  OnceInv'
    <2>1. Frame(sig) \in FrameSet /\ Frame(sig).pc = "try"
      BY DEF Frame, FrameSet, Steps
    <2>2. QED
      BY <1>5, <2>1, PushOnce DEF Deliver, process
  <1>6. CASE \E t \in Threads : TerminationHandler(t)
    BY <1>6, HandlerOnce
  <1>7. CASE UNCHANGED vars
    BY <1>7, FrameOnce DEF vars, process, OnceInv, StackInv
  <1>8. QED
    BY <1>1, <1>2, <1>3, <1>4, <1>5, <1>6, <1>7 DEF Next, MainLoop

\* At most one call of termination_handler gets past pthread_mutex_trylock,
\* whatever signals arrive on whatever threads.
THEOREM TerminationOnce == Spec => []OnlyOnce
  <1>1. OnceInv => OnlyOnce
    BY DEF OnceInv
  <1>2. QED
    BY <1>1, InitOnce, StepOnce, PTL DEF Spec

-----------------------------------------------------------------------------
\* What keeps the owner alive.  A handler is never entered twice for one signal
\* on one thread; the call that main_loop makes itself, which no signal mask
\* protects, is made before any other thread is there, so that a thread that
\* ends on top of it is the last one and ends the process.
LifeInv ==
    /\ phase \in {"start", "queue", "signals"} => threads \subseteq {"main"}
    /\ \A t \in Threads : \A i, j \in DOMAIN frames[t] :
         frames[t][i].sig = frames[t][j].sig => i = j
    /\ \A t \in Threads : \A i \in DOMAIN frames[t] :
         frames[t][i].sig = NULL => t = "main" /\ threads = {"main"}
    /\ OwnerLives

OwnerInv == OnceInv /\ LifeInv

LEMMA InitOwner == Init => OwnerInv
  <1> SUFFICES ASSUME Init PROVE OwnerInv
    OBVIOUS
  <1>1. \A t \in Threads : frames[t] = <<>> /\ DOMAIN frames[t] = {}
    <2>1. DOMAIN <<>> = 1..0
      OBVIOUS
    <2>2. QED
      BY <2>1 DEF Init
  <1>2. threads = {"main"} /\ sigtermMutex = NULL
    BY DEF Init
  <1>3. QED
    BY <1>1, <1>2, InitOnce DEF OwnerInv, LifeInv, OwnerLives

\* A call of the handler on a thread that is alive.
LEMMA PushOwner ==
    ASSUME OwnerInv, NEW t \in Threads, NEW f \in FrameSet, f.pc = "try",
           Push(t, f), UNCHANGED <<sigtermMutex, threads, status>>,
           \A i \in DOMAIN frames[t] : frames[t][i].sig # f.sig,
           f.sig = NULL => t = "main" /\ threads = {"main"},
           phase' # phase => phase' = "loop"
    PROVE  LifeInv'
  <1>1. frames[t] \in Seq(FrameSet)
    BY DEF OwnerInv, OnceInv, StackInv
  <1>2. /\ frames'[t] = <<f>> \o frames[t]
        /\ \A u \in Threads : u # t => frames'[u] = frames[u]
    BY DEF OwnerInv, OnceInv, StackInv, Push
  <1>3. /\ frames'[t][1] = f
        /\ DOMAIN frames'[t] = 1..(Len(frames[t]) + 1)
        /\ DOMAIN frames[t] = 1..Len(frames[t]) /\ Len(frames[t]) \in Nat
        /\ \A i \in 2..(Len(frames[t]) + 1) :
              i - 1 \in DOMAIN frames[t] /\ frames'[t][i] = frames[t][i - 1]
    BY <1>1, <1>2, PushFrame, LenProperties
  <1>4. \A i \in DOMAIN frames'[t] :
          \/ i = 1
          \/ i \in Int /\ i - 1 \in DOMAIN frames[t] /\ frames'[t][i] = frames[t][i - 1]
    BY <1>3
  <1>5. \A u \in Threads : \A i, j \in DOMAIN frames'[u] :
          frames'[u][i].sig = frames'[u][j].sig => i = j
    <2>1. \A i, j \in DOMAIN frames'[t] : frames'[t][i].sig = frames'[t][j].sig => i = j
      <3> SUFFICES ASSUME NEW i \in DOMAIN frames'[t], NEW j \in DOMAIN frames'[t],
                          frames'[t][i].sig = frames'[t][j].sig
                   PROVE  i = j
        OBVIOUS
      <3>1. CASE i = 1 \/ j = 1
        BY <1>3, <1>4, <3>1
      <3>2. CASE i # 1 /\ j # 1
        <4>1. i - 1 = j - 1
          BY <1>4, <3>2 DEF OwnerInv, LifeInv
        <4>2. QED
          BY <1>4, <3>2, <4>1
      <3>3. QED
        BY <3>1, <3>2
    <2>2. QED
      BY <1>2, <2>1 DEF OwnerInv, LifeInv
  <1>6. \A u \in Threads : \A i \in DOMAIN frames'[u] :
          frames'[u][i].sig = NULL => u = "main" /\ threads = {"main"}
    <2>1. \A i \in DOMAIN frames'[t] :
            frames'[t][i].sig = NULL => t = "main" /\ threads = {"main"}
      <3> SUFFICES ASSUME NEW i \in DOMAIN frames'[t], frames'[t][i].sig = NULL
                   PROVE  t = "main" /\ threads = {"main"}
        OBVIOUS
      <3>1. CASE i = 1
        BY <1>3, <3>1
      <3>2. CASE i - 1 \in DOMAIN frames[t] /\ frames'[t][i] = frames[t][i - 1]
        BY <3>2 DEF OwnerInv, LifeInv
      <3>3. QED
        BY <1>4, <3>1, <3>2
    <2>2. QED
      BY <1>2, <2>1 DEF OwnerInv, LifeInv
  <1>7. OwnerLives'
    <2> SUFFICES ASSUME Running, sigtermMutex # NULL
                 PROVE  /\ sigtermMutex \in threads
                        /\ \E i \in DOMAIN frames'[sigtermMutex] : Past(frames'[sigtermMutex][i])
      BY DEF OwnerLives, Running, Past
    <2>1. PICK i \in DOMAIN frames[sigtermMutex] : Past(frames[sigtermMutex][i])
      BY DEF OwnerInv, LifeInv, OwnerLives
    <2>2. sigtermMutex \in threads /\ sigtermMutex \in Threads
      BY DEF OwnerInv, LifeInv, OwnerLives, OnceInv, StackInv
    <2>3. CASE sigtermMutex = t
      <3>1. i \in 1..Len(frames[t]) /\ i + 1 \in DOMAIN frames'[t]
        BY <1>3, <2>1, <2>3
      <3>2. frames'[t][i + 1] = frames[t][i]
        BY <1>3, <3>1
      <3>3. QED
        BY <2>1, <2>2, <2>3, <3>1, <3>2
    <2>4. CASE sigtermMutex # t
      BY <1>2, <2>1, <2>2, <2>4
    <2>5. QED
      BY <2>3, <2>4
  <1>8. QED
    BY <1>5, <1>6, <1>7 DEF OwnerInv, LifeInv

\* A step that changes no stack, starts no thread under main_loop's own call,
\* and ends no thread that has a handler.
LEMMA FrameOwner ==
    ASSUME OwnerInv, UNCHANGED <<frames, sigtermMutex>>,
           status' # status => status' # "running",
           phase' \in {"start", "queue", "signals"} => threads' \subseteq {"main"},
           threads' # threads => frames["main"] = <<>> \/ "main" \in threads \cap threads',
           \A t \in threads : t \notin threads' => frames[t] = <<>>,
           \A t \in threads' : t \notin threads => frames["main"] = <<>>
    PROVE  LifeInv'
  <1>1. DOMAIN <<>> = {}
    <2>1. DOMAIN <<>> = 1..0
      OBVIOUS
    <2>2. QED
      BY <2>1
  <1>2. \A t \in Threads : \A i \in DOMAIN frames[t] :
          frames[t][i].sig = NULL => t = "main" /\ threads' = {"main"}
    BY <1>1 DEF OwnerInv, LifeInv
  <1>3. OwnerLives'
    BY <1>1 DEF OwnerInv, LifeInv, OwnerLives, Running, Past
  <1>4. QED
    BY <1>2, <1>3 DEF OwnerInv, LifeInv

\* The steps of the handler, when all the signals are of one kind.
LEMMA HandlerOwner ==
    ASSUME OwnerInv, NEW t \in Threads, TerminationHandler(t),
           \A s1, s2 \in Signals : s1 = s2
    PROVE  LifeInv'
  <1> USE DEF At, Goto
  <1>1. frames[t] \in Seq(FrameSet)
    BY DEF OwnerInv, OnceInv, StackInv
  <1>a. /\ phase' = phase
        /\ frames[t] # <<>> /\ t \in threads /\ Running
        /\ 1 \in DOMAIN frames[t] /\ Head(frames[t]) = frames[t][1]
    <2>1. frames[t] # <<>> /\ phase' = phase /\ t \in threads /\ Running
      BY DEF TerminationHandler, TryLock, TryLockFails, KillPing, KeepPing,
             DestroyAndExit, process
    <2>2. QED
      BY <1>1, <2>1, TopFrame DEF Steps
  <1>2. ASSUME NEW pc \in {"kill", "destroy"}, Goto(t, pc), threads' = threads,
               status' = status, sigtermMutex' = t
        PROVE  LifeInv'
    <2>1. frames'[t] = [frames[t] EXCEPT ![1].pc = pc]
          /\ \A u \in Threads : u # t => frames'[u] = frames[u]
      BY <1>2 DEF OwnerInv, OnceInv, StackInv
    <2>a. pc \in Steps /\ pc # "try"
      BY DEF Steps
    <2>b. /\ DOMAIN frames'[t] = DOMAIN frames[t]
          /\ frames'[t][1].pc = pc /\ frames'[t][1].sig = frames[t][1].sig
          /\ \A i \in DOMAIN frames[t] : i # 1 => frames'[t][i] = frames[t][i]
      BY <1>1, <1>a, <2>1, <2>a, TopFrame
    <2>2. \A u \in Threads :
            /\ DOMAIN frames'[u] = DOMAIN frames[u]
            /\ \A i \in DOMAIN frames[u] : frames'[u][i].sig = frames[u][i].sig
      BY <2>1, <2>b
    <2>3. Past(frames'[t][1]) /\ 1 \in DOMAIN frames'[t]
      BY <1>a, <2>a, <2>b DEF Past
    <2>4. OwnerLives'
      BY <1>2, <1>a, <2>3 DEF OwnerLives, Past
    <2>5. QED
      BY <1>2, <1>a, <2>2, <2>4 DEF OwnerInv, LifeInv
  <1>b. Past(frames[t][1]) => sigtermMutex = t
    BY <1>a DEF OwnerInv, OnceInv, StackInv
  <1>3. CASE TryLock(t)
    BY <1>2, <1>3 DEF TryLock, process
  <1>4. CASE TryLockFails(t)
    <2>1. /\ frames' = [frames EXCEPT ![t] = <<>>]
          /\ sigtermMutex' = sigtermMutex /\ sigtermMutex # NULL
          /\ threads' = threads \ {t}
          /\ status' = IF threads' = {} THEN "exited" ELSE status
          /\ frames[t][1].pc = "try"
      BY <1>4, <1>a DEF TryLockFails
    <2>2. /\ frames'[t] = <<>> /\ DOMAIN frames'[t] = {}
          /\ \A u \in Threads : u # t => frames'[u] = frames[u]
      <3>1. DOMAIN <<>> = 1..0
        OBVIOUS
      <3>2. QED
        BY <2>1, <3>1 DEF OwnerInv, OnceInv, StackInv
    <2>3. OwnerLives'
      <3> SUFFICES ASSUME Running'
                   PROVE  /\ sigtermMutex \in threads'
                          /\ \E i \in DOMAIN frames'[sigtermMutex] :
                                Past(frames'[sigtermMutex][i])
        BY <2>1 DEF OwnerLives, Past
      <3>1. threads' # {}
        BY <2>1 DEF Running
      <3>2. PICK i \in DOMAIN frames[sigtermMutex] : Past(frames[sigtermMutex][i])
        BY <1>a, <2>1 DEF OwnerInv, LifeInv, OwnerLives
      <3>3. sigtermMutex \in threads /\ sigtermMutex \in Threads
        BY <1>a, <2>1 DEF OwnerInv, LifeInv, OwnerLives, OnceInv, StackInv
      <3>4. sigtermMutex # t
        <4> SUFFICES ASSUME sigtermMutex = t PROVE FALSE
          OBVIOUS
        <4>1. i # 1 /\ frames[t][i].sig # frames[t][1].sig
          BY <1>a, <2>1, <3>2 DEF Past, OwnerInv, LifeInv
        <4>2. frames[t][i] \in FrameSet /\ frames[t][1] \in FrameSet
          BY <1>1, <1>a, <3>2, LenProperties
        <4>3. frames[t][i].sig = NULL \/ frames[t][1].sig = NULL
          BY <4>1, <4>2 DEF FrameSet
        <4>4. t = "main" /\ threads = {"main"}
          BY <1>a, <3>2, <4>3 DEF OwnerInv, LifeInv
        <4>5. QED
          BY <2>1, <3>1, <4>4
      <3>5. QED
        BY <2>1, <2>2, <3>2, <3>3, <3>4
    <2>4. \A u \in Threads : \A i \in DOMAIN frames'[u] :
            frames'[u][i].sig = NULL => u = "main" /\ threads' = {"main"}
      BY <1>a, <2>1, <2>2 DEF OwnerInv, LifeInv
    <2>5. QED
      BY <1>a, <2>1, <2>2, <2>3, <2>4 DEF OwnerInv, LifeInv
  <1>5. CASE KillPing(t)
    <2>1. /\ UNCHANGED <<phase, threads, sigtermMutex>>
          /\ frames[t][1].pc = "kill" /\ sigtermMutex = t
          /\ \/ status' # "running" /\ UNCHANGED frames
             \/ status' = status /\ Goto(t, "destroy")
      BY <1>5, <1>a, <1>b DEF KillPing, Past
    <2>2. QED
      BY <1>2, <2>1, FrameOwner DEF OwnerInv, LifeInv
  <1>6. CASE KeepPing(t)
    <2>1. frames[t][1].pc = "kill" /\ sigtermMutex = t
      BY <1>6, <1>a, <1>b DEF KeepPing, Past
    <2>2. QED
      BY <1>2, <1>6, <2>1 DEF KeepPing, process
  <1>7. CASE DestroyAndExit(t)
    <2>1. UNCHANGED <<phase, threads, frames, sigtermMutex>> /\ status' # "running"
      BY <1>7 DEF DestroyAndExit
    <2>2. QED
      BY <2>1, FrameOwner DEF OwnerInv, LifeInv
  <1>8. QED
    BY <1>3, <1>4, <1>5, <1>6, <1>7 DEF TerminationHandler

LEMMA StepOwner ==
    ASSUME OwnerInv, [Next]_vars, \A s1, s2 \in Signals : s1 = s2
    PROVE  OwnerInv'
  <1>0. OnceInv'
    BY StepOnce DEF OwnerInv
  <1> SUFFICES LifeInv'
    BY <1>0 DEF OwnerInv
  <1>1. CASE StartFails \/ InitialQueue \/ InitSignals
    BY <1>1, FrameOwner DEF StartFails, InitialQueue, InitSignals, OwnerInv, LifeInv
  <1>2. CASE CreatePing \/ StartPost
    <2>1. /\ Free("main") /\ UNCHANGED <<frames, sigtermMutex, status>>
          /\ threads \subseteq threads' /\ phase' = "loop"
      BY <1>2 DEF CreatePing, StartPost
    <2>2. QED
      BY <2>1, FrameOwner DEF Free
  <1>3. CASE CreatePingFails
    <2>1. /\ Frame(NULL) \in FrameSet /\ Frame(NULL).pc = "try" /\ Frame(NULL).sig = NULL
      BY DEF Frame, FrameSet, Steps
    <2>2. /\ Push("main", Frame(NULL)) /\ UNCHANGED <<sigtermMutex, threads, status>>
          /\ phase' = "loop" /\ threads = {"main"} /\ frames["main"] = <<>>
      BY <1>3 DEF CreatePingFails, Free, OwnerInv, LifeInv
    <2>3. DOMAIN frames["main"] = {}
      <3>1. DOMAIN <<>> = 1..0
        OBVIOUS
      <3>2. QED
        BY <2>2, <3>1
    <2>4. QED
      BY <2>1, <2>2, <2>3, PushOwner DEF Threads
  <1>4. CASE UpdateInformation
    BY <1>4, FrameOwner DEF UpdateInformation, process, OwnerInv, LifeInv
  <1>5. CASE PostEnds
    <2>1. /\ frames["post"] = <<>> /\ UNCHANGED <<frames, sigtermMutex, status, phase>>
          /\ threads' = threads \ {"post"}
      BY <1>5 DEF PostEnds, Free
    <2>2. threads' # threads => "post" \in threads
      BY <2>1
    <2>3. \A t \in Threads : \A i \in DOMAIN frames[t] :
            frames[t][i].sig = NULL => threads' = threads
      BY <2>1 DEF OwnerInv, LifeInv
    <2>4. OwnerLives'
      <3>1. DOMAIN <<>> = 1..0
        OBVIOUS
      <3>2. QED
        BY <2>1, <3>1 DEF OwnerInv, LifeInv, OwnerLives, Running, Past
    <2>5. QED
      BY <2>1, <2>3, <2>4 DEF OwnerInv, LifeInv
  <1>6. CASE \E sig \in Signals : Send(sig)
    <2>1. UNCHANGED <<phase, threads, frames, sigtermMutex>>
          /\ (status' # status => status' # "running")
      BY <1>6 DEF Send
    <2>2. QED
      BY <2>1, FrameOwner DEF OwnerInv, LifeInv
  <1>7. ASSUME NEW t \in Threads, NEW sig \in Signals, Deliver(t, sig)
        PROVE  LifeInv'
    <2>1. /\ Frame(sig) \in FrameSet /\ Frame(sig).pc = "try" /\ Frame(sig).sig = sig
          /\ sig # NULL
      BY NullAssumption DEF Frame, FrameSet, Steps
    <2>2. /\ Push(t, Frame(sig)) /\ UNCHANGED <<sigtermMutex, threads, status, phase>>
          /\ \A i \in DOMAIN frames[t] : frames[t][i].sig # sig
      BY <1>7 DEF Deliver, process, Blocked
    <2>3. QED
      BY <2>1, <2>2, PushOwner
  <1>8. CASE \E t \in Threads : TerminationHandler(t)
    BY <1>8, HandlerOwner
  <1>9. CASE UNCHANGED vars
    BY <1>9, FrameOwner DEF vars, process, OwnerInv, LifeInv
  <1>10. QED
    BY <1>1, <1>2, <1>3, <1>4, <1>5, <1>6, <1>7, <1>8, <1>9 DEF Next, MainLoop

\* When the signals are of one kind, the thread that has begun to end the
\* process is not ended itself by another signal: its handler runs to the end.
THEOREM TerminationOwnerLives ==
    ASSUME \A s1, s2 \in Signals : s1 = s2
    PROVE  Spec => []OwnerLives
  <1>1. OwnerInv => OwnerLives
    BY DEF OwnerInv, LifeInv
  <1>2. OwnerInv /\ [Next]_vars => OwnerInv'
    BY StepOwner
  <1>3. QED
    BY <1>1, <1>2, InitOwner, PTL DEF Spec

-----------------------------------------------------------------------------
\* Signals wait only for a process that has installed its handler.
TypeInv == /\ TypeOK /\ OnceInv
           /\ phase \in {"start", "queue"} => pending = {}

LEMMA InitTypes == Init => TypeInv
  <1> SUFFICES ASSUME Init PROVE TypeInv
    OBVIOUS
  <1>1. \A t \in Threads : frames[t] = <<>>
    BY DEF Init
  <1>2. threads \subseteq Threads /\ sent \in 0..MaxSent /\ pending \subseteq Signals
    BY SentAssumption DEF Init, Threads
  <1>3. QED
    BY <1>1, <1>2, InitOnce DEF Init, TypeInv, TypeOK

\* A call of the handler on a thread that is alive.
LEMMA PushTypes ==
    ASSUME TypeInv, NEW t \in threads, NEW f, Push(t, f), threads' = threads,
           phase' \in {"signals", "loop"}, phase' = phase \/ phase = "signals"
    PROVE  \A u \in Threads : frames'[u] # <<>> => u \in threads' /\ phase' \in {"signals", "loop"}
  <1>1. \A u \in Threads : u # t => frames'[u] = frames[u]
    BY DEF Push, TypeInv, OnceInv, StackInv
  <1>2. QED
    BY <1>1 DEF TypeInv, TypeOK

LEMMA StepTypes == TypeInv /\ [Next]_vars => TypeInv'
  <1> SUFFICES ASSUME TypeInv, [Next]_vars PROVE TypeInv'
    OBVIOUS
  <1>0. OnceInv' /\ sigtermMutex' \in Threads \cup {NULL}
    BY StepOnce DEF TypeInv, OnceInv, StackInv
  <1>1. CASE StartFails \/ InitialQueue \/ InitSignals
    BY <1>0, <1>1 DEF StartFails, InitialQueue, InitSignals, TypeInv, TypeOK
  <1>2. CASE CreatePing \/ StartPost
    BY <1>0, <1>2 DEF CreatePing, StartPost, TypeInv, TypeOK, Threads
  <1>3. CASE CreatePingFails
    <2>1. \A u \in Threads : frames'[u] # <<>> => u \in threads' /\ phase' \in {"signals", "loop"}
      BY <1>3, PushTypes DEF CreatePingFails, Free
    <2>2. QED
      BY <1>0, <1>3, <2>1 DEF CreatePingFails, TypeInv, TypeOK
  <1>4. CASE UpdateInformation \/ PostEnds
    BY <1>0, <1>4 DEF UpdateInformation, PostEnds, Free, process, TypeInv, TypeOK
  <1>5. ASSUME NEW sig \in Signals, Send(sig) PROVE TypeInv'
    BY <1>0, <1>5, SentAssumption DEF Send, TypeInv, TypeOK
  <1>6. ASSUME NEW t \in Threads, NEW sig \in Signals, Deliver(t, sig)
        PROVE  TypeInv'
    <2>1. phase \in {"signals", "loop"}
      BY <1>6 DEF Deliver, TypeInv, TypeOK
    <2>2. \A u \in Threads : frames'[u] # <<>> => u \in threads' /\ phase' \in {"signals", "loop"}
      BY <1>6, <2>1, PushTypes DEF Deliver, process
    <2>3. QED
      BY <1>0, <1>6, <2>2 DEF Deliver, process, TypeInv, TypeOK
  <1>7. ASSUME NEW t \in Threads, TerminationHandler(t) PROVE TypeInv'
    <2>1. t \in threads /\ \A u \in Threads : u # t => frames'[u] = frames[u]
      BY <1>7 DEF TerminationHandler, TryLock, TryLockFails, KillPing, KeepPing,
                  DestroyAndExit, At, Goto, TypeInv, OnceInv, StackInv
    <2>2. phase \in {"signals", "loop"}
      BY <1>7 DEF TerminationHandler, TryLock, TryLockFails, KillPing, KeepPing,
                  DestroyAndExit, At, TypeInv, TypeOK
    <2>3. CASE TryLockFails(t)
      <3>1. frames'[t] = <<>>
        BY <2>3 DEF TryLockFails, TypeInv, OnceInv, StackInv
      <3>2. QED
        BY <1>0, <2>1, <2>2, <2>3, <3>1 DEF TryLockFails, TypeInv, TypeOK
    <2>4. CASE TryLock(t) \/ KillPing(t) \/ KeepPing(t) \/ DestroyAndExit(t)
      <3>1. /\ UNCHANGED <<phase, threads, tidPing, pending, sent>>
            /\ status' \in {"running", "killed", "segv", "exited"} /\ chains' \in BOOLEAN
        BY <2>4 DEF TryLock, KillPing, KeepPing, DestroyAndExit, process, TypeInv, TypeOK
      <3>2. QED
        BY <1>0, <2>1, <2>2, <3>1 DEF TypeInv, TypeOK
    <2>5. QED
      BY <1>7, <2>3, <2>4 DEF TerminationHandler
  <1>8. CASE UNCHANGED vars
    BY <1>0, <1>8 DEF vars, process, TypeInv, TypeOK
  <1>9. QED
    BY <1>1, <1>2, <1>3, <1>4, <1>5, <1>6, <1>7, <1>8 DEF Next, MainLoop

\* Handlers run on live threads, and only after init_signals.
THEOREM TerminationTypes == Spec => []TypeOK
  <1>1. TypeInv => TypeOK
    BY DEF TypeInv
  <1>2. QED
    BY <1>1, InitTypes, StepTypes, PTL DEF Spec

-----------------------------------------------------------------------------
\* The queue that initial_queue made has an empty node in front, without data.
FrontInv == phase # "start" => frontData = NULL

LEMMA FrontStep == FrontInv /\ [Next]_vars => FrontInv'
  BY DEF FrontInv, Next, MainLoop, StartFails, InitialQueue, InitSignals, CreatePing,
         CreatePingFails, StartPost, UpdateInformation, PostEnds, Send, Deliver,
         TerminationHandler, TryLock, TryLockFails, KillPing, KeepPing, DestroyAndExit,
         process, vars

LEMMA FrontInvariant == Spec => []FrontInv
  <1>1. Init => FrontInv
    BY DEF Init, FrontInv
  <1>2. QED
    BY <1>1, FrontStep, PTL DEF Spec

\* Once the update script has made its chains the daemon never removes them:
\* whichever way termination_handler goes, it does not get as far.
ChainsStay == [][chains => chains']_vars

LEMMA ChainsStep == TypeInv /\ FrontInv /\ [Next]_vars => (chains => chains') \/ UNCHANGED vars
  <1> SUFFICES ASSUME TypeInv, FrontInv, Next, chains PROVE chains'
    OBVIOUS
  <1>1. CASE MainLoop \/ UpdateInformation \/ PostEnds
    BY <1>1 DEF MainLoop, StartFails, InitialQueue, InitSignals, CreatePing,
                CreatePingFails, StartPost, UpdateInformation, PostEnds
  <1>2. CASE \/ \E sig \in Signals : Send(sig)
             \/ \E t \in Threads, sig \in Signals : Deliver(t, sig)
    BY <1>2 DEF Send, Deliver
  <1>3. ASSUME NEW t \in Threads, TerminationHandler(t) PROVE chains'
    <2>1. CASE TryLock(t) \/ TryLockFails(t) \/ KillPing(t) \/ KeepPing(t)
      BY <2>1 DEF TryLock, TryLockFails, KillPing, KeepPing
    <2>2. CASE DestroyAndExit(t)
      <3>1. phase # "start"
        BY <2>2 DEF DestroyAndExit, At, TypeInv, TypeOK
      <3>2. QED
        BY <2>2, <3>1 DEF DestroyAndExit, FrontInv
    <2>3. QED
      BY <1>3, <2>1, <2>2 DEF TerminationHandler
  <1>4. QED
    BY <1>1, <1>2, <1>3 DEF Next

\* A daemon that has ended, in whatever way, leaves its chains and rules to the
\* next one (termination_handler, destroy_queue).
THEOREM TerminationChainsStay == Spec => ChainsStay
  <1>1. Spec => []TypeInv
    BY InitTypes, StepTypes, PTL DEF Spec
  <1>2. QED
    BY <1>1, FrontInvariant, ChainsStep, PTL DEF Spec, ChainsStay
=============================================================================
