---------------------------- MODULE Sniffer_proofs ----------------------------
(***************************************************************************)
(* Proofs about Sniffer for any set of identities of worker threads,       *)
(* store, frames and sizes of buffers. The types, the use of the store and *)
(* the saves (the last part) hold for any number of binder threads; the    *)
(* others when no two of them are in sniffer_start or sniffer_stop, as the *)
(* app's busy flag has it. Of two OneWorker is not true (Sniffer_overlap). *)
(***************************************************************************)
EXTENDS Sniffer, FiniteSetTheorems, WellFoundedInduction, TLAPS

StoreP == INSTANCE FrameQueue_proofs

Alone == \A c, d \in Controllers : c = d

Types ==
  /\ running \in BOOLEAN
  /\ thread \in Workers \cup {NoThread}
  /\ worker \in [Workers -> {"none", "check", "read", "push", "room", "count", "exited"}]
  /\ control \in [Controllers -> {"idle", "reset", "create", "stop", "join"}]
  /\ joining \in [Controllers -> Workers \cup {NoThread}]

NoWorker == \A w \in Workers : worker[w] = "none"

(* Only the thread in g_thread is one; where the binder thread is tells    *)
(* whether there is one and what it has been told.                         *)
Others == \A w \in Workers : w # thread => worker[w] = "none"

Starting(c) == control[c] \in {"reset", "create"} => running /\ NoWorker

Stopping(c) ==
  /\ control[c] \in {"stop", "join"} =>
       ~running /\ thread \in Workers /\ worker[thread] # "none"
  /\ control[c] = "join" => joining[c] = thread

Between ==
  (\A c \in Controllers : control[c] = "idle") =>
     IF running THEN thread \in Workers /\ Live(thread) ELSE NoWorker

Phases ==
  /\ Others /\ Between
  /\ \A c \in Controllers : Starting(c) /\ Stopping(c)

(* A frame is written and not counted only between two steps of the worker.*)
Counting == \E w \in Workers : worker[w] = "count"

Counts ==
  /\ total \in Nat /\ accepted \in Nat
  /\ accepted = IF Counting THEN total + 1 ELSE total

-----------------------------------------------------------------------------
LEMMA Initially == Init => Types /\ Phases /\ Counts
<1> SUFFICES ASSUME Init PROVE Types /\ Phases /\ Counts
  OBVIOUS
<1>1. Types
  BY DEF Init, Types
<1>2. Phases
  BY DEF Init, Phases, Others, Between, Starting, Stopping, NoWorker
<1>3. ~Counting
  BY DEF Init, Counting
<1>4. total = 0 /\ accepted = 0
  BY DEF Init, Store!Init
<1> QED
  BY <1>1, <1>2, <1>3, <1>4 DEF Counts

LEMMA TypesKept == Types /\ [Next]_vars => Types'
<1> SUFFICES ASSUME Types, [Next]_vars PROVE Types'
  OBVIOUS
<1> USE DEF Types
<1>1. ASSUME NEW w \in Workers, Worker(w) PROVE Types'
  BY <1>1 DEF Worker, WorkerCheck, WorkerRead, WorkerLock, WorkerDrop, WorkerWrite,
              WorkerCount, calls, threads
<1>2. ASSUME NEW c \in Controllers, Controller(c) PROVE Types'
  <2>1. CASE StartSwap(c) \/ StartReset(c) \/ StartCreateFails(c) \/ StopSwap(c)
    BY <1>2, <2>1 DEF StartSwap, StartReset, StartCreateFails, StopSwap, threads
  <2>2. CASE StartCreate(c)
    BY <1>2, <2>2 DEF StartCreate
  <2>3. CASE StopJoin(c)
    BY <1>2, <2>3 DEF StopJoin, threads
  <2>4. CASE StopJoined(c)
    BY <1>2, <2>4 DEF StopJoined
  <2> QED
    BY <1>2, <2>1, <2>2, <2>3, <2>4 DEF Controller
<1>3. CASE PollDrain \/ Save \/ UNCHANGED vars
  BY <1>3 DEF PollDrain, Save, SaveBegin, SaveDrain, SaveWrite, SaveWriteFails, SaveEnd,
              vars, calls, threads
<1> QED
  BY <1>1, <1>2, <1>3 DEF Next

(* A worker's step leaves the calls alone, and a worker only exits after   *)
(* it was told to.                                                         *)
LEMMA WorkerKeepsPhases ==
  ASSUME Types, Phases, NEW w \in Workers, Worker(w)
  PROVE  Phases'
<1>1. UNCHANGED calls
  BY DEF Worker, WorkerCheck, WorkerRead, WorkerLock, WorkerDrop, WorkerWrite, WorkerCount, threads
<1>2. worker[w] # "none" /\ w = thread
  BY DEF Worker, WorkerCheck, WorkerRead, WorkerLock, WorkerDrop, WorkerWrite,
         WorkerCount, Phases, Others
<1>3. \A v \in Workers : v # w => worker'[v] = worker[v]
  BY DEF Worker, WorkerCheck, WorkerRead, WorkerLock, WorkerDrop, WorkerWrite,
         WorkerCount, threads, Types
<1>4. worker'[w] # "none" /\ (running => worker'[w] # "exited")
  BY DEF Worker, WorkerCheck, WorkerRead, WorkerLock, WorkerDrop, WorkerWrite,
         WorkerCount, threads, Types
<1> QED
  BY <1>1, <1>2, <1>3, <1>4 DEF Phases, Others, Between, Starting, Stopping, NoWorker,
                               Live, calls, Types

LEMMA ControllerKeepsPhases ==
  ASSUME Alone, Types, Phases, NEW c \in Controllers, Controller(c), SnifferAssumption
  PROVE  Phases'
<1> SUFFICES Others' /\ Between' /\ Starting(c)' /\ Stopping(c)'
  BY DEF Phases, Alone
<1> USE DEF Phases, Others, Between, Starting, Stopping, NoWorker, Live, Types, Alone
<1>1. CASE StartSwap(c)
  BY <1>1 DEF StartSwap, threads
<1>2. CASE StartReset(c)
  BY <1>2 DEF StartReset, threads
<1>3. CASE StartCreate(c)
  BY <1>3 DEF StartCreate
<1>4. CASE StartCreateFails(c)
  BY <1>4 DEF StartCreateFails, threads
<1>5. CASE StopSwap(c)
  BY <1>5 DEF StopSwap, threads
<1>6. CASE StopJoin(c)
  BY <1>6 DEF StopJoin, threads
<1>7. CASE StopJoined(c)
  BY <1>7 DEF StopJoined
<1> QED
  BY <1>1, <1>2, <1>3, <1>4, <1>5, <1>6, <1>7 DEF Controller

LEMMA PhasesKept == Alone /\ Types /\ Phases /\ [Next]_vars => Phases'
<1> SUFFICES ASSUME Alone, Types, Phases, [Next]_vars PROVE Phases'
  OBVIOUS
<1>1. CASE PollDrain \/ Save \/ UNCHANGED vars
  BY <1>1 DEF PollDrain, Save, SaveBegin, SaveDrain, SaveWrite, SaveWriteFails, SaveEnd,
              vars, calls, threads, Phases, Others, Between, Starting, Stopping, NoWorker, Live
<1> QED
  BY <1>1, WorkerKeepsPhases, ControllerKeepsPhases, SnifferAssumption DEF Next

LEMMA CountsKept == Alone /\ Types /\ Phases /\ Counts /\ [Next]_vars => Counts'
<1> SUFFICES ASSUME Alone, Types, Phases, Counts, [Next]_vars PROVE Counts'
  OBVIOUS
<1>1. ASSUME NEW w \in Workers, Worker(w) PROVE Counts'
  <2>1. \A v \in Workers : v # w => worker[v] = "none" /\ worker'[v] = "none"
    BY <1>1 DEF Worker, WorkerCheck, WorkerRead, WorkerLock, WorkerDrop, WorkerWrite,
                WorkerCount, threads, Types, Phases, Others
  <2>2. (Counting <=> worker[w] = "count") /\ (Counting' <=> worker'[w] = "count")
    BY <2>1 DEF Counting
  <2>3. CASE WorkerCheck(w) \/ WorkerRead(w)
    BY <2>2, <2>3 DEF WorkerCheck, WorkerRead, store, Counts, Types
  <2>4. CASE WorkerLock(w) \/ WorkerDrop(w)
    BY <2>2, <2>4 DEF WorkerLock, WorkerDrop, Store!Offer, Store!DropOldest, threads, Counts, Types
  <2>5. CASE WorkerWrite(w)
    BY <2>2, <2>5 DEF WorkerWrite, Store!Accept, Counts, Types
  <2>6. CASE WorkerCount(w)
    BY <2>2, <2>6 DEF WorkerCount, store, Counts, Types
  <2> QED
    BY <1>1, <2>3, <2>4, <2>5, <2>6 DEF Worker
<1>2. ASSUME NEW c \in Controllers, Controller(c) PROVE Counts'
  <2>1. CASE StartReset(c)
    BY <2>1 DEF StartReset, Store!Reset, threads, Phases, Starting, NoWorker, Counts, Counting
  <2>2. CASE StartCreate(c)
    <3>1. Counting' <=> Counting
      BY <2>2 DEF StartCreate, Counting, Types
    <3> QED
      BY <2>2, <3>1 DEF StartCreate, store, Counts
  <2>3. CASE StopJoined(c)
    <3>1. Counting' <=> Counting
      BY <2>3 DEF StopJoined, Counting, Types
    <3> QED
      BY <2>3, <3>1 DEF StopJoined, store, Counts
  <2>4. CASE StartSwap(c) \/ StartCreateFails(c) \/ StopSwap(c) \/ StopJoin(c)
    BY <2>4 DEF StartSwap, StartCreateFails, StopSwap, StopJoin, store, threads, Counts, Counting
  <2> QED
    BY <1>2, <2>1, <2>2, <2>3, <2>4 DEF Controller
<1>3. CASE PollDrain \/ SaveDrain
  BY <1>3 DEF PollDrain, SaveDrain, Store!Deliver, threads, Counts, Counting
<1>4. CASE SaveBegin \/ SaveWrite \/ SaveWriteFails \/ SaveEnd \/ UNCHANGED vars
  BY <1>4 DEF SaveBegin, SaveWrite, SaveWriteFails, SaveEnd, store, threads, vars, Counts, Counting
<1> QED
  BY <1>1, <1>2, <1>3, <1>4 DEF Next, Save

(* In every state the phases of the binder thread and the worker agree.    *)
THEOREM PhasesTheorem == ASSUME Alone PROVE Spec => [](Types /\ Phases /\ Counts)
<1>1. Types /\ Phases /\ Counts /\ [Next]_vars => (Types /\ Phases /\ Counts)'
  BY TypesKept, PhasesKept, CountsKept
<1> QED
  BY <1>1, Initially, PTL DEF Spec

-----------------------------------------------------------------------------
(* sniffer.h:8: however often captures are started and stopped, at most    *)
(* one thread is the worker.                                               *)
THEOREM OneWorkerTheorem == ASSUME Alone PROVE Spec => []OneWorker
<1>1. Types /\ Phases => OneWorker
  BY DEF Phases, Others, OneWorker, Live
<1> QED
  BY <1>1, PhasesTheorem, PTL

(* Between calls g_running tells whether the worker lives.                 *)
THEOREM RunningTellsWorkerTheorem == ASSUME Alone PROVE Spec => []RunningTellsWorker
<1>1. Types /\ Phases => RunningTellsWorker
  BY DEF Phases, Between, NoWorker, RunningTellsWorker, Live, Types
<1> QED
  BY <1>1, PhasesTheorem, PTL

(* g_total counts each frame of this capture once.                         *)
THEOREM TotalIsAcceptedTheorem == ASSUME Alone PROVE Spec => []TotalIsAccepted
<1>1. ASSUME Types, Phases, Counts PROVE TotalIsAccepted
  <2> DEFINE S == {w \in Workers : worker[w] = "count"}
  <2>1. CASE Counting
    <3>1. S = {thread}
      BY <1>1, <2>1 DEF Phases, Others, Counting
    <3>2. Cardinality(S) = 1
      BY <3>1, FS_Singleton
    <3> QED
      BY <1>1, <2>1, <3>2 DEF Counts, TotalIsAccepted
  <2>2. CASE ~Counting
    <3>1. S = {}
      BY <2>2 DEF Counting
    <3>2. Cardinality(S) = 0
      BY <3>1, FS_EmptySet
    <3> QED
      BY <1>1, <2>2, <3>2 DEF Counts, TotalIsAccepted
  <2> QED
    BY <2>1, <2>2
<1> QED
  BY <1>1, PhasesTheorem, PTL

(* A reset of the store finds no worker in the middle of a push.           *)
THEOREM ResetWhenQuietTheorem == ASSUME Alone PROVE Spec => ResetWhenQuiet
<1> DEFINE Quiet == \A c \in Controllers :
             control[c] = "reset" /\ control'[c] = "create" => \A w \in Workers : ~Live(w)
<1>1. Types /\ Phases => Quiet
  BY DEF Phases, Starting, NoWorker, Live
<1>2. Types /\ Phases /\ [Next]_vars => [Quiet]_vars
  BY <1>1
<1> QED
  BY <1>2, PhasesTheorem, PTL DEF Spec, ResetWhenQuiet

-----------------------------------------------------------------------------
(* The frame store, for any number of binder threads: the steps of the     *)
(* threads are steps of FrameQueue.                                        *)
LEMMA LeastNatural ==
  ASSUME NEW T \in SUBSET Nat, T # {}
  PROVE  \E m \in T : \A k \in T : m <= k
<1>1. \E m \in T : \A k \in T : ~(<<k, m>> \in OpToRel(<, Nat))
  BY NatLessThanWellFounded, WFMin
<1>2. PICK m \in T : \A k \in T : ~(<<k, m>> \in OpToRel(<, Nat))
  BY <1>1
<1>3. \A k \in T : ~(k < m)
  BY <1>2 DEF OpToRel
<1> QED
  BY <1>3

LEMMA SpanType ==
  ASSUME StoreP!IInv, NEW k \in 0 .. Len(queue)
  PROVE  Span(k) \in Int
<1>1. CASE k = 0
  BY <1>1 DEF Span
<1>2. CASE k # 0
  <2>1. k \in 1 .. Len(queue) /\ 1 \in 1 .. Len(queue)
    BY <1>2 DEF StoreP!IInv, StoreP!TypeOK
  <2>2. queue \in Seq(StoreP!Frame)
    BY DEF StoreP!IInv, StoreP!TypeOK
  <2>3. queue[k] \in StoreP!Frame /\ queue[1] \in StoreP!Frame
    BY <2>1, <2>2
  <2> QED
    BY <1>2, <2>3 DEF StoreP!Frame, Span
<1> QED
  BY <1>1, <1>2

(* There is a longest run of oldest frames that fits in a buffer.          *)
LEMMA FittingIs ==
  ASSUME StoreP!IInv, NEW cap \in Nat
  PROVE  /\ Fitting(cap) \in 0 .. Len(queue)
         /\ Span(Fitting(cap)) <= cap
         /\ Fitting(cap) < Len(queue) => Span(Fitting(cap) + 1) > cap
<1>1. Len(queue) \in Nat
  BY DEF StoreP!IInv, StoreP!TypeOK
<1> DEFINE Longest(k) == /\ Span(k) <= cap
                         /\ k < Len(queue) => Span(k + 1) > cap
           T == {k \in 1 .. Len(queue) : Span(k) > cap}
<1>2. \A k \in 0 .. Len(queue) : k \in T \/ Span(k) <= cap
  <2> SUFFICES ASSUME NEW k \in 0 .. Len(queue), k \notin T PROVE Span(k) <= cap
    OBVIOUS
  <2>1. CASE k = 0
    BY <2>1 DEF Span
  <2>2. CASE k # 0
    BY <2>2, SpanType
  <2> QED
    BY <2>1, <2>2
<1>3. \E k \in 0 .. Len(queue) : Longest(k)
  <2>1. CASE T = {}
    <3>1. Longest(Len(queue)) /\ Len(queue) \in 0 .. Len(queue)
      BY <1>1, <1>2, <2>1
    <3> QED
      BY <3>1
  <2>2. CASE T # {}
    <3>1. T \in SUBSET Nat
      BY <1>1
    <3>2. PICK m \in T : \A k \in T : m <= k
      BY <2>2, <3>1, LeastNatural, Zenon
    <3>3. /\ m \in 1 .. Len(queue) /\ Span(m) > cap
          /\ m - 1 \in 0 .. Len(queue) /\ (m - 1) + 1 = m
      BY <1>1
    <3>4. m - 1 \notin T
      BY <1>1, <3>2, <3>3
    <3>5. Longest(m - 1)
      BY <1>2, <3>3, <3>4
    <3> QED
      BY <3>3, <3>5
  <2> QED
    BY <2>1, <2>2
<1>4. Fitting(cap) = CHOOSE k \in 0 .. Len(queue) : Longest(k)
  BY DEF Fitting
<1> HIDE DEF Longest
<1>5. Fitting(cap) \in 0 .. Len(queue) /\ Longest(Fitting(cap))
  BY <1>3, <1>4, Zenon
<1> QED
  BY <1>5 DEF Longest

LEMMA StoreSteps ==
  ASSUME StoreP!IInv, [Next]_vars
  PROVE  [StoreP!Next]_(StoreP!vars)
<1>1. UNCHANGED store => UNCHANGED StoreP!vars
  BY DEF store, StoreP!vars
<1>2. ASSUME NEW w \in Workers, Worker(w) PROVE [StoreP!Next]_(StoreP!vars)
  <2>1. CASE WorkerCheck(w) \/ WorkerRead(w) \/ WorkerCount(w)
    BY <1>1, <2>1 DEF WorkerCheck, WorkerRead, WorkerCount
  <2>2. CASE WorkerLock(w)
    BY <2>2 DEF WorkerLock, Store!Offer, StoreP!Offer, StoreP!Next
  <2>3. CASE WorkerDrop(w)
    BY <2>3 DEF WorkerDrop, Store!DropOldest, StoreP!DropOldest, Store!Fits, StoreP!Fits,
                Store!Used, StoreP!Used, StoreP!Next
  <2>4. CASE WorkerWrite(w)
    BY <2>4 DEF WorkerWrite, Store!Accept, StoreP!Accept, Store!Fits, StoreP!Fits,
                Store!Used, StoreP!Used, StoreP!Next
  <2> QED
    BY <1>2, <2>1, <2>2, <2>3, <2>4 DEF Worker
<1>3. ASSUME NEW c \in Controllers, Controller(c) PROVE [StoreP!Next]_(StoreP!vars)
  <2>1. CASE StartReset(c)
    BY <2>1 DEF StartReset, Store!Reset, StoreP!Reset, StoreP!Next
  <2>2. CASE ~StartReset(c)
    BY <1>1, <1>3, <2>2 DEF Controller, StartSwap, StartCreate, StartCreateFails,
                            StopSwap, StopJoin, StopJoined
  <2> QED
    BY <2>1, <2>2
<1>4. CASE PollDrain
  <2>1. Fitting(DrainCap) \in 1 .. Len(queue)
    <3>1. Fitting(DrainCap) \in 0 .. Len(queue)
      BY FittingIs, SnifferAssumption
    <3> QED
      BY <1>4, <3>1 DEF PollDrain
  <2> QED
    BY <1>4, <2>1 DEF PollDrain, Store!Deliver, StoreP!Deliver, StoreP!Next
<1>5. CASE SaveDrain
  <2>1. Fitting(SaveCap) \in 1 .. Len(queue)
    <3>1. Fitting(SaveCap) \in 0 .. Len(queue)
      BY FittingIs, SnifferAssumption
    <3> QED
      BY <1>5, <3>1 DEF SaveDrain
  <2> QED
    BY <1>5, <2>1 DEF SaveDrain, Store!Deliver, StoreP!Deliver, StoreP!Next
<1>6. CASE SaveBegin \/ SaveWrite \/ SaveWriteFails \/ SaveEnd \/ UNCHANGED vars
  BY <1>1, <1>6 DEF SaveBegin, SaveWrite, SaveWriteFails, SaveEnd, vars
<1> QED
  BY <1>2, <1>3, <1>4, <1>5, <1>6 DEF Next, Save

LEMMA StoreInvariant ==
  /\ Init => StoreP!IInv
  /\ StoreP!IInv /\ [Next]_vars => StoreP!IInv'
<1>1. StoreP!CapacityAssumption /\ StoreP!HdrLenAssumption
      /\ StoreP!FrameLensAssumption /\ StoreP!MaxFramesAssumption
  BY StoreAssumption DEF Store!CapacityAssumption, Store!HdrLenAssumption,
     Store!FrameLensAssumption, Store!MaxFramesAssumption, StoreP!CapacityAssumption,
     StoreP!HdrLenAssumption, StoreP!FrameLensAssumption, StoreP!MaxFramesAssumption
<1>2. StoreP!Init => StoreP!IInv
  BY <1>1, StoreP!InvInit
<1>3. Init => StoreP!Init
  BY DEF Init, Store!Init, StoreP!Init
<1>4. StoreP!IInv /\ [StoreP!Next]_(StoreP!vars) => StoreP!IInv'
  BY <1>1, StoreP!InvNext
<1> QED
  BY <1>2, <1>3, <1>4, StoreSteps

(* A worker that has frames to push has counted them.                      *)
Batched == \A w \in Workers : worker[w] \in {"push", "room", "count"} => batch[w] \in 1 .. MaxBatch

IInv ==
  /\ StoreP!IInv /\ Types
  /\ total \in Nat
  /\ batch \in [Workers -> 0 .. MaxBatch]
  /\ saver \in {"idle", "drain", "write"}
  /\ saving \in Nat
  /\ Batched

LEMMA BatchesKept ==
  ASSUME Types, batch \in [Workers -> 0 .. MaxBatch], Batched, [Next]_vars
  PROVE  batch' \in [Workers -> 0 .. MaxBatch] /\ Batched'
<1> USE DEF Types, Batched
<1>0. MaxBatch \in Nat
  BY SnifferAssumption
<1>1. ASSUME NEW w \in Workers, Worker(w) PROVE batch' \in [Workers -> 0 .. MaxBatch] /\ Batched'
  <2>1. CASE WorkerCheck(w) \/ WorkerLock(w) \/ WorkerWrite(w)
    BY <2>1 DEF WorkerCheck, WorkerLock, WorkerWrite
  <2>2. CASE WorkerDrop(w)
    BY <2>2 DEF WorkerDrop, threads
  <2>3. CASE WorkerRead(w)
    BY <1>0, <2>3 DEF WorkerRead
  <2>4. CASE WorkerCount(w)
    BY <1>0, <2>4 DEF WorkerCount
  <2> QED
    BY <1>1, <2>1, <2>2, <2>3, <2>4 DEF Worker
<1>2. ASSUME NEW c \in Controllers, Controller(c) PROVE batch' \in [Workers -> 0 .. MaxBatch] /\ Batched'
  <2>1. CASE StartSwap(c) \/ StartReset(c) \/ StartCreateFails(c) \/ StopSwap(c) \/ StopJoin(c)
    BY <2>1 DEF StartSwap, StartReset, StartCreateFails, StopSwap, StopJoin, threads
  <2>2. CASE StartCreate(c)
    BY <2>2 DEF StartCreate
  <2>3. CASE StopJoined(c)
    BY <2>3 DEF StopJoined
  <2> QED
    BY <1>2, <2>1, <2>2, <2>3 DEF Controller
<1>3. CASE PollDrain \/ Save \/ UNCHANGED vars
  BY <1>3 DEF PollDrain, Save, SaveBegin, SaveDrain, SaveWrite, SaveWriteFails, SaveEnd,
              vars, threads
<1> QED
  BY <1>1, <1>2, <1>3 DEF Next

LEMMA CounterTypes ==
  ASSUME StoreP!IInv, total \in Nat, saver \in {"idle", "drain", "write"}, saving \in Nat,
         [Next]_vars
  PROVE  total' \in Nat /\ saver' \in {"idle", "drain", "write"} /\ saving' \in Nat
<1>1. ASSUME NEW w \in Workers, Worker(w)
      PROVE  total' \in Nat /\ UNCHANGED save
  BY <1>1 DEF Worker, WorkerCheck, WorkerRead, WorkerLock, WorkerDrop, WorkerWrite, WorkerCount
<1>2. ASSUME NEW c \in Controllers, Controller(c)
      PROVE  total' \in Nat /\ UNCHANGED save
  BY <1>2 DEF Controller, StartSwap, StartReset, StartCreate, StartCreateFails, StopSwap,
              StopJoin, StopJoined
<1>3. CASE SaveDrain
  <2>1. Fitting(SaveCap) \in 0 .. Len(queue)
    BY FittingIs, SnifferAssumption
  <2>2. Fitting(SaveCap) \in Nat
    BY <2>1
  <2> QED
    BY <1>3, <2>2 DEF SaveDrain
<1>4. CASE PollDrain \/ SaveBegin \/ SaveWrite \/ SaveWriteFails \/ SaveEnd \/ UNCHANGED vars
  BY <1>4 DEF PollDrain, SaveBegin, SaveWrite, SaveWriteFails, SaveEnd, save, vars
<1> QED
  BY <1>1, <1>2, <1>3, <1>4 DEF Next, Save, save

LEMMA Invariance == Spec => []IInv
<1>1. Init => IInv
  BY Initially, StoreInvariant, SnifferAssumption DEF Init, IInv, Batched
<1>2. IInv /\ [Next]_vars => IInv'
  BY StoreInvariant, TypesKept, BatchesKept, CounterTypes DEF IInv
<1> QED
  BY <1>1, <1>2, PTL DEF Spec

(* The variables keep their types, for any number of binder threads: in    *)
(* particular the worker's count of frames to push never passes zero.      *)
THEOREM SnifferTypeTheorem == Spec => []TypeOK
<1>1. IInv => TypeOK
  BY DEF IInv, TypeOK, Types, StoreP!IInv, StoreP!TypeOK, Store!TypeOK, Store!Frame, StoreP!Frame
<1> QED
  BY <1>1, Invariance, PTL

(* The threads use the frame store as FrameQueue has it, whatever their    *)
(* interleaving: what is proved of FrameQueue holds of the capture.        *)
THEOREM StoreTheorem == Spec => Store!Spec
<1>1. Init => Store!Init
  BY DEF Init
<1>2. StoreP!Next <=> Store!Next
  BY DEF StoreP!Next, Store!Next, StoreP!Offer, Store!Offer, StoreP!DropOldest,
         Store!DropOldest, StoreP!Accept, Store!Accept, StoreP!Deliver, Store!Deliver,
         StoreP!Reset, Store!Reset, StoreP!Fits, Store!Fits, StoreP!Used, Store!Used
<1>3. IInv /\ [Next]_vars => [Store!Next]_(Store!vars)
  BY <1>2, StoreSteps DEF IInv, StoreP!vars, Store!vars
<1> QED
  BY <1>1, <1>3, Invariance, PTL DEF Spec, Store!Spec

(* sniffer.h:21: a save that succeeds has flushed the ring, when a record  *)
(* of the longest frame fits in its buffer. Otherwise it need not have     *)
(* (run Sniffer_longframe).                                                *)
THEOREM SaveFlushesTheorem ==
  ASSUME \A n \in FrameLens : HdrLen + n <= SaveCap
  PROVE  Spec => SaveFlushes
<1> DEFINE Flushed == saver = "drain" /\ saver' = "idle" => queue = <<>>
<1>1. ASSUME IInv, [Next]_vars, saver = "drain", saver' = "idle" PROVE queue = <<>>
  <2>1. SaveEnd
    BY <1>1 DEF Next, Worker, WorkerCheck, WorkerRead, WorkerLock, WorkerDrop, WorkerWrite,
                WorkerCount, Controller, StartSwap, StartReset, StartCreate, StartCreateFails,
                StopSwap, StopJoin, StopJoined, PollDrain, Save, SaveBegin, SaveDrain,
                SaveWrite, SaveWriteFails, save, vars
  <2>2. StoreP!IInv /\ Fitting(SaveCap) = 0 /\ SaveCap \in Nat
    BY <1>1, <2>1, SnifferAssumption DEF IInv, SaveEnd
  <2>3. queue \in Seq(StoreP!Frame) /\ Len(queue) \in Nat
    BY <2>2 DEF StoreP!IInv, StoreP!TypeOK
  <2>4. SUFFICES ASSUME queue # <<>> PROVE FALSE
    OBVIOUS
  <2>5. 1 \in 1 .. Len(queue) /\ 0 < Len(queue)
    BY <2>3, <2>4
  <2>6. queue[1].end - queue[1].start > SaveCap
    <3>1. Span(0 + 1) > SaveCap
      BY <2>2, <2>5, FittingIs
    <3> QED
      BY <3>1 DEF Span
  <2>7. queue[1] \in StoreP!Frame
    BY <2>3, <2>5
  <2>8. queue[1].end - queue[1].start - HdrLen \in FrameLens
    BY <2>2, <2>5 DEF StoreP!IInv, StoreP!LensKnown
  <2>9. HdrLen + (queue[1].end - queue[1].start - HdrLen) <= SaveCap
    BY <2>8
  <2> QED
    BY <2>2, <2>6, <2>7, <2>9 DEF HdrLen, StoreP!Frame
<1>2. IInv /\ [Next]_vars => [Flushed]_vars
  BY <1>1
<1> QED
  BY <1>2, Invariance, PTL DEF Spec, SaveFlushes
=============================================================================
