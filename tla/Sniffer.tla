------------------------------ MODULE Sniffer -------------------------------
(***************************************************************************)
(* The capture of sniffer.c: a worker thread that fills the frame store,   *)
(* the binder threads that start and stop it, the drain of the UI's poll   *)
(* and the save to a file.  The frame store is FrameQueue, whose actions   *)
(* the steps of the threads take.                                          *)
(*                                                                         *)
(* sniffer_start and sniffer_stop are not under a lock: each is modelled   *)
(* by its atomic steps, the compare-and-swap or exchange of g_running, the *)
(* locked reset, pthread_create, the read of g_thread and pthread_join.    *)
(* The app issues them one at a time as long as its busy flag does its     *)
(* work; Controllers is the set of binder threads that may be in them.     *)
(***************************************************************************)
EXTENDS Naturals, Sequences, FiniteSets

CONSTANTS Capacity, FrameLens, MaxFrames,
          Workers,      \* identities a worker thread can get
          Controllers,  \* binder threads that call sniffer_start, sniffer_stop
          NoThread,     \* g_thread before the first pthread_create
          DrainCap,     \* buffer of snifferDrain
          SaveCap,      \* buffer of sniffer_save_to_fd
          MaxBatch      \* bound of the model: frames completed by one read

HdrLen == 4

ASSUME SnifferAssumption ==
  /\ NoThread \notin Workers
  /\ DrainCap \in Nat /\ SaveCap \in Nat /\ MaxBatch \in Nat

VARIABLES
  queue, written, incoming, accepted, dropped, delivered,  \* see FrameQueue
  total,    \* g_total
  running,  \* g_running
  thread,   \* g_thread
  worker,   \* worker[w]: where sniffer_loop is, "none" if not a live thread
  batch,    \* batch[w]: complete frames still to push from the last read
  control,  \* control[c]: where c is in sniffer_start or sniffer_stop
  joining,  \* joining[c]: the thread c waits for in pthread_join
  saver,    \* where sniffer_save_to_fd is: "idle", "drain", "write"
  saving    \* frames in its buffer

Store == INSTANCE FrameQueue

ASSUME StoreAssumption ==
  /\ Store!CapacityAssumption /\ Store!HdrLenAssumption
  /\ Store!FrameLensAssumption /\ Store!MaxFramesAssumption

store == <<queue, written, incoming, accepted, dropped, delivered>>
threads == <<worker, batch>>
calls == <<running, thread, control, joining>>
save == <<saver, saving>>
vars == <<store, total, threads, calls, save>>

Live(w) == worker[w] \notin {"none", "exited"}

-----------------------------------------------------------------------------
Init ==
  /\ Store!Init
  /\ total = 0
  /\ running = FALSE
  /\ thread = NoThread
  /\ worker = [w \in Workers |-> "none"]
  /\ batch = [w \in Workers |-> 0]
  /\ control = [c \in Controllers |-> "idle"]
  /\ joining = [c \in Controllers |-> NoThread]
  /\ saver = "idle" /\ saving = 0

-----------------------------------------------------------------------------
(* Faulty: the loop does not look at g_running.                            *)
WorkerCheckForever(w) ==
  /\ worker[w] = "check"
  /\ worker' = [worker EXCEPT ![w] = "read"]
  /\ UNCHANGED <<store, total, batch, calls, save>>

(* sniffer_loop.  A worker that finds g_running set reads; the read times  *)
(* out, fails, finds the device closed, or completes n frames; the modem   *)
(* sends no more than MaxFrames per capture.                               *)
WorkerCheck(w) ==
  /\ worker[w] = "check"
  /\ worker' = [worker EXCEPT ![w] = IF running THEN "read" ELSE "exited"]
  /\ UNCHANGED <<store, total, batch, calls, save>>

WorkerRead(w) ==
  /\ worker[w] = "read"
  /\ \E n \in 0..MaxBatch :
       /\ accepted + n <= MaxFrames
       /\ batch' = [batch EXCEPT ![w] = n]
       /\ worker' = [worker EXCEPT ![w] = IF n = 0 THEN "check" ELSE "push"]
  /\ UNCHANGED <<store, total, calls, save>>

(* ring_push_frame: take the mutex, make room, write, release, count.      *)
WorkerLock(w) ==
  /\ worker[w] = "push"
  /\ \E n \in FrameLens : Store!Offer(n)
  /\ worker' = [worker EXCEPT ![w] = "room"]
  /\ UNCHANGED <<total, batch, calls, save>>

WorkerDrop(w) ==
  /\ worker[w] = "room"
  /\ Store!DropOldest
  /\ UNCHANGED <<total, threads, calls, save>>

WorkerWrite(w) ==
  /\ worker[w] = "room"
  /\ Store!Accept
  /\ worker' = [worker EXCEPT ![w] = "count"]
  /\ UNCHANGED <<total, batch, calls, save>>

(* Faulty: one frame too many is pushed.                                   *)
WorkerCountOneMore(w) ==
  /\ worker[w] = "count"
  /\ total' = total + 1
  /\ batch' = [batch EXCEPT ![w] = @ - 1]
  /\ worker' = [worker EXCEPT ![w] = IF batch[w] >= 1 THEN "push" ELSE "check"]
  /\ UNCHANGED <<store, calls, save>>

WorkerCount(w) ==
  /\ worker[w] = "count"
  /\ total' = total + 1
  /\ batch' = [batch EXCEPT ![w] = @ - 1]
  /\ worker' = [worker EXCEPT ![w] = IF batch[w] > 1 THEN "push" ELSE "check"]
  /\ UNCHANGED <<store, calls, save>>

Worker(w) ==
  \/ WorkerCheck(w) \/ WorkerRead(w)
  \/ WorkerLock(w) \/ WorkerDrop(w) \/ WorkerWrite(w) \/ WorkerCount(w)

-----------------------------------------------------------------------------
(* sniffer_start; a call that finds a capture running changes nothing.     *)
StartSwap(c) ==
  /\ control[c] = "idle"
  /\ ~running
  /\ running' = TRUE
  /\ control' = [control EXCEPT ![c] = "reset"]
  /\ UNCHANGED <<store, total, threads, thread, joining, save>>

(* Faulty: g_total keeps the count of the capture before.                  *)
StartResetStore(c) ==
  /\ control[c] = "reset"
  /\ Store!Reset
  /\ control' = [control EXCEPT ![c] = "create"]
  /\ UNCHANGED <<total, threads, running, thread, joining, save>>

StartReset(c) ==
  /\ control[c] = "reset"
  /\ Store!Reset
  /\ total' = 0
  /\ control' = [control EXCEPT ![c] = "create"]
  /\ UNCHANGED <<threads, running, thread, joining, save>>

StartCreate(c) ==
  /\ control[c] = "create"
  /\ \E w \in Workers :
       /\ worker[w] = "none"
       /\ worker' = [worker EXCEPT ![w] = "check"]
       /\ thread' = w
  /\ control' = [control EXCEPT ![c] = "idle"]
  /\ UNCHANGED <<store, total, batch, running, joining, save>>

(* Faulty: g_running stays set when no thread could be created.            *)
StartCreateFailsRunning(c) ==
  /\ control[c] = "create"
  /\ control' = [control EXCEPT ![c] = "idle"]
  /\ UNCHANGED <<store, total, threads, running, thread, joining, save>>

StartCreateFails(c) ==
  /\ control[c] = "create"
  /\ running' = FALSE
  /\ control' = [control EXCEPT ![c] = "idle"]
  /\ UNCHANGED <<store, total, threads, thread, joining, save>>

(* Faulty: the worker is told to stop and not waited for.                  *)
StopWithoutJoin(c) ==
  /\ control[c] = "idle"
  /\ running
  /\ running' = FALSE
  /\ UNCHANGED <<store, total, threads, thread, control, joining, save>>

(* sniffer_stop; a call that finds no capture running returns.             *)
StopSwap(c) ==
  /\ control[c] = "idle"
  /\ running
  /\ running' = FALSE
  /\ control' = [control EXCEPT ![c] = "stop"]
  /\ UNCHANGED <<store, total, threads, thread, joining, save>>

StopJoin(c) ==
  /\ control[c] = "stop"
  /\ joining' = [joining EXCEPT ![c] = thread]
  /\ control' = [control EXCEPT ![c] = "join"]
  /\ UNCHANGED <<store, total, threads, running, thread, save>>

(* pthread_join returns when its thread has exited, and frees its          *)
(* identity; there is nothing to wait for under an identity that is free.  *)
StopJoined(c) ==
  /\ control[c] = "join"
  /\ \/ /\ joining[c] \in Workers
        /\ worker[joining[c]] = "exited"
        /\ worker' = [worker EXCEPT ![joining[c]] = "none"]
     \/ /\ joining[c] \in Workers => worker[joining[c]] = "none"
        /\ UNCHANGED worker
  /\ joining' = [joining EXCEPT ![c] = NoThread]
  /\ control' = [control EXCEPT ![c] = "idle"]
  /\ UNCHANGED <<store, total, batch, running, thread, save>>

Controller(c) ==
  \/ StartSwap(c) \/ StartReset(c) \/ StartCreate(c) \/ StartCreateFails(c)
  \/ StopSwap(c) \/ StopJoin(c) \/ StopJoined(c)

-----------------------------------------------------------------------------
(* sniffer_drain takes the longest run of oldest frames that fits in buf.  *)
Span(k) == IF k = 0 THEN 0 ELSE queue[k].end - queue[1].start

(* Faulty: a record that fills buf exactly is left.                        *)
FittingStrictly(cap) ==
  CHOOSE k \in 0..Len(queue) :
    /\ k > 0 => Span(k) < cap
    /\ k < Len(queue) => Span(k + 1) >= cap

Fitting(cap) ==
  CHOOSE k \in 0..Len(queue) :
    /\ Span(k) <= cap
    /\ k < Len(queue) => Span(k + 1) > cap

PollDrain ==
  /\ Fitting(DrainCap) > 0
  /\ Store!Deliver(Fitting(DrainCap))
  /\ UNCHANGED <<total, threads, calls, save>>

(* sniffer_save_to_fd: drain and write until a drain comes back empty.     *)
SaveBegin ==
  /\ saver = "idle"
  /\ saver' = "drain"
  /\ UNCHANGED <<store, total, threads, calls, saving>>

SaveDrain ==
  /\ saver = "drain"
  /\ Fitting(SaveCap) > 0
  /\ Store!Deliver(Fitting(SaveCap))
  /\ saving' = Fitting(SaveCap)
  /\ saver' = "write"
  /\ UNCHANGED <<total, threads, calls>>

SaveWrite ==
  /\ saver = "write"
  /\ saving' = 0
  /\ saver' = "drain"
  /\ UNCHANGED <<store, total, threads, calls>>

(* write fails: the call returns -errno; the frames of buf are gone.       *)
SaveWriteFails ==
  /\ saver = "write"
  /\ saving' = 0
  /\ saver' = "idle"
  /\ UNCHANGED <<store, total, threads, calls>>

SaveEnd ==
  /\ saver = "drain"
  /\ incoming = 0
  /\ Fitting(SaveCap) = 0
  /\ saver' = "idle"
  /\ UNCHANGED <<store, total, threads, calls, saving>>

Save == SaveBegin \/ SaveDrain \/ SaveWrite \/ SaveWriteFails \/ SaveEnd

-----------------------------------------------------------------------------
Next ==
  \/ \E w \in Workers : Worker(w)
  \/ \E c \in Controllers : Controller(c)
  \/ PollDrain
  \/ Save

Spec == Init /\ [][Next]_vars

(* Threads run: a worker takes its next step (diag_read polls for at most  *)
(* 200 ms), a binder thread in a start or a stop takes its next one.  When *)
(* a call is made, and what the modem sends, is left open.                 *)
Fairness ==
  /\ \A w \in Workers : WF_vars(Worker(w))
  /\ \A c \in Controllers :
       /\ WF_vars(StartReset(c))
       /\ WF_vars(StartCreate(c) \/ StartCreateFails(c))
       /\ WF_vars(StopJoin(c))
       /\ WF_vars(StopJoined(c))

FairSpec == Spec /\ Fairness

-----------------------------------------------------------------------------
TypeOK ==
  /\ Store!TypeOK
  /\ total \in Nat
  /\ running \in BOOLEAN
  /\ thread \in Workers \cup {NoThread}
  /\ worker \in [Workers -> {"none", "check", "read", "push", "room", "count", "exited"}]
  /\ batch \in [Workers -> 0..MaxBatch]
  /\ control \in [Controllers -> {"idle", "reset", "create", "stop", "join"}]
  /\ joining \in [Controllers -> Workers \cup {NoThread}]
  /\ saver \in {"idle", "drain", "write"}
  /\ saving \in Nat

(* sniffer.h:8: one background thread reads the device.                    *)
OneWorker == \A v, w \in Workers : Live(v) /\ Live(w) => v = w

(* sniffer.h:13-14: between calls, g_running tells whether the worker      *)
(* lives; in particular none is left after a stop.                         *)
RunningTellsWorker ==
  (\A c \in Controllers : control[c] = "idle") =>
     (running <=> \E w \in Workers : Live(w))

(* A new capture empties the store when no worker of an older one can be   *)
(* in the middle of a push, nor about to count one (FrameRing's ResetRing  *)
(* relies on it).                                                          *)
ResetWhenQuiet ==
  [][\A c \in Controllers :
       control[c] = "reset" /\ control'[c] = "create" => \A w \in Workers : ~Live(w)]_vars

(* g_total counts the frames of this capture, each once, except those      *)
(* written but not counted yet.                                            *)
TotalIsAccepted ==
  total + Cardinality({w \in Workers : worker[w] = "count"}) = accepted

(* sniffer.h:21: a save that succeeds has flushed the ring.                *)
SaveFlushes == [][saver = "drain" /\ saver' = "idle" => queue = <<>>]_vars

(* sniffer.h:13: a stop joins the worker thread and returns.               *)
StopReturns ==
  \A c \in Controllers : control[c] \in {"stop", "join"} ~> control[c] = "idle"

=============================================================================
