---------------------------- MODULE DiagChannel -----------------------------
(***************************************************************************)
(* /dev/diag as the root process uses it: the descriptor g_diag_fd that    *)
(* binder threads open and close (diag.c), and the calls that write a      *)
(* request and then read the device for the answer (send_and_recv of       *)
(* jni_bridge.c), beside the other readers of the same descriptor, the     *)
(* capture worker and drainLog.                                            *)
(*                                                                         *)
(* The bytes that come from the modem are abstracted to pieces of HDLC     *)
(* frames: a frame arrives as one piece, or as a head and a tail that one  *)
(* read may part.  Frames 1..MaxCalls answer the requests of the same      *)
(* number, those above MaxCalls are logs.                                  *)
(***************************************************************************)
EXTENDS Naturals, Sequences

CONSTANTS Threads,      \* binder threads
          Descriptors,  \* what open can return
          Closed,       \* g_diag_fd = -1
          Polls,        \* timeout_ms / 200
          RxCap,        \* pieces that fit in rx
          MaxCalls,     \* bound of the model: requests sent
          MaxLogs       \* bound of the model: log frames the modem sends

ChannelAssumption ==
  /\ Closed \notin Descriptors
  /\ Polls \in Nat \ {0} /\ RxCap \in Nat \ {0}
  /\ MaxCalls \in Nat /\ MaxLogs \in Nat

VARIABLES
  fd,         \* g_diag_fd
  kernel,     \* descriptors of /dev/diag the process holds
  stream,     \* pieces that wait to be read
  pending,    \* requests the modem has not answered
  logs,       \* log frames sent
  capturing,  \* a capture worker runs
  pc,         \* pc[t]: where binder thread t is
  opened,     \* opened[t]: descriptor that diag_open has not published yet
  request,    \* request[t]: number of the last request t wrote
  rx,         \* rx[t]: pieces that its call has read
  elapsed,    \* elapsed[t]: time that its call has counted, in polls
  waited,     \* waited[t]: time it has spent in poll
  answer      \* answer[t]: frame that its last call returned, or 0

device == <<fd, kernel>>
modem  == <<stream, pending, logs>>
call   == <<request, rx, elapsed, waited, answer>>
vars   == <<device, modem, capturing, pc, opened, call>>

Requests == 1 .. MaxCalls
Frames   == 1 .. MaxCalls + MaxLogs
Piece    == [frame : Frames, part : {"head", "tail", "whole"}]

-----------------------------------------------------------------------------
Init ==
  /\ fd = Closed /\ kernel = {}
  /\ stream = <<>> /\ pending = {} /\ logs = 0
  /\ capturing = FALSE
  /\ pc = [t \in Threads |-> "idle"]
  /\ opened = [t \in Threads |-> Closed]
  /\ request = [t \in Threads |-> 0]
  /\ rx = [t \in Threads |-> <<>>]
  /\ elapsed = [t \in Threads |-> 0]
  /\ waited = [t \in Threads |-> 0]
  /\ answer = [t \in Threads |-> 0]

Goto(t, l) == pc' = [pc EXCEPT ![t] = l]

-----------------------------------------------------------------------------
(* diag_open finds no descriptor and opens one; an open that fails, or one *)
(* that finds a descriptor, changes nothing.                               *)
OpenCheck(t) ==
  /\ pc[t] = "idle"
  /\ fd = Closed
  /\ \E d \in Descriptors \ kernel :
       /\ kernel' = kernel \cup {d}
       /\ opened' = [opened EXCEPT ![t] = d]
  /\ Goto(t, "switch")
  /\ UNCHANGED <<fd, modem, capturing, call>>

OpenAssign(t) ==
  /\ pc[t] = "switch"
  /\ fd' = opened[t]
  /\ opened' = [opened EXCEPT ![t] = Closed]
  /\ Goto(t, "idle")
  /\ UNCHANGED <<kernel, modem, capturing, call>>

(* What waits for the process goes with its last descriptor.               *)
CloseInKernel(d) ==
  /\ kernel' = kernel \ {d}
  /\ stream' = IF kernel' = {} THEN <<>> ELSE stream
  /\ UNCHANGED <<pending, logs>>

(* Faulty: the descriptor is not closed when no logging mode is accepted.  *)
OpenSwitchKeeps(t) ==
  /\ pc[t] = "switch"
  /\ opened' = [opened EXCEPT ![t] = Closed]
  /\ Goto(t, "idle")
  /\ UNCHANGED <<device, modem, capturing, call>>

(* None of the three forms of the switch-logging ioctl is accepted.        *)
OpenSwitchFails(t) ==
  /\ pc[t] = "switch"
  /\ CloseInKernel(opened[t])
  /\ opened' = [opened EXCEPT ![t] = Closed]
  /\ Goto(t, "idle")
  /\ UNCHANGED <<fd, capturing, call>>

(* diag_close: close, then forget the descriptor.                          *)
CloseDescriptor(t) ==
  /\ pc[t] = "idle"
  /\ fd # Closed
  /\ CloseInKernel(fd)
  /\ Goto(t, "forget")
  /\ UNCHANGED <<fd, capturing, opened, call>>

CloseForget(t) ==
  /\ pc[t] = "forget"
  /\ fd' = Closed
  /\ Goto(t, "idle")
  /\ UNCHANGED <<kernel, modem, capturing, opened, call>>

-----------------------------------------------------------------------------
(* The frame that hdlc_decode finds in the first i pieces of buf.  It is   *)
(* given every byte from the start of buf and does not stop at a           *)
(* terminator inside: anything before the frame makes the checksum wrong.  *)
IsFrame(p) ==
  \/ Len(p) = 1 /\ p[1].part = "whole"
  \/ Len(p) = 2 /\ p[1].part = "head" /\ p[2].part = "tail" /\ p[1].frame = p[2].frame

(* Faulty: only the terminator that ends the chunk is tried.               *)
FirstFrameAtEnd(buf, from) ==
  IF IsFrame(buf) THEN buf[1].frame ELSE 0

(* The first terminator among the pieces after from where decoding from    *)
(* the start of buf succeeds, or 0.                                        *)
FirstFrame(buf, from) ==
  LET ends == {i \in from + 1 .. Len(buf) : IsFrame(SubSeq(buf, 1, i))}
  IN  IF ends = {} THEN 0 ELSE buf[1].frame

(* send_and_recv writes a request; one that finds the device closed, or    *)
(* whose write fails, returns and changes nothing.                         *)
SendWrite(t) ==
  /\ pc[t] = "idle"
  /\ fd \in kernel
  /\ \E r \in Requests :
       /\ \A u \in Threads : request[u] < r
       /\ r = 1 \/ \E u \in Threads : request[u] = r - 1
       /\ request' = [request EXCEPT ![t] = r]
       /\ pending' = pending \cup {r}
  /\ rx' = [rx EXCEPT ![t] = <<>>]
  /\ elapsed' = [elapsed EXCEPT ![t] = 0]
  /\ waited' = [waited EXCEPT ![t] = 0]
  /\ answer' = [answer EXCEPT ![t] = 0]
  /\ Goto(t, "read")
  /\ UNCHANGED <<device, stream, logs, capturing, opened>>

MayRead(t) == elapsed[t] < Polls /\ Len(rx[t]) < RxCap

(* Faulty: a poll that brought nothing is not counted.                     *)
SendPollUncounted(t) ==
  /\ pc[t] = "read"
  /\ MayRead(t)
  /\ fd \in kernel /\ stream = <<>>
  /\ UNCHANGED vars

(* diag_read polls for 200 ms and nothing comes.                           *)
SendPoll(t) ==
  /\ pc[t] = "read"
  /\ MayRead(t)
  /\ fd \in kernel /\ stream = <<>>
  /\ elapsed' = [elapsed EXCEPT ![t] = @ + 1]
  /\ waited' = [waited EXCEPT ![t] = @ + 1]
  /\ UNCHANGED <<device, modem, capturing, pc, opened, request, rx, answer>>

(* diag_read brings n pieces, at once or near the end of its poll; the     *)
(* call returns the frame it can decode and forgets what came after it.    *)
SendRead(t) ==
  /\ pc[t] = "read"
  /\ MayRead(t)
  /\ fd \in kernel
  /\ \E n \in 1 .. RxCap - Len(rx[t]), w \in {0, 1} :
       LET buf   == rx[t] \o SubSeq(stream, 1, n)
           found == FirstFrame(buf, Len(rx[t]))
       IN  /\ n <= Len(stream)
           /\ stream' = SubSeq(stream, n + 1, Len(stream))
           /\ rx' = [rx EXCEPT ![t] = buf]
           /\ waited' = [waited EXCEPT ![t] = @ + w]
           /\ answer' = [answer EXCEPT ![t] = found]
           /\ Goto(t, IF found = 0 THEN "read" ELSE "idle")
  /\ UNCHANGED <<device, pending, logs, capturing, opened, request, elapsed>>

(* The descriptor was closed: READ_FAIL.                                   *)
SendReadFails(t) ==
  /\ pc[t] = "read"
  /\ MayRead(t)
  /\ fd \notin kernel
  /\ Goto(t, "idle")
  /\ UNCHANGED <<device, modem, capturing, opened, call>>

SendTimeout(t) ==
  /\ pc[t] = "read"
  /\ ~MayRead(t)
  /\ Goto(t, "idle")
  /\ UNCHANGED <<device, modem, capturing, opened, call>>

SendStep(t) == SendPoll(t) \/ SendRead(t) \/ SendReadFails(t) \/ SendTimeout(t)

-----------------------------------------------------------------------------
(* A read by anyone else takes what waits, up to the size of its buffer.   *)
Take ==
  /\ fd \in kernel
  /\ \E n \in 1 .. Len(stream) : stream' = SubSeq(stream, n + 1, Len(stream))
  /\ UNCHANGED <<device, pending, logs, capturing, pc, opened, call>>

DrainLog(t) == pc[t] = "idle" /\ Take

SnifferRead == capturing /\ Take

(* sniffer_start and sniffer_stop, in module Sniffer.                      *)
StartOrStopCapture(t) ==
  /\ pc[t] = "idle"
  /\ capturing' = ~capturing
  /\ UNCHANGED <<device, modem, pc, opened, call>>

(* The modem sends a frame, in one piece or in two; without an open        *)
(* descriptor nobody keeps it.                                             *)
Emits(f) ==
  \E s \in {<<"whole">>, <<"head", "tail">>} :
    stream' = IF kernel = {} THEN <<>>
              ELSE stream \o [i \in 1 .. Len(s) |-> [frame |-> f, part |-> s[i]]]

ModemReply ==
  /\ \E r \in pending : pending' = pending \ {r} /\ Emits(r)
  /\ UNCHANGED <<device, logs, capturing, pc, opened, call>>

ModemLog ==
  /\ logs < MaxLogs
  /\ logs' = logs + 1
  /\ Emits(MaxCalls + logs + 1)
  /\ UNCHANGED <<device, pending, capturing, pc, opened, call>>

-----------------------------------------------------------------------------
Next ==
  \/ \E t \in Threads :
       \/ OpenCheck(t) \/ OpenAssign(t) \/ OpenSwitchFails(t)
       \/ CloseDescriptor(t) \/ CloseForget(t)
       \/ SendWrite(t) \/ SendStep(t)
       \/ DrainLog(t) \/ StartOrStopCapture(t)
  \/ SnifferRead
  \/ ModemReply \/ ModemLog

Spec == Init /\ [][Next]_vars

(* A binder thread in a call takes its next step: each diag_read returns   *)
(* within its 200 ms.  What the modem sends, and when, is left open.       *)
FairSpec == Spec /\ \A t \in Threads : WF_vars(SendStep(t))

-----------------------------------------------------------------------------
TypeOK ==
  /\ fd \in Descriptors \cup {Closed}
  /\ kernel \subseteq Descriptors
  /\ stream \in Seq(Piece)
  /\ pending \subseteq Requests
  /\ logs \in 0 .. MaxLogs
  /\ capturing \in BOOLEAN
  /\ pc \in [Threads -> {"idle", "switch", "forget", "read"}]
  /\ opened \in [Threads -> Descriptors \cup {Closed}]
  /\ request \in [Threads -> 0 .. MaxCalls]
  /\ \A t \in Threads : rx[t] \in Seq(Piece) /\ Len(rx[t]) <= RxCap
  /\ elapsed \in [Threads -> 0 .. Polls]
  /\ waited \in [Threads -> 0 .. Polls + RxCap]
  /\ answer \in [Threads -> {0} \cup Frames]

Quiet == \A t \in Threads : pc[t] = "idle"

(* Between calls the process holds the descriptor that g_diag_fd names and *)
(* no other, and none when g_diag_fd is -1: neither a refused logging mode *)
(* nor a close leaves one behind.                                          *)
DescriptorsKnown ==
  Quiet => kernel = IF fd = Closed THEN {} ELSE {fd}

(* diag.h: diag_close closes /dev/diag; once it has, and no call is in     *)
(* progress, the process holds no descriptor of it.                        *)
ClosedMeansClosed == Quiet /\ fd = Closed => kernel = {}

(* The pieces of frame f among those a call has read, both if it has two.  *)
Complete(buf, f) ==
  \E i \in 1 .. Len(buf) :
    /\ buf[i].frame = f
    /\ \/ buf[i].part = "whole"
       \/ buf[i].part = "head" /\ \E j \in i + 1 .. Len(buf) : buf[j].frame = f

(* jni_bridge.c:38: the first complete frame that was read is returned, so *)
(* a call that gives up has read none.                                     *)
FirstCompleteFrame ==
  [][\A t \in Threads :
       SendTimeout(t) => \A f \in Frames : ~Complete(rx[t], f)]_vars

(* When a call gives up after reading a complete frame, the first frame it *)
(* read was torn: its other piece went to another reader, or to a call     *)
(* before.  Nothing else hides an answer.                                  *)
HiddenOnlyByTorn ==
  [][\A t \in Threads :
       SendTimeout(t) => \A n \in 1 .. Len(rx[t]) : ~IsFrame(SubSeq(rx[t], 1, n))]_vars

(* efs2.h:31: the answer that a call returns is the answer to its request. *)
AnswersRequest ==
  \A t \in Threads : answer[t] # 0 => answer[t] = request[t]

(* jni_bridge.c:36: a call reads for timeout_ms at most.                   *)
WithinTimeout == \A t \in Threads : pc[t] = "read" => waited[t] <= Polls

(* Every call returns, whatever the modem and the other readers do.        *)
CallReturns == \A t \in Threads : pc[t] = "read" ~> pc[t] = "idle"
=============================================================================
