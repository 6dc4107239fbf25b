------------------------------ MODULE DiagCalls ------------------------------
(***************************************************************************)
(* The calls that go over the DIAG device: each builds a request, has      *)
(* send_and_recv exchange it, parses the frame that it returns and makes a *)
(* result code of all that, which the view model decodes for the user      *)
(* (jni_bridge.c, qmi_nas.c, efs2.c, decodeRc of MainViewModel.kt).        *)
(*                                                                         *)
(* The device hands out whole frames in order, as DiagChannel shows of an  *)
(* undisturbed one: the answers of the modem, which may come after the     *)
(* call has given up, and its log frames. Calls come one at a time. What   *)
(* a frame holds is abstracted to what the parsers make of it; how they    *)
(* walk the TLVs is the subject of TlvWalk.                                *)
(***************************************************************************)
EXTENDS Integers, Sequences

CONSTANTS Ops,        \* calls of the instance
          Errnos,     \* of a write or a read that fails
          MaxCalls,   \* bound on calls
          MaxLogs     \* bound on log frames

QmiOps == {"setBand", "resetBand", "lock", "unlock"}
FsOps  == {"put", "get", "unlink"}

DiagCallsAssumption ==
  /\ Ops \subseteq QmiOps \cup FsOps
  /\ Errnos \subseteq Nat \ {0}
  /\ MaxCalls \in Nat /\ MaxLogs \in Nat

VARIABLES
  open,       \* g_diag_fd >= 0
  call, op,   \* number and kind of the last call
  pc,         \* "idle", "build", "write" or "read"
  rc,         \* its result code; 1 stands for the bytes that a get returns
  item,       \* the get whose item was returned, or 0
  from,       \* the frame that was parsed, or None
  fate,       \* what became of the call: "frame", or what failed
  inbox,      \* frames in the device
  pending,    \* requests that the modem has not answered
  logs        \* log frames so far

vars == <<open, call, op, pc, rc, item, from, fate, inbox, pending, logs>>
device == <<open, inbox, pending, logs>>

QDIAG_RC_NOT_OPEN   == -1001
QDIAG_RC_WRITE_FAIL == -1002
QDIAG_RC_READ_FAIL  == -1003
QDIAG_RC_TIMEOUT    == -1004
QDIAG_RC_BAD_FRAME  == -1005
QDIAG_RC_BUILD_FAIL == -1006

QmiErrors   == {3}     \* QMI_ERR_INTERNAL, for one
DiagErrnos  == {2}     \* ENOENT, for one
ParseErrors == {-1, -2, -3}

None == [what |-> "none", call |-> 0, op |-> "none", err |-> 0, long |-> FALSE]

Init ==
  /\ open = FALSE /\ call = 0 /\ op = "none" /\ pc = "idle"
  /\ rc = 0 /\ item = 0 /\ from = None /\ fate = "none"
  /\ inbox = <<>> /\ pending = {} /\ logs = 0

-----------------------------------------------------------------------------
(* What the parsers make of a frame                                        *)

(* qmi_parse_response does not look at the header: any other frame is      *)
(* walked as TLVs all the same, with any result.                           *)
QmiCodes(f) ==
  IF f.what = "qmi" THEN {IF f.err = 0 THEN 0 ELSE 65536 + f.err}
  ELSE {0} \cup {65536 + e : e \in QmiErrors} \cup {-2000 + p : p \in ParseErrors}

(* Faulty: the command and the subsystem are not compared.                 *)
FsCodesOfAny(f) == {IF f.err = 0 THEN 0 ELSE 131072 + f.err}

(* efs2_parse_response: 12 bytes or more from the file system.             *)
FsCodes(f) ==
  IF f.what = "fs" /\ f.long
  THEN {IF f.err = 0 THEN 0 ELSE 131072 + f.err}
  ELSE {QDIAG_RC_BAD_FRAME}

(* Faulty: the operation of the answer is not compared.                    *)
HasItemOfAny(f) == f.what = "fs" /\ f.err = 0

(* efs2_parse_get_item_response                                            *)
HasItem(f) == f.what = "fs" /\ f.err = 0 /\ f.op = "get"

-----------------------------------------------------------------------------
Return(code, why) ==
  /\ pc' = "idle" /\ rc' = code /\ fate' = why
  /\ UNCHANGED <<call, op, item, from>>

(* A get tells of its failures by null only.                               *)
Fail(code, why) == Return(IF op = "get" THEN 0 ELSE code, why)

Begin(o) ==
  /\ pc = "idle" /\ call < MaxCalls
  /\ call' = call + 1 /\ op' = o /\ pc' = "build"
  /\ rc' = 0 /\ item' = 0 /\ from' = None /\ fate' = "none"
  /\ UNCHANGED device

NotOpen ==
  /\ pc = "build" /\ ~open
  /\ Fail(QDIAG_RC_NOT_OPEN, "not open")
  /\ UNCHANGED device

(* A path or a value too long for the request's buffer, or no memory. The  *)
(* QMI requests have a fixed length, which fits.                           *)
BuildFails ==
  /\ pc = "build" /\ op \in FsOps /\ open
  /\ Fail(QDIAG_RC_BUILD_FAIL, "builder")
  /\ UNCHANGED device

Build ==
  /\ pc = "build" /\ open
  /\ pc' = "write"
  /\ UNCHANGED <<device, call, op, rc, item, from, fate>>

(* Faulty: the error number is added.                                      *)
FoldUp(code, e) == code + e

Fold(code, e) == code - e

WriteFails ==
  /\ pc = "write"
  /\ \E e \in Errnos : Fail(Fold(QDIAG_RC_WRITE_FAIL, e), "write")
  /\ UNCHANGED device

Write ==
  /\ pc = "write"
  /\ pending' = pending \cup {[call |-> call, op |-> op]}
  /\ pc' = "read"
  /\ UNCHANGED <<open, inbox, logs, call, op, rc, item, from, fate>>

ReadFails ==
  /\ pc = "read"
  /\ \E e \in Errnos : Fail(Fold(QDIAG_RC_READ_FAIL, e), "read")
  /\ UNCHANGED device

(* Nothing came within the timeout.                                        *)
ReadTimeout ==
  /\ pc = "read" /\ inbox = <<>>
  /\ Fail(QDIAG_RC_TIMEOUT, "timeout")
  /\ UNCHANGED device

Taken == Tail(inbox)

(* The first frame is parsed as the answer.                                *)
Read ==
  /\ pc = "read" /\ inbox # <<>>
  /\ LET f == Head(inbox)
     IN  /\ from' = f /\ fate' = "frame"
         /\ IF op = "get"
            THEN rc' = (IF HasItem(f) THEN 1 ELSE 0) /\ item' = (IF HasItem(f) THEN f.call ELSE 0)
            ELSE rc' \in (IF op \in QmiOps THEN QmiCodes(f) ELSE FsCodes(f)) /\ UNCHANGED item
  /\ inbox' = Taken /\ pc' = "idle"
  /\ UNCHANGED <<open, pending, logs, call, op>>

-----------------------------------------------------------------------------
OpenDiag ==
  /\ pc = "idle" /\ ~open /\ open' = TRUE
  /\ UNCHANGED <<call, op, pc, rc, item, from, fate, inbox, pending, logs>>

(* What is in the device and unread goes with the descriptor.              *)
CloseDiag ==
  /\ pc = "idle" /\ open /\ open' = FALSE /\ inbox' = <<>>
  /\ UNCHANGED <<call, op, pc, rc, item, from, fate, pending, logs>>

ToDevice(f) == inbox' = IF open THEN Append(inbox, f) ELSE inbox

ModemAnswers ==
  /\ \E r \in pending :
       /\ pending' = pending \ {r}
       /\ \E e \in {0} \cup (IF r.op \in QmiOps THEN QmiErrors ELSE DiagErrnos), long \in BOOLEAN :
            ToDevice([what |-> IF r.op \in QmiOps THEN "qmi" ELSE "fs",
                      call |-> r.call, op |-> r.op, err |-> e, long |-> long])
  /\ UNCHANGED <<open, call, op, pc, rc, item, from, fate, logs>>

ModemLogs ==
  /\ logs < MaxLogs /\ logs' = logs + 1
  /\ ToDevice([None EXCEPT !.what = "log", !.long = TRUE])
  /\ UNCHANGED <<open, call, op, pc, rc, item, from, fate, pending>>

Next ==
  \/ \E o \in Ops : Begin(o)
  \/ NotOpen \/ BuildFails \/ Build \/ WriteFails \/ Write
  \/ ReadFails \/ ReadTimeout \/ Read
  \/ OpenDiag \/ CloseDiag \/ ModemAnswers \/ ModemLogs

Spec == Init /\ [][Next]_vars

-----------------------------------------------------------------------------
(* decodeRc: the first line that fits, by what it says failed.             *)
Decoded(c) ==
  CASE c = 0     -> "ok"
    [] c = -1001 -> "not open"
    [] c = -1002 -> "write"
    [] c = -1003 -> "read"
    [] c = -1004 -> "timeout"
    [] c = -1005 -> "decoder"
    [] c = -1006 -> "builder"
    [] -1102 <= c /\ c <= -1007   -> "write"
    [] c = -1103                  -> "read"
    [] 65536 <= c /\ c <= 131071  -> "QMI error"
    [] -2010 <= c /\ c <= -2001   -> "QMI parse error"
    [] OTHER                      -> "hexadecimal"

Codes == -1200 .. -1001 \cup -2010 .. -2001 \cup {0, 1} \cup 65536 .. 65600 \cup 131072 .. 131200

TypeOK ==
  /\ open \in BOOLEAN /\ call \in 0 .. MaxCalls /\ op \in Ops \cup {"none"}
  /\ pc \in {"idle", "build", "write", "read"}
  /\ rc \in Codes /\ item \in 0 .. MaxCalls /\ logs \in 0 .. MaxLogs
  /\ \A r \in pending : r.call \in 1 .. call
  /\ Len(inbox) <= MaxCalls + MaxLogs

Done == pc = "idle" /\ fate # "none"

(* A put or an unlink is reported as done only if the modem accepted an    *)
(* operation on its file system, however late the answers come and         *)
(* whatever log frames or answers to QMI requests stand before them.       *)
FsOkMeansAccepted ==
  Done /\ op \in {"put", "unlink"} /\ rc = 0 => from.what = "fs" /\ from.err = 0

(* A get returns the item that some get was answered with, never what the  *)
(* answer to a put or an unlink holds at that place.                       *)
GetReturnsItem == Done /\ item # 0 => from.op = "get" /\ from.call = item

(* What the user reads tells the two sides apart: a call that got no frame *)
(* reads as one of the failures of the channel, with the device not open   *)
(* named as such, and one that got a frame as what was in it. For error    *)
(* numbers from 4 to 100, that is: ESRCH of a write reads as the decoder's.*)
SidesToldApart ==
  Done /\ op # "get" =>
    /\ Decoded(rc) = "not open" <=> fate = "not open"
    /\ fate = "frame" <=>
         Decoded(rc) \in {"ok", "decoder", "QMI error", "QMI parse error", "hexadecimal"}

(* MainViewModel.kt:138: decodeRc matches the codes of jni_bridge.c.       *)
FailureIsNamed == Done /\ op # "get" /\ fate \in {"write", "read"} => Decoded(rc) = fate

(* efs2.h:30: the response to a put has the operation of the put.          *)
OkMeansSameOp == Done /\ op \in {"put", "unlink"} /\ rc = 0 => from.op = op

(* efs2.h:30: a response is an operation, a sequence number and an error   *)
(* number, ten bytes with the header of DIAG.                              *)
ShortAnswerIsRead ==
  Done /\ op \in {"put", "unlink"} /\ from.what = "fs" => rc # QDIAG_RC_BAD_FRAME
=============================================================================
