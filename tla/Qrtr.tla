-------------------------------- MODULE Qrtr --------------------------------
(***************************************************************************)
(* The calls that talk to the modem over an AF_QIPCRTR socket: the lookup  *)
(* of a service, the exchange of one request (qrtr.c), and the operations  *)
(* built on them, qrtrSetBandPref, qrtrProbeCellLock and qrtrClearCellLock *)
(* of jni_bridge.c, beside a name service that announces servers whenever  *)
(* it likes and a modem that answers late, garbled or not at all.          *)
(*                                                                         *)
(* The deadline of a wait may pass at any time; the loops look at it only  *)
(* when they have emptied the socket.  Request i of an operation is known  *)
(* by i, and so is its reply.                                              *)
(***************************************************************************)
EXTENDS Naturals, Sequences, SequencesExt

CONSTANTS Kinds,      \* the operations of the instance
          Items,      \* writes that a probe or a clear makes
          Flood,      \* datagrams that are no reply never stop coming
          MaxNoise,   \* bound of the model: datagrams that are no reply, in an
                      \* operation, or in the socket at once when they never stop
          MaxOps      \* bound of the model: operations

QrtrAssumption ==
  /\ Kinds \subseteq {"band", "bandNr", "probe", "clear"}
  /\ Flood \in BOOLEAN /\ Items \in Nat \ {0, 1} /\ MaxNoise \in Nat /\ MaxOps \in Nat

VARIABLES
  sock,       \* g_sock >= 0
  inbox,      \* datagrams that wait in the socket
  pending,    \* requests sent on this socket that the modem has not answered
  accepted,   \* requests of this operation that the modem carried out
  noise,      \* datagrams that were no reply
  op,         \* the operation in progress, or the last one
  ops,        \* operations begun
  pc,         \* "idle", "lookup", "send", "transact"
  instance,   \* instance that lookup asks for, 0 for any
  draining,   \* the loop is emptying the socket
  i,          \* request in progress
  success,    \* first_success_rc = 0, ok = 0, primary_rc = 0
  credit,     \* <<i, r>>: the reply to r was taken for the reply to i
  rc          \* what the last operation returned

wire  == <<sock, inbox, pending, accepted, noise>>
local == <<instance, draining, i, success, credit>>
vars  == <<wire, op, ops, pc, local, rc>>

Requests == 1 .. Items
Verdicts == {"accepted", "rejected", "garbled"}
Datagram == [what : {"server"}, id : {"instance1", "instance2", "foreign"}]
       \cup [what : {"other"}, id : {"port"}]
       \cup [what : {"reply"}, id : {<<o, r>> : o \in 1 .. MaxOps, r \in Requests},
             verdict : Verdicts]

IsBand(kind) == kind \in {"band", "bandNr"}
LastRequest == IF op = "band" THEN 1 ELSE IF op = "bandNr" THEN 2 ELSE Items

-----------------------------------------------------------------------------
Init ==
  /\ sock = FALSE /\ inbox = <<>> /\ pending = {} /\ accepted = {} /\ noise = 0
  /\ op = "none" /\ ops = 0 /\ pc = "idle"
  /\ instance = 0 /\ draining = FALSE /\ i = 0 /\ success = FALSE /\ credit = {}
  /\ rc = "none"

Return(code) ==
  /\ pc' = "idle" /\ rc' = code /\ draining' = FALSE

(* Faulty: a socket that is open is used again.                            *)
ReopenKeeping ==
  /\ sock' = TRUE
  /\ UNCHANGED <<inbox, pending>>

(* qrtr_close, then qrtr_open.                                             *)
Reopen == sock' = TRUE /\ inbox' = <<>> /\ pending' = {}

(* An operation cycles the socket and looks for instance 1 of its service. *)
Start(kind) ==
  /\ pc = "idle" /\ ops < MaxOps
  /\ op' = kind /\ ops' = ops + 1
  /\ Reopen /\ accepted' = {} /\ noise' = 0
  /\ pc' = "lookup" /\ instance' = 1 /\ draining' = FALSE
  /\ i' = 1 /\ success' = FALSE /\ credit' = {} /\ rc' = "none"

(* The socket cannot be opened, or NEW_LOOKUP cannot be sent.              *)
StartFails(kind) ==
  /\ pc = "idle" /\ ops < MaxOps
  /\ op' = kind /\ ops' = ops + 1
  /\ sock' \in BOOLEAN /\ inbox' = <<>> /\ pending' = {} /\ accepted' = {} /\ noise' = 0
  /\ i' = 1 /\ success' = FALSE /\ credit' = {}
  /\ Return("failed")
  /\ UNCHANGED instance

-----------------------------------------------------------------------------
Waiting == pc \in {"lookup", "transact"}

(* poll reports something to read.                                         *)
PollWakes ==
  /\ Waiting /\ ~draining /\ inbox # <<>>
  /\ draining' = TRUE
  /\ UNCHANGED <<wire, op, ops, pc, instance, i, success, credit, rc>>

(* recvfrom finds no more; the loop looks at the clock again.              *)
DrainEnds ==
  /\ Waiting /\ draining /\ inbox = <<>>
  /\ draining' = FALSE
  /\ UNCHANGED <<wire, op, ops, pc, instance, i, success, credit, rc>>

Hits(d) ==
  /\ d.what = "server"
  /\ d.id \in IF instance = 1 THEN {"instance1"} ELSE {"instance1", "instance2"}

(* qrtr_lookup takes one datagram from the socket, whatever it is.         *)
LookupRead ==
  /\ pc = "lookup" /\ draining /\ inbox # <<>>
  /\ inbox' = Tail(inbox)
  /\ IF Hits(Head(inbox)) THEN pc' = "send" /\ draining' = FALSE
     ELSE UNCHANGED <<pc, draining>>
  /\ UNCHANGED <<sock, pending, accepted, noise, op, ops, instance, i, success, credit, rc>>

(* Faulty: after the second miss the first instance is tried again.        *)
LookupMissesForever ==
  /\ pc = "lookup" /\ ~draining
  /\ instance' = 1 - instance
  /\ UNCHANGED <<wire, op, ops, pc, draining, i, success, credit, rc>>

(* NO_SERVICE: any instance will do, and then the operation gives up.      *)
LookupMisses ==
  /\ pc = "lookup" /\ ~draining
  /\ \/ instance = 1 /\ instance' = 0 /\ UNCHANGED <<pc, rc, draining>>
     \/ Return("failed") /\ UNCHANGED instance
  /\ UNCHANGED <<wire, op, ops, i, success, credit>>

-----------------------------------------------------------------------------
(* The operation goes on to its next request.                              *)
Continue(ok) ==
  /\ success' = ok
  /\ IF i < LastRequest
     THEN pc' = "send" /\ i' = i + 1 /\ draining' = FALSE /\ UNCHANGED rc
     ELSE Return(IF ok THEN "ok" ELSE "rejected") /\ UNCHANGED i

Stop(code) == Return(code) /\ UNCHANGED <<i, success>>

(* Faulty: a failure of the LTE request does not end the operation.        *)
AfterLenient(outcome) == Continue(success \/ outcome = "accepted")

(* What the operation does with the outcome of its request: one that sets  *)
(* the band preference ends when the first request failed, and takes what  *)
(* it is told of the second only when that is a rejection; the others go   *)
(* through their list, and one success is enough.                          *)
After(outcome) ==
  IF ~IsBand(op) THEN Continue(success \/ outcome = "accepted")
  ELSE IF i = 1 /\ outcome \in {"garbled", "failed"} THEN Stop("failed")
  ELSE Continue(IF i = 1 THEN outcome = "accepted" ELSE success /\ outcome # "rejected")

(* qrtr_build_qmi_request and the sendto of qrtr_transact.                 *)
Send ==
  /\ pc = "send"
  /\ pending' = pending \cup {<<ops, i>>}
  /\ pc' = "transact"
  /\ UNCHANGED <<sock, inbox, accepted, noise, op, ops, local, rc>>

SendFails ==
  /\ pc = "send"
  /\ After("failed")
  /\ UNCHANGED <<wire, op, ops, instance, credit>>

(* Faulty: only the reply to this request is taken.                        *)
IsReplyToThis(d) == d.what = "reply" /\ d.id = <<ops, i>>

(* From the node and port of the service: nothing else is compared.        *)
IsReply(d) == d.what = "reply"

TransactRead ==
  /\ pc = "transact" /\ draining /\ inbox # <<>>
  /\ inbox' = Tail(inbox)
  /\ LET d == Head(inbox)
     IN  IF IsReply(d)
         THEN credit' = credit \cup {<<<<ops, i>>, d.id>>} /\ After(d.verdict)
         ELSE UNCHANGED <<credit, pc, draining, i, success, rc>>
  /\ UNCHANGED <<sock, pending, accepted, noise, op, ops, instance>>

(* The deadline passed, or poll or recvfrom failed.                        *)
TransactTimeout ==
  /\ pc = "transact" /\ ~draining
  /\ After("failed")
  /\ UNCHANGED <<wire, op, ops, instance, credit>>

CallStep ==
  \/ PollWakes \/ DrainEnds \/ LookupRead \/ LookupMisses
  \/ Send \/ SendFails \/ TransactRead \/ TransactTimeout

-----------------------------------------------------------------------------
(* Datagrams that are no reply: an announcement, or another port.          *)
Noise ==
  /\ sock /\ (IF Flood THEN Len(inbox) ELSE noise) < MaxNoise
  /\ noise' = IF Flood THEN noise ELSE noise + 1
  /\ \E d \in {e \in Datagram : e.what # "reply"} : inbox' = Append(inbox, d)
  /\ UNCHANGED <<sock, pending, accepted, op, ops, pc, local, rc>>

(* The modem carries out a request or rejects it, and says so, sooner or   *)
(* later; what it says may be unreadable.                                  *)
ModemReply ==
  /\ \E r \in pending, done \in BOOLEAN, v \in Verdicts :
       /\ v \in {IF done THEN "accepted" ELSE "rejected", "garbled"}
       /\ pending' = pending \ {r}
       /\ accepted' = IF done /\ r[1] = ops THEN accepted \cup {r[2]} ELSE accepted
       /\ inbox' = Append(inbox, [what |-> "reply", id |-> r, verdict |-> v])
  /\ UNCHANGED <<sock, noise, op, ops, pc, local, rc>>

(* qrtrClose, when no operation runs.                                      *)
Close ==
  /\ pc = "idle" /\ sock
  /\ sock' = FALSE /\ inbox' = <<>> /\ pending' = {}
  /\ UNCHANGED <<accepted, noise, op, ops, pc, local, rc>>

Next ==
  \/ \E kind \in Kinds : Start(kind) \/ StartFails(kind)
  \/ Close \/ CallStep \/ Noise \/ ModemReply

Spec == Init /\ [][Next]_vars

(* The steps of an operation are taken: no wait is without a deadline.     *)
FairSpec == Spec /\ WF_vars(CallStep)

-----------------------------------------------------------------------------
TypeOK ==
  /\ sock \in BOOLEAN /\ inbox \in Seq(Datagram)
  /\ pending \subseteq (1 .. MaxOps) \X Requests /\ accepted \subseteq Requests
  /\ noise \in 0 .. MaxNoise
  /\ op \in Kinds \cup {"none"} /\ ops \in 0 .. MaxOps
  /\ pc \in {"idle", "lookup", "send", "transact"}
  /\ instance \in {0, 1} /\ draining \in BOOLEAN /\ i \in 0 .. Items
  /\ success \in BOOLEAN /\ rc \in {"none", "ok", "rejected", "failed"}
  /\ credit \subseteq ((1 .. MaxOps) \X Requests) \X ((1 .. MaxOps) \X Requests)

(* An operation that returns 0 was carried out, in part at least: the      *)
(* modem accepted a request of this operation, the LTE request when it     *)
(* sets the band preference.  No reply left over from an operation before  *)
(* is taken for a success.                                                 *)
OkMeansAccepted ==
  rc = "ok" => IF IsBand(op) THEN 1 \in accepted ELSE accepted # {}

(* While the band preference is set, each request is judged by the reply   *)
(* to it.                                                                  *)
BandCreditsOwn == IsBand(op) => \A c \in credit : c[1] = c[2]

(* A write that the modem accepted and that a probe or a clear reports as  *)
(* rejected is one whose reply it has not read, or could not read.         *)
Unread == {r \in Requests : \E d \in ToSet(inbox) : d.what = "reply" /\ d.id = <<ops, r>>}
Judged == {c[2][2] : c \in credit}

RejectedMeansUnread ==
  rc = "rejected" /\ ~IsBand(op) =>
    \A r \in accepted : r \in Unread \cup Judged \/ ~sock

(* Every operation returns, whatever is announced meanwhile, as long as    *)
(* the announcements end: the servers are finitely many.                   *)
OperationReturns == pc # "idle" ~> pc = "idle"

(* jni_bridge.c:449: 0 is returned on success, so all that was asked for   *)
(* has been accepted.                                                      *)
OkMeansAll == rc = "ok" /\ op = "bandNr" => {1, 2} \subseteq accepted

(* qrtr.h:109: the response that is waited for is the response to the      *)
(* datagram that was sent.                                                 *)
CreditsOwn == \A c \in credit : c[1] = c[2]

(* qrtr.h:78: a lookup waits no longer than timeout_ms.                    *)
LookupEnds == pc = "lookup" ~> pc # "lookup"

(* jni_bridge.c:687: a probe stops at the first success.                   *)
StopsAtSuccess == op = "probe" /\ pc = "send" => ~success

(* jni_bridge.c:831: all probes failed when a probe reports so.            *)
RejectedMeansNone == op = "probe" /\ rc = "rejected" => accepted = {}
=============================================================================
