------------------------------ MODULE Transports ------------------------------
(***************************************************************************)
(* The native code of the root process that reaches the modem: the DIAG    *)
(* device, the bytes that the capture gathers from it, the sockets of QMUX *)
(* and QRTR with their operations and probes, the ids that are dropped to  *)
(* connect them, and the helper process.                                   *)
(*                                                                         *)
(* Each has its own state and touches none of the others': a step of one   *)
(* commutes with every step of another, and a property of one holds of all *)
(* together if it holds of that one alone. So a behaviour has one of them  *)
(* move, part, while the others stay as they are at the start. The         *)
(* variables that two modules call by the same name are renamed here.      *)
(***************************************************************************)
EXTENDS Credentials, Naturals, Sequences

CONSTANTS
  Parts,                                               \* those of the instance
  Threads, Descriptors, Closed, Polls, RxCap, MaxCalls, MaxLogs,  \* DiagChannel
  AccCap, Chunk, DecodeCap, FrameKinds, MaxFrames, MaxTaken,      \* Accumulator
  Cids, Budget, MaxTxn, MaxQueue,                                 \* Qmux
  Kinds, Items, Flood, MaxNoise, MaxOps,                          \* Qrtr
  Services, Cap, Passes, MaxSent,                                 \* QrtrEnumerate
  Candidates, MaxOther,                                           \* QmuxProbe
  Libs, Exportable, MaxProbes                                     \* VendorProbe

VARIABLES
  part,
  fd, kernel, stream, diagPending, logs, capturing, diagPc, opened, request, rx,
  elapsed, waited, answer,
  sent, device, taken, acc, pushed, tail, whole, inPlace,
  qmuxSock, ctlTxn, svcTxn, qmuxInbox, torn, requests, clients, kept, qmuxPc, call,
  qrtrSock, qrtrInbox, qrtrPending, accepted, noise, op, ops, qrtrPc, instance,
  draining, i, success, credit, qrtrRc,
  listInbox, announced, heard, out, count, pass, polls, listPc, shown,
  probePc, cand, fds, best, wire, aligned, probeInbox, granted, others, probeRc,
  exports, probes, vendorPc, helper, child, todo, loaded, pipe, main_ok, mask, vendorRc

Diag   == INSTANCE DiagChannel WITH pending <- diagPending, pc <- diagPc
Gather == INSTANCE Accumulator
Qmux   == INSTANCE Qmux WITH sock <- qmuxSock, inbox <- qmuxInbox, pc <- qmuxPc
Qrtr   == INSTANCE Qrtr WITH sock <- qrtrSock, inbox <- qrtrInbox,
                             pending <- qrtrPending, pc <- qrtrPc, rc <- qrtrRc
List   == INSTANCE QrtrEnumerate WITH inbox <- listInbox, sent <- announced, pc <- listPc
Probe  == INSTANCE QmuxProbe WITH pc <- probePc, inbox <- probeInbox, rc <- probeRc
Vendor == INSTANCE VendorProbe WITH pc <- vendorPc, rc <- vendorRc

ASSUME TransportsAssumption ==
  /\ Parts \subseteq {"ids", "diag", "gather", "qmux", "qrtr", "list", "probe", "vendor"}
  /\ Diag!ChannelAssumption /\ Gather!AccumulatorAssumption /\ Qmux!QmuxAssumption
  /\ Qrtr!QrtrAssumption /\ List!EnumerateAssumption /\ Probe!ProbeAssumption
  /\ Vendor!VendorAssumption

idsVars    == vars
diagVars   == <<fd, kernel, stream, diagPending, logs, capturing, diagPc, opened,
                request, rx, elapsed, waited, answer>>
gatherVars == <<sent, device, taken, acc, pushed, tail, whole, inPlace>>
qmuxVars   == <<qmuxSock, ctlTxn, svcTxn, qmuxInbox, torn, requests, clients, kept,
                qmuxPc, call>>
qrtrVars   == <<qrtrSock, qrtrInbox, qrtrPending, accepted, noise, op, ops, qrtrPc,
                instance, draining, i, success, credit, qrtrRc>>
listVars   == <<listInbox, announced, heard, out, count, pass, polls, listPc, shown>>
probeVars  == <<probePc, cand, fds, best, wire, aligned, probeInbox, granted, others,
                probeRc>>
vendorVars == <<exports, probes, vendorPc, helper, child, todo, loaded, pipe, main_ok,
                mask, vendorRc>>
allVars    == <<part, idsVars, diagVars, gatherVars, qmuxVars, qrtrVars, listVars,
                probeVars, vendorVars>>

(* The parts that stay start in one of their initial states.               *)
TransportsInit ==
  /\ part \in Parts
  /\ Init /\ Diag!Init /\ Gather!Init /\ Qmux!Init /\ Qrtr!Init
  /\ List!Init /\ Probe!Init /\ Vendor!Init
  /\ part # "ids" => site = CHOOSE s \in Sites : TRUE
  /\ part # "vendor" => exports = [l \in Libs |-> {}]

-----------------------------------------------------------------------------
IdsMove ==
  /\ part = "ids" /\ Next
  /\ UNCHANGED <<part, diagVars, gatherVars, qmuxVars, qrtrVars, listVars, probeVars, vendorVars>>

DiagMoves ==
  /\ part = "diag" /\ Diag!Next
  /\ UNCHANGED <<part, idsVars, gatherVars, qmuxVars, qrtrVars, listVars, probeVars, vendorVars>>

GatherMoves ==
  /\ part = "gather" /\ Gather!Next
  /\ UNCHANGED <<part, idsVars, diagVars, qmuxVars, qrtrVars, listVars, probeVars, vendorVars>>

QmuxMoves ==
  /\ part = "qmux" /\ Qmux!Next
  /\ UNCHANGED <<part, idsVars, diagVars, gatherVars, qrtrVars, listVars, probeVars, vendorVars>>

QrtrMoves ==
  /\ part = "qrtr" /\ Qrtr!Next
  /\ UNCHANGED <<part, idsVars, diagVars, gatherVars, qmuxVars, listVars, probeVars, vendorVars>>

ListMoves ==
  /\ part = "list" /\ List!Next
  /\ UNCHANGED <<part, idsVars, diagVars, gatherVars, qmuxVars, qrtrVars, probeVars, vendorVars>>

ProbeMoves ==
  /\ part = "probe" /\ Probe!Next
  /\ UNCHANGED <<part, idsVars, diagVars, gatherVars, qmuxVars, qrtrVars, listVars, vendorVars>>

VendorMoves ==
  /\ part = "vendor" /\ Vendor!Next
  /\ UNCHANGED <<part, idsVars, diagVars, gatherVars, qmuxVars, qrtrVars, listVars, probeVars>>

TransportsNext ==
  \/ IdsMove \/ DiagMoves \/ GatherMoves \/ QmuxMoves
  \/ QrtrMoves \/ ListMoves \/ ProbeMoves \/ VendorMoves

TransportsSpec == TransportsInit /\ [][TransportsNext]_allVars

(* The fairness of the modules' own specifications.                        *)
TransportsFairSpec ==
  /\ TransportsSpec
  /\ \A t \in Threads : WF_diagVars(part = "diag" /\ Diag!SendStep(t))
  /\ WF_qmuxVars(part = "qmux" /\ Qmux!CallStep)
  /\ WF_qrtrVars(part = "qrtr" /\ Qrtr!CallStep)
  /\ WF_vendorVars(part = "vendor" /\ Vendor!Caller)
  /\ WF_vendorVars(part = "vendor" /\ Vendor!Child)

-----------------------------------------------------------------------------
(* The types of all parts.                                                 *)
TransportsTypeOK ==
  /\ TypeOK /\ Diag!TypeOK /\ Gather!TypeOK /\ Qmux!TypeOK /\ Qrtr!TypeOK
  /\ List!TypeOK /\ Probe!TypeOK /\ Vendor!TypeOK

(* diag.c: between calls the process holds the descriptor that g_diag_fd   *)
(* names and no other.                                                     *)
DescriptorsKnown == Diag!DescriptorsKnown

(* jni_bridge.c, send_and_recv: an answer that was read and not returned   *)
(* was hidden by a torn frame, by nothing else.                            *)
HiddenOnlyByTorn == Diag!HiddenOnlyByTorn

(* sniffer.c, sniffer_loop: every frame that arrives in place and can be   *)
(* decoded is pushed once and in order, whatever the chunks and garbage.   *)
WholeIsPushed == Gather!WholeIsPushed

(* qmux.c: a response that a call accepts is not the late answer to an     *)
(* earlier request.                                                        *)
AnswerIsOwn == Qmux!AnswerIsOwn

(* qmux.c: a client id is orphaned only by an allocation that was given up *)
(* or a release that could not be written.                                 *)
OrphansExplained == Qmux!OrphansExplained

(* qrtr.c and jni_bridge.c: an operation that returns 0 had its request    *)
(* accepted; and while the band preference is set, each request is judged  *)
(* by the reply to it.                                                     *)
OkMeansAccepted == Qrtr!OkMeansAccepted /\ Qrtr!BandCreditsOwn

(* jni_bridge.c: a write that the modem accepted and a probe reports as    *)
(* rejected is one whose reply it did not read, or could not.              *)
RejectedMeansUnread == Qrtr!RejectedMeansUnread

(* qrtr.c, qrtr_enumerate: until the array is full it lists what was       *)
(* heard, each service once.                                               *)
ListsWhatWasHeard == List!ListsWhatWasHeard

(* jni_bridge.c, qmuxProbeCellLock: however the probe fails, it leaves no  *)
(* connection behind, and while it runs it holds the one it uses.          *)
OneConnection == Probe!OneConnection

(* helper_main.c, qmiVendorProbe: the verdict and the mask come from the   *)
(* helper of this call.                                                    *)
VerdictIsOfThisRun == Vendor!VerdictIsOfThisRun

(* Every call into the native code returns: one that waits for an answer   *)
(* on the DIAG device, one over QMUX, one over QRTR as long as the         *)
(* announcements end, and the vendor probe as long as a library's loading  *)
(* ends, if only by a crash.                                               *)
EveryCallReturns ==
  /\ Diag!CallReturns
  /\ Qmux!CallReturns
  /\ Qrtr!OperationReturns
  /\ Vendor!ProbeReturns
=============================================================================
