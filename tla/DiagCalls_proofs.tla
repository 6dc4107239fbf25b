--------------------------- MODULE DiagCalls_proofs ---------------------------
(***************************************************************************)
(* Proofs about DiagCalls, for any calls, answers and log frames, in any   *)
(* order and number.                                                       *)
(***************************************************************************)
EXTENDS DiagCalls, FiniteSets, FiniteSetTheorems, SequenceTheorems, TLAPS

Frame == [what : {"none", "qmi", "fs", "log"}, call : Nat, op : Ops \cup {"none"},
          err : Nat, long : BOOLEAN]

Inboxes == Seq(Frame)
Pending == [call : Nat, op : Ops]

Fates == {"none", "frame", "not open", "builder", "write", "read", "timeout"}

Types ==
  /\ call \in Nat /\ (pc # "idle" => op \in Ops)
  /\ fate \in Fates
  /\ rc \in Int /\ inbox \in Inboxes
  /\ pending \subseteq Pending

(* What a call found in the frame that it parsed.                          *)
AnswersGet(f, i) == f.op = "get" /\ f.call = i
Accepted(f)      == f.what = "fs" /\ f.err = 0

Found ==
  /\ pc # "idle" => item = 0
  /\ item # 0 => AnswersGet(from, item)
  /\ Done /\ op \in {"put", "unlink"} /\ rc = 0 => Accepted(from)

-----------------------------------------------------------------------------
LEMMA FrameFields ==
  ASSUME NEW f \in Frame
  PROVE  f.err \in Nat /\ f.call \in Nat
  BY DEF Frame

(* A log frame and an answer are frames.                                   *)
LEMMA SentFrames ==
  /\ [None EXCEPT !.what = "log", !.long = TRUE] \in Frame
  /\ \A r \in Pending, e \in Nat, long \in BOOLEAN :
       [what |-> IF r.op \in QmiOps THEN "qmi" ELSE "fs",
        call |-> r.call, op |-> r.op, err |-> e, long |-> long] \in Frame
<1>1. [None EXCEPT !.what = "log", !.long = TRUE] \in Frame
  BY DEF None, Frame
<1>2. ASSUME NEW r \in Pending, NEW e \in Nat, NEW long \in BOOLEAN
      PROVE  [what |-> IF r.op \in QmiOps THEN "qmi" ELSE "fs",
              call |-> r.call, op |-> r.op, err |-> e, long |-> long] \in Frame
  BY DEF Frame, Pending
<1> QED
  BY <1>1, <1>2

(* A result code is a number, of a call that got no frame one of the       *)
(* channel's, of one that got a frame none of those.                       *)
InChannel(c) == (-1103 <= c /\ c <= -1006) \/ (-1004 <= c /\ c <= -1001)

LEMMA FrameCodes ==
  ASSUME NEW f \in Frame
  PROVE  \A c \in QmiCodes(f) \cup FsCodes(f) : c \in Int /\ ~InChannel(c)
<1>1. f.err \in Nat
  BY FrameFields
<1>2. ASSUME NEW c \in QmiCodes(f) PROVE c \in Int /\ ~InChannel(c)
  BY <1>1, <1>2 DEF QmiCodes, QmiErrors, ParseErrors, InChannel
<1>3. ASSUME NEW c \in FsCodes(f) PROVE c \in Int /\ ~InChannel(c)
  BY <1>1, <1>3 DEF FsCodes, QDIAG_RC_BAD_FRAME, InChannel
<1> QED
  BY <1>2, <1>3

LEMMA Folded ==
  ASSUME DiagCallsAssumption, NEW e \in Errnos
  PROVE  /\ Fold(QDIAG_RC_WRITE_FAIL, e) \in Int /\ Fold(QDIAG_RC_WRITE_FAIL, e) # 0
         /\ Fold(QDIAG_RC_READ_FAIL, e) \in Int /\ Fold(QDIAG_RC_READ_FAIL, e) # 0
  BY DEF DiagCallsAssumption, Fold, QDIAG_RC_WRITE_FAIL, QDIAG_RC_READ_FAIL

LEMMA OwnCodes ==
  \A c \in {QDIAG_RC_NOT_OPEN, QDIAG_RC_BUILD_FAIL, QDIAG_RC_TIMEOUT} : c \in Int /\ c # 0
  BY DEF QDIAG_RC_NOT_OPEN, QDIAG_RC_BUILD_FAIL, QDIAG_RC_TIMEOUT

LEMMA GetsCode == \A c \in Int : (IF op = "get" THEN 0 ELSE c) \in Int
  OBVIOUS

(* A step of a call that ends without a frame, with a code of its own.     *)
LEMMA Failing ==
  ASSUME Types, Found, NEW code \in Int, code # 0,
         NEW why \in {"not open", "builder", "write", "read", "timeout"},
         Fail(code, why), UNCHANGED device
  PROVE  Types' /\ Found'
<1>1. /\ UNCHANGED <<call, op, item, from, open, inbox, pending, logs>>
      /\ fate' = why /\ pc' = "idle"
      /\ rc' = IF op = "get" THEN 0 ELSE code
  BY DEF Fail, Return, device
<1>2. Types'
  <2>1. rc' \in Int
    BY <1>1, GetsCode, Zenon
  <2>2. UNCHANGED <<call, op, inbox, pending>>
    BY <1>1
  <2>3. fate' \in Fates
    BY <1>1 DEF Fates
  <2> QED
    BY <1>1, <2>1, <2>2, <2>3 DEF Types
<1>3. op \in {"put", "unlink"} => rc' # 0
  BY <1>1
<1>4. UNCHANGED <<op, item, from>>
  BY <1>1
<1> QED
  BY <1>1, <1>2, <1>3, <1>4 DEF Found

LEMMA InboxSteps ==
  /\ <<>> \in Inboxes
  /\ \A s \in Inboxes, f \in Frame : Append(s, f) \in Inboxes
  /\ \A s \in Inboxes : s # <<>> => Head(s) \in Frame /\ Tail(s) \in Inboxes
  BY AppendProperties, HeadTailProperties, EmptySeq DEF Inboxes

LEMMA Initially == Init => Types /\ Found
<1> SUFFICES ASSUME Init PROVE Types /\ Found
  OBVIOUS
<1>1. pc = "idle" /\ item = 0 /\ fate = "none" /\ call = 0 /\ rc = 0
  BY DEF Init
<1>2. inbox \in Inboxes /\ pending \subseteq Pending
  BY InboxSteps DEF Init
<1>3. Types
  BY <1>1, <1>2 DEF Types, Fates
<1> QED
  BY <1>1, <1>3 DEF Found, Done

LEMMA Inductive == DiagCallsAssumption /\ Types /\ Found /\ [Next]_vars => Types' /\ Found'
<1> SUFFICES ASSUME DiagCallsAssumption, Types, Found, [Next]_vars PROVE Types' /\ Found'
  OBVIOUS
<1>1. ASSUME NEW o \in Ops, Begin(o) PROVE Types' /\ Found'
  <2>1. /\ call' \in Nat /\ op' \in Ops /\ rc' = 0 /\ item' = 0
        /\ fate' = "none" /\ inbox' = inbox /\ pending' = pending
    BY <1>1 DEF Begin, device, Types
  <2>2. Types'
    <3>1. rc' \in Int /\ fate' \in Fates
      BY <2>1 DEF Fates
    <3>2. inbox' \in Inboxes /\ pending' \subseteq Pending
      BY <2>1 DEF Types
    <3> QED
      BY <2>1, <3>1, <3>2 DEF Types
  <2>3. ~Done'
    BY <2>1 DEF Done
  <2> QED
    BY <2>1, <2>2, <2>3 DEF Found
<1>2. CASE NotOpen
  BY <1>2, Failing, OwnCodes DEF NotOpen
<1>3. CASE BuildFails
  BY <1>3, Failing, OwnCodes DEF BuildFails
<1>4. CASE WriteFails
  <2>1. PICK e \in Errnos : Fail(Fold(QDIAG_RC_WRITE_FAIL, e), "write") /\ UNCHANGED device
    BY <1>4 DEF WriteFails
  <2> QED
    BY <2>1, Folded, Failing
<1>5. CASE ReadFails
  <2>1. PICK e \in Errnos : Fail(Fold(QDIAG_RC_READ_FAIL, e), "read") /\ UNCHANGED device
    BY <1>5 DEF ReadFails
  <2> QED
    BY <2>1, Folded, Failing
<1>6. CASE ReadTimeout
  BY <1>6, Failing, OwnCodes DEF ReadTimeout
<1>7. CASE Build
  BY <1>7 DEF Build, device, Types, Found, Done
<1>8. CASE Write
  <2>1. op \in Ops
    BY <1>8 DEF Write, Types
  <2>2. [call |-> call, op |-> op] \in Pending
    BY <2>1 DEF Types, Pending
  <2>3. /\ UNCHANGED <<inbox, call, op, rc, item, from, fate>> /\ pc' = "read"
        /\ pending' = pending \cup {[call |-> call, op |-> op]}
    BY <1>8 DEF Write
  <2>4. Types'
    BY <2>1, <2>2, <2>3 DEF Types
  <2>5. ~Done'
    BY <2>3 DEF Done
  <2> QED
    BY <1>8, <2>3, <2>4, <2>5 DEF Write, Found
<1>9. CASE Read
  <2> DEFINE f == Head(inbox)
  <2>1. f \in Frame /\ inbox' \in Inboxes
    BY <1>9, InboxSteps DEF Read, Taken, Types
  <2>2. /\ UNCHANGED <<pending, call, op>> /\ pc' = "idle"
        /\ from' = f /\ fate' = "frame" /\ op \in Ops
    BY <1>9 DEF Read, Types
  <2>3. CASE op = "get"
    <3>1. /\ rc' = IF HasItem(f) THEN 1 ELSE 0
          /\ item' = IF HasItem(f) THEN f.call ELSE 0
      BY <1>9, <2>3 DEF Read
    <3>2. item' # 0 => AnswersGet(f, item')
      BY <3>1 DEF HasItem, AnswersGet
    <3>3. rc' \in Int
      BY <3>1
    <3>4. Types'
      BY <2>1, <2>2, <3>3 DEF Types, Fates
    <3>5. op' \notin {"put", "unlink"}
      BY <2>2, <2>3
    <3> QED
      BY <2>2, <3>2, <3>4, <3>5 DEF Found
  <2>4. CASE op # "get"
    <3>1. rc' \in (IF op \in QmiOps THEN QmiCodes(f) ELSE FsCodes(f))
      BY <1>9, <2>4 DEF Read
    <3>2. rc' \in Int
      BY <2>1, <3>1, FrameCodes
    <3>3. op \in {"put", "unlink"} /\ rc' = 0 => Accepted(f)
      <4>1. f.err \in Nat
        BY <2>1, FrameFields
      <4>2. ASSUME op \in {"put", "unlink"}, rc' = 0 PROVE Accepted(f)
        <5>1. 0 \in FsCodes(f)
          BY <3>1, <4>2 DEF QmiOps
        <5> QED
          BY <4>1, <5>1 DEF FsCodes, Accepted, QDIAG_RC_BAD_FRAME
      <4> QED
        BY <4>2
    <3>4. Types'
      BY <2>1, <2>2, <3>2 DEF Types, Fates
    <3>5. item' = item
      BY <1>9, <2>4 DEF Read
    <3>6. item = 0
      BY <1>9 DEF Read, Found
    <3> QED
      BY <2>2, <3>3, <3>4, <3>5, <3>6 DEF Found, Done
  <2> QED
    BY <2>3, <2>4
<1>10. CASE OpenDiag \/ CloseDiag
  BY <1>10, InboxSteps DEF OpenDiag, CloseDiag, Types, Found, Done
<1>11. CASE ModemAnswers
  <2>1. UNCHANGED <<open, call, op, pc, rc, item, from, fate, logs>> /\ pending' \subseteq pending
    BY <1>11 DEF ModemAnswers
  <2>2. inbox' \in Inboxes
    <3>1. PICK r \in pending, e \in {0} \cup QmiErrors \cup DiagErrnos, long \in BOOLEAN :
            ToDevice([what |-> IF r.op \in QmiOps THEN "qmi" ELSE "fs",
                      call |-> r.call, op |-> r.op, err |-> e, long |-> long])
      BY <1>11 DEF ModemAnswers
    <3>2. r \in Pending
      BY <3>1 DEF Types
    <3>3. e \in Nat
      BY <3>1 DEF QmiErrors, DiagErrnos
    <3> QED
      BY <3>1, <3>2, <3>3, SentFrames, InboxSteps DEF ToDevice, Types
  <2> QED
    BY <2>1, <2>2 DEF Types, Found, Done
<1>12. CASE ModemLogs
  <2>1. UNCHANGED <<open, call, op, pc, rc, item, from, fate, pending>>
    BY <1>12 DEF ModemLogs
  <2>2. inbox' \in Inboxes
    BY <1>12, SentFrames, InboxSteps DEF ModemLogs, ToDevice, Types
  <2> QED
    BY <2>1, <2>2 DEF Types, Found, Done
<1>13. CASE UNCHANGED vars
  BY <1>13 DEF vars, Types, Found, Done
<1> QED
  BY <1>1, <1>2, <1>3, <1>4, <1>5, <1>6, <1>7, <1>8, <1>9, <1>10, <1>11, <1>12, <1>13 DEF Next

(* The types and the finds of all calls.                                   *)
THEOREM FoundTheorem == ASSUME DiagCallsAssumption PROVE Spec => [](Types /\ Found)
<1> QED
  BY Initially, Inductive, PTL DEF Spec

-----------------------------------------------------------------------------
(* A put or unlink is done only if the modem accepted an operation on its  *)
(* file system, whatever frames come before the answer and whenever.       *)
THEOREM FsOkTheorem == ASSUME DiagCallsAssumption PROVE Spec => []FsOkMeansAccepted
<1>1. Found => FsOkMeansAccepted
  BY DEF Found, FsOkMeansAccepted, Accepted
<1> QED
  BY <1>1, FoundTheorem, PTL

(* A get returns the item that a get was answered with.                    *)
THEOREM GetReturnsItemTheorem == ASSUME DiagCallsAssumption PROVE Spec => []GetReturnsItem
<1>1. Found => GetReturnsItem
  BY DEF Found, GetReturnsItem, AnswersGet
<1> QED
  BY <1>1, FoundTheorem, PTL

-----------------------------------------------------------------------------
(* What the two sides make of the result code of a call.                   *)
FailureCode(code, why) == InChannel(code) /\ (code = -1001 <=> why = "not open")

Sides ==
  Done /\ op # "get" =>
    IF fate = "frame" THEN ~InChannel(rc) ELSE FailureCode(rc, fate)

SmallErrnos == \A e \in Errnos : 4 <= e /\ e <= 100

LEMMA FailingSides ==
  ASSUME NEW code, NEW why, why # "frame", FailureCode(code, why), Fail(code, why)
  PROVE  Sides'
<1>1. op' = op /\ fate' = why /\ (op # "get" => rc' = code)
  BY DEF Fail, Return
<1> QED
  BY <1>1, Zenon DEF Sides

LEMMA OwnFailures ==
  /\ FailureCode(QDIAG_RC_NOT_OPEN, "not open")
  /\ FailureCode(QDIAG_RC_BUILD_FAIL, "builder")
  /\ FailureCode(QDIAG_RC_TIMEOUT, "timeout")
  BY DEF FailureCode, InChannel, QDIAG_RC_NOT_OPEN, QDIAG_RC_BUILD_FAIL, QDIAG_RC_TIMEOUT

LEMMA FoldedFailures ==
  ASSUME SmallErrnos, DiagCallsAssumption, NEW e \in Errnos
  PROVE  /\ FailureCode(Fold(QDIAG_RC_WRITE_FAIL, e), "write")
         /\ FailureCode(Fold(QDIAG_RC_READ_FAIL, e), "read")
  BY DEF FailureCode, InChannel, SmallErrnos, DiagCallsAssumption,
         Fold, QDIAG_RC_WRITE_FAIL, QDIAG_RC_READ_FAIL

LEMMA SidesKept ==
  ASSUME SmallErrnos, DiagCallsAssumption, Types, Found, Sides, [Next]_vars
  PROVE  Sides'
<1>0. ASSUME pc' # "idle" \/ (pc' = "idle" /\ fate' = "none") PROVE Sides'
  BY <1>0 DEF Sides, Done
<1>1. ASSUME UNCHANGED <<pc, fate, op, rc>> PROVE Sides'
  BY <1>1 DEF Sides, Done
<1>2. CASE \E o \in Ops : Begin(o)
  BY <1>0, <1>2 DEF Begin
<1>3. CASE NotOpen
  BY <1>3, FailingSides, OwnFailures DEF NotOpen
<1>4. CASE BuildFails
  BY <1>4, FailingSides, OwnFailures DEF BuildFails
<1>5. CASE ReadTimeout
  BY <1>5, FailingSides, OwnFailures DEF ReadTimeout
<1>6. CASE WriteFails
  <2>1. PICK e \in Errnos : Fail(Fold(QDIAG_RC_WRITE_FAIL, e), "write")
    BY <1>6 DEF WriteFails
  <2> QED
    BY <2>1, FoldedFailures, FailingSides
<1>7. CASE ReadFails
  <2>1. PICK e \in Errnos : Fail(Fold(QDIAG_RC_READ_FAIL, e), "read")
    BY <1>7 DEF ReadFails
  <2> QED
    BY <2>1, FoldedFailures, FailingSides
<1>8. CASE Build \/ Write
  BY <1>0, <1>8 DEF Build, Write
<1>9. CASE Read
  <2> DEFINE f == Head(inbox)
  <2>1. f \in Frame
    BY <1>9, InboxSteps DEF Read, Types
  <2>2. op # "get" => rc' \in QmiCodes(f) \cup FsCodes(f)
    BY <1>9 DEF Read
  <2>3. op # "get" => ~InChannel(rc')
    BY <2>1, <2>2, FrameCodes
  <2>4. op' = op /\ fate' = "frame"
    BY <1>9 DEF Read
  <2> QED
    BY <2>3, <2>4, Zenon DEF Sides
<1>10. CASE OpenDiag \/ CloseDiag \/ ModemAnswers \/ ModemLogs
  BY <1>1, <1>10 DEF OpenDiag, CloseDiag, ModemAnswers, ModemLogs
<1>11. CASE UNCHANGED vars
  BY <1>1, <1>11 DEF vars
<1> QED
  BY <1>2, <1>3, <1>4, <1>5, <1>6, <1>7, <1>8, <1>9, <1>10, <1>11 DEF Next

(* decodeRc's lines, of the codes that the channel has and those it has    *)
(* not.                                                                    *)
LEMMA DecodedSides ==
  ASSUME NEW c \in Int
  PROVE  /\ Decoded(c) = "not open" <=> c = -1001
         /\ Decoded(c) \in {"ok", "decoder", "QMI error", "QMI parse error", "hexadecimal"}
              <=> ~InChannel(c)
<1>1. c = -1001 => Decoded(c) = "not open"
  BY SMT DEF Decoded
<1>2. InChannel(c) /\ c # -1001 => Decoded(c) \in {"write", "read", "timeout", "builder"}
  BY SMT DEF Decoded, InChannel
<1>3. ~InChannel(c) =>
        Decoded(c) \in {"ok", "decoder", "QMI error", "QMI parse error", "hexadecimal"}
  BY SMT DEF Decoded, InChannel
<1>4. InChannel(-1001)
  BY SMT DEF InChannel
<1> QED
  BY <1>1, <1>2, <1>3, <1>4

(* A call that got no frame reads as a failure of the channel and one that *)
(* got a frame as what was in it, as long as the error numbers of the      *)
(* device are not the lowest three, with which the folded codes name other *)
(* failures, and not above 100, beyond which decodeRc has no line for them.*)
THEOREM SidesTheorem ==
  ASSUME SmallErrnos, DiagCallsAssumption
  PROVE  Spec => []SidesToldApart
<1>1. Init => Sides
  BY DEF Init, Sides, Done
<1>2. Types /\ Found /\ Sides /\ [Next]_vars => Sides'
  BY SidesKept
<1>3. Types /\ Sides => SidesToldApart
  <2> SUFFICES ASSUME Types, Sides, Done, op # "get"
               PROVE  /\ Decoded(rc) = "not open" <=> fate = "not open"
                      /\ fate = "frame" <=> Decoded(rc) \in
                           {"ok", "decoder", "QMI error", "QMI parse error", "hexadecimal"}
    BY DEF SidesToldApart
  <2>1. rc \in Int
    BY DEF Types
  <2>2. fate = "frame" <=> ~InChannel(rc)
    BY Zenon DEF Sides, FailureCode
  <2>3. rc = -1001 <=> fate = "not open"
    <3>1. CASE fate = "frame"
      BY <2>2, <3>1 DEF InChannel
    <3>2. CASE fate # "frame"
      BY <3>2, Zenon DEF Sides, FailureCode
    <3> QED
      BY <3>1, <3>2
  <2>4. Decoded(rc) = "not open" <=> fate = "not open"
    BY <2>1, <2>3, DecodedSides
  <2>5. Decoded(rc) \in {"ok", "decoder", "QMI error", "QMI parse error", "hexadecimal"}
          <=> ~InChannel(rc)
    BY <2>1, DecodedSides
  <2> QED
    BY <2>2, <2>4, <2>5
<1> QED
  BY <1>1, <1>2, <1>3, FoundTheorem, PTL DEF Spec

-----------------------------------------------------------------------------
(* The types                                                               *)

(* Those of Linux, all of which a folded result code has room for.         *)
LinuxErrnos == \A e \in Errnos : e <= 133

Building == pc \in {"build", "write"}

(* A frame in the device is a log frame or the answer to a request that a  *)
(* call has written, of which no call writes two.                          *)
Small ==
  /\ open \in BOOLEAN /\ call \in 0 .. MaxCalls /\ op \in Ops \cup {"none"}
  /\ pc \in {"idle", "build", "write", "read"}
  /\ rc \in Codes /\ item \in 0 .. MaxCalls /\ logs \in 0 .. MaxLogs
  /\ \A r \in pending : r.call \in 1 .. call
  /\ \A i \in DOMAIN inbox : inbox[i].call \in 0 .. call /\ inbox[i].err \in {0, 2, 3}

Room ==
  /\ IsFiniteSet(pending) /\ (Building => call > 0)
  /\ Len(inbox) + Cardinality(pending) + (IF Building THEN 1 ELSE 0) <= call + logs

LEMMA CodesOf ==
  ASSUME DiagCallsAssumption, LinuxErrnos
  PROVE  /\ {0, 1, QDIAG_RC_NOT_OPEN, QDIAG_RC_BUILD_FAIL, QDIAG_RC_TIMEOUT} \subseteq Codes
         /\ \A e \in Errnos :
              Fold(QDIAG_RC_WRITE_FAIL, e) \in Codes /\ Fold(QDIAG_RC_READ_FAIL, e) \in Codes
         /\ \A f \in Frame : f.err \in {0, 2, 3} => QmiCodes(f) \cup FsCodes(f) \subseteq Codes
<1>1. {0, 1, QDIAG_RC_NOT_OPEN, QDIAG_RC_BUILD_FAIL, QDIAG_RC_TIMEOUT} \subseteq Codes
  BY DEF Codes, QDIAG_RC_NOT_OPEN, QDIAG_RC_BUILD_FAIL, QDIAG_RC_TIMEOUT
<1>2. ASSUME NEW e \in Errnos
      PROVE  Fold(QDIAG_RC_WRITE_FAIL, e) \in Codes /\ Fold(QDIAG_RC_READ_FAIL, e) \in Codes
  <2>1. e \in 1 .. 133
    BY <1>2 DEF LinuxErrnos, DiagCallsAssumption
  <2> QED
    BY <2>1 DEF Codes, Fold, QDIAG_RC_WRITE_FAIL, QDIAG_RC_READ_FAIL
<1>3. ASSUME NEW f \in Frame, f.err \in {0, 2, 3} PROVE QmiCodes(f) \subseteq Codes
  BY <1>3 DEF QmiCodes, QmiErrors, ParseErrors, Codes
<1>4. ASSUME NEW f \in Frame, f.err \in {0, 2, 3} PROVE FsCodes(f) \subseteq Codes
  BY <1>4 DEF FsCodes, QDIAG_RC_BAD_FRAME, Codes
<1> QED
  BY <1>1, <1>2, <1>3, <1>4

LEMMA SmallInitially == DiagCallsAssumption /\ Init => Small /\ Room
<1> SUFFICES ASSUME DiagCallsAssumption, Init PROVE Small /\ Room
  OBVIOUS
<1>1. 0 \in 0 .. MaxCalls /\ 0 \in 0 .. MaxLogs /\ 0 \in Codes
  BY DEF DiagCallsAssumption, Codes
<1>2. DOMAIN inbox = {} /\ Len(inbox) = 0
  BY DEF Init
<1>3. Small
  BY <1>1, <1>2 DEF Init, Small
<1>4. IsFiniteSet(pending) /\ Cardinality(pending) = 0
  BY FS_EmptySet DEF Init
<1>5. Room
  BY <1>2, <1>4 DEF Init, Room, Building
<1> QED
  BY <1>3, <1>5

(* A call that ends leaves the device and what is asked as they are.       *)
LEMMA FailingSmall ==
  ASSUME Types, Small, Room, 0 \in Codes, NEW code \in Codes, NEW why,
         Fail(code, why), UNCHANGED device
  PROVE  Small' /\ Room'
<1>1. /\ UNCHANGED <<call, op, item, open, inbox, pending, logs>>
      /\ pc' = "idle" /\ rc' = IF op = "get" THEN 0 ELSE code
  BY DEF Fail, Return, device
<1>2. rc' \in Codes
  BY <1>1
<1>3. Small'
  BY <1>1, <1>2 DEF Small
<1>4. ~Building'
  BY <1>1 DEF Building
<1>5. Len(inbox) \in Nat /\ Cardinality(pending) \in Nat /\ call \in Nat /\ logs \in Nat
  BY FS_CardinalityType, LenProperties DEF Room, Types, Inboxes, Small
<1>6. Len(inbox) + Cardinality(pending) <= call + logs
  BY <1>5 DEF Room
<1>7. Room'
  <2>1. Len(inbox') + Cardinality(pending') + 0 <= call' + logs'
    BY <1>1, <1>5, <1>6
  <2>2. IsFiniteSet(pending')
    BY <1>1 DEF Room
  <2> QED
    BY <1>4, <2>1, <2>2 DEF Room
<1> QED
  BY <1>3, <1>7

LEMMA Counts ==
  ASSUME Types, Small, Room
  PROVE  Len(inbox) \in Nat /\ Cardinality(pending) \in Nat /\ call \in Nat /\ logs \in Nat
  BY FS_CardinalityType, LenProperties DEF Room, Types, Inboxes, Small

(* A frame that comes is one more in the device.                           *)
LEMMA Comes ==
  ASSUME Types, Small, NEW f \in Frame, f.call \in 0 .. call, f.err \in {0, 2, 3}, ToDevice(f)
  PROVE  /\ Len(inbox') \in Nat /\ Len(inbox') <= Len(inbox) + 1
         /\ \A i \in DOMAIN inbox' : inbox'[i].call \in 0 .. call /\ inbox'[i].err \in {0, 2, 3}
<1>1. inbox \in Seq(Frame) /\ Len(inbox) \in Nat
  BY LenProperties DEF Types, Inboxes
<1>2. CASE inbox' = inbox
  BY <1>1, <1>2 DEF Small
<1>3. CASE inbox' = Append(inbox, f)
  <2>1. /\ Append(inbox, f) \in Seq(Frame) /\ Len(Append(inbox, f)) = Len(inbox) + 1
        /\ \A i \in 1 .. Len(inbox) : Append(inbox, f)[i] = inbox[i]
        /\ Append(inbox, f)[Len(inbox) + 1] = f
    BY <1>1, AppendProperties
  <2>2. DOMAIN inbox' = 1 .. Len(inbox) + 1 /\ DOMAIN inbox = 1 .. Len(inbox)
    BY <1>1, <1>3, <2>1, LenProperties
  <2>3. ASSUME NEW i \in DOMAIN inbox'
        PROVE  inbox'[i].call \in 0 .. call /\ inbox'[i].err \in {0, 2, 3}
    <3>1. i \in 1 .. Len(inbox) \/ i = Len(inbox) + 1
      BY <1>1, <2>2
    <3>2. CASE i \in 1 .. Len(inbox)
      BY <1>3, <2>1, <2>2, <3>2 DEF Small
    <3>3. CASE i = Len(inbox) + 1
      BY <1>3, <2>1, <3>3
    <3> QED
      BY <3>1, <3>2, <3>3
  <2> QED
    BY <1>1, <1>3, <2>1, <2>3
<1> QED
  BY <1>2, <1>3 DEF ToDevice

LEMMA SmallKept ==
  ASSUME DiagCallsAssumption, LinuxErrnos
  PROVE  Types /\ Found /\ Small /\ Room /\ [Next]_vars => Small' /\ Room'
<1> SUFFICES ASSUME Types, Found, Small, Room, [Next]_vars PROVE Small' /\ Room'
  OBVIOUS
<1>0. Len(inbox) \in Nat /\ Cardinality(pending) \in Nat /\ call \in Nat /\ logs \in Nat
  BY Counts
<1>a. /\ {0, 1, QDIAG_RC_NOT_OPEN, QDIAG_RC_BUILD_FAIL, QDIAG_RC_TIMEOUT} \subseteq Codes
      /\ \A e \in Errnos :
           Fold(QDIAG_RC_WRITE_FAIL, e) \in Codes /\ Fold(QDIAG_RC_READ_FAIL, e) \in Codes
      /\ \A f \in Frame : f.err \in {0, 2, 3} => QmiCodes(f) \cup FsCodes(f) \subseteq Codes
  BY CodesOf
<1>b. MaxCalls \in Nat /\ MaxLogs \in Nat
  BY DEF DiagCallsAssumption
<1>1. ASSUME NEW o \in Ops, Begin(o) PROVE Small' /\ Room'
  <2>1. /\ pc = "idle" /\ call < MaxCalls /\ call' = call + 1 /\ op' = o /\ pc' = "build"
        /\ rc' = 0 /\ item' = 0 /\ UNCHANGED <<open, inbox, pending, logs>>
    BY <1>1 DEF Begin, device
  <2>2. call' \in 0 .. MaxCalls /\ item' \in 0 .. MaxCalls /\ rc' \in Codes
    BY <1>0, <1>a, <1>b, <2>1
  <2>3. \A n : (n \in 1 .. call => n \in 1 .. call') /\ (n \in 0 .. call => n \in 0 .. call')
    BY <1>0, <2>1
  <2>4. Small'
    BY <2>1, <2>2, <2>3 DEF Small
  <2>5. Building' /\ ~Building
    BY <2>1 DEF Building
  <2>6. Len(inbox) + Cardinality(pending) <= call + logs
    BY <1>0, <2>5 DEF Room
  <2>7. Room'
    BY <1>0, <2>1, <2>5, <2>6 DEF Room
  <2> QED
    BY <2>4, <2>7
<1>2. CASE NotOpen
  BY <1>2, <1>a, FailingSmall DEF NotOpen
<1>3. CASE BuildFails
  BY <1>3, <1>a, FailingSmall DEF BuildFails
<1>4. CASE WriteFails
  <2>1. PICK e \in Errnos : Fail(Fold(QDIAG_RC_WRITE_FAIL, e), "write") /\ UNCHANGED device
    BY <1>4 DEF WriteFails
  <2> QED
    BY <1>a, <2>1, FailingSmall
<1>5. CASE ReadFails
  <2>1. PICK e \in Errnos : Fail(Fold(QDIAG_RC_READ_FAIL, e), "read") /\ UNCHANGED device
    BY <1>5 DEF ReadFails
  <2> QED
    BY <1>a, <2>1, FailingSmall
<1>6. CASE ReadTimeout
  BY <1>6, <1>a, FailingSmall DEF ReadTimeout
<1>7. CASE Build
  <2>1. pc = "build" /\ pc' = "write" /\ UNCHANGED <<open, inbox, pending, logs, call, op, rc, item>>
    BY <1>7 DEF Build, device
  <2>2. Small'
    BY <2>1 DEF Small
  <2>3. Building' /\ Building
    BY <2>1 DEF Building
  <2> QED
    BY <2>1, <2>2, <2>3 DEF Room
<1>8. CASE Write
  <2> DEFINE r == [call |-> call, op |-> op]
  <2>1. /\ pc = "write" /\ pc' = "read" /\ pending' = pending \cup {r}
        /\ UNCHANGED <<open, inbox, logs, call, op, rc, item>>
    BY <1>8 DEF Write
  <2>2. Building /\ ~Building'
    BY <2>1 DEF Building
  <2>3. IsFiniteSet(pending') /\ Cardinality(pending') \in Nat
        /\ Cardinality(pending') <= Cardinality(pending) + 1
    <3>1. IsFiniteSet(pending)
      BY DEF Room
    <3>2. /\ IsFiniteSet(pending \cup {r})
          /\ Cardinality(pending \cup {r}) =
               IF r \in pending THEN Cardinality(pending) ELSE Cardinality(pending) + 1
      BY <3>1, FS_AddElement
    <3> QED
      BY <1>0, <2>1, <3>2
  <2>4. r.call \in 1 .. call
    BY <1>0, <2>2 DEF Room
  <2>5. Small'
    BY <2>1, <2>4 DEF Small
  <2>6. Len(inbox) + Cardinality(pending) + 1 <= call + logs
    BY <2>2 DEF Room
  <2>7. Len(inbox) + Cardinality(pending') <= call + logs
    BY <1>0, <2>3, <2>6
  <2>8. Room'
    BY <1>0, <2>1, <2>2, <2>3, <2>7 DEF Room
  <2> QED
    BY <2>5, <2>8
<1>9. CASE Read
  <2> DEFINE f == Head(inbox)
  <2>1. /\ inbox \in Seq(Frame) /\ inbox # <<>> /\ inbox' = Tail(inbox) /\ pc = "read"
        /\ UNCHANGED <<open, pending, logs, call, op>> /\ pc' = "idle"
    BY <1>9 DEF Read, Taken, Types, Inboxes
  <2>2. /\ Head(inbox) = inbox[1] /\ 1 \in DOMAIN inbox /\ Head(inbox) \in Frame
        /\ Len(Tail(inbox)) = Len(inbox) - 1
        /\ \A i \in DOMAIN Tail(inbox) : i + 1 \in DOMAIN inbox /\ Tail(inbox)[i] = inbox[i + 1]
    <3>1. Head(inbox) \in Frame /\ Head(inbox) = inbox[1] /\ 1 \in DOMAIN inbox
      BY <2>1, HeadTailProperties, LenProperties
    <3>2. /\ Tail(inbox) \in Seq(Frame) /\ Len(Tail(inbox)) = Len(inbox) - 1
          /\ \A i \in 1 .. Len(Tail(inbox)) : Tail(inbox)[i] = inbox[i + 1]
      BY <2>1, HeadTailProperties
    <3>3. DOMAIN Tail(inbox) = 1 .. Len(Tail(inbox)) /\ DOMAIN inbox = 1 .. Len(inbox)
      BY <2>1, <3>2, LenProperties
    <3> QED
      BY <1>0, <3>1, <3>2, <3>3
  <2>3. f \in Frame /\ f.call \in 0 .. call /\ f.err \in {0, 2, 3}
    BY <2>2 DEF Small
  <2>4. rc' \in Codes /\ item' \in 0 .. MaxCalls
    <3>1. call \in 0 .. MaxCalls
      BY DEF Small
    <3>2. CASE op = "get"
      <4>1. /\ rc' = IF HasItem(f) THEN 1 ELSE 0
            /\ item' = IF HasItem(f) THEN f.call ELSE 0
        BY <1>9, <3>2 DEF Read
      <4>2. f.call \in 0 .. MaxCalls /\ 0 \in 0 .. MaxCalls
        BY <1>b, <2>3, <3>1
      <4> QED
        BY <1>a, <4>1, <4>2
    <3>3. CASE op # "get"
      <4>1. rc' \in (IF op \in QmiOps THEN QmiCodes(f) ELSE FsCodes(f)) /\ item' = item
        BY <1>9, <3>3 DEF Read
      <4> QED
        BY <1>a, <2>3, <4>1 DEF Small
    <3> QED
      BY <3>2, <3>3
  <2>5. Small'
    BY <2>1, <2>2, <2>4 DEF Small
  <2>6. ~Building' /\ ~Building
    BY <2>1 DEF Building
  <2>7. Len(inbox) + Cardinality(pending) <= call + logs
    BY <1>0, <2>6 DEF Room
  <2>8. Len(inbox') + Cardinality(pending) <= call + logs
    BY <1>0, <2>1, <2>2, <2>7
  <2>9. Room'
    BY <1>0, <2>1, <2>2, <2>6, <2>8 DEF Room
  <2> QED
    BY <2>5, <2>9
<1>10. CASE OpenDiag
  <2>1. UNCHANGED <<inbox, pending, logs, call, op, pc, rc, item>> /\ open' = TRUE
    BY <1>10 DEF OpenDiag
  <2>2. Small'
    BY <2>1 DEF Small
  <2>3. (Building <=> Building') /\ (Building => call > 0) /\ IsFiniteSet(pending')
    BY <2>1 DEF Room, Building
  <2>4. Len(inbox') + Cardinality(pending') + (IF Building THEN 1 ELSE 0) <= call' + logs'
    BY <2>1 DEF Room
  <2>5. Room'
    BY <2>1, <2>3, <2>4 DEF Room
  <2> QED
    BY <2>2, <2>5
<1>11. CASE CloseDiag
  <2>1. /\ UNCHANGED <<pending, logs, call, op, pc, rc, item>> /\ open' = FALSE
        /\ inbox' = <<>> /\ pc = "idle"
    BY <1>11 DEF CloseDiag
  <2>2. open' \in BOOLEAN
    BY <2>1, Zenon
  <2>3. DOMAIN inbox' = {}
    <3>1. DOMAIN <<>> = {}
      OBVIOUS
    <3> QED
      BY <2>1, <3>1, Zenon
  <2>4. Small'
    BY <2>1, <2>2, <2>3 DEF Small
  <2>5. ~Building' /\ ~Building /\ Len(inbox') = 0
    BY <2>1 DEF Building
  <2>6. Len(inbox) + Cardinality(pending) <= call + logs
    BY <1>0, <2>5 DEF Room
  <2>7. Room'
    BY <1>0, <2>1, <2>5, <2>6 DEF Room
  <2> QED
    BY <2>4, <2>7
<1>12. CASE ModemAnswers
  <2>1. UNCHANGED <<open, call, op, pc, rc, item, logs>>
    BY <1>12 DEF ModemAnswers
  <2>2. PICK r \in pending, e \in {0} \cup QmiErrors \cup DiagErrnos, long \in BOOLEAN :
          /\ pending' = pending \ {r}
          /\ ToDevice([what |-> IF r.op \in QmiOps THEN "qmi" ELSE "fs",
                       call |-> r.call, op |-> r.op, err |-> e, long |-> long])
    BY <1>12 DEF ModemAnswers
  <2> DEFINE f == [what |-> IF r.op \in QmiOps THEN "qmi" ELSE "fs",
                   call |-> r.call, op |-> r.op, err |-> e, long |-> long]
  <2>3. e \in {0, 2, 3} /\ e \in Nat /\ r \in Pending /\ r.call \in 1 .. call
    BY <2>2 DEF QmiErrors, DiagErrnos, Types, Small
  <2>4. f \in Frame /\ f.err = e /\ f.call = r.call
    BY <2>3, SentFrames
  <2> HIDE DEF f
  <2>5. f.call \in 0 .. call /\ f.err \in {0, 2, 3} /\ ToDevice(f)
    BY <1>0, <2>2, <2>3, <2>4 DEF f
  <2>6. /\ Len(inbox') \in Nat /\ Len(inbox') <= Len(inbox) + 1
        /\ \A i \in DOMAIN inbox' : inbox'[i].call \in 0 .. call /\ inbox'[i].err \in {0, 2, 3}
    BY <2>4, <2>5, Comes
  <2>7. IsFiniteSet(pending') /\ Cardinality(pending') = Cardinality(pending) - 1
    BY <2>2, FS_RemoveElement DEF Room
  <2>8. Small'
    BY <2>1, <2>2, <2>6 DEF Small
  <2>9. Len(inbox') + Cardinality(pending') + (IF Building THEN 1 ELSE 0) <= call + logs
    <3>1. CASE Building
      <4>1. Len(inbox) + Cardinality(pending) + 1 <= call + logs
        BY <3>1 DEF Room
      <4> QED
        BY <1>0, <2>6, <2>7, <3>1, <4>1
    <3>2. CASE ~Building
      <4>1. Len(inbox) + Cardinality(pending) + 0 <= call + logs
        BY <3>2 DEF Room
      <4> QED
        BY <1>0, <2>6, <2>7, <3>2, <4>1
    <3> QED
      BY <3>1, <3>2
  <2>10. Room'
    BY <2>1, <2>7, <2>9 DEF Room, Building
  <2> QED
    BY <2>8, <2>10
<1>13. CASE ModemLogs
  <2> DEFINE f == [None EXCEPT !.what = "log", !.long = TRUE]
  <2>1. /\ UNCHANGED <<open, call, op, pc, rc, item, pending>>
        /\ logs < MaxLogs /\ logs' = logs + 1 /\ ToDevice(f)
    BY <1>13 DEF ModemLogs
  <2>2. f \in Frame /\ f.call = 0 /\ f.err = 0
    BY SentFrames DEF None
  <2> HIDE DEF f
  <2>3. f.call \in 0 .. call /\ f.err \in {0, 2, 3}
    BY <1>0, <2>2
  <2>4. /\ Len(inbox') \in Nat /\ Len(inbox') <= Len(inbox) + 1
        /\ \A i \in DOMAIN inbox' : inbox'[i].call \in 0 .. call /\ inbox'[i].err \in {0, 2, 3}
    BY <2>1, <2>2, <2>3, Comes
  <2>5. logs' \in 0 .. MaxLogs
    BY <1>0, <1>b, <2>1
  <2>6. Small'
    BY <2>1, <2>4, <2>5 DEF Small
  <2>7. Len(inbox') + Cardinality(pending) + (IF Building THEN 1 ELSE 0) <= call + logs'
    <3>1. CASE Building
      <4>1. Len(inbox) + Cardinality(pending) + 1 <= call + logs
        BY <3>1 DEF Room
      <4> QED
        BY <1>0, <2>1, <2>4, <3>1, <4>1
    <3>2. CASE ~Building
      <4>1. Len(inbox) + Cardinality(pending) + 0 <= call + logs
        BY <3>2 DEF Room
      <4> QED
        BY <1>0, <2>1, <2>4, <3>2, <4>1
    <3> QED
      BY <3>1, <3>2
  <2>8. Room'
    BY <2>1, <2>7 DEF Room, Building
  <2> QED
    BY <2>6, <2>8
<1>14. CASE UNCHANGED vars
  BY <1>14 DEF vars, Small, Room, Building
<1> QED
  BY <1>1, <1>2, <1>3, <1>4, <1>5, <1>6, <1>7, <1>8, <1>9, <1>10, <1>11, <1>12, <1>13, <1>14
  DEF Next

(* Every call gets one of the documented codes, the error numbers folded   *)
(* into it included, and the device holds at most an answer for each call  *)
(* and the log frames.                                                     *)
THEOREM CallsTypeTheorem ==
  ASSUME DiagCallsAssumption, LinuxErrnos PROVE Spec => []TypeOK
<1>1. Spec => [](Types /\ Found)
  BY FoundTheorem
<1>2. Init => Small /\ Room
  BY SmallInitially
<1>3. Types /\ Found /\ Small /\ Room /\ [Next]_vars => Small' /\ Room'
  BY SmallKept
<1>4. Types /\ Small /\ Room => TypeOK
  <2> SUFFICES ASSUME Types, Small, Room PROVE TypeOK
    OBVIOUS
  <2>1. Len(inbox) \in Nat /\ Cardinality(pending) \in Nat /\ call \in 0 .. MaxCalls /\ logs \in 0 .. MaxLogs
    BY Counts DEF Small
  <2>2. Len(inbox) <= call + logs
    <3>1. CASE Building
      <4>1. Len(inbox) + Cardinality(pending) + 1 <= call + logs
        BY <3>1 DEF Room
      <4> QED
        BY <2>1, <4>1
    <3>2. CASE ~Building
      <4>1. Len(inbox) + Cardinality(pending) + 0 <= call + logs
        BY <3>2 DEF Room
      <4> QED
        BY <2>1, <4>1
    <3> QED
      BY <3>1, <3>2
  <2>3. Len(inbox) <= MaxCalls + MaxLogs
    BY <2>1, <2>2 DEF DiagCallsAssumption
  <2> QED
    BY <2>3 DEF TypeOK, Small
<1> QED
  BY <1>1, <1>2, <1>3, <1>4, PTL DEF Spec
=============================================================================
