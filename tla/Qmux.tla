-------------------------------- MODULE Qmux --------------------------------
(***************************************************************************)
(* The client of qmuxd (qmux.c) and the two calls of jni_bridge.c built on *)
(* it, qmuxAllocClient and qmuxSetBandPref, beside the daemon and a modem  *)
(* that may be slow, silent, chatty or gone.                               *)
(*                                                                         *)
(* One call runs at a time.  A frame is read as a whole: a header whose    *)
(* body does not come ends in a failed read, which closes the socket as a  *)
(* silent daemon does.  What a too large frame leaves unread is the        *)
(* element Body of the stream.  Time is counted in units of 50 ms, the     *)
(* charge the loops make for a frame.                                      *)
(***************************************************************************)
EXTENDS Naturals, Sequences, SequencesExt

CONSTANTS Cids,      \* client ids the daemon can grant
          Budget,    \* timeout_ms / 50
          MaxTxn,    \* bound of the model: transaction ids used on one connection
          MaxQueue   \* bound of the model: frames waiting to be read

QmuxAssumption ==
  /\ Budget \in Nat \ {0} /\ MaxTxn \in Nat \ {0} /\ MaxQueue \in Nat \ {0}

VARIABLES
  sock,       \* g_sock >= 0
  ctlTxn,     \* g_ctl_txn
  svcTxn,     \* g_svc_txn
  inbox,      \* frames that wait in the socket
  torn,       \* half a frame was written and the socket is still open
  requests,   \* frames the daemon has not served
  clients,    \* client ids granted on this connection and not released
  kept,       \* client ids that qmuxAllocClient has returned
  pc,         \* where the call is
  call        \* its variables, and what it returned

link   == <<sock, inbox, torn, requests, clients, kept>>
vars   == <<link, ctlTxn, svcTxn, pc, call>>

Txns   == 0 .. MaxTxn
NoCid  == 0
Forms  == {"good", "big", "broken"}   \* big: over rx[256]; broken: TLV lengths are wrong
Body   == [svc |-> "body"]
Frame  == [svc : {"ctl", "nas"}, cid : Cids \cup {NoCid}, txn : Txns,
           what : {"grant", "refusal", "released", "answer", "indication"}, form : Forms]
Request == [op : {"alloc", "release", "set"}, txn : Txns, cid : Cids \cup {NoCid}]
Codes  == {"ok", "SEND_FAIL", "RECV_FAIL", "PROTO", "BUF_OVERFLOW", "TIMEOUT",
           "CLIENT_ALLOC", "BAD_FRAME"}

-----------------------------------------------------------------------------
NoCall == [kind |-> "none", txn |-> 0, cid |-> NoCid, tries |-> 0, waited |-> 0,
           what |-> "none", rc |-> "ok"]

Init ==
  /\ sock = FALSE /\ ctlTxn = 1 /\ svcTxn = 1
  /\ inbox = <<>> /\ torn = FALSE
  /\ requests = {} /\ clients = {} /\ kept = {}
  /\ pc = "idle" /\ call = NoCall

(* qmux_open: some candidate accepts the connection; when none does, or    *)
(* the socket is open, nothing changes.                                    *)
Open ==
  /\ pc = "idle" /\ ~sock
  /\ sock' = TRUE /\ ctlTxn' = 1 /\ svcTxn' = 1
  /\ call' = NoCall
  /\ UNCHANGED <<inbox, torn, requests, clients, kept, pc>>

(* qmux_close.  The daemon takes back the client ids of the connection.    *)
CloseSocket ==
  /\ sock' = FALSE /\ inbox' = <<>> /\ torn' = FALSE
  /\ requests' = {} /\ clients' = {} /\ kept' = {}

Close ==
  /\ pc = "idle" /\ sock
  /\ CloseSocket
  /\ call' = NoCall
  /\ UNCHANGED <<ctlTxn, svcTxn, pc>>

(* A whole frame goes out; behind half a frame the daemon cannot read it.  *)
Post(r) ==
  /\ requests' = IF torn THEN requests ELSE requests \cup {r}
  /\ UNCHANGED <<sock, inbox, torn, clients, kept>>

Goto(l, c) == pc' = l /\ call' = c

Starting(kind, txn, cid) ==
  [NoCall EXCEPT !.kind = kind, !.txn = txn, !.cid = cid]

-----------------------------------------------------------------------------
(* qmux_alloc_client sends GetClientId, on behalf of either call.          *)
AllocSend(kind) ==
  LET c == Starting(kind, ctlTxn, NoCid)
  IN  /\ pc = "idle" /\ sock
      /\ ctlTxn < MaxTxn - 1 /\ svcTxn < MaxTxn
      /\ ctlTxn' = ctlTxn + 1
      /\ \/ Post([op |-> "alloc", txn |-> ctlTxn, cid |-> NoCid]) /\ Goto("alloc", c)
         \/ CloseSocket /\ Goto("idle", [c EXCEPT !.rc = "SEND_FAIL"])
      /\ UNCHANGED svcTxn

(* qmux_build_qmi_sdu, and qmux_transact sends the request.                *)
TransactSend ==
  LET c == Starting("band", svcTxn, call.cid)
  IN  /\ pc = "send"
      /\ svcTxn' = svcTxn + 1
      /\ \/ Post([op |-> "set", txn |-> svcTxn, cid |-> c.cid]) /\ Goto("transact", c)
         \/ CloseSocket /\ Goto("release", [c EXCEPT !.rc = "SEND_FAIL"])
      /\ UNCHANGED ctlTxn

-----------------------------------------------------------------------------
Waiting == pc \in {"alloc", "transact"}

OutOfTime == call.tries >= Budget

(* A failing call of qmux_alloc_client returns; one of qmux_transact still *)
(* releases its client.                                                    *)
Fail(c, rc) ==
  Goto(IF pc = "alloc" THEN "idle" ELSE "release", [c EXCEPT !.rc = rc])

(* Faulty: the transaction id is not compared.                             *)
MatchesAnyTxn(f) ==
  IF pc = "alloc"
  THEN f.svc = "ctl" /\ f.what \in {"grant", "refusal"}
  ELSE f.svc = "nas" /\ f.cid \in {NoCid, call.cid}

(* The answer that the loops wait for; the type of a QMI frame is not      *)
(* looked at, so an indication counts as an answer.                        *)
Matches(f) ==
  IF pc = "alloc"
  THEN f.svc = "ctl" /\ f.txn = call.txn /\ f.what \in {"grant", "refusal"}
  ELSE f.svc = "nas" /\ f.cid \in {NoCid, call.cid} /\ f.txn = call.txn

Accept(f, c) ==
  IF pc = "transact"
  THEN Goto("release", [c EXCEPT !.what = f.what,
                                 !.rc = IF f.form = "broken" THEN "BAD_FRAME" ELSE "ok"])
       /\ UNCHANGED kept
  ELSE IF f.form = "broken" THEN Fail(c, "PROTO") /\ UNCHANGED kept
  ELSE IF f.what = "refusal" THEN Fail(c, "CLIENT_ALLOC") /\ UNCHANGED kept
  ELSE /\ Goto(IF c.kind = "band" THEN "send" ELSE "idle", [c EXCEPT !.cid = f.cid])
       /\ kept' = IF c.kind = "band" THEN kept ELSE kept \cup {f.cid}

(* Faulty: a frame that is not the answer is not charged.                  *)
SkipFree(c) == pc' = pc /\ call' = [c EXCEPT !.tries = call.tries] /\ UNCHANGED kept

Skip(c) == pc' = pc /\ call' = c /\ UNCHANGED kept

(* qmux_recv_frame brings a frame, at once or at the end of the time left. *)
RecvFrame ==
  /\ Waiting /\ ~OutOfTime
  /\ inbox # <<>> /\ Head(inbox) # Body
  /\ \E w \in {0, Budget - call.tries} :
       LET f == Head(inbox)
           c == [call EXCEPT !.tries = @ + 1, !.waited = @ + w]
       IN  IF f.form = "big" /\ pc = "alloc"
           THEN /\ inbox' = <<Body>> \o Tail(inbox)
                /\ Fail(c, "BUF_OVERFLOW") /\ UNCHANGED kept
           ELSE /\ inbox' = Tail(inbox)
                /\ IF Matches(f) THEN Accept(f, c) ELSE Skip(c)
  /\ UNCHANGED <<sock, torn, requests, clients, ctlTxn, svcTxn>>

(* What is read as a header lies inside a body: it announces yet another   *)
(* length that does not fit, or a frame that nobody waits for.             *)
RecvGarbage ==
  /\ Waiting /\ ~OutOfTime
  /\ inbox # <<>> /\ Head(inbox) = Body
  /\ \/ Fail(call, "BUF_OVERFLOW")
     \/ Goto(pc, [call EXCEPT !.tries = @ + 1])
  /\ UNCHANGED <<link, ctlTxn, svcTxn>>

(* Nothing came in the time left, the daemon hung up, a read failed, or    *)
(* the header is not one: the socket is closed.                            *)
RecvFails ==
  /\ Waiting /\ ~OutOfTime
  /\ CloseSocket
  /\ \E rc \in {"RECV_FAIL", "PROTO"} : Fail(call, rc)
  /\ UNCHANGED <<ctlTxn, svcTxn>>

(* The budget went on frames that were not the answer.                     *)
RecvTimeout ==
  /\ Waiting /\ OutOfTime
  /\ Fail(call, "TIMEOUT")
  /\ UNCHANGED <<link, ctlTxn, svcTxn>>

(* Faulty: no release when the request was not answered.                   *)
ReleaseOnlyAnswered ==
  /\ pc = "release"
  /\ Goto("idle", call)
  /\ IF sock /\ call.rc \in {"ok", "BAD_FRAME"}
     THEN ctlTxn' = ctlTxn + 1
          /\ Post([op |-> "release", txn |-> ctlTxn, cid |-> call.cid])
     ELSE UNCHANGED <<link, ctlTxn>>
  /\ UNCHANGED svcTxn

(* qmux_release_client: nothing when the socket is closed.  A failure to   *)
(* write is ignored, and may leave half a frame behind.                    *)
Release ==
  /\ pc = "release"
  /\ Goto("idle", call)
  /\ IF sock
     THEN /\ ctlTxn' = ctlTxn + 1
          /\ \/ Post([op |-> "release", txn |-> ctlTxn, cid |-> call.cid])
             \/ torn' = TRUE /\ UNCHANGED <<sock, inbox, requests, clients, kept>>
     ELSE UNCHANGED <<link, ctlTxn>>
  /\ UNCHANGED svcTxn

CallStep ==
  TransactSend \/ RecvFrame \/ RecvGarbage \/ RecvFails \/ RecvTimeout \/ Release

-----------------------------------------------------------------------------
(* The daemon and the modem: requests are served in any order, or not.     *)
Deliver(f) ==
  /\ sock /\ Len(inbox) < MaxQueue
  /\ inbox' = Append(inbox, f)
  /\ UNCHANGED <<sock, torn, kept, ctlTxn, svcTxn, pc, call>>

Reply(svc, cid, txn, what, form) ==
  [svc |-> svc, cid |-> cid, txn |-> txn, what |-> what, form |-> form]

Grant ==
  \E r \in requests, form \in Forms, cid \in Cids \ clients :
    /\ r.op = "alloc"
    /\ requests' = requests \ {r} /\ clients' = clients \cup {cid}
    /\ Deliver(Reply("ctl", cid, r.txn, "grant", form))

Refuse ==
  \E r \in requests :
    /\ r.op = "alloc"
    /\ requests' = requests \ {r} /\ UNCHANGED clients
    /\ Deliver(Reply("ctl", NoCid, r.txn, "refusal", "good"))

TakeBack ==
  \E r \in requests :
    /\ r.op = "release"
    /\ requests' = requests \ {r} /\ clients' = clients \ {r.cid}
    /\ Deliver(Reply("ctl", r.cid, r.txn, "released", "good"))

Answer ==
  \E r \in requests, form \in {"good", "broken"} :
    /\ r.op = "set" /\ r.cid \in clients
    /\ requests' = requests \ {r} /\ UNCHANGED clients
    /\ Deliver(Reply("nas", r.cid, r.txn, "answer", form))

(* Indications are numbered by the modem, not by the client.               *)
Indicate ==
  \E cid \in clients \cup {NoCid}, txn \in Txns, form \in {"good", "big"} :
    /\ UNCHANGED <<requests, clients>>
    /\ Deliver(Reply("nas", cid, txn, "indication", form))

Next ==
  \/ Open \/ Close
  \/ \E kind \in {"alloc", "band"} : AllocSend(kind)
  \/ CallStep
  \/ Grant \/ Refuse \/ TakeBack \/ Answer \/ Indicate

Spec == Init /\ [][Next]_vars

(* The steps of a call are taken: each poll has a timeout.                 *)
FairSpec == Spec /\ WF_vars(CallStep)

-----------------------------------------------------------------------------
TypeOK ==
  /\ sock \in BOOLEAN /\ torn \in BOOLEAN
  /\ ctlTxn \in Txns /\ svcTxn \in Txns
  /\ inbox \in Seq(Frame \cup {Body})
  /\ requests \subseteq Request
  /\ clients \subseteq Cids /\ kept \subseteq Cids
  /\ pc \in {"idle", "alloc", "send", "transact", "release"}
  /\ call \in [kind : {"none", "alloc", "band"}, txn : Txns, cid : Cids \cup {NoCid},
               tries : 0 .. Budget, waited : Nat,
               what : {"none", "answer", "indication"}, rc : Codes]

Idle == pc = "idle" /\ sock

(* Client ids of the connection that Kotlin does not have and whose release *)
(* is not on its way.                                                      *)
Releasing == {r.cid : r \in {q \in requests : q.op = "release"}}

Unaccounted == clients \ (kept \cup Releasing)

(* Client ids that nobody will release: neither Kotlin, nor the call in    *)
(* progress, which has them or will read of them.                          *)
InHand == IF pc \in {"send", "transact", "release"} THEN {call.cid}
          ELSE {f.cid : f \in {g \in ToSet(inbox) \ {Body} :
                                 g.what = "grant" /\ pc = "alloc" /\ g.txn = call.txn}}

Orphans == Unaccounted \ InHand

(* A client id is orphaned only when a call gives up its allocation, when  *)
(* the allocation is granted after that, or when its release cannot be     *)
(* written.  Once qmuxSetBandPref has its client, no failure loses it.     *)
OrphansExplained ==
  [][\/ Orphans' \subseteq Orphans
     \/ pc = "alloc" /\ pc' = "idle" /\ call'.rc # "ok"
     \/ \E r \in requests \ requests' :
          r.op = "alloc" /\ ~(pc = "alloc" /\ r.txn = call.txn)
     \/ Release /\ torn']_vars

(* A response that a call accepts is never the late answer to an earlier   *)
(* request: it answers this one, which is served and whose answer is read. *)
Outstanding(op, txn, answers) ==
  \/ \E r \in requests : r.op = op /\ r.txn = txn
  \/ \E f \in ToSet(inbox) \ {Body} : f.what \in answers /\ f.txn = txn

AnswerIsOwn ==
  /\ pc = "release" /\ call.what = "answer"
       => ~Outstanding("set", call.txn, {"answer"})
  /\ pc = "send" => call.cid \in clients \ kept
  /\ Idle /\ ~torn /\ call.kind = "alloc" /\ call.rc = "ok"
       => ~Outstanding("alloc", call.txn, {"grant", "refusal"})

(* qmux.h:63: qmux_transact returns the matching response.                 *)
ResponseMatches == call.what # "indication"

(* qmux.c:290: a stream whose framing is lost is closed.                   *)
AtFrameBoundary == Idle => Body \notin ToSet(inbox)

(* jni_bridge.c:596: a negative code means that no client was allocated.   *)
NegativeMeansNone ==
  Idle /\ call.kind = "alloc" /\ call.rc # "ok" => Unaccounted = {}

(* qmux.h:57: an allocation blocks up to timeout_ms.                       *)
WithinTimeout == call.waited <= Budget

(* Every call returns, however many frames the modem sends.                *)
CallReturns == pc # "idle" ~> pc = "idle"
=============================================================================
