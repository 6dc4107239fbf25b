------------------------------ MODULE QmuxProbe ------------------------------
(***************************************************************************)
(* qmuxProbeCellLock of jni_bridge.c: it connects to every candidate       *)
(* socket of qmuxd, keeps the first connection, and asks over it for the   *)
(* version and then for a client id, in frames spelled out byte by byte.   *)
(*                                                                         *)
(* A frame is known by the length in its header and the bytes written; the *)
(* daemon serves a frame when all the bytes that the header announces have *)
(* come, and cannot find the next one when it took a byte of it.           *)
(***************************************************************************)
EXTENDS Naturals, Integers, Sequences, Functions

CONSTANTS Candidates,   \* number of candidate sockets
          MaxOther      \* bound of the model: frames nobody asked for

ProbeAssumption == Candidates \in Nat \ {0} /\ MaxOther \in Nat

VARIABLES
  pc, cand,   \* where the probe is; candidates tried
  fds,        \* connections open
  best,       \* best_fd, or 0
  wire,       \* frames written that the daemon has not served
  aligned,    \* the daemon knows where the next frame starts
  inbox,      \* frames from the daemon: the transaction id of each
  granted,    \* the daemon has granted a client id
  others,     \* frames nobody asked for
  rc          \* what the probe returned

vars == <<pc, cand, fds, best, wire, aligned, inbox, granted, others, rc>>

(* total_len and bytes of the two frames, and their transaction ids.       *)
GetVersion  == [len |-> 12, bytes |-> 12, txn |-> 1]
GetClientId == [len |-> 16, bytes |-> 16, txn |-> 2]

Init ==
  /\ pc = "connect" /\ cand = 0 /\ fds = {} /\ best = 0
  /\ wire = <<>> /\ aligned = TRUE /\ inbox = <<>> /\ granted = FALSE /\ others = 0
  /\ rc = 2

(* The first connection is kept, a later one is closed.                    *)
KeepFirst(fd) ==
  IF best = 0 THEN best' = fd /\ fds' = {fd} ELSE UNCHANGED <<best, fds>>

(* Faulty: one candidate more than there are.                              *)
OneMoreLeft == cand <= Candidates

CandidateLeft == cand < Candidates

Connect ==
  /\ pc = "connect" /\ CandidateLeft
  /\ cand' = cand + 1
  /\ KeepFirst(cand + 1) \/ UNCHANGED <<best, fds>>
  /\ UNCHANGED <<pc, wire, aligned, inbox, granted, others, rc>>

(* close, and return.                                                      *)
Return(code) == pc' = "idle" /\ rc' = code /\ fds' = fds \ {best}

NoSocket ==
  /\ pc = "connect" /\ cand = Candidates /\ best = 0
  /\ Return(-1)
  /\ UNCHANGED <<cand, best, wire, aligned, inbox, granted, others>>

(* The result of write is logged and not looked at.                        *)
Write(f) == wire' = Append(wire, f) \/ wire' = wire

WriteVersion ==
  /\ pc = "connect" /\ cand = Candidates /\ best # 0
  /\ Write(GetVersion) /\ pc' = "version"
  /\ UNCHANGED <<cand, fds, best, aligned, inbox, granted, others, rc>>

(* Faulty: the connection is left open when there is no reply.             *)
NoReplyKeeps ==
  /\ pc = "version"
  /\ \E code \in {-2, -3} : rc' = code
  /\ pc' = "idle"
  /\ UNCHANGED <<cand, fds, best, wire, aligned, inbox, granted, others>>

(* Two seconds pass, or the daemon hangs up.                               *)
NoReply ==
  /\ pc = "version"
  /\ \E code \in {-2, -3} : Return(code)
  /\ UNCHANGED <<cand, best, wire, aligned, inbox, granted, others>>

(* One read takes all that waits.                                          *)
ReadVersion ==
  /\ pc = "version" /\ inbox # <<>>
  /\ inbox' = <<>>
  /\ Write(GetClientId) /\ pc' = "client"
  /\ UNCHANGED <<cand, fds, best, aligned, granted, others, rc>>

(* The byte taken for the response flag of the first frame read is its     *)
(* transaction id.                                                         *)
LooksLikeClientId == Head(inbox) = 1

ReadClientId ==
  /\ pc = "client" /\ inbox # <<>>
  /\ inbox' = <<>>
  /\ Return(IF LooksLikeClientId THEN 0 ELSE 1)
  /\ UNCHANGED <<cand, best, wire, aligned, granted, others>>

NoClientId ==
  /\ pc = "client"
  /\ Return(1)
  /\ UNCHANGED <<cand, best, wire, aligned, inbox, granted, others>>

ProbeStep ==
  \/ Connect \/ NoSocket \/ WriteVersion \/ NoReply \/ ReadVersion
  \/ ReadClientId \/ NoClientId

-----------------------------------------------------------------------------
Bytes(w) == SumFunction([n \in DOMAIN w |-> w[n].bytes])

(* A frame is complete: the byte before the length and what it announces.  *)
Complete(w) == Bytes(w) >= 1 + Head(w).len

Serve ==
  /\ best \in fds /\ wire # <<>> /\ aligned /\ Complete(wire)
  /\ LET f == Head(wire)
     IN  /\ inbox' = Append(inbox, f.txn)
         /\ granted' = (granted \/ f = GetClientId)
         /\ aligned' = (f.bytes = 1 + f.len)
         /\ wire' = Tail(wire)
  /\ UNCHANGED <<pc, cand, fds, best, others, rc>>

(* The daemon speaks unasked, or late.                                     *)
Unasked ==
  /\ best \in fds /\ others < MaxOther
  /\ others' = others + 1
  /\ \E txn \in 0 .. 2 : inbox' = Append(inbox, txn)
  /\ UNCHANGED <<pc, cand, fds, best, wire, aligned, granted, rc>>

Next == ProbeStep \/ Serve \/ Unasked

Spec == Init /\ [][Next]_vars

-----------------------------------------------------------------------------
TypeOK ==
  /\ pc \in {"connect", "version", "client", "idle"}
  /\ cand \in 0 .. Candidates /\ best \in 0 .. Candidates
  /\ fds \subseteq 1 .. Candidates
  /\ wire \in Seq({GetVersion, GetClientId})
  /\ aligned \in BOOLEAN /\ granted \in BOOLEAN
  /\ inbox \in Seq(0 .. 2) /\ others \in 0 .. MaxOther
  /\ rc \in -3 .. 2

(* Whatever is reached and however it fails, the probe leaves no           *)
(* connection behind, and while it runs it holds the one it uses.          *)
OneConnection ==
  IF pc = "idle" THEN fds = {} ELSE fds = {best} \ {0}

(* jni_bridge.c:932: total_len is what follows the first byte, so that the *)
(* daemon has a whole frame when the probe has written it and waits.       *)
WrittenIsComplete ==
  pc = "version" /\ wire # <<>> => Complete(wire)

(* DiagNative.kt:112: 0 means that qmuxd allocated a NAS client id.        *)
ZeroMeansAllocated == rc = 0 => granted
=============================================================================
