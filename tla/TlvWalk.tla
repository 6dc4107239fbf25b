------------------------------- MODULE TlvWalk -------------------------------
(***************************************************************************)
(* The four loops that walk the TLVs of a QMI message for its result:      *)
(* qmi_parse_response (diag), qrtr_parse_qmi_response (qrtr),              *)
(* qmux_parse_qmi_response (qmux) and the one in qmux_alloc_client (alloc).*)
(* A TLV is a byte of type, two of length (little-endian) and a value.     *)
(*                                                                         *)
(* The bytes are those after the fixed header. The three of QRTR and QMUX  *)
(* walk as many as the header declares, if they are there; the one of DIAG *)
(* has no use for that field and walks what there is.                      *)
(***************************************************************************)
EXTENDS Naturals, Sequences

CONSTANTS Frames,    \* bytes that may come after the header, as sequences
          Radix,     \* 256
          Parsers

ASSUME TlvAssumption ==
  /\ Radix \in Nat \ {0}
  /\ Frames \subseteq Seq(0 .. Radix - 1)
  /\ Parsers \subseteq {"diag", "qrtr", "qmux", "alloc"}

VARIABLES
  parser, bytes,
  declared,        \* tlv_len of the header
  end,             \* where the walk ends
  off,             \* bytes walked so far
  touched,         \* 1 + index of the last byte read
  result, id,      \* values found
  outcome          \* "walking", or what is returned

vars == <<parser, bytes, declared, end, off, touched, result, id, outcome>>

None == [found |-> FALSE, value |-> 0, error |-> 0]

(* The byte at an index; InBounds says that it is always there.            *)
At(i) == IF i \in DOMAIN bytes THEN bytes[i] ELSE 0

TypeOf(o)   == At(o + 1)
LengthOf(o) == At(o + 2) + Radix * At(o + 3)
Word(o)     == At(o + 1) + Radix * At(o + 2)

Init ==
  /\ parser \in Parsers /\ bytes \in Frames
  /\ declared \in 0 .. Len(bytes) + 1
  /\ end = 0 /\ off = 0 /\ touched = 0 /\ result = None /\ id = None
  /\ outcome = "begin"

(* The DIAG parser asks for room for one result at least.                  *)
MinBytes == 7

Begin ==
  /\ outcome = "begin"
  /\ \/ /\ parser = "diag" /\ Len(bytes) >= MinBytes
        /\ end' = Len(bytes) /\ outcome' = "walking"
     \/ /\ parser = "diag" /\ Len(bytes) < MinBytes
        /\ outcome' = "short" /\ UNCHANGED end
     \/ /\ parser # "diag" /\ declared <= Len(bytes)
        /\ end' = declared /\ outcome' = "walking"
     \/ /\ parser # "diag" /\ declared > Len(bytes)
        /\ outcome' = "short" /\ UNCHANGED end
  /\ UNCHANGED <<parser, bytes, declared, off, touched, result, id>>

(* Faulty: the three bytes of the header of a TLV are not asked for.       *)
HasHeaderBare == off < end

HasHeader == off + 3 <= end

Fits == off + 3 + LengthOf(off) <= end

(* Faulty: a result TLV of two bytes is enough.                            *)
IsResultShort == TypeOf(off) = 2 /\ LengthOf(off) >= 2

IsResult == TypeOf(off) = 2 /\ LengthOf(off) >= 4
IsId     == TypeOf(off) = 1 /\ LengthOf(off) >= 2

(* Faulty: the walk goes on by the length of the value alone.              *)
BeyondValue == off + LengthOf(off)

Beyond == off + 3 + LengthOf(off)

(* A result TLV ends the walk, but not that of alloc, which also keeps the *)
(* client id.                                                              *)
WalkResult ==
  /\ outcome = "walking" /\ HasHeader /\ Fits /\ IsResult
  /\ result' = [found |-> TRUE, value |-> Word(off + 3), error |-> Word(off + 5)]
  /\ touched' = off + 7
  /\ IF parser = "alloc" THEN off' = Beyond /\ UNCHANGED outcome
     ELSE outcome' = "ok" /\ UNCHANGED off
  /\ UNCHANGED <<parser, bytes, declared, end, id>>

WalkId ==
  /\ outcome = "walking" /\ HasHeader /\ Fits /\ parser = "alloc" /\ IsId
  /\ id' = [found |-> TRUE, value |-> At(off + 5), error |-> At(off + 4)]
  /\ touched' = off + 5
  /\ off' = Beyond
  /\ UNCHANGED <<parser, bytes, declared, end, result, outcome>>

WalkOther ==
  /\ outcome = "walking" /\ HasHeader /\ Fits /\ ~IsResult
  /\ ~(parser = "alloc" /\ IsId)
  /\ touched' = off + 3
  /\ off' = Beyond
  /\ UNCHANGED <<parser, bytes, declared, end, result, id, outcome>>

(* What is returned after the last TLV, or at one that does not fit.       *)
Verdict ==
  IF parser # "alloc" THEN "none"
  ELSE IF result.found /\ result.value = 0 /\ id.found THEN "ok" ELSE "rejected"

WalkOverruns ==
  /\ outcome = "walking" /\ HasHeader /\ ~Fits
  /\ touched' = off + 3
  /\ outcome' = IF parser \in {"diag", "qrtr"} THEN "overrun" ELSE Verdict
  /\ UNCHANGED <<parser, bytes, declared, end, off, result, id>>

WalkEnds ==
  /\ outcome = "walking" /\ ~HasHeader
  /\ outcome' = Verdict
  /\ UNCHANGED <<parser, bytes, declared, end, off, touched, result, id>>

Next ==
  \/ Begin \/ WalkResult \/ WalkId \/ WalkOther \/ WalkOverruns \/ WalkEnds

Spec == Init /\ [][Next]_vars

FairSpec == Spec /\ WF_vars(Next)

-----------------------------------------------------------------------------
Outcomes == {"begin", "walking", "ok", "none", "short", "overrun", "rejected"}

TypeOK ==
  /\ parser \in Parsers /\ bytes \in Frames
  /\ {declared, end, touched} \subseteq Nat /\ off \in 0 .. Len(bytes)
  /\ outcome \in Outcomes

(* No walk reads a byte that is not in the frame, or beyond what the walk  *)
(* covers, whatever lengths the peer wrote into the TLVs.                  *)
InBounds == touched <= end /\ end <= Len(bytes)

(* The TLVs of the frame, by definition: each begins behind the value of   *)
(* the one before, as far as they fit.                                     *)
Whole(o) == o + 3 <= end /\ o + 3 + LengthOf(o) <= end

TlvsFrom[o \in 0 .. end] ==
  IF Whole(o) THEN {o} \cup TlvsFrom[o + 3 + LengthOf(o)] ELSE {}

Tlvs == TlvsFrom[0]

(* A walk that ends with a result has the one of the first result TLV of   *)
(* the message (alloc: of the last), no matter what TLVs of other types,   *)
(* with what lengths, or short ones of its own type come before it; and    *)
(* one that ends without has seen none that fits.                          *)
FindsResult ==
  LET results == {o \in Tlvs : TypeOf(o) = 2 /\ LengthOf(o) >= 4}
      chosen  == CHOOSE o \in results :
                   \A p \in results : IF parser = "alloc" THEN p <= o ELSE o <= p
  IN  outcome \in {"ok", "none", "rejected", "overrun"} =>
        /\ result.found <=> results # {}
        /\ results # {} => result.value = Word(chosen + 3) /\ result.error = Word(chosen + 5)

(* Every walk ends: a TLV of length 0 is three bytes further.              *)
WalkReturns == <>(outcome \notin {"begin", "walking"})
=============================================================================
