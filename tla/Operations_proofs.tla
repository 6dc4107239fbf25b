--------------------------- MODULE Operations_proofs ---------------------------
(***************************************************************************)
(* The walks of TlvWalk, and what is proved of a part of Operations in a   *)
(* module of its own: it holds in the whole, where a step is one of its    *)
(* part's or leaves the part alone.                                        *)
(***************************************************************************)
EXTENDS Operations, SequenceTheorems, WellFoundedInduction, TLAPS

CallsP   == INSTANCE DiagCalls_proofs WITH pc <- callPc, Ops <- CallKinds
SessionP == INSTANCE RootSession_proofs WITH asked <- rootAsked
ViewP    == INSTANCE ViewModel_proofs

-----------------------------------------------------------------------------
(* A byte read anywhere is a number, and so is a length made of two.       *)
LEMMA AtType ==
  ASSUME bytes \in Frames, NEW i
  PROVE  At(i) \in Nat
  BY TlvAssumption DEF At

LEMMA LengthType ==
  ASSUME bytes \in Frames, NEW o
  PROVE  LengthOf(o) \in Nat
<1> DEFINE lo == At(o + 2)
           hi == At(o + 3)
<1>1. lo \in Nat /\ hi \in Nat
  BY AtType
<1>2. Radix \in Nat
  BY TlvAssumption
<1> HIDE DEF lo, hi
<1>3. lo + Radix * hi \in Nat
  BY <1>1, <1>2
<1> QED
  BY <1>3 DEF LengthOf, lo, hi

(* The walks over TLVs stay within the frame, for all frames: the lengths  *)
(* that the peer writes into the TLVs are any bytes at all. The offset of  *)
(* a walk never passes its end, nor does its last read.                    *)
WalkInv ==
  /\ parser \in Parsers /\ bytes \in Frames /\ outcome \in Outcomes
  /\ declared \in Nat /\ end \in Nat /\ off \in Nat /\ touched \in Nat
  /\ end <= Len(bytes)
  /\ off <= end
  /\ touched <= end
  /\ outcome = "begin" => off = 0 /\ touched = 0

LEMMA FrameLength ==
  ASSUME bytes \in Frames
  PROVE  Len(bytes) \in Nat
  BY TlvAssumption

LEMMA WalkInitially == Init => WalkInv
  BY FrameLength DEF Init, WalkInv, Outcomes

LEMMA VerdictType == Verdict \in Outcomes
  BY DEF Verdict, Outcomes

LEMMA WalkInductive == WalkInv /\ [Next]_vars => WalkInv'
<1> SUFFICES ASSUME WalkInv, [Next]_vars PROVE WalkInv'
  OBVIOUS
<1> DEFINE l == LengthOf(off)
<1>1. l \in Nat
  BY LengthType DEF WalkInv
<1>2. Len(bytes) \in Nat
  BY FrameLength DEF WalkInv
<1> USE DEF WalkInv
<1>3. CASE Begin
  BY <1>2, <1>3 DEF Begin, Outcomes
<1>4. CASE WalkResult
  <2>1. off + 3 + l <= end /\ l >= 4
    BY <1>4 DEF WalkResult, Fits, IsResult
  <2>2. touched' = off + 7 /\ off' \in {off, off + 3 + l} /\ outcome' \in {"ok", outcome}
    BY <1>4 DEF WalkResult, Beyond
  <2>3. outcome = "walking" /\ UNCHANGED <<parser, bytes, declared, end>>
    BY <1>4 DEF WalkResult
  <2> HIDE DEF l
  <2> QED
    BY <1>1, <1>2, <2>1, <2>2, <2>3 DEF Outcomes
<1>5. CASE WalkId
  <2>1. off + 3 + l <= end /\ l >= 2
    BY <1>5 DEF WalkId, Fits, IsId
  <2>2. touched' = off + 5 /\ off' = off + 3 + l
    BY <1>5 DEF WalkId, Beyond
  <2>3. outcome = "walking" /\ UNCHANGED <<parser, bytes, declared, end, outcome>>
    BY <1>5 DEF WalkId
  <2> HIDE DEF l
  <2> QED
    BY <1>1, <1>2, <2>1, <2>2, <2>3
<1>6. CASE WalkOther
  <2>1. off + 3 + l <= end
    BY <1>6 DEF WalkOther, Fits
  <2>2. touched' = off + 3 /\ off' = off + 3 + l
    BY <1>6 DEF WalkOther, Beyond
  <2>3. outcome = "walking" /\ UNCHANGED <<parser, bytes, declared, end, outcome>>
    BY <1>6 DEF WalkOther
  <2> HIDE DEF l
  <2> QED
    BY <1>1, <1>2, <2>1, <2>2, <2>3
<1>7. CASE WalkOverruns
  <2>1. off + 3 <= end /\ touched' = off + 3 /\ outcome = "walking"
    BY <1>7 DEF WalkOverruns, HasHeader
  <2>2. outcome' \in Outcomes /\ outcome' # "begin"
    BY <1>7 DEF WalkOverruns, Verdict, Outcomes
  <2>3. UNCHANGED <<parser, bytes, declared, end, off>>
    BY <1>7 DEF WalkOverruns
  <2> QED
    BY <1>2, <2>1, <2>2, <2>3
<1>8. CASE WalkEnds
  <2>1. outcome' \in Outcomes /\ outcome' # "begin"
    BY <1>8 DEF WalkEnds, Verdict, Outcomes
  <2> QED
    BY <1>2, <1>8, <2>1 DEF WalkEnds
<1>9. CASE UNCHANGED vars
  BY <1>9 DEF vars
<1> QED
  BY <1>3, <1>4, <1>5, <1>6, <1>7, <1>8, <1>9 DEF Next

LEMMA WalkInvariant == Spec => []WalkInv
  BY WalkInitially, WalkInductive, PTL DEF Spec

(* The variables of a walk keep their types, and the offset stays within   *)
(* the frame, for every radix and every set of frames.                     *)
THEOREM TlvTypeTheorem == Spec => []TypeOK
<1>1. WalkInv => TypeOK
  <2> SUFFICES ASSUME WalkInv PROVE TypeOK
    OBVIOUS
  <2>1. Len(bytes) \in Nat
    BY FrameLength DEF WalkInv
  <2>2. off \in 0 .. Len(bytes)
    BY <2>1 DEF WalkInv
  <2> QED
    BY <2>2 DEF WalkInv, TypeOK
<1> QED
  BY <1>1, WalkInvariant, PTL

(* No walk over TLVs reads outside of the frame it was given.              *)
THEOREM InBoundsTheorem == Spec => []InBounds
<1>1. WalkInv => InBounds
  BY DEF WalkInv, InBounds
<1> QED
  BY <1>1, WalkInvariant, PTL

-----------------------------------------------------------------------------
(* The TLVs of a frame are defined by a recursive function: that it exists *)
(* is proved from the end of the frame backwards, and what it holds of all *)
(* offsets in the same way, by a least counterexample.                     *)
LEMMA LeastOf ==
  ASSUME NEW T \in SUBSET Nat, T # {}
  PROVE  \E n \in T : \A m \in T : n <= m
<1> DEFINE R == OpToRel(<, Nat)
<1>1. \A x, y \in Nat : <<x, y>> \in R <=> x < y
  BY DEF OpToRel
<1>2. IsWellFoundedOn(R, Nat)
  BY NatLessThanWellFounded
<1> HIDE DEF R
<1>3. PICK x \in T : \A y \in T : ~(<<y, x>> \in R)
  BY <1>2, WFMin
<1>4. \A y \in T : y \in Nat /\ x \in Nat /\ ~(y < x)
  BY <1>1, <1>3
<1>5. \A y \in T : x <= y
  BY <1>4
<1> QED
  BY <1>5

NextTlv(o) == o + 3 + LengthOf(o)

(* A function that gives the TLVs behind each offset from a on.            *)
Solves(F, a) ==
  F = [o \in a .. end |-> IF Whole(o) THEN {o} \cup F[NextTlv(o)] ELSE {}]

LEMMA NextTlvType ==
  ASSUME bytes \in Frames, NEW o \in Nat
  PROVE  /\ NextTlv(o) \in Nat /\ o < NextTlv(o)
         /\ Whole(o) => NextTlv(o) <= end
<1> DEFINE l == LengthOf(o)
<1>1. l \in Nat
  BY LengthType
<1>2. NextTlv(o) = o + 3 + l /\ (Whole(o) => o + 3 + l <= end)
  BY DEF NextTlv, Whole
<1> HIDE DEF l
<1> QED
  BY <1>1, <1>2

LEMMA SolutionGrows ==
  ASSUME bytes \in Frames, end \in Nat, NEW a \in Nat, a < end, NEW F, Solves(F, a + 1)
  PROVE  \E G : Solves(G, a)
<1> DEFINE G == [o \in a .. end |->
                   IF o = a THEN IF Whole(a) THEN {a} \cup F[NextTlv(a)] ELSE {} ELSE F[o]]
<1>1. \A o \in a .. end : o # a => o \in (a + 1) .. end
  OBVIOUS
<1>2. \A o \in a .. end : o \in Nat /\ (Whole(o) => NextTlv(o) \in a .. end /\ NextTlv(o) # a)
  <2> SUFFICES ASSUME NEW o \in a .. end
               PROVE  o \in Nat /\ (Whole(o) => NextTlv(o) \in a .. end /\ NextTlv(o) # a)
    OBVIOUS
  <2>1. o \in Nat /\ a <= o
    OBVIOUS
  <2>2. NextTlv(o) \in Nat /\ o < NextTlv(o) /\ (Whole(o) => NextTlv(o) <= end)
    BY <2>1, NextTlvType
  <2> QED
    BY <2>1, <2>2
<1>3. \A o \in (a + 1) .. end : F[o] = IF Whole(o) THEN {o} \cup F[NextTlv(o)] ELSE {}
  BY DEF Solves
<1>4. \A o \in a .. end : o # a => G[o] = F[o]
  OBVIOUS
<1>5. \A o \in a .. end : Whole(o) => G[NextTlv(o)] = F[NextTlv(o)]
  BY <1>2, <1>4
<1>6. a \in a .. end
  OBVIOUS
<1>7. G[a] = IF Whole(a) THEN {a} \cup F[NextTlv(a)] ELSE {}
  BY <1>6
<1>8. G = [o \in a .. end |-> G[o]]
  OBVIOUS
<1> HIDE DEF G
<1>9. \A o \in a .. end : G[o] = IF Whole(o) THEN {o} \cup G[NextTlv(o)] ELSE {}
  BY <1>1, <1>3, <1>4, <1>5, <1>6, <1>7
<1>10. G = [o \in a .. end |-> IF Whole(o) THEN {o} \cup G[NextTlv(o)] ELSE {}]
  BY <1>8, <1>9
<1> QED
  BY <1>10 DEF Solves

LEMMA SolutionAtEnd ==
  ASSUME bytes \in Frames, end \in Nat
  PROVE  \E F : Solves(F, end)
<1> DEFINE F == [o \in end .. end |-> {}]
<1>1. \A o \in end .. end : ~Whole(o)
  <2> SUFFICES ASSUME NEW o \in end .. end, Whole(o) PROVE FALSE
    OBVIOUS
  <2>1. o + 3 <= end
    BY DEF Whole
  <2> QED
    BY <2>1
<1>2. Solves(F, end)
  BY <1>1 DEF Solves
<1> QED
  BY <1>2

LEMMA TlvsEquation ==
  ASSUME bytes \in Frames, end \in Nat
  PROVE  TlvsFrom = [o \in 0 .. end |-> IF Whole(o) THEN {o} \cup TlvsFrom[NextTlv(o)] ELSE {}]
<1> DEFINE Good(a) == \E F : Solves(F, a)
           T == {a \in 0 .. end : Good(a)}
<1>1. end \in T
  BY SolutionAtEnd
<1>2. PICK a \in T : \A m \in T : a <= m
  <2> HIDE DEF T
  <2>1. T \in SUBSET Nat
    BY DEF T
  <2> QED
    BY <1>1, <2>1, LeastOf
<1>3. a = 0
  <2> SUFFICES ASSUME a # 0 PROVE FALSE
    OBVIOUS
  <2> DEFINE b == a - 1
  <2>1. b \in Nat /\ b < end /\ b + 1 = a /\ b < a /\ b \in 0 .. end
    OBVIOUS
  <2>2. PICK F : Solves(F, a)
    OBVIOUS
  <2> HIDE DEF b
  <2>3. Good(b)
    BY <2>1, <2>2, SolutionGrows
  <2>4. a <= b
    BY <1>2, <2>1, <2>3
  <2> QED
    BY <2>1, <2>4
<1>4. PICK F : Solves(F, 0)
  BY <1>2, <1>3
<1>5. F = [o \in 0 .. end |-> IF Whole(o) THEN {o} \cup F[o + 3 + LengthOf(o)] ELSE {}]
  BY <1>4 DEF Solves, NextTlv
<1>6. TlvsFrom = [o \in 0 .. end |-> IF Whole(o) THEN {o} \cup TlvsFrom[o + 3 + LengthOf(o)] ELSE {}]
  BY <1>5 DEF TlvsFrom
<1> QED
  BY <1>6 DEF NextTlv

LEMMA TlvsStep ==
  ASSUME bytes \in Frames, end \in Nat, NEW o \in 0 .. end
  PROVE  /\ Whole(o) => TlvsFrom[o] = {o} \cup TlvsFrom[NextTlv(o)]
         /\ ~Whole(o) => TlvsFrom[o] = {}
  BY TlvsEquation

(* The TLVs from an offset on are offsets from there on.                   *)
LEMMA TlvsBehind ==
  ASSUME bytes \in Frames, end \in Nat, NEW o \in 0 .. end
  PROVE  TlvsFrom[o] \subseteq {p \in Nat : o <= p}
<1> DEFINE Good(a) == TlvsFrom[a] \subseteq {p \in Nat : a <= p}
           T == {n \in 0 .. end : ~Good(end - n)}
<1> SUFFICES ASSUME ~Good(o) PROVE FALSE
  OBVIOUS
<1>1. end - o \in T
  <2>1. end - o \in 0 .. end /\ end - (end - o) = o
    OBVIOUS
  <2> HIDE DEF Good
  <2> QED
    BY <2>1
<1>2. PICK n \in T : \A m \in T : n <= m
  <2> HIDE DEF T
  <2>1. T \in SUBSET Nat
    BY DEF T
  <2> QED
    BY <1>1, <2>1, LeastOf
<1> DEFINE a == end - n
<1>3. n \in 0 .. end /\ a \in 0 .. end /\ a \in Nat /\ ~Good(a)
  OBVIOUS
<1>4. Whole(a) => Good(NextTlv(a))
  <2> SUFFICES ASSUME Whole(a) PROVE Good(NextTlv(a))
    OBVIOUS
  <2> DEFINE b == NextTlv(a)
             m == end - b
  <2>1. b \in Nat /\ a < b /\ b <= end
    BY <1>3, NextTlvType
  <2> HIDE DEF b, Good
  <2>2. m \in 0 .. end /\ m < n /\ end - m = b
    BY <1>3, <2>1
  <2>3. m \notin T
    <3>1. m \in T => n <= m
      BY <1>2
    <3> HIDE DEF T
    <3> QED
      BY <1>3, <2>2, <3>1
  <2>4. Good(end - m)
    <3> HIDE DEF m
    <3> QED
      BY <2>2, <2>3
  <2>5. Good(b)
    <3> HIDE DEF m
    <3> QED
      BY <2>2, <2>4
  <2> QED
    BY <2>5 DEF b
<1>5. Whole(a) => a < NextTlv(a) /\ NextTlv(a) \in Nat
  BY <1>3, NextTlvType
<1>6. /\ Whole(a) => TlvsFrom[a] = {a} \cup TlvsFrom[NextTlv(a)]
      /\ ~Whole(a) => TlvsFrom[a] = {}
  BY <1>3, TlvsStep
<1> HIDE DEF a
<1>7. Good(a)
  <2>1. CASE ~Whole(a)
    BY <1>6, <2>1
  <2>2. CASE Whole(a)
    <3> DEFINE b == NextTlv(a)
    <3>1. TlvsFrom[a] = {a} \cup TlvsFrom[b] /\ a \in Nat /\ b \in Nat /\ a < b
      BY <1>3, <1>5, <1>6, <2>2
    <3>2. TlvsFrom[b] \subseteq {p \in Nat : b <= p}
      BY <1>4, <2>2
    <3> HIDE DEF b
    <3> QED
      BY <3>1, <3>2
  <2> QED
    BY <2>1, <2>2
<1> QED
  BY <1>3, <1>7
-----------------------------------------------------------------------------
(* FindsResult. While it walks, what a walk has found is what the TLVs     *)
(* before its offset hold, and the TLVs are those and what the equation    *)
(* has from the offset on.                                                 *)
ResultsIn(S) == {o \in S : TypeOf(o) = 2 /\ LengthOf(o) >= 4}

IsFoundAt(o) == /\ result.found = TRUE
                /\ result.value = Word(o + 3) /\ result.error = Word(o + 5)

NothingFound == ResultsIn(Tlvs) = {} /\ result.found = FALSE

SomethingFound ==
  /\ ResultsIn(Tlvs) \subseteq Nat
  /\ \E c \in ResultsIn(Tlvs) :
       /\ IsFoundAt(c)
       /\ \A p \in ResultsIn(Tlvs) : IF parser = "alloc" THEN p <= c ELSE c <= p

(* What the TLVs of a set D hold is found: the last result of alloc; the   *)
(* others stop at their first.                                             *)
FoundIn(D) ==
  \/ ResultsIn(D) = {} /\ result.found = FALSE
  \/ /\ parser = "alloc"
     /\ \E c \in ResultsIn(D) : IsFoundAt(c) /\ \A p \in ResultsIn(D) : p <= c

WalkedOver(D) == (\A d \in D : d < off) /\ Tlvs = D \cup TlvsFrom[off]

FoundInv ==
  /\ outcome = "begin" => result = None
  /\ outcome = "walking" => \E D \in SUBSET Nat : WalkedOver(D) /\ FoundIn(D)
  /\ FindsResult

LEMMA NothingIsFindsResult == NothingFound => FindsResult
  BY DEF NothingFound, FindsResult, ResultsIn

LEMMA SomethingIsFindsResult == SomethingFound => FindsResult
<1> SUFFICES ASSUME SomethingFound PROVE FindsResult
  OBVIOUS
<1> DEFINE results == {o \in Tlvs : TypeOf(o) = 2 /\ LengthOf(o) >= 4}
           Chosen(o) == \A p \in results : IF parser = "alloc" THEN p <= o ELSE o <= p
           chosen == CHOOSE o \in results : Chosen(o)
<1>1. results \subseteq Nat
  BY DEF SomethingFound, ResultsIn
<1>2. PICK c \in results : IsFoundAt(c) /\ Chosen(c)
  BY DEF SomethingFound, ResultsIn
<1>3. chosen \in results /\ Chosen(chosen)
  <2> HIDE DEF results, Chosen
  <2> QED
    BY <1>2
<1>4. chosen = c
  <2> HIDE DEF results, chosen
  <2>1. c \in Nat /\ chosen \in Nat
    BY <1>1, <1>3
  <2>2. IF parser = "alloc" THEN chosen <= c /\ c <= chosen ELSE c <= chosen /\ chosen <= c
    BY <1>2, <1>3
  <2> QED
    BY <2>1, <2>2
<1>5. /\ result.found = TRUE
      /\ result.value = Word(chosen + 3) /\ result.error = Word(chosen + 5)
  BY <1>2, <1>4 DEF IsFoundAt
<1>6. results # {}
  BY <1>2
<1> HIDE DEF Chosen
<1> QED
  BY <1>5, <1>6 DEF FindsResult, Chosen

LEMMA FrameKept ==
  ASSUME UNCHANGED <<bytes, end>>
  PROVE  /\ Tlvs' = Tlvs
         /\ TlvsFrom' = TlvsFrom
<1>1. TlvsFrom' = TlvsFrom
  BY DEF TlvsFrom, Whole, LengthOf, At
<1> QED
  BY <1>1 DEF Tlvs

LEMMA ResultsKept ==
  ASSUME UNCHANGED <<bytes, end>>, NEW CONSTANT D
  PROVE  ResultsIn(D)' = ResultsIn(D)
  BY DEF ResultsIn, TypeOf, LengthOf, At

LEMMA AllResultsKept ==
  ASSUME UNCHANGED <<bytes, end>>
  PROVE  ResultsIn(Tlvs)' = ResultsIn(Tlvs)
<1>1. Tlvs' = Tlvs
  BY FrameKept
<1> QED
  BY <1>1 DEF ResultsIn, TypeOf, LengthOf, At

LEMMA WordKept ==
  ASSUME UNCHANGED bytes, NEW CONSTANT o
  PROVE  Word(o)' = Word(o)
  BY DEF Word, At

LEMMA FoundAtKept ==
  ASSUME UNCHANGED <<bytes, result>>, NEW CONSTANT o
  PROVE  IsFoundAt(o)' <=> IsFoundAt(o)
  BY WordKept DEF IsFoundAt

(* A walk that has passed a TLV, at x, has that one behind it too.         *)
LEMMA WalkedOn ==
  ASSUME WalkInv, NEW CONSTANT D, D \in SUBSET Nat, WalkedOver(D), Whole(off),
         UNCHANGED <<bytes, end>>, off' = NextTlv(off), NEW CONSTANT x, x = off
  PROVE  D \cup {x} \in SUBSET Nat /\ WalkedOver(D \cup {x})'
<1>1. off \in 0 .. end /\ end \in Nat /\ bytes \in Frames
  BY DEF WalkInv
<1>2. TlvsFrom[off] = {off} \cup TlvsFrom[NextTlv(off)]
  BY <1>1, TlvsStep
<1>3. off < NextTlv(off) /\ NextTlv(off) \in Nat
  BY <1>1, NextTlvType
<1>4. Tlvs' = Tlvs /\ TlvsFrom' = TlvsFrom
  BY FrameKept
<1>5. Tlvs' = (D \cup {x}) \cup TlvsFrom'[off']
  BY <1>2, <1>4 DEF WalkedOver
<1>6. \A d \in D \cup {x} : d < off'
  <2>1. off' \in Nat /\ x < off' /\ x \in Nat
    BY <1>1, <1>3
  <2>2. \A d \in D : d \in Nat /\ d < x
    BY DEF WalkedOver
  <2> QED
    BY <2>1, <2>2
<1>7. WalkedOver(D \cup {x})'
  BY <1>5, <1>6 DEF WalkedOver
<1> QED
  BY <1>1, <1>7

(* A TLV that is no result adds nothing.                                   *)
LEMMA NothingAdded ==
  ASSUME NEW CONSTANT D, FoundIn(D), UNCHANGED <<parser, bytes, end, result>>,
         ~IsResult, NEW CONSTANT x, x = off
  PROVE  FoundIn(D \cup {x})'
<1> DEFINE E == D \cup {x}
<1>1. ResultsIn(E)' = ResultsIn(E)
  BY ResultsKept
<1>2. ResultsIn(E) = ResultsIn(D)
  BY DEF ResultsIn, IsResult
<1>3. \A o : IsFoundAt(o)' <=> IsFoundAt(o)
  <2> SUFFICES ASSUME NEW CONSTANT o PROVE IsFoundAt(o)' <=> IsFoundAt(o)
    OBVIOUS
  <2> QED
    BY FoundAtKept
<1> QED
  BY <1>1, <1>2, <1>3 DEF FoundIn

(* What the TLVs hold when the walk can not go on is what was found.       *)
LEMMA Concludes ==
  ASSUME WalkInv, NEW CONSTANT D, D \in SUBSET Nat, WalkedOver(D), FoundIn(D),
         ~Whole(off), UNCHANGED <<parser, bytes, end, result>>
  PROVE  FindsResult'
<1>1. off \in 0 .. end /\ end \in Nat /\ bytes \in Frames
  BY DEF WalkInv
<1>2. Tlvs = D
  BY <1>1, TlvsStep DEF WalkedOver
<1>3. ResultsIn(Tlvs)' = ResultsIn(D)
  BY <1>2, AllResultsKept
<1>4. \A o : IsFoundAt(o)' <=> IsFoundAt(o)
  <2> SUFFICES ASSUME NEW CONSTANT o PROVE IsFoundAt(o)' <=> IsFoundAt(o)
    OBVIOUS
  <2> QED
    BY FoundAtKept
<1>5. CASE ResultsIn(D) = {} /\ result.found = FALSE
  <2>1. NothingFound'
    BY <1>3, <1>5 DEF NothingFound
  <2> QED
    BY <2>1, NothingIsFindsResult, PTL
<1>6. CASE /\ parser = "alloc"
           /\ \E c \in ResultsIn(D) : IsFoundAt(c) /\ \A p \in ResultsIn(D) : p <= c
  <2>1. ResultsIn(D) \subseteq Nat
    BY DEF ResultsIn
  <2>2. SomethingFound'
    BY <1>3, <1>4, <1>6, <2>1 DEF SomethingFound
  <2> QED
    BY <2>2, SomethingIsFindsResult, PTL
<1> QED
  BY <1>5, <1>6 DEF FoundIn

LEMMA FoundInductive == WalkInv /\ FoundInv /\ [Next]_vars => FoundInv'
<1> SUFFICES ASSUME WalkInv, FoundInv, [Next]_vars PROVE FoundInv'
  OBVIOUS
<1>1. off \in 0 .. end /\ end \in Nat /\ bytes \in Frames /\ off \in Nat
  BY DEF WalkInv
<1>2. outcome = "walking" => \E D \in SUBSET Nat : WalkedOver(D) /\ FoundIn(D)
  BY DEF FoundInv
<1>3. PICK x \in Nat : x = off
  BY <1>1
<1>4. HasHeader /\ Fits <=> Whole(off)
  BY <1>1 DEF HasHeader, Fits, Whole
<1>5. CASE Begin
  <2>1. outcome' \in {"walking", "short"}
    BY <1>5 DEF Begin
  <2>2. FindsResult'
    BY <2>1 DEF FindsResult
  <2>3. result' = None /\ off' = 0
    BY <1>5 DEF Begin, FoundInv, WalkInv
  <2>4. WalkedOver({})'
    BY <2>3 DEF WalkedOver, Tlvs
  <2>5. FoundIn({})'
    BY <2>3 DEF FoundIn, ResultsIn, None
  <2> QED
    BY <2>1, <2>2, <2>4, <2>5 DEF FoundInv
<1>6. CASE WalkId \/ WalkOther
  <2>1. /\ outcome = "walking" /\ outcome' = "walking" /\ ~IsResult
        /\ UNCHANGED <<parser, bytes, end, result>> /\ off' = NextTlv(off) /\ Whole(off)
    BY <1>4, <1>6 DEF WalkId, WalkOther, Beyond, NextTlv, IsId, IsResult
  <2>2. PICK D \in SUBSET Nat : WalkedOver(D) /\ FoundIn(D)
    BY <1>2, <2>1
  <2>3. D \cup {x} \in SUBSET Nat /\ WalkedOver(D \cup {x})'
    BY <1>3, <2>1, <2>2, WalkedOn
  <2>4. FoundIn(D \cup {x})'
    BY <1>3, <2>1, <2>2, NothingAdded
  <2>5. FindsResult'
    BY <2>1 DEF FindsResult
  <2> QED
    BY <2>1, <2>3, <2>4, <2>5 DEF FoundInv
<1>7. CASE WalkResult
  <2>1. /\ outcome = "walking" /\ IsResult /\ Whole(off)
        /\ UNCHANGED <<parser, bytes, end>>
    BY <1>4, <1>7 DEF WalkResult
  <2>2. PICK D \in SUBSET Nat : WalkedOver(D) /\ FoundIn(D)
    BY <1>2, <2>1
  <2>3. IsFoundAt(x)'
    <3>1. /\ result'.found = TRUE
          /\ result'.value = Word(x + 3) /\ result'.error = Word(x + 5)
      BY <1>3, <1>7 DEF WalkResult
    <3>2. Word(x + 3)' = Word(x + 3) /\ Word(x + 5)' = Word(x + 5)
      BY <2>1, WordKept
    <3> QED
      BY <3>1, <3>2 DEF IsFoundAt
  <2>4. CASE parser = "alloc"
    <3>1. outcome' = "walking" /\ off' = NextTlv(off)
      BY <1>7, <2>1, <2>4 DEF WalkResult, Beyond, NextTlv
    <3>2. D \cup {x} \in SUBSET Nat /\ WalkedOver(D \cup {x})'
      BY <1>3, <2>1, <2>2, <3>1, WalkedOn
    <3>3. ResultsIn(D \cup {x})' = ResultsIn(D \cup {x})
      BY <2>1, ResultsKept
    <3>4. x \in ResultsIn(D \cup {x})
      BY <1>3, <2>1 DEF ResultsIn, IsResult
    <3>5. \A p \in ResultsIn(D \cup {x}) : p <= x
      BY <1>3, <2>2 DEF ResultsIn, WalkedOver
    <3>6. FoundIn(D \cup {x})'
      BY <2>1, <2>3, <2>4, <3>3, <3>4, <3>5 DEF FoundIn
    <3>7. FindsResult'
      BY <3>1 DEF FindsResult
    <3> QED
      BY <3>1, <3>2, <3>6, <3>7 DEF FoundInv
  <2>5. CASE parser # "alloc"
    <3>1. outcome' = "ok"
      BY <1>7, <2>5 DEF WalkResult
    <3>2. ResultsIn(D) = {}
      BY <2>2, <2>5 DEF FoundIn
    <3>3. Tlvs = D \cup TlvsFrom[x]
      BY <1>3, <2>2 DEF WalkedOver
    <3>4. TlvsFrom[x] \subseteq {p \in Nat : x <= p}
      BY <1>1, <1>3, TlvsBehind
    <3>5. ResultsIn(Tlvs) \subseteq {p \in Nat : x <= p}
      BY <3>2, <3>3, <3>4 DEF ResultsIn
    <3>6. x \in ResultsIn(Tlvs)
      <4>1. x \in Tlvs
        BY <1>1, <1>3, <2>1, <3>3, TlvsStep
      <4> QED
        BY <1>3, <2>1, <4>1 DEF ResultsIn, IsResult
    <3>7. ResultsIn(Tlvs)' = ResultsIn(Tlvs)
      BY <2>1, AllResultsKept
    <3>8. SomethingFound'
      BY <2>1, <2>3, <2>5, <3>5, <3>6, <3>7 DEF SomethingFound
    <3>9. FindsResult'
      BY <3>8, SomethingIsFindsResult, PTL
    <3> QED
      BY <3>1, <3>9 DEF FoundInv
  <2> QED
    BY <2>4, <2>5
<1>8. CASE WalkOverruns \/ WalkEnds
  <2>1. outcome = "walking" /\ ~Whole(off) /\ UNCHANGED <<parser, bytes, end, result>>
    BY <1>4, <1>8 DEF WalkOverruns, WalkEnds
  <2>2. PICK D \in SUBSET Nat : WalkedOver(D) /\ FoundIn(D)
    BY <1>2, <2>1
  <2>3. FindsResult'
    BY <2>1, <2>2, Concludes
  <2>4. outcome' \notin {"begin", "walking"}
    BY <1>8 DEF WalkOverruns, WalkEnds, Verdict
  <2> QED
    BY <2>3, <2>4 DEF FoundInv
<1>9. CASE UNCHANGED vars
  <2>1. UNCHANGED <<parser, bytes, end, off, result, outcome>>
    BY <1>9 DEF vars
  <2>2. outcome' = "begin" => result' = None
    BY <2>1 DEF FoundInv
  <2>3. \A o : Word(o)' = Word(o)
    <3> SUFFICES ASSUME NEW CONSTANT o PROVE Word(o)' = Word(o)
      OBVIOUS
    <3> QED
      BY <2>1, WordKept
  <2>4. Tlvs' = Tlvs /\ TlvsFrom' = TlvsFrom
    BY <2>1, FrameKept
  <2>5. outcome' = "walking" => \E D \in SUBSET Nat : WalkedOver(D)' /\ FoundIn(D)'
    <3> SUFFICES ASSUME outcome = "walking"
                 PROVE  \E D \in SUBSET Nat : WalkedOver(D)' /\ FoundIn(D)'
      BY <2>1
    <3>1. PICK D \in SUBSET Nat : WalkedOver(D) /\ FoundIn(D)
      BY <1>2
    <3>2. WalkedOver(D)'
      BY <2>1, <2>4, <3>1 DEF WalkedOver
    <3>3. ResultsIn(D)' = ResultsIn(D)
      BY <2>1, ResultsKept
    <3>4. \A o : IsFoundAt(o)' <=> IsFoundAt(o)
      BY <2>1, <2>3 DEF IsFoundAt
    <3>5. FoundIn(D)'
      BY <2>1, <3>1, <3>3, <3>4 DEF FoundIn
    <3> QED
      BY <3>2, <3>5
  <2>6. FindsResult'
    <3>1. FindsResult
      BY DEF FoundInv
    <3>2. \A o : TypeOf(o)' = TypeOf(o) /\ LengthOf(o)' = LengthOf(o)
      BY <2>1 DEF TypeOf, LengthOf, At
    <3> QED
      BY <2>1, <2>3, <2>4, <3>1, <3>2 DEF FindsResult
  <2> QED
    BY <2>2, <2>5, <2>6 DEF FoundInv
<1> QED
  BY <1>5, <1>6, <1>7, <1>8, <1>9 DEF Next

LEMMA FoundInitially == Init => FoundInv
  BY DEF Init, FoundInv, FindsResult

(* A walk that ends with a result has that of the first result TLV of the  *)
(* message, alloc of the last, and one that ends without saw none, for     *)
(* every radix and for frames of any number of TLVs.                       *)
THEOREM FindsResultTheorem == Spec => []FindsResult
<1>1. FoundInv => FindsResult
  BY DEF FoundInv
<1> QED
  BY <1>1, WalkInvariant, FoundInitially, FoundInductive, PTL DEF Spec

-----------------------------------------------------------------------------
(* The module that holds a part's proofs has the part's actions.           *)
LEMMA SameSession == Session!Next <=> SessionP!Next
  BY DEF Session!Next, SessionP!Next, Session!ShellAnswers,
         SessionP!ShellAnswers, Session!StatusCollected,
         SessionP!StatusCollected, Session!OnStatus, SessionP!OnStatus,
         Session!Bind, SessionP!Bind, Session!TapBind, SessionP!TapBind,
         Session!TapCall, SessionP!TapCall, Session!Launch, SessionP!Launch,
         Session!Dies, SessionP!Dies, Session!Callback, SessionP!Callback,
         Session!Disconnected, SessionP!Disconnected, Session!process,
         SessionP!process

LEMMA SameView == View!Next <=> ViewP!Next
  BY DEF View!Next, ViewP!Next, View!Tap, ViewP!Tap, View!Enabled,
         ViewP!Enabled, View!Thread, ViewP!Thread, View!Native,
         ViewP!Native, View!Throws, ViewP!Throws, View!Ask, ViewP!Ask,
         View!IoReads, ViewP!IoReads, View!IoWrites, ViewP!IoWrites,
         View!Finally, ViewP!Finally, View!Render, ViewP!Render,
         View!MainWrites, ViewP!MainWrites, View!OtherUpdate,
         ViewP!OtherUpdate, View!Poll, ViewP!Poll, View!PollBegin,
         ViewP!PollBegin, View!PollDrain, ViewP!PollDrain, View!PollTotal,
         ViewP!PollTotal, View!PollRunning, ViewP!PollRunning,
         View!PollReads, ViewP!PollReads, View!PollWrites, ViewP!PollWrites,
         View!Capture, ViewP!Capture, View!Counted, ViewP!Counted,
         View!Starts, ViewP!Starts, View!MainReads, ViewP!MainReads,
         View!Idle, ViewP!Idle, View!native, ViewP!native, View!polling,
         ViewP!polling, View!calls, ViewP!calls, View!Ops, ViewP!Ops

LEMMA SameCalls == Calls!Next <=> CallsP!Next
  BY DEF Calls!Next, CallsP!Next, Calls!Begin, CallsP!Begin, Calls!NotOpen,
         CallsP!NotOpen, Calls!BuildFails, CallsP!BuildFails, Calls!Build,
         CallsP!Build, Calls!WriteFails, CallsP!WriteFails, Calls!Write,
         CallsP!Write, Calls!ReadFails, CallsP!ReadFails, Calls!ReadTimeout,
         CallsP!ReadTimeout, Calls!Read, CallsP!Read, Calls!OpenDiag,
         CallsP!OpenDiag, Calls!CloseDiag, CallsP!CloseDiag,
         Calls!ModemAnswers, CallsP!ModemAnswers, Calls!ModemLogs,
         CallsP!ModemLogs, Calls!Return, CallsP!Return, Calls!Fail,
         CallsP!Fail, Calls!Fold, CallsP!Fold, Calls!Taken, CallsP!Taken,
         Calls!HasItem, CallsP!HasItem, Calls!QmiCodes, CallsP!QmiCodes,
         Calls!FsCodes, CallsP!FsCodes, Calls!ToDevice, CallsP!ToDevice,
         Calls!None, CallsP!None, Calls!device, CallsP!device, Calls!QmiOps,
         CallsP!QmiOps, Calls!FsOps, CallsP!FsOps, Calls!QmiErrors,
         CallsP!QmiErrors, Calls!DiagErrnos, CallsP!DiagErrnos,
         Calls!ParseErrors, CallsP!ParseErrors, Calls!QDIAG_RC_NOT_OPEN,
         CallsP!QDIAG_RC_NOT_OPEN, Calls!QDIAG_RC_WRITE_FAIL,
         CallsP!QDIAG_RC_WRITE_FAIL, Calls!QDIAG_RC_READ_FAIL,
         CallsP!QDIAG_RC_READ_FAIL, Calls!QDIAG_RC_TIMEOUT,
         CallsP!QDIAG_RC_TIMEOUT, Calls!QDIAG_RC_BAD_FRAME,
         CallsP!QDIAG_RC_BAD_FRAME, Calls!QDIAG_RC_BUILD_FAIL,
         CallsP!QDIAG_RC_BUILD_FAIL

LEMMA CallsSteps == [OperationsNext]_allVars => [CallsP!Next]_(CallsP!vars)
  BY SameCalls DEF OperationsNext, WalkMoves, BandsMove, CallsMove, ViewMoves, SessionMoves,
         allVars, callVars, CallsP!vars

LEMMA CallsImplemented == OperationsSpec => CallsP!Spec
<1>1. OperationsInit => CallsP!Init
  BY DEF OperationsInit, Calls!Init, CallsP!Init, Calls!None, CallsP!None
<1> QED
  BY <1>1, CallsSteps, PTL DEF OperationsSpec, CallsP!Spec

LEMMA CallsAssumed == CallsP!DiagCallsAssumption
  BY OperationsAssumption DEF Calls!DiagCallsAssumption, CallsP!DiagCallsAssumption,
     Calls!QmiOps, CallsP!QmiOps, Calls!FsOps, CallsP!FsOps

LEMMA SessionSteps == [OperationsNext]_allVars => [SessionP!Next]_(SessionP!vars)
  BY SameSession DEF OperationsNext, WalkMoves, BandsMove, CallsMove, ViewMoves, SessionMoves,
         allVars, sessionVars, SessionP!vars

LEMMA ViewSteps == [OperationsNext]_allVars => [ViewP!Next]_(ViewP!vars)
  BY SameView DEF OperationsNext, WalkMoves, BandsMove, CallsMove, ViewMoves, SessionMoves,
         allVars, viewVars, ViewP!vars

LEMMA WalkSteps == [OperationsNext]_allVars => [Next]_vars
  BY DEF OperationsNext, WalkMoves, BandsMove, CallsMove, ViewMoves, SessionMoves,
         allVars, walkVars

(* qmi_nas.c, qrtr.c, qmux.c: no walk reads beyond what was received, in   *)
(* the whole.                                                              *)
THEOREM WalksStayInBounds == OperationsSpec => []InBounds
<1>1. OperationsInit => Init
  BY DEF OperationsInit
<1> QED
  BY <1>1, WalkSteps, InBoundsTheorem, PTL DEF OperationsSpec, Spec

(* qmi_nas.c, qrtr.c, qmux.c: each walk has the result it looks for, in    *)
(* the whole.                                                              *)
THEOREM WalksFindResult == OperationsSpec => []FindsResult
<1>1. OperationsInit => Init
  BY DEF OperationsInit
<1> QED
  BY <1>1, WalkSteps, FindsResultTheorem, PTL DEF OperationsSpec, Spec

(* RootClient.kt: the api follows the process, in the whole.               *)
THEOREM SessionFollowsProcessTheorem == OperationsSpec => []SessionFollowsProcess
<1>1. OperationsInit => SessionP!Init
  BY DEF OperationsInit, Session!Init, SessionP!Init
<1>2. OperationsSpec => SessionP!Spec
  BY <1>1, SessionSteps, PTL DEF OperationsSpec, SessionP!Spec
<1>3. SessionP!SessionAssumption
  BY OperationsAssumption DEF Session!SessionAssumption, SessionP!SessionAssumption
<1>4. SessionP!Spec => []SessionP!ApiIsAlive
  BY <1>3, SessionP!ApiIsAliveTheorem
<1>5. SessionP!Spec => []SessionP!ConnectedOnce
  BY <1>3, SessionP!ConnectedOnceTheorem
<1>6. SessionP!ApiIsAlive /\ SessionP!ConnectedOnce => SessionFollowsProcess
  BY DEF SessionFollowsProcess, Session!ApiIsAlive, SessionP!ApiIsAlive,
         Session!ConnectedOnce, SessionP!ConnectedOnce, Session!Posted, SessionP!Posted
<1> QED
  BY <1>2, <1>4, <1>5, <1>6, PTL

(* MainViewModel.kt: the state is not busy when nothing is in progress, in *)
(* the whole.                                                              *)
THEOREM BusyClearsTheorem == OperationsSpec => []BusyClears
<1>1. OperationsInit => ViewP!Init
  BY DEF OperationsInit, View!Init, ViewP!Init, View!Idle, ViewP!Idle, View!Ops, ViewP!Ops
<1>2. OperationsSpec => ViewP!Spec
  BY <1>1, ViewSteps, PTL DEF OperationsSpec, ViewP!Spec
<1>3. ViewP!ViewModelAssumption
  BY OperationsAssumption DEF View!ViewModelAssumption, ViewP!ViewModelAssumption
<1>4. ViewP!Spec => []ViewP!BusyClears
  BY <1>3, ViewP!BusyClearsTheorem
<1>5. ViewP!BusyClears => BusyClears
  BY DEF BusyClears, View!BusyClears, ViewP!BusyClears, View!InFlight, ViewP!InFlight,
         View!Ops, ViewP!Ops, View!Idle, ViewP!Idle
<1> QED
  BY <1>2, <1>4, <1>5, PTL

(* efs2.c: a file system call that is done was done, in the whole.         *)
THEOREM FsResultIsModemsTheorem == OperationsSpec => []FsResultIsModems
<1>1. CallsP!Spec => []CallsP!FsOkMeansAccepted
  BY CallsAssumed, CallsP!FsOkTheorem
<1>2. CallsP!Spec => []CallsP!GetReturnsItem
  BY CallsAssumed, CallsP!GetReturnsItemTheorem
<1>3. CallsP!FsOkMeansAccepted /\ CallsP!GetReturnsItem => FsResultIsModems
  BY DEF FsResultIsModems, Calls!FsOkMeansAccepted, CallsP!FsOkMeansAccepted,
         Calls!GetReturnsItem, CallsP!GetReturnsItem, Calls!Done, CallsP!Done
<1> QED
  BY <1>1, <1>2, <1>3, CallsImplemented, PTL

(* jni_bridge.c and decodeRc: the sides are told apart by the result code, *)
(* in the whole, for the error numbers of which that is true.              *)
THEOREM SidesToldApartTheorem ==
  ASSUME CallsP!SmallErrnos PROVE OperationsSpec => []SidesToldApart
<1>1. CallsP!Spec => []CallsP!SidesToldApart
  BY CallsAssumed, CallsP!SidesTheorem
<1>2. Calls!Decoded(rc) = CallsP!Decoded(rc)
  BY DEF Calls!Decoded, CallsP!Decoded
<1>3. CallsP!SidesToldApart => SidesToldApart
  BY <1>2 DEF SidesToldApart, Calls!SidesToldApart, CallsP!SidesToldApart, Calls!Done, CallsP!Done
<1> QED
  BY <1>1, <1>3, CallsImplemented, PTL
-----------------------------------------------------------------------------
(* The bits of a word and the bytes they are sent in.                      *)
LEMMA BandsAssumed ==
  /\ B \in Nat \ {0} /\ W \in Nat \ {0} /\ (W % B) = 0
  /\ Lte \subseteq 1 .. 2 * W /\ Nr \subseteq 1 .. 2 * W
  BY OperationsAssumption DEF Request!BandAssumption

WordBytes   == W \div B
Place(i, b) == B * (i - 1) + b

LEMMA WordIsBytes == WordBytes \in Nat \ {0} /\ W = B * WordBytes
<1> DEFINE q == W \div B
           r == W % B
<1>1. q \in Nat /\ W = B * q + r
  BY BandsAssumed
<1>2. r = 0 /\ q = WordBytes
  BY BandsAssumed DEF WordBytes
<1> HIDE DEF q, r
<1> QED
  BY <1>1, <1>2, BandsAssumed

LEMMA Products ==
  ASSUME NEW m \in Nat \ {0}, NEW p \in Nat, NEW q \in Nat
  PROVE  m * p \in Nat /\ (p <= q => m * p <= m * q) /\ m * (p + q) = m * p + m * q
  OBVIOUS

LEMMA PlaceIs ==
  ASSUME NEW i \in Nat \ {0}, NEW b \in 0 .. B - 1
  PROVE  /\ Place(i, b) \in Nat
         /\ Place(i, b) < W <=> i <= WordBytes
         /\ Place(i + WordBytes, b) = Place(i, b) + W
<1> DEFINE j == i - 1
           k == WordBytes
           p == B * j
<1>1. j \in Nat /\ k \in Nat \ {0} /\ W = B * k /\ i = j + 1
  BY WordIsBytes
<1> HIDE DEF j, k
<1>2. B * j \in Nat /\ B * (j + 1) = B * j + B /\ B * (j + k) = B * j + B * k
  BY <1>1, BandsAssumed, Products
<1>3. j < k => B * (j + 1) <= B * k
  BY <1>1, BandsAssumed, Products
<1>4. k <= j => B * k <= B * j
  BY <1>1, BandsAssumed, Products
<1>5. Place(i, b) = B * j + b /\ Place(i + WordBytes, b) = B * (j + k) + b
  BY <1>1 DEF Place, j, k
<1>6. i <= WordBytes <=> j < k
  BY <1>1 DEF k
<1> DEFINE x == B * j
           y == B * k
<1>7. /\ x \in Nat /\ (j < k => x + B <= y) /\ (k <= j => y <= x) /\ W = y
      /\ Place(i, b) = x + b /\ Place(i + WordBytes, b) = x + y + b
  BY <1>1, <1>2, <1>3, <1>4, <1>5, BandsAssumed
<1> HIDE DEF x, y
<1>8. Place(i, b) < W <=> j < k
  BY <1>1, <1>7, BandsAssumed
<1> QED
  BY <1>6, <1>7, <1>8, BandsAssumed

LEMMA PlaceOf ==
  ASSUME NEW x \in Nat
  PROVE  \E i \in Nat \ {0}, b \in 0 .. B - 1 : x = Place(i, b)
<1> DEFINE q == x \div B
           r == x % B
           i == q + 1
<1>1. q \in Nat /\ r \in 0 .. B - 1 /\ x = B * q + r
  BY BandsAssumed
<1> HIDE DEF q, r
<1>2. i \in Nat \ {0} /\ x = Place(i, r)
  BY <1>1 DEF Place
<1> HIDE DEF i
<1> QED
  BY <1>1, <1>2

LEMMA InBandsIn ==
  ASSUME NEW s, NEW n
  PROVE  n \in Request!BandsIn(s) <=> \E i \in DOMAIN s : \E b \in s[i] : n = Place(i, b) + 1
  BY DEF Request!BandsIn, Place

LEMMA LittleEndianIs ==
  ASSUME NEW word
  PROVE  /\ Request!LittleEndian(word) \in Seq(SUBSET (0 .. B - 1))
         /\ Len(Request!LittleEndian(word)) = WordBytes
         /\ DOMAIN Request!LittleEndian(word) = 1 .. WordBytes
         /\ \A i \in 1 .. WordBytes :
              Request!LittleEndian(word)[i] = {b \in 0 .. B - 1 : Place(i, b) \in word}
<1> DEFINE s == Request!LittleEndian(word)
<1>1. s = [i \in 1 .. WordBytes |-> {b \in 0 .. B - 1 : Place(i, b) \in word}]
  BY DEF Request!LittleEndian, WordBytes, Place
<1>2. WordBytes \in Nat
  BY WordIsBytes
<1> HIDE DEF s
<1>3. s \in [1 .. WordBytes -> SUBSET (0 .. B - 1)]
  BY <1>1
<1>4. s \in Seq(SUBSET (0 .. B - 1))
  BY <1>2, <1>3
<1>5. Len(s) \in Nat /\ DOMAIN s = 1 .. Len(s) /\ DOMAIN s = 1 .. WordBytes
  BY <1>3, <1>4, LenProperties
<1>6. Len(s) = WordBytes
  <2>1. WordBytes \in 1 .. WordBytes
    BY WordIsBytes
  <2>2. WordBytes \in 1 .. Len(s)
    BY <1>5, <2>1
  <2>3. Len(s) \in 1 .. Len(s)
    BY <1>2, <1>5, <2>2
  <2>4. Len(s) \in 1 .. WordBytes
    BY <1>5, <2>3
  <2>5. Len(s) \in Nat
    BY <1>5
  <2> QED
    BY <1>2, <2>2, <2>4, <2>5
<1> QED
  BY <1>1, <1>4, <1>5, <1>6 DEF s

(* The modem reads in the bytes of a word the bands of its bits.           *)
LEMMA WordArrives ==
  ASSUME NEW word \in Request!Word
  PROVE  Request!BandsIn(Request!LittleEndian(word)) = {x + 1 : x \in word}
<1> DEFINE s == Request!LittleEndian(word)
<1>1. /\ DOMAIN s = 1 .. WordBytes /\ WordBytes \in Nat
      /\ \A i \in 1 .. WordBytes : s[i] = {b \in 0 .. B - 1 : Place(i, b) \in word}
  BY LittleEndianIs, WordIsBytes
<1> HIDE DEF s
<1>2. ASSUME NEW n \in Request!BandsIn(s) PROVE n \in {x + 1 : x \in word}
  BY <1>1, InBandsIn
<1>3. ASSUME NEW x \in word PROVE x + 1 \in Request!BandsIn(s)
  <2>1. x \in Nat /\ x < W
    BY BandsAssumed DEF Request!Word
  <2>2. PICK i \in Nat \ {0}, b \in 0 .. B - 1 : x = Place(i, b)
    BY <2>1, PlaceOf
  <2>3. i \in 1 .. WordBytes
    BY <1>1, <2>1, <2>2, PlaceIs
  <2>4. b \in s[i] /\ i \in DOMAIN s
    BY <1>1, <2>2, <2>3
  <2> QED
    BY <2>2, <2>4, InBandsIn
<1> QED
  BY <1>2, <1>3 DEF s

Mask == [low : Request!Word, high : Request!Word]

(* The bands of a mask: those of the low word, and W further those of the  *)
(* high one.                                                               *)
LEMMA BandsAre ==
  ASSUME NEW mask \in Mask
  PROVE  /\ Request!Bands(mask) = {x + 1 : x \in mask.low} \cup {x + W + 1 : x \in mask.high}
         /\ Request!Bands(mask) \cap (1 .. W) = {x + 1 : x \in mask.low}
         /\ Request!Bands(mask) # {} => mask.low # {} \/ mask.high # {}
         /\ Request!Bands(mask) \subseteq 1 .. 2 * W
<1> DEFINE low  == mask.low
           high == mask.high
<1>1. low \subseteq 0 .. W - 1 /\ high \subseteq 0 .. W - 1 /\ W \in Nat \ {0}
  BY BandsAssumed DEF Mask, Request!Word
<1>2. \A n : n \in Request!Bands(mask) <=>
               /\ n \in 1 .. 2 * W
               /\ IF n <= W THEN n - 1 \in low ELSE n - (W + 1) \in high
  BY DEF Request!Bands, Request!HasBand, Request!Bit
<1> HIDE DEF low, high
<1>3. \A n \in Request!Bands(mask) :
        IF n <= W THEN n \in {x + 1 : x \in low} ELSE n \in {x + W + 1 : x \in high}
  <2>1. ASSUME NEW n \in Request!Bands(mask), n <= W PROVE n \in {x + 1 : x \in low}
    <3>1. n - 1 \in low /\ n = (n - 1) + 1
      BY <1>2, <2>1
    <3> QED
      BY <3>1
  <2>2. ASSUME NEW n \in Request!Bands(mask), ~(n <= W) PROVE n \in {x + W + 1 : x \in high}
    <3>1. n - (W + 1) \in high /\ n = (n - (W + 1)) + W + 1
      BY <1>1, <1>2, <2>2
    <3> QED
      BY <3>1
  <2> QED
    BY <2>1, <2>2
<1>4. ASSUME NEW x \in low PROVE x + 1 \in Request!Bands(mask) /\ x + 1 \in 1 .. W
  <2>1. x + 1 \in 1 .. 2 * W /\ x + 1 <= W /\ (x + 1) - 1 = x
    BY <1>1
  <2> QED
    BY <1>1, <1>2, <2>1
<1>5. ASSUME NEW x \in high PROVE x + W + 1 \in Request!Bands(mask) /\ ~(x + W + 1 <= W)
  <2>1. x + W + 1 \in 1 .. 2 * W /\ ~(x + W + 1 <= W) /\ (x + W + 1) - (W + 1) = x
    BY <1>1
  <2> QED
    BY <1>2, <2>1
<1>6. Request!Bands(mask) = {x + 1 : x \in low} \cup {x + W + 1 : x \in high}
  BY <1>3, <1>4, <1>5
<1>7. Request!Bands(mask) \cap (1 .. W) = {x + 1 : x \in low}
  BY <1>1, <1>3, <1>4
<1>8. Request!Bands(mask) # {} => low # {} \/ high # {}
  BY <1>6
<1> QED
  BY <1>2, <1>6, <1>7, <1>8 DEF low, high

(* Both words one after the other keep every band of the mask,             *)
LEMMA MaskArrives ==
  ASSUME NEW mask \in Mask
  PROVE  Request!BandsIn(Request!Bytes(mask)) = Request!Bands(mask)
<1> DEFINE s == Request!LittleEndian(mask.low)
           t == Request!LittleEndian(mask.high)
           k == WordBytes
<1>1. mask.low \in Request!Word /\ mask.high \in Request!Word
  BY DEF Mask
<1>2. /\ s \in Seq(SUBSET (0 .. B - 1)) /\ t \in Seq(SUBSET (0 .. B - 1))
      /\ Len(s) = k /\ Len(t) = k /\ DOMAIN s = 1 .. k /\ DOMAIN t = 1 .. k
  BY LittleEndianIs
<1>3. /\ Request!BandsIn(s) = {x + 1 : x \in mask.low}
      /\ Request!BandsIn(t) = {x + 1 : x \in mask.high}
  BY <1>1, WordArrives
<1>4. k \in Nat \ {0}
  BY WordIsBytes
<1>5. Request!Bytes(mask) = s \o t
  BY DEF Request!Bytes
<1> HIDE DEF s, t
<1> DEFINE u == s \o t
<1>6. u \in Seq(SUBSET (0 .. B - 1)) /\ Len(u) = k + k
  BY <1>2, ConcatProperties
<1>7. \A i \in 1 .. k + k : u[i] = IF i <= k THEN s[i] ELSE t[i - k]
  BY <1>2, ConcatProperties
<1>8. DOMAIN u = 1 .. k + k
  BY <1>6, LenProperties
<1> HIDE DEF u, k
<1>9. \A i \in 1 .. k : i \in DOMAIN u /\ u[i] = s[i]
  BY <1>4, <1>7, <1>8
<1>10. \A i \in 1 .. k : i + k \in DOMAIN u /\ u[i + k] = t[i]
  <2>1. ASSUME NEW i \in 1 .. k PROVE i + k \in DOMAIN u /\ u[i + k] = t[i]
    <3>1. i + k \in 1 .. k + k /\ ~(i + k <= k) /\ (i + k) - k = i
      BY <1>4
    <3> QED
      BY <1>7, <1>8, <3>1
  <2> QED
    BY <2>1
<1>11. \A i \in DOMAIN u : i \in 1 .. k \/ \E j \in 1 .. k : i = j + k
  <2>1. ASSUME NEW i \in 1 .. k + k, ~(i <= k) PROVE i - k \in 1 .. k /\ i = (i - k) + k
    BY <1>4, <2>1
  <2>2. \A i \in 1 .. k + k : i <= k => i \in 1 .. k
    BY <1>4
  <2> QED
    BY <1>8, <2>1, <2>2
<1>12. \A i \in 1 .. k : s[i] \subseteq 0 .. B - 1 /\ t[i] \subseteq 0 .. B - 1
  BY <1>2, ElementOfSeq DEF k
<1>13. \A i \in 1 .. k, b \in 0 .. B - 1 :
         /\ Place(i, b) \in Nat /\ Place(i + k, b) = Place(i, b) + W
  BY <1>4, PlaceIs DEF k
<1>14. ASSUME NEW n \in Request!BandsIn(u)
       PROVE  n \in {x + 1 : x \in mask.low} \cup {x + W + 1 : x \in mask.high}
  <2>1. PICK i \in DOMAIN u : \E b \in u[i] : n = Place(i, b) + 1
    BY InBandsIn
  <2>2. PICK b \in u[i] : n = Place(i, b) + 1
    BY <2>1
  <2>3. CASE i \in 1 .. k
    <3>1. n \in Request!BandsIn(s)
      BY <1>2, <1>9, <2>2, <2>3, InBandsIn DEF k
    <3> QED
      BY <1>3, <3>1
  <2>4. ASSUME NEW j \in 1 .. k, i = j + k PROVE n \in {x + W + 1 : x \in mask.high}
    <3>1. b \in t[j] /\ b \in 0 .. B - 1
      BY <1>10, <1>12, <2>4
    <3>2. n = Place(j, b) + W + 1 /\ Place(j, b) \in Nat
      BY <1>13, <2>2, <2>4, <3>1
    <3>3. Place(j, b) + 1 \in Request!BandsIn(t)
      BY <1>2, <3>1, InBandsIn DEF k
    <3>4. PICK x \in mask.high : Place(j, b) + 1 = x + 1
      BY <1>3, <3>3
    <3>5. x = Place(j, b)
      BY <1>1, <3>2, <3>4, BandsAssumed DEF Request!Word
    <3> QED
      BY <3>2, <3>5
  <2> QED
    BY <1>11, <2>3, <2>4
<1>15. ASSUME NEW x \in mask.low PROVE x + 1 \in Request!BandsIn(u)
  <2>1. x + 1 \in Request!BandsIn(s)
    BY <1>3
  <2>2. PICK i \in DOMAIN s : \E b \in s[i] : x + 1 = Place(i, b) + 1
    BY <2>1, InBandsIn
  <2>3. i \in DOMAIN u /\ u[i] = s[i]
    BY <1>2, <1>9 DEF k
  <2> QED
    BY <2>2, <2>3, InBandsIn
<1>16. ASSUME NEW x \in mask.high PROVE x + W + 1 \in Request!BandsIn(u)
  <2>1. x + 1 \in Request!BandsIn(t)
    BY <1>3
  <2>2. PICK i \in DOMAIN t : \E b \in t[i] : x + 1 = Place(i, b) + 1
    BY <2>1, InBandsIn
  <2>3. PICK b \in t[i] : x + 1 = Place(i, b) + 1
    BY <2>2
  <2>4. i \in 1 .. k
    BY <1>2 DEF k
  <2>5. b \in 0 .. B - 1 /\ i + k \in DOMAIN u /\ u[i + k] = t[i]
    BY <1>10, <1>12, <2>4
  <2>6. Place(i, b) \in Nat /\ Place(i + k, b) = Place(i, b) + W
    BY <1>13, <2>4, <2>5
  <2>7. x + W + 1 = Place(i + k, b) + 1
    BY <1>1, <2>3, <2>6, BandsAssumed DEF Request!Word
  <2>8. b \in u[i + k]
    BY <2>5
  <2> QED
    BY <2>5, <2>7, <2>8, InBandsIn
<1>17. Request!BandsIn(u) = {x + 1 : x \in mask.low} \cup {x + W + 1 : x \in mask.high}
  BY <1>14, <1>15, <1>16
<1> QED
  BY <1>5, <1>17, BandsAre DEF u

(* and the NV item for NR those of the low word.                           *)
LEMMA NrPayloadArrives ==
  ASSUME NEW mask \in Mask
  PROVE  Request!BandsIn(Request!NrPayload(mask)) = Request!Bands(mask) \cap (1 .. W)
<1> DEFINE s == Request!NrPayload(mask)
<1>1. WordBytes \in Nat \ {0} /\ W \in Nat \ {0}
  BY WordIsBytes, BandsAssumed
<1>2. s = [i \in 1 .. 4 * WordBytes |->
             {b \in 0 .. B - 1 : Place(i, b) < W /\ Request!HasBand(mask, Place(i, b) + 1)}]
  BY DEF Request!NrPayload, WordBytes, Place
<1> HIDE DEF s
<1>3. DOMAIN s = 1 .. 4 * WordBytes
  BY <1>2
<1>4. \A i \in 1 .. 4 * WordBytes : \A b : b \in s[i] <=>
        /\ b \in 0 .. B - 1 /\ Place(i, b) < W /\ Request!HasBand(mask, Place(i, b) + 1)
  BY <1>2
<1>5. ASSUME NEW n \in Request!BandsIn(s) PROVE n \in Request!Bands(mask) \cap (1 .. W)
  <2>1. PICK i \in DOMAIN s : \E b \in s[i] : n = Place(i, b) + 1
    BY InBandsIn
  <2>2. PICK b \in s[i] : n = Place(i, b) + 1
    BY <2>1
  <2>3. b \in 0 .. B - 1 /\ Place(i, b) < W /\ Request!HasBand(mask, n)
    BY <1>3, <1>4, <2>2
  <2>4. i \in Nat \ {0}
    BY <1>1, <1>3
  <2>5. Place(i, b) \in Nat
    BY <2>3, <2>4, PlaceIs
  <2> QED
    BY <1>1, <2>2, <2>3, <2>5 DEF Request!Bands
<1>6. ASSUME NEW n \in Request!Bands(mask) \cap (1 .. W) PROVE n \in Request!BandsIn(s)
  <2> DEFINE x == n - 1
  <2>1. x \in Nat /\ x < W /\ n = x + 1 /\ Request!HasBand(mask, x + 1)
    BY <1>1 DEF Request!Bands
  <2> HIDE DEF x
  <2>2. PICK i \in Nat \ {0}, b \in 0 .. B - 1 : x = Place(i, b)
    BY <2>1, PlaceOf
  <2>3. i \in 1 .. 4 * WordBytes
    BY <1>1, <2>1, <2>2, PlaceIs
  <2>4. b \in s[i]
    BY <1>4, <2>1, <2>2, <2>3
  <2> QED
    BY <1>3, <2>1, <2>2, <2>3, <2>4, InBandsIn
<1> QED
  BY <1>5, <1>6 DEF s

-----------------------------------------------------------------------------
(* What a box does to the bands of a mask.                                 *)
LEMMA WithShows ==
  ASSUME NEW mask \in Mask, NEW b \in 1 .. 2 * W, NEW on \in BOOLEAN
  PROVE  /\ Request!With(mask, b, on) \in Mask
         /\ Request!Bands(Request!With(mask, b, on)) = Request!Change(Request!Bands(mask), b, on)
<1> DEFINE new == Request!With(mask, b, on)
           bit == Request!Bit(b)
<1>1. W \in Nat \ {0} /\ mask.low \subseteq 0 .. W - 1 /\ mask.high \subseteq 0 .. W - 1
      /\ mask = [low |-> mask.low, high |-> mask.high]
  BY BandsAssumed DEF Mask, Request!Word
<1>2. bit = IF b <= W THEN b - 1 ELSE b - (W + 1)
  BY DEF Request!Bit
<1>3. bit \in 0 .. W - 1
  BY <1>1, <1>2
<1>4. new = IF b <= W THEN [mask EXCEPT !.low = Request!Put(mask.low, bit, on)]
            ELSE [mask EXCEPT !.high = Request!Put(mask.high, bit, on)]
  BY DEF Request!With
<1>5. \A word : Request!Put(word, bit, on) = IF on = TRUE THEN word \cup {bit} ELSE word \ {bit}
  BY DEF Request!Put
<1>6. /\ new.low = IF b <= W THEN Request!Put(mask.low, bit, on) ELSE mask.low
      /\ new.high = IF b <= W THEN mask.high ELSE Request!Put(mask.high, bit, on)
      /\ new = [low |-> new.low, high |-> new.high]
  BY <1>1, <1>4
<1> HIDE DEF new, bit
<1>7. new.low \subseteq 0 .. W - 1 /\ new.high \subseteq 0 .. W - 1
  BY <1>1, <1>3, <1>5, <1>6
<1>8. new \in Mask
  BY <1>6, <1>7 DEF Mask, Request!Word
<1>9. \A m : \A n : n \in Request!Bands(m) <=>
               /\ n \in 1 .. 2 * W
               /\ IF n <= W THEN n - 1 \in m.low ELSE n - (W + 1) \in m.high
  BY DEF Request!Bands, Request!HasBand, Request!Bit
<1>10. ASSUME NEW n \in 1 .. 2 * W
       PROVE  n \in Request!Bands(new) <=>
                IF n = b THEN on = TRUE ELSE n \in Request!Bands(mask)
  <2>1. CASE n <= W /\ b <= W
    <3>1. n - 1 = bit <=> n = b
      BY <1>1, <1>2, <2>1
    <3>2. n \in Request!Bands(new) <=> n - 1 \in Request!Put(mask.low, bit, on)
      BY <1>6, <1>9, <2>1
    <3> QED
      BY <1>5, <1>9, <2>1, <3>1, <3>2
  <2>2. CASE ~(n <= W) /\ ~(b <= W)
    <3>1. n - (W + 1) = bit <=> n = b
      BY <1>1, <1>2, <2>2
    <3>2. n \in Request!Bands(new) <=> n - (W + 1) \in Request!Put(mask.high, bit, on)
      BY <1>6, <1>9, <2>2
    <3> QED
      BY <1>5, <1>9, <2>2, <3>1, <3>2
  <2>3. CASE (n <= W) /\ ~(b <= W)
    BY <1>6, <1>9, <2>3
  <2>4. CASE ~(n <= W) /\ (b <= W)
    BY <1>6, <1>9, <2>4
  <2> QED
    BY <2>1, <2>2, <2>3, <2>4
<1>11. Request!Bands(new) \subseteq 1 .. 2 * W /\ Request!Bands(mask) \subseteq 1 .. 2 * W
  BY <1>9
<1>12. Request!Change(Request!Bands(mask), b, on) =
         IF on = TRUE THEN Request!Bands(mask) \cup {b} ELSE Request!Bands(mask) \ {b}
  BY DEF Request!Change
<1>13. Request!Bands(new) = Request!Change(Request!Bands(mask), b, on)
  BY <1>10, <1>11, <1>12
<1> QED
  BY <1>8, <1>13 DEF new

LEMMA OfShows ==
  ASSUME NEW bands \in SUBSET (1 .. 2 * W)
  PROVE  Request!Of(bands) \in Mask /\ Request!Bands(Request!Of(bands)) = bands
<1> DEFINE mask == Request!Of(bands)
<1>1. W \in Nat \ {0}
  BY BandsAssumed
<1>2. /\ mask = [low |-> mask.low, high |-> mask.high]
      /\ mask.low = {b - 1 : b \in {c \in bands : c <= W}}
      /\ mask.high = {b - (W + 1) : b \in {c \in bands : c > W}}
  BY DEF Request!Of
<1> HIDE DEF mask
<1>3. mask.low \subseteq 0 .. W - 1
  BY <1>1, <1>2
<1>4. mask.high \subseteq 0 .. W - 1
  BY <1>1, <1>2
<1>5. mask \in Mask
  BY <1>2, <1>3, <1>4 DEF Mask, Request!Word
<1>6. \A n : n \in Request!Bands(mask) <=>
               /\ n \in 1 .. 2 * W
               /\ IF n <= W THEN n - 1 \in mask.low ELSE n - (W + 1) \in mask.high
  BY DEF Request!Bands, Request!HasBand, Request!Bit
<1>7. ASSUME NEW n \in 1 .. 2 * W, n <= W PROVE n \in Request!Bands(mask) <=> n \in bands
  <2>1. ASSUME n - 1 \in mask.low PROVE n \in bands
    <3>1. PICK c \in bands : c <= W /\ n - 1 = c - 1
      BY <1>2, <2>1
    <3>2. n = c
      BY <3>1
    <3> QED
      BY <3>2
  <2>2. n \in bands => n - 1 \in mask.low
    BY <1>2, <1>7
  <2> QED
    BY <1>6, <1>7, <2>1, <2>2
<1>8. ASSUME NEW n \in 1 .. 2 * W, ~(n <= W) PROVE n \in Request!Bands(mask) <=> n \in bands
  <2>1. ASSUME n - (W + 1) \in mask.high PROVE n \in bands
    <3>1. PICK c \in bands : c > W /\ n - (W + 1) = c - (W + 1)
      BY <1>2, <2>1
    <3>2. n = c
      BY <1>1, <3>1
    <3> QED
      BY <3>2
  <2>2. n \in bands => n - (W + 1) \in mask.high
    <3>1. n > W
      BY <1>1, <1>8
    <3> QED
      BY <1>2, <3>1
  <2> QED
    BY <1>6, <1>8, <2>1, <2>2
<1>9. Request!Bands(mask) = bands
  BY <1>6, <1>7, <1>8
<1> QED
  BY <1>5, <1>9 DEF mask

LEMMA NoneShows == Request!NONE \in Mask /\ Request!Bands(Request!NONE) = {}
<1>1. Request!NONE \in Mask
  BY DEF Request!NONE, Mask, Request!Word
<1>2. Request!NONE.low = {} /\ Request!NONE.high = {}
  BY DEF Request!NONE
<1> QED
  BY <1>1, <1>2, BandsAre

LEMMA AllIsMask == Request!ALL \in Mask
  BY DEF Request!ALL, Mask, Request!Word

-----------------------------------------------------------------------------
(* The requests that a call is to send.                                    *)
PlanOf(p, lte, nr) ==
  CASE p = "none"  -> <<>>
    [] p = "reset" -> <<Request!DiagRequest(lte, nr)>>
    [] OTHER       -> Request!Requests(p, lte, nr)

LteTlvs(lte, nr) ==
  {Request!Tlv("mode", Request!QrtrMode(lte, nr))}
    \cup IF lte.low = {} THEN {} ELSE {Request!Tlv("qrtrLte", Request!LittleEndian(lte.low))}

NrTlvs(lte, nr) ==
  {Request!Tlv("mode", Request!QrtrMode(lte, nr)),
   Request!Tlv("nrSa", Request!Bytes(nr)), Request!Tlv("nrNsa", Request!Bytes(nr))}

LEMMA PlanIs ==
  ASSUME NEW p \in {"diag", "qmux", "qrtr", "efs", "reset", "none"}, NEW lte, NEW nr
  PROVE  PlanOf(p, lte, nr) =
           CASE p = "none" -> <<>>
             [] p \in {"diag", "qmux", "reset"} -> <<Request!DiagRequest(lte, nr)>>
             [] p = "efs" -> << {Request!Tlv("nvLte", Request!LittleEndian(lte.low))},
                                {Request!Tlv("nvNr", Request!NrPayload(nr))} >>
             [] p = "qrtr" -> IF Request!HaveNr(nr)
                              THEN <<LteTlvs(lte, nr), NrTlvs(lte, nr)>>
                              ELSE <<LteTlvs(lte, nr)>>
<1>1. Request!QmuxRequest(lte, nr) = Request!DiagRequest(lte, nr)
  BY DEF Request!QmuxRequest, Request!DiagRequest, Request!Bytes
<1>2. Request!QrtrRequests(lte, nr) =
        <<LteTlvs(lte, nr)>> \o IF Request!HaveNr(nr) THEN <<NrTlvs(lte, nr)>> ELSE <<>>
  BY DEF Request!QrtrRequests, LteTlvs, NrTlvs
<1>3. ASSUME NEW x, NEW y PROVE <<x>> \o <<y>> = <<x, y>>
  <2>1. /\ <<x>> \in Seq({x, y}) /\ <<y>> \in Seq({x, y}) /\ <<x, y>> \in Seq({x, y})
        /\ Len(<<x>>) = 1 /\ Len(<<y>>) = 1 /\ Len(<<x, y>>) = 2
    OBVIOUS
  <2> DEFINE c == <<x>> \o <<y>>
  <2>2. /\ c \in Seq({x, y}) /\ Len(c) = 1 + 1
        /\ \A i \in 1 .. 1 + 1 : c[i] = IF i <= 1 THEN <<x>>[i] ELSE <<y>>[i - 1]
    BY <2>1, ConcatProperties
  <2> HIDE DEF c
  <2>3. c[1] = x /\ c[2] = y
    BY <2>2
  <2>4. \A i \in 1 .. Len(c) : c[i] = <<x, y>>[i]
    BY <2>2, <2>3
  <2>5. c \in Seq({x, y}) /\ Len(c) = Len(<<x, y>>)
    BY <2>1, <2>2
  <2>6. c = <<x, y>>
    BY <2>1, <2>4, <2>5, SeqEqual, Zenon
  <2> QED
    BY <2>6 DEF c
<1>4. \A x : <<x>> \o <<>> = <<x>>
  <2>1. \A x : <<x>> \in Seq({x})
    OBVIOUS
  <2> QED
    BY <2>1, ConcatEmptySeq
<1>5. Request!QrtrRequests(lte, nr) =
        IF Request!HaveNr(nr) THEN <<LteTlvs(lte, nr), NrTlvs(lte, nr)>> ELSE <<LteTlvs(lte, nr)>>
  BY <1>2, <1>3, <1>4
<1>6. Request!EfsRequests(lte, nr) =
        << {Request!Tlv("nvLte", Request!LittleEndian(lte.low))},
           {Request!Tlv("nvNr", Request!NrPayload(nr))} >>
  BY DEF Request!EfsRequests
<1> QED
  BY <1>1, <1>5, <1>6 DEF PlanOf, Request!Requests

(* What an item can hold.                                                  *)
Room(it) == IF it = "mode" THEN Request!Technologies ELSE 1 .. 2 * W

(* A plan is a sequence of requests that do not disagree: an item is in    *)
(* them with one value only.                                               *)
Sound(plan) ==
  /\ \A j, k \in 1 .. Len(plan) : \A t \in plan[j] : \A u \in plan[k] : t.item = u.item => t = u
  /\ \A j \in 1 .. Len(plan) : \A t \in plan[j] :
       t.item \in Request!Items /\ Request!Value(t) \subseteq Room(t.item)

LEMMA ValuesOf ==
  ASSUME NEW lte \in Mask, NEW nr \in Mask
  PROVE  /\ \A it, value : Request!Tlv(it, value).item = it
         /\ \A value : Request!Value(Request!Tlv("mode", value)) = value
         /\ \A it, value : it # "mode" =>
              Request!Value(Request!Tlv(it, value)) = Request!BandsIn(value)
         /\ Request!BandsIn(Request!LittleEndian(lte.low)) = Request!Bands(lte) \cap (1 .. W)
         /\ Request!BandsIn(Request!Bytes(lte)) = Request!Bands(lte)
         /\ Request!BandsIn(Request!Bytes(nr)) = Request!Bands(nr)
         /\ Request!BandsIn(Request!NrPayload(nr)) = Request!Bands(nr) \cap (1 .. W)
         /\ Request!Bands(lte) \subseteq 1 .. 2 * W /\ Request!Bands(nr) \subseteq 1 .. 2 * W
<1>1. lte.low \in Request!Word
  BY DEF Mask
<1>2. Request!BandsIn(Request!LittleEndian(lte.low)) = Request!Bands(lte) \cap (1 .. W)
  BY <1>1, WordArrives, BandsAre
<1>3. /\ \A it, value : Request!Tlv(it, value).item = it
      /\ \A value : Request!Value(Request!Tlv("mode", value)) = value
      /\ \A it, value : it # "mode" =>
           Request!Value(Request!Tlv(it, value)) = Request!BandsIn(value)
  BY DEF Request!Tlv, Request!Value
<1> QED
  BY <1>2, <1>3, MaskArrives, NrPayloadArrives, BandsAre

AllPaths == {"diag", "qmux", "qrtr", "efs", "reset", "none"}

LEMMA PlanSound ==
  ASSUME NEW p \in AllPaths, NEW lte \in Mask, NEW nr \in Mask
  PROVE  /\ \E S : PlanOf(p, lte, nr) \in Seq(S)
         /\ Len(PlanOf(p, lte, nr)) \in 0 .. 2
         /\ Sound(PlanOf(p, lte, nr))
<1> DEFINE plan == PlanOf(p, lte, nr)
           diag == Request!DiagRequest(lte, nr)
           mode == Request!Tlv("mode", Request!QrtrMode(lte, nr))
           lt   == LteTlvs(lte, nr)
           nt   == NrTlvs(lte, nr)
           el   == {Request!Tlv("nvLte", Request!LittleEndian(lte.low))}
           en   == {Request!Tlv("nvNr", Request!NrPayload(nr))}
           Good(t) == t.item \in Request!Items /\ Request!Value(t) \subseteq Room(t.item)
<1>1. /\ Request!Technologies = {"LTE", "NR"}
      /\ Request!Items = {"legacy", "lte", "nrSa", "nrNsa", "nvLte", "nvNr", "qrtrLte", "mode"}
      /\ Request!QrtrMode(lte, nr) \subseteq Request!Technologies
  BY DEF Request!Technologies, Request!Items, Request!QrtrMode
<1>2. ASSUME NEW it \in Request!Items \ {"mode"}, NEW value,
             Request!BandsIn(value) \subseteq 1 .. 2 * W
      PROVE  Good(Request!Tlv(it, value))
  <2>1. Request!Tlv(it, value).item = it
    BY ValuesOf
  <2>2. Request!Value(Request!Tlv(it, value)) = Request!BandsIn(value)
    BY <1>2, ValuesOf
  <2> QED
    BY <1>2, <2>1, <2>2 DEF Room
<1>3. /\ Request!BandsIn(Request!LittleEndian(lte.low)) \subseteq 1 .. 2 * W
      /\ Request!BandsIn(Request!Bytes(lte)) \subseteq 1 .. 2 * W
      /\ Request!BandsIn(Request!Bytes(nr)) \subseteq 1 .. 2 * W
      /\ Request!BandsIn(Request!NrPayload(nr)) \subseteq 1 .. 2 * W
  <2>1. \A S : S \cap (1 .. W) \subseteq 1 .. 2 * W
    BY BandsAssumed
  <2> QED
    BY <2>1, ValuesOf
<1>4. ASSUME NEW value \in SUBSET Request!Technologies PROVE Good(Request!Tlv("mode", value))
  <2>1. Request!Tlv("mode", value).item = "mode" /\ Request!Value(Request!Tlv("mode", value)) = value
    BY ValuesOf
  <2> QED
    BY <1>1, <1>4, <2>1 DEF Room
<1>5. \A it, value : Request!Tlv(it, value).item = it
  BY ValuesOf
<1>6. (\A t \in diag : Good(t)) /\ \A t, u \in diag : t.item = u.item => t = u
  <2>1. diag = {Request!Tlv("mode", Request!Technologies),
                Request!Tlv("legacy", Request!LittleEndian(lte.low)),
                Request!Tlv("lte", Request!Bytes(lte)),
                Request!Tlv("nrSa", Request!Bytes(nr)), Request!Tlv("nrNsa", Request!Bytes(nr))}
    BY DEF Request!DiagRequest
  <2>2. /\ Good(Request!Tlv("legacy", Request!LittleEndian(lte.low)))
        /\ Good(Request!Tlv("lte", Request!Bytes(lte)))
        /\ Good(Request!Tlv("nrSa", Request!Bytes(nr)))
        /\ Good(Request!Tlv("nrNsa", Request!Bytes(nr)))
        /\ Good(Request!Tlv("mode", Request!Technologies))
    BY <1>1, <1>2, <1>3, <1>4
  <2> HIDE DEF Good, diag
  <2> QED
    BY <1>5, <2>1, <2>2
<1>7. /\ \A t \in lt \cup nt : Good(t)
      /\ \A t, u \in lt \cup nt : t.item = u.item => t = u
  <2>1. /\ Good(mode) /\ Good(Request!Tlv("qrtrLte", Request!LittleEndian(lte.low)))
        /\ Good(Request!Tlv("nrSa", Request!Bytes(nr)))
        /\ Good(Request!Tlv("nrNsa", Request!Bytes(nr)))
    BY <1>1, <1>2, <1>3, <1>4
  <2>2. lt \cup nt \subseteq
          {mode, Request!Tlv("qrtrLte", Request!LittleEndian(lte.low)),
           Request!Tlv("nrSa", Request!Bytes(nr)), Request!Tlv("nrNsa", Request!Bytes(nr))}
    BY DEF LteTlvs, NrTlvs
  <2>3. mode.item = "mode"
    BY <1>5
  <2> HIDE DEF Good, mode, lt, nt
  <2> QED
    BY <1>5, <2>1, <2>2, <2>3
<1>8. /\ \A t \in el \cup en : Good(t)
      /\ \A t, u \in el \cup en : t.item = u.item => t = u
  <2>1. /\ Good(Request!Tlv("nvLte", Request!LittleEndian(lte.low)))
        /\ Good(Request!Tlv("nvNr", Request!NrPayload(nr)))
    BY <1>1, <1>2, <1>3
  <2> HIDE DEF Good
  <2> QED
    BY <1>5, <2>1
<1>9. ASSUME NEW s, NEW all, s \in Seq(SUBSET all), Len(s) \in 0 .. 2,
             \A t \in all : Good(t), \A t, u \in all : t.item = u.item => t = u
      PROVE  (\E S : s \in Seq(S)) /\ Len(s) \in 0 .. 2 /\ Sound(s)
  <2>1. \A j \in 1 .. Len(s) : \A t \in s[j] : t \in all
    BY <1>9, ElementOfSeq
  <2> QED
    BY <1>9, <2>1 DEF Sound
<1> HIDE DEF Good, diag, lt, nt, el, en
<1>10. \A x, all : x \in SUBSET all => <<x>> \in Seq(SUBSET all) /\ Len(<<x>>) \in 0 .. 2
  OBVIOUS
<1>11. \A x, y, all : x \in SUBSET all /\ y \in SUBSET all =>
         <<x, y>> \in Seq(SUBSET all) /\ Len(<<x, y>>) \in 0 .. 2
  OBVIOUS
<1>12. plan \in {<<>>, <<diag>>, <<el, en>>, <<lt, nt>>, <<lt>>}
  BY PlanIs DEF AllPaths, diag, el, en, lt, nt
<1> HIDE DEF plan
<1>13. CASE plan = <<>>
  <2>1. plan \in Seq({}) /\ Len(plan) = 0 /\ 1 .. Len(plan) = {}
    BY <1>13, EmptySeq
  <2>2. Sound(plan)
    BY <2>1 DEF Sound
  <2>3. (\E S : plan \in Seq(S)) /\ Len(plan) \in 0 .. 2
    BY <2>1
  <2> QED
    BY <2>2, <2>3 DEF plan
<1>14. CASE plan = <<diag>>
  <2>1. plan \in Seq(SUBSET diag) /\ Len(plan) \in 0 .. 2
    BY <1>10, <1>14
  <2> QED
    BY <1>6, <1>9, <2>1 DEF plan
<1>15. CASE plan = <<el, en>>
  <2>1. plan \in Seq(SUBSET (el \cup en)) /\ Len(plan) \in 0 .. 2
    BY <1>11, <1>15
  <2> QED
    BY <1>8, <1>9, <2>1 DEF plan
<1>16. CASE plan = <<lt, nt>> \/ plan = <<lt>>
  <2> DEFINE all == lt \cup nt
  <2>2. lt \in SUBSET all /\ nt \in SUBSET all
    OBVIOUS
  <2> HIDE DEF all
  <2>3. /\ <<lt>> \in Seq(SUBSET all) /\ Len(<<lt>>) \in 0 .. 2
        /\ <<lt, nt>> \in Seq(SUBSET all) /\ Len(<<lt, nt>>) \in 0 .. 2
    BY <1>10, <1>11, <2>2
  <2>1. plan \in Seq(SUBSET (lt \cup nt)) /\ Len(plan) \in 0 .. 2
    BY <1>16, <2>3 DEF all
  <2> QED
    BY <1>7, <1>9, <2>1 DEF plan
<1> QED
  BY <1>12, <1>13, <1>14, <1>15, <1>16

-----------------------------------------------------------------------------
(* The call in progress has its last requests to send still, and if none   *)
(* was rejected the modem has what the others asked for.                   *)
Plan        == PlanOf(path, asked.lte, asked.nr)
Taken(sent) == \A t \in sent : pref[t.item] = Request!Value(t)

Progress ==
  \E k \in 0 .. Len(Plan) :
    /\ todo = SubSeq(Plan, k + 1, Len(Plan))
    /\ bandRc = "ok" => \A j \in 1 .. k : Taken(Plan[j])

BandsTypes ==
  /\ lteMask \in Mask /\ nrMask \in Mask /\ asked \in [lte : Mask, nr : Mask]
  /\ checked \in [lte : SUBSET Lte, nr : SUBSET Nr]
  /\ DOMAIN pref = Request!Items /\ \A it \in Request!Items : pref[it] \subseteq Room(it)
  /\ path \in Paths \cup {"none", "reset"} /\ bandRc \in {"none", "ok", "rejected"}

BandsInv == BandsTypes /\ Request!MaskShowsBoxes /\ Progress

LEMMA BandsInitially == Request!Init => BandsInv
<1> SUFFICES ASSUME Request!Init PROVE BandsInv
  OBVIOUS
<1>1. Lte \subseteq 1 .. 2 * W /\ Nr \subseteq 1 .. 2 * W
  BY BandsAssumed
<1>2. /\ Request!Of(Lte) \in Mask /\ Request!Bands(Request!Of(Lte)) = Lte
      /\ Request!Of(Nr) \in Mask /\ Request!Bands(Request!Of(Nr)) = Nr
  BY <1>1, OfShows
<1>3. BandsTypes
  BY <1>2 DEF Request!Init, BandsTypes
<1>4. Request!MaskShowsBoxes
  BY <1>2 DEF Request!Init, Request!MaskShowsBoxes
<1>5. Plan = <<>> /\ Len(Plan) = 0
  BY DEF Request!Init, Plan, PlanOf
<1>6. SubSeq(Plan, 0 + 1, Len(Plan)) = <<>>
  BY <1>5, SubSeqEmpty
<1>7. Progress
  BY <1>5, <1>6 DEF Request!Init, Progress
<1> QED
  BY <1>3, <1>4, <1>7 DEF BandsInv

LEMMA PlanTypes ==
  ASSUME BandsTypes
  PROVE  /\ path \in AllPaths /\ asked.lte \in Mask /\ asked.nr \in Mask
         /\ \E S : Plan \in Seq(S)
         /\ Len(Plan) \in 0 .. 2 /\ Sound(Plan)
<1>1. path \in AllPaths
  BY OperationsAssumption DEF BandsTypes, AllPaths, Request!BandAssumption
<1>2. asked.lte \in Mask /\ asked.nr \in Mask
  BY DEF BandsTypes
<1> QED
  BY <1>1, <1>2, PlanSound DEF Plan

(* The modem takes the next request, or rejects it.                        *)
LEMMA NextOfPlan ==
  ASSUME BandsTypes, NEW k \in 0 .. Len(Plan), todo = SubSeq(Plan, k + 1, Len(Plan)), todo # <<>>
  PROVE  /\ k + 1 \in 1 .. Len(Plan) /\ Head(todo) = Plan[k + 1]
         /\ Tail(todo) = SubSeq(Plan, (k + 1) + 1, Len(Plan))
<1>1. PICK S : Plan \in Seq(S)
  BY PlanTypes
<1>2. Len(Plan) \in Nat
  BY PlanTypes
<1>3. k # Len(Plan)
  <2>1. SubSeq(Plan, Len(Plan) + 1, Len(Plan)) = <<>>
    BY <1>2, SubSeqEmpty
  <2> QED
    BY <2>1
<1>4. k + 1 \in 1 .. Len(Plan) /\ Len(Plan) \in (k + 1) .. Len(Plan)
  BY <1>2, <1>3
<1> QED
  BY <1>1, <1>4, HeadTailOfSubSeq

LEMMA AcceptKeeps ==
  ASSUME BandsTypes, NEW k \in 0 .. Len(Plan), k + 1 \in 1 .. Len(Plan),
         Head(todo) = Plan[k + 1], Request!ModemAccepts
  PROVE  /\ \A j \in 1 .. k : Taken(Plan[j]) => \A t \in Plan[j] : pref'[t.item] = Request!Value(t)
         /\ \A t \in Plan[k + 1] : pref'[t.item] = Request!Value(t)
         /\ DOMAIN pref' = Request!Items
         /\ \A it \in Request!Items : pref'[it] \subseteq Room(it)
<1> DEFINE req == Head(todo)
           Said(it) == CHOOSE t \in req : t.item = it
<1>1. pref' = [it \in Request!Items |->
                 IF \E t \in req : t.item = it THEN Request!Value(Said(it)) ELSE pref[it]]
  BY DEF Request!ModemAccepts
<1>2. Sound(Plan) /\ req = Plan[k + 1] /\ Len(Plan) \in Nat
  BY PlanTypes
<1>3. \A it : (\E t \in req : t.item = it) => Said(it) \in req /\ Said(it).item = it
  OBVIOUS
<1> HIDE DEF req, Said
<1>4. ASSUME NEW j \in 1 .. Len(Plan), NEW t \in Plan[j], NEW u \in req, u.item = t.item
      PROVE  pref'[t.item] = Request!Value(t)
  <2>1. t.item \in Request!Items
    BY <1>2 DEF Sound
  <2>2. Said(t.item) \in req /\ Said(t.item).item = t.item
    BY <1>3, <1>4
  <2>3. Said(t.item) = t
    BY <1>2, <2>2 DEF Sound
  <2> QED
    BY <1>1, <1>4, <2>1, <2>3
<1>5. ASSUME NEW t \in Plan[k + 1] PROVE pref'[t.item] = Request!Value(t)
  BY <1>2, <1>4
<1>6. ASSUME NEW j \in 1 .. k, Taken(Plan[j]), NEW t \in Plan[j]
      PROVE  pref'[t.item] = Request!Value(t)
  <2>1. j \in 1 .. Len(Plan)
    BY <1>2
  <2>2. t.item \in Request!Items
    BY <1>2, <2>1 DEF Sound
  <2>3. CASE \E u \in req : u.item = t.item
    BY <1>4, <2>1, <2>3
  <2>4. CASE ~\E u \in req : u.item = t.item
    BY <1>1, <1>6, <2>2, <2>4 DEF Taken
  <2> QED
    BY <2>3, <2>4
<1>7. ASSUME NEW it \in Request!Items PROVE pref'[it] \subseteq Room(it)
  <2>1. CASE \E u \in req : u.item = it
    <3>1. Said(it) \in Plan[k + 1] /\ Said(it).item = it
      BY <1>2, <1>3, <2>1
    <3>2. Request!Value(Said(it)) \subseteq Room(it)
      BY <1>2, <3>1 DEF Sound
    <3> QED
      BY <1>1, <2>1, <3>2
  <2>2. CASE ~\E u \in req : u.item = it
    BY <1>1, <2>2 DEF BandsTypes
  <2> QED
    BY <2>1, <2>2
<1> QED
  BY <1>1, <1>5, <1>6, <1>7

LEMMA BandsInductive == BandsInv /\ [Request!Next]_(Request!vars) => BandsInv'
<1> SUFFICES ASSUME BandsInv, [Request!Next]_(Request!vars) PROVE BandsInv'
  OBVIOUS
<1>1. BandsTypes /\ Request!MaskShowsBoxes /\ Progress
  BY DEF BandsInv
<1>2. /\ lteMask \in Mask /\ nrMask \in Mask /\ asked \in [lte : Mask, nr : Mask]
      /\ checked \in [lte : SUBSET Lte, nr : SUBSET Nr]
      /\ Request!Bands(lteMask) = checked.lte /\ Request!Bands(nrMask) = checked.nr
  BY <1>1 DEF BandsTypes, Request!MaskShowsBoxes
<1>3. Lte \subseteq 1 .. 2 * W /\ Nr \subseteq 1 .. 2 * W
  BY BandsAssumed
<1>4. ASSUME UNCHANGED <<asked, pref, todo, path, bandRc>> PROVE Progress'
  BY <1>1, <1>4 DEF Progress, Taken, Plan
<1>5. ASSUME UNCHANGED <<asked, pref, todo, path, bandRc>>, lteMask' \in Mask, nrMask' \in Mask,
             checked' \in [lte : SUBSET Lte, nr : SUBSET Nr],
             Request!Bands(lteMask') = checked'.lte, Request!Bands(nrMask') = checked'.nr
      PROVE  BandsInv'
  <2>1. BandsTypes'
    BY <1>1, <1>5 DEF BandsTypes
  <2>2. Request!MaskShowsBoxes'
    BY <1>5 DEF Request!MaskShowsBoxes
  <2> QED
    BY <1>4, <1>5, <2>1, <2>2 DEF BandsInv
<1>6. ASSUME NEW b \in Lte, NEW on \in BOOLEAN, Request!ToggleLte(b, on) PROVE BandsInv'
  <2>1. /\ lteMask' = Request!With(lteMask, b, on)
        /\ checked' = [checked EXCEPT !.lte = Request!Change(checked.lte, b, on)]
        /\ UNCHANGED <<nrMask, asked, pref, todo, path, bandRc>>
    BY <1>6 DEF Request!ToggleLte
  <2>2. lteMask' \in Mask /\ Request!Bands(lteMask') = Request!Change(checked.lte, b, on)
    BY <1>2, <1>3, <2>1, WithShows
  <2>3. Request!Change(checked.lte, b, on) \subseteq Lte
    BY <1>2 DEF Request!Change
  <2>4. /\ checked' \in [lte : SUBSET Lte, nr : SUBSET Nr]
        /\ checked'.lte = Request!Change(checked.lte, b, on) /\ checked'.nr = checked.nr
    BY <1>2, <2>1, <2>3
  <2> QED
    BY <1>2, <1>5, <2>1, <2>2, <2>4
<1>7. ASSUME NEW b \in Nr, NEW on \in BOOLEAN, Request!ToggleNr(b, on) PROVE BandsInv'
  <2>1. /\ nrMask' = Request!With(nrMask, b, on)
        /\ checked' = [checked EXCEPT !.nr = Request!Change(checked.nr, b, on)]
        /\ UNCHANGED <<lteMask, asked, pref, todo, path, bandRc>>
    BY <1>7 DEF Request!ToggleNr
  <2>2. nrMask' \in Mask /\ Request!Bands(nrMask') = Request!Change(checked.nr, b, on)
    BY <1>2, <1>3, <2>1, WithShows
  <2>3. Request!Change(checked.nr, b, on) \subseteq Nr
    BY <1>2 DEF Request!Change
  <2>4. /\ checked' \in [lte : SUBSET Lte, nr : SUBSET Nr]
        /\ checked'.nr = Request!Change(checked.nr, b, on) /\ checked'.lte = checked.lte
    BY <1>2, <2>1, <2>3
  <2> QED
    BY <1>2, <1>5, <2>1, <2>2, <2>4
<1>8. /\ Request!Of(Lte) \in Mask /\ Request!Bands(Request!Of(Lte)) = Lte
      /\ Request!Of(Nr) \in Mask /\ Request!Bands(Request!Of(Nr)) = Nr
      /\ Request!NONE \in Mask /\ Request!Bands(Request!NONE) = {}
  BY <1>3, OfShows, NoneShows
<1>9. ASSUME NEW on \in BOOLEAN, Request!SetAllLte(on) \/ Request!SetAllNr(on) PROVE BandsInv'
  <2>1. CASE Request!SetAllLte(on)
    <3>1. /\ lteMask' = IF on THEN Request!Of(Lte) ELSE Request!NONE
          /\ checked' = [checked EXCEPT !.lte = IF on THEN Lte ELSE {}]
          /\ UNCHANGED <<nrMask, asked, pref, todo, path, bandRc>>
      BY <2>1 DEF Request!SetAllLte
    <3>2. /\ checked' \in [lte : SUBSET Lte, nr : SUBSET Nr] /\ checked'.nr = checked.nr
          /\ lteMask' \in Mask /\ Request!Bands(lteMask') = checked'.lte
      BY <1>2, <1>8, <3>1
    <3> QED
      BY <1>2, <1>5, <3>1, <3>2
  <2>2. CASE Request!SetAllNr(on)
    <3>1. /\ nrMask' = IF on THEN Request!Of(Nr) ELSE Request!NONE
          /\ checked' = [checked EXCEPT !.nr = IF on THEN Nr ELSE {}]
          /\ UNCHANGED <<lteMask, asked, pref, todo, path, bandRc>>
      BY <2>2 DEF Request!SetAllNr
    <3>2. /\ checked' \in [lte : SUBSET Lte, nr : SUBSET Nr] /\ checked'.lte = checked.lte
          /\ nrMask' \in Mask /\ Request!Bands(nrMask') = checked'.nr
      BY <1>2, <1>8, <3>1
    <3> QED
      BY <1>2, <1>5, <3>1, <3>2
  <2> QED
    BY <1>9, <2>1, <2>2
<1>10. ASSUME BandsTypes', todo' = Plan' PROVE Progress'
  <2>4. path' \in AllPaths
    BY <1>10, OperationsAssumption DEF BandsTypes, AllPaths, Request!BandAssumption
  <2>5. asked'.lte \in Mask /\ asked'.nr \in Mask
    BY <1>10 DEF BandsTypes
  <2>6. Plan' = PlanOf(path', asked'.lte, asked'.nr)
    BY DEF Plan
  <2>7. PICK p \in AllPaths, l \in Mask, n \in Mask : Plan' = PlanOf(p, l, n)
    BY <2>4, <2>5, <2>6
  <2>1. (\E S : Plan' \in Seq(S)) /\ Len(Plan') \in 0 .. 2
    BY <2>7, PlanSound
  <2>2. SubSeq(Plan', 0 + 1, Len(Plan')) = Plan'
    BY <1>10, <2>1, SubSeqFull
  <2>3. 0 \in 0 .. Len(Plan') /\ \A j \in 1 .. 0 : Taken(Plan[j])'
    BY <1>10, <2>1
  <2> QED
    BY <1>10, <2>2, <2>3 DEF Progress
<1>11. ASSUME NEW p \in Paths, Request!Apply(p) PROVE BandsInv'
  <2>1. /\ path' = p /\ bandRc' = "ok" /\ asked' = [lte |-> lteMask, nr |-> nrMask]
        /\ todo' = Request!Requests(p, lteMask, nrMask)
        /\ UNCHANGED <<lteMask, nrMask, checked, pref>>
    BY <1>11 DEF Request!Apply
  <2>2. BandsTypes'
    BY <1>1, <1>2, <2>1 DEF BandsTypes
  <2>3. p # "none" /\ p # "reset"
    BY <1>11, OperationsAssumption DEF Request!BandAssumption
  <2>4. Plan' = Request!Requests(p, lteMask, nrMask)
    BY <2>1, <2>3 DEF Plan, PlanOf
  <2>5. Request!MaskShowsBoxes'
    BY <1>1, <2>1 DEF Request!MaskShowsBoxes
  <2> QED
    BY <1>10, <2>1, <2>2, <2>4, <2>5 DEF BandsInv
<1>12. CASE Request!Reset
  <2>1. /\ path' = "reset" /\ bandRc' = "ok" /\ asked' = [lte |-> Request!ALL, nr |-> Request!ALL]
        /\ todo' = <<Request!DiagRequest(Request!ALL, Request!ALL)>>
        /\ lteMask' = Request!Of(Lte) /\ nrMask' = Request!Of(Nr)
        /\ checked' = [lte |-> Lte, nr |-> Nr] /\ UNCHANGED pref
    BY <1>12 DEF Request!Reset
  <2>2. BandsTypes'
    BY <1>1, <1>8, <2>1, AllIsMask DEF BandsTypes
  <2>3. Plan' = <<Request!DiagRequest(Request!ALL, Request!ALL)>>
    BY <2>1 DEF Plan, PlanOf
  <2>4. Request!MaskShowsBoxes'
    BY <1>8, <2>1 DEF Request!MaskShowsBoxes
  <2> QED
    BY <1>10, <2>1, <2>2, <2>3, <2>4 DEF BandsInv
<1>13. CASE Request!ModemAccepts \/ Request!ModemRejects
  <2>1. /\ todo # <<>> /\ todo' = Tail(todo)
        /\ UNCHANGED <<lteMask, nrMask, checked, asked, path>>
    BY <1>13 DEF Request!ModemAccepts, Request!ModemRejects
  <2>2. PICK k \in 0 .. Len(Plan) :
          /\ todo = SubSeq(Plan, k + 1, Len(Plan))
          /\ bandRc = "ok" => \A j \in 1 .. k : Taken(Plan[j])
    BY <1>1 DEF Progress
  <2>3. /\ k + 1 \in 1 .. Len(Plan) /\ Head(todo) = Plan[k + 1]
        /\ todo' = SubSeq(Plan, (k + 1) + 1, Len(Plan))
    BY <1>1, <2>1, <2>2, NextOfPlan
  <2>4. Plan' = Plan /\ Len(Plan) \in Nat
    BY <1>1, <2>1, PlanTypes DEF Plan
  <2>5. Request!MaskShowsBoxes'
    BY <1>1, <2>1 DEF Request!MaskShowsBoxes
  <2>6. CASE Request!ModemAccepts
    <3>1. /\ \A j \in 1 .. k : Taken(Plan[j]) => \A t \in Plan[j] : pref'[t.item] = Request!Value(t)
          /\ \A t \in Plan[k + 1] : pref'[t.item] = Request!Value(t)
          /\ DOMAIN pref' = Request!Items
          /\ \A it \in Request!Items : pref'[it] \subseteq Room(it)
      BY <1>1, <2>3, <2>6, AcceptKeeps
    <3>2. bandRc' = bandRc
      BY <2>6 DEF Request!ModemAccepts
    <3>3. BandsTypes'
      BY <1>1, <2>1, <3>1, <3>2 DEF BandsTypes
    <3> DEFINE m == k + 1
    <3>4. m \in 0 .. Len(Plan) /\ \A j \in 1 .. m : j \in 1 .. k \/ j = m
      BY <2>3, <2>4
    <3>5. bandRc' = "ok" => \A j \in 1 .. m : \A t \in Plan[j] : pref'[t.item] = Request!Value(t)
      BY <2>2, <3>1, <3>2, <3>4
    <3> HIDE DEF m
    <3>6. todo' = SubSeq(Plan, m + 1, Len(Plan))
      BY <2>3 DEF m
    <3>7. Progress'
      BY <2>4, <3>4, <3>5, <3>6 DEF Progress, Taken
    <3> QED
      BY <2>5, <3>3, <3>7 DEF BandsInv
  <2>7. CASE Request!ModemRejects
    <3>1. bandRc' = "rejected" /\ pref' = pref
      BY <2>7 DEF Request!ModemRejects
    <3>2. BandsTypes'
      BY <1>1, <2>1, <3>1 DEF BandsTypes
    <3> DEFINE m == k + 1
    <3>3. m \in 0 .. Len(Plan) /\ todo' = SubSeq(Plan, m + 1, Len(Plan))
      BY <2>3, <2>4
    <3> HIDE DEF m
    <3>4. Progress'
      BY <2>4, <3>1, <3>3 DEF Progress
    <3> QED
      BY <2>5, <3>2, <3>4 DEF BandsInv
  <2> QED
    BY <1>13, <2>6, <2>7
<1>14. CASE UNCHANGED Request!vars
  BY <1>2, <1>5, <1>14 DEF Request!vars
<1> QED
  BY <1>6, <1>7, <1>9, <1>11, <1>12, <1>13, <1>14 DEF Request!Next

-----------------------------------------------------------------------------
(* When no request is left and none was rejected, the modem has them all.  *)
LEMMA DoneIsTaken ==
  ASSUME BandsInv, Request!Done
  PROVE  \A j \in 1 .. Len(Plan) : Taken(Plan[j])
<1>1. BandsTypes /\ Progress /\ todo = <<>> /\ bandRc = "ok"
  BY DEF BandsInv, Request!Done
<1>2. PICK k \in 0 .. Len(Plan) :
        /\ todo = SubSeq(Plan, k + 1, Len(Plan))
        /\ \A j \in 1 .. k : Taken(Plan[j])
  BY <1>1 DEF Progress
<1>3. PICK S : Plan \in Seq(S)
  BY <1>1, PlanTypes
<1>4. Len(Plan) \in Nat
  BY <1>1, PlanTypes
<1>5. k = Len(Plan)
  <2>1. SUFFICES ASSUME k # Len(Plan) PROVE FALSE
    OBVIOUS
  <2>2. /\ k + 1 \in 1 .. Len(Plan) + 1 /\ Len(Plan) \in (k + 1) - 1 .. Len(Plan)
        /\ k + 1 <= Len(Plan)
    BY <1>4, <2>1
  <2>3. Len(SubSeq(Plan, k + 1, Len(Plan))) = Len(Plan) - (k + 1) + 1
    BY <1>3, <2>2, SubSeqProperties
  <2>4. Len(todo) = 0
    BY <1>1
  <2> QED
    BY <1>2, <1>4, <2>2, <2>3, <2>4
<1> QED
  BY <1>2, <1>5

LEMMA DoneArrives ==
  ASSUME BandsInv, Request!Done
  PROVE  Request!SelectionArrives /\ Request!QrtrSendsWhatIsSelected
<1>1. PICK lte \in Mask, nr \in Mask : lte = asked.lte /\ nr = asked.nr
  BY DEF BandsInv, BandsTypes
<1>2. path \in AllPaths
  BY PlanTypes DEF BandsInv
<1>3. Plan = PlanOf(path, lte, nr)
  BY <1>1 DEF Plan
<1>4. \A j \in 1 .. Len(Plan) : \A t \in Plan[j] : pref[t.item] = Request!Value(t)
  BY DoneIsTaken DEF Taken
<1>5. /\ \A it, value : Request!Tlv(it, value).item = it
      /\ \A value : Request!Value(Request!Tlv("mode", value)) = value
      /\ \A it, value : it # "mode" =>
           Request!Value(Request!Tlv(it, value)) = Request!BandsIn(value)
      /\ Request!BandsIn(Request!LittleEndian(lte.low)) = Request!Bands(lte) \cap (1 .. W)
      /\ Request!BandsIn(Request!Bytes(lte)) = Request!Bands(lte)
      /\ Request!BandsIn(Request!Bytes(nr)) = Request!Bands(nr)
      /\ Request!BandsIn(Request!NrPayload(nr)) = Request!Bands(nr) \cap (1 .. W)
  BY ValuesOf
<1>6. ASSUME NEW j \in 1 .. Len(Plan), NEW it, NEW value, Request!Tlv(it, value) \in Plan[j]
      PROVE  pref[it] = IF it = "mode" THEN value ELSE Request!BandsIn(value)
  <2>1. pref[Request!Tlv(it, value).item] = Request!Value(Request!Tlv(it, value))
    BY <1>4, <1>6
  <2>2. Request!Tlv(it, value).item = it
    BY <1>5
  <2>3. it = "mode" => Request!Value(Request!Tlv(it, value)) = value
    BY <1>5
  <2>4. it # "mode" => Request!Value(Request!Tlv(it, value)) = Request!BandsIn(value)
    BY <1>5
  <2> QED
    BY <2>1, <2>2, <2>3, <2>4
<1>7. \A x, y : /\ Len(<<x>>) = 1 /\ <<x>>[1] = x
                /\ Len(<<x, y>>) = 2 /\ <<x, y>>[1] = x /\ <<x, y>>[2] = y
  OBVIOUS
<1>8. CASE path \in {"diag", "qmux", "reset"}
  <2>1. Plan = <<Request!DiagRequest(lte, nr)>>
    BY <1>2, <1>3, <1>8, PlanIs DEF AllPaths
  <2>2. 1 \in 1 .. Len(Plan) /\ Plan[1] = Request!DiagRequest(lte, nr)
    BY <1>7, <2>1
  <2>3. /\ Request!Tlv("legacy", Request!LittleEndian(lte.low)) \in Plan[1]
        /\ Request!Tlv("lte", Request!Bytes(lte)) \in Plan[1]
        /\ Request!Tlv("nrSa", Request!Bytes(nr)) \in Plan[1]
        /\ Request!Tlv("nrNsa", Request!Bytes(nr)) \in Plan[1]
    BY <2>2 DEF Request!DiagRequest
  <2>4. /\ pref["lte"] = Request!Bands(lte)
        /\ pref["nrSa"] = Request!Bands(nr) /\ pref["nrNsa"] = Request!Bands(nr)
        /\ pref["legacy"] = Request!Bands(lte) \cap (1 .. W)
    BY <1>5, <1>6, <2>2, <2>3
  <2> QED
    BY <1>1, <1>8, <2>4 DEF Request!SelectionArrives, Request!QrtrSendsWhatIsSelected
<1>9. CASE path = "efs"
  <2> DEFINE x == {Request!Tlv("nvLte", Request!LittleEndian(lte.low))}
             y == {Request!Tlv("nvNr", Request!NrPayload(nr))}
  <2>1. Plan = <<x, y>>
    BY <1>3, <1>9, PlanIs
  <2> HIDE DEF x, y
  <2>2. 1 \in 1 .. Len(Plan) /\ Plan[1] = x /\ 2 \in 1 .. Len(Plan) /\ Plan[2] = y
    BY <1>7, <2>1
  <2>3. /\ Request!Tlv("nvLte", Request!LittleEndian(lte.low)) \in Plan[1]
        /\ Request!Tlv("nvNr", Request!NrPayload(nr)) \in Plan[2]
    BY <2>2 DEF x, y
  <2>4. pref["nvLte"] = Request!BandsIn(Request!LittleEndian(lte.low))
    BY <1>6, <2>2, <2>3
  <2>5. pref["nvNr"] = Request!BandsIn(Request!NrPayload(nr))
    BY <1>6, <2>2, <2>3
  <2> QED
    BY <1>1, <1>5, <1>9, <2>4, <2>5 DEF Request!SelectionArrives, Request!QrtrSendsWhatIsSelected
<1>10. CASE path = "qrtr"
  <2> DEFINE mode == Request!QrtrMode(lte, nr)
             x == LteTlvs(lte, nr)
             y == NrTlvs(lte, nr)
  <2>1. Plan = IF Request!HaveNr(nr) THEN <<x, y>> ELSE <<x>>
    BY <1>3, <1>10, PlanIs
  <2>2. /\ Request!Tlv("mode", mode) \in x
        /\ lte.low # {} => Request!Tlv("qrtrLte", Request!LittleEndian(lte.low)) \in x
        /\ Request!Tlv("nrSa", Request!Bytes(nr)) \in y
        /\ Request!Tlv("nrNsa", Request!Bytes(nr)) \in y
    BY DEF LteTlvs, NrTlvs
  <2>3. /\ lte.low # {} => "LTE" \in mode
        /\ Request!HaveNr(nr) => "NR" \in mode
    BY DEF Request!QrtrMode
  <2> HIDE DEF mode, x, y
  <2>4. 1 \in 1 .. Len(Plan) /\ Plan[1] = x
    BY <1>7, <2>1
  <2>5. Request!HaveNr(nr) => 2 \in 1 .. Len(Plan) /\ Plan[2] = y
    BY <1>7, <2>1
  <2>6. pref["mode"] = mode
    BY <1>6, <2>2, <2>4
  <2>7. ASSUME Request!Bands(nr) # {}
        PROVE  /\ pref["nrSa"] = Request!Bands(nr) /\ pref["nrNsa"] = Request!Bands(nr)
               /\ "NR" \in pref["mode"]
    <3>1. Request!HaveNr(nr)
      BY <2>7, BandsAre DEF Request!HaveNr
    <3>2. 2 \in 1 .. Len(Plan) /\ Plan[2] = y
      BY <2>5, <3>1
    <3>3. pref["nrSa"] = Request!BandsIn(Request!Bytes(nr))
      BY <1>6, <2>2, <3>2
    <3>4. pref["nrNsa"] = Request!BandsIn(Request!Bytes(nr))
      BY <1>6, <2>2, <3>2
    <3> QED
      BY <1>5, <2>3, <2>6, <3>1, <3>3, <3>4
  <2>8. ASSUME Request!Bands(lte) \cap (1 .. W) # {}
        PROVE  /\ pref["qrtrLte"] = Request!Bands(lte) \cap (1 .. W)
               /\ "LTE" \in pref["mode"]
    <3>1. lte.low # {}
      <4>1. Request!Bands(lte) \cap (1 .. W) = {n + 1 : n \in lte.low}
        BY BandsAre
      <4> QED
        BY <2>8, <4>1
    <3>2. pref["qrtrLte"] = Request!BandsIn(Request!LittleEndian(lte.low))
      BY <1>6, <2>2, <2>4, <3>1
    <3> QED
      BY <1>5, <2>3, <2>6, <3>1, <3>2
  <2> QED
    BY <1>1, <1>10, <2>7, <2>8 DEF Request!SelectionArrives, Request!QrtrSendsWhatIsSelected
<1>11. CASE path = "none"
  BY <1>11 DEF Request!SelectionArrives, Request!QrtrSendsWhatIsSelected
<1> QED
  BY <1>2, <1>8, <1>9, <1>10, <1>11 DEF AllPaths

LEMMA BandsArrive == BandsInv => Request!SelectionArrives /\ Request!QrtrSendsWhatIsSelected
<1>1. ~Request!Done => Request!SelectionArrives /\ Request!QrtrSendsWhatIsSelected
  BY DEF Request!SelectionArrives, Request!QrtrSendsWhatIsSelected
<1> QED
  BY <1>1, DoneArrives

LEMMA BandsTyped == BandsInv => Request!TypeOK
<1> SUFFICES ASSUME BandsInv PROVE Request!TypeOK
  OBVIOUS
<1>1. BandsTypes /\ W \in Nat \ {0}
  BY BandsAssumed DEF BandsInv
<1>2. {lteMask, nrMask, asked.lte, asked.nr} \subseteq [low : Request!Word, high : Request!Word]
  BY <1>1 DEF BandsTypes, Mask
<1>3. \A it \in Request!Items \ {"mode"} : pref[it] \subseteq 1 .. 4 * W
  <2>1. 1 .. 2 * W \subseteq 1 .. 4 * W
    BY <1>1
  <2> QED
    BY <1>1, <2>1 DEF BandsTypes, Room
<1>4. pref["mode"] \subseteq Request!Technologies
  <2>1. "mode" \in Request!Items
    BY DEF Request!Items
  <2> QED
    BY <1>1, <2>1 DEF BandsTypes, Room
<1>5. Len(todo) <= 2
  <2>1. PICK k \in 0 .. Len(Plan) : todo = SubSeq(Plan, k + 1, Len(Plan))
    BY DEF BandsInv, Progress
  <2>2. PICK S : Plan \in Seq(S)
    BY <1>1, PlanTypes
  <2>3. Len(Plan) \in 0 .. 2
    BY <1>1, PlanTypes
  <2>4. k + 1 \in Int /\ Len(Plan) \in Int /\ \A i \in k + 1 .. Len(Plan) : i \in 1 .. Len(Plan)
    BY <2>3
  <2>5. \A i \in k + 1 .. Len(Plan) : Plan[i] \in S
    BY <2>2, <2>4, ElementOfSeq
  <2>6. Len(todo) = IF k + 1 <= Len(Plan) THEN Len(Plan) - (k + 1) + 1 ELSE 0
    BY <2>1, <2>4, <2>5, SubSeqProperties
  <2>7. PICK n \in 0 .. 2 : n = Len(Plan)
    BY <2>3
  <2>8. k \in 0 .. n /\ Len(todo) = IF k + 1 <= n THEN n - (k + 1) + 1 ELSE 0
    BY <2>6, <2>7
  <2>9. CASE k + 1 <= n
    <3>1. Len(todo) = n - (k + 1) + 1
      BY <2>8, <2>9
    <3> QED
      BY <2>8, <3>1
  <2>10. CASE ~(k + 1 <= n)
    BY <2>8, <2>10
  <2> QED
    BY <2>9, <2>10
<1> QED
  BY <1>1, <1>2, <1>3, <1>4, <1>5 DEF Request!TypeOK, BandsTypes

LEMMA BandsStart == OperationsInit => Request!Init
  BY DEF OperationsInit

LEMMA BandsSteps == [OperationsNext]_allVars => [Request!Next]_(Request!vars)
<1> SUFFICES ASSUME [OperationsNext]_allVars PROVE Request!Next \/ UNCHANGED Request!vars
  OBVIOUS
<1>1. UNCHANGED bandVars => UNCHANGED Request!vars
  BY DEF bandVars, Request!vars
<1>2. CASE BandsMove
  BY <1>2 DEF BandsMove
<1>3. CASE WalkMoves \/ CallsMove \/ ViewMoves \/ SessionMoves
  BY <1>1, <1>3 DEF WalkMoves, CallsMove, ViewMoves, SessionMoves
<1>4. CASE UNCHANGED allVars
  BY <1>1, <1>4 DEF allVars
<1> QED
  BY <1>2, <1>3, <1>4 DEF OperationsNext

LEMMA BandsInvariant == OperationsSpec => []BandsInv
<1>1. OperationsInit => BandsInv
  BY BandsInitially, BandsStart
<1>2. BandsInv /\ [OperationsNext]_allVars => BandsInv'
  BY BandsInductive, BandsSteps
<1> QED
  BY <1>1, <1>2, PTL DEF OperationsSpec

(* BandMask.kt to the request builders (Operations): the masks are those   *)
(* of the boxes that the user left checked, in both words and for every    *)
(* number of bits and of bands, whatever was toggled while a call ran; and *)
(* when a call is done and nothing was rejected, the modem has of the      *)
(* selection what the request of the path has room for: no band is lost or *)
(* moved where the words are cut into bytes and put together again.        *)
THEOREM SelectionArrivesTheorem == OperationsSpec => []SelectionArrives
<1>1. BandsInv => SelectionArrives
  BY BandsArrive DEF BandsInv, SelectionArrives
<1> QED
  BY <1>1, BandsInvariant, PTL

-----------------------------------------------------------------------------
OfInstance == part \in Parts

(* Every part keeps its types: a call gets one of the documented codes,    *)
(* for any error numbers of Linux; the words and preferences stay in the   *)
(* range of the bands; the process is one; the walks stay in what arrived. *)
THEOREM OperationsTypeTheorem ==
  ASSUME CallsP!LinuxErrnos PROVE OperationsSpec => []OperationsTypeOK
<1>1. OperationsSpec => []TypeOK
  <2>1. OperationsInit => Init
    BY DEF OperationsInit
  <2> QED
    BY <2>1, WalkSteps, TlvTypeTheorem, PTL DEF OperationsSpec, Spec
<1>2. OperationsSpec => []Calls!TypeOK
  <2>1. CallsP!Spec => []CallsP!TypeOK
    BY CallsAssumed, CallsP!CallsTypeTheorem
  <2>2. CallsP!TypeOK => Calls!TypeOK
    BY DEF Calls!TypeOK, CallsP!TypeOK, Calls!Codes, CallsP!Codes
  <2> QED
    BY <2>1, <2>2, CallsImplemented, PTL
<1>3. OperationsSpec => []View!TypeOK
  <2>1. OperationsInit => ViewP!Init
    BY DEF OperationsInit, View!Init, ViewP!Init, View!Idle, ViewP!Idle, View!Ops, ViewP!Ops
  <2>2. ViewP!ViewModelAssumption
    BY OperationsAssumption DEF View!ViewModelAssumption, ViewP!ViewModelAssumption
  <2>3. ViewP!Spec => []ViewP!TypeOK
    BY <2>2, ViewP!ViewTypeTheorem
  <2>4. ViewP!TypeOK => View!TypeOK
    BY DEF View!TypeOK, ViewP!TypeOK, View!States, ViewP!States, View!Ops, ViewP!Ops
  <2> QED
    BY <2>1, <2>3, <2>4, ViewSteps, PTL DEF OperationsSpec, ViewP!Spec
<1>4. OperationsSpec => []Session!TypeOK
  <2>1. OperationsInit => SessionP!Init
    BY DEF OperationsInit, Session!Init, SessionP!Init
  <2>2. SessionP!SessionAssumption
    BY OperationsAssumption DEF Session!SessionAssumption, SessionP!SessionAssumption
  <2>3. SessionP!Spec => []SessionP!TypeOK
    BY <2>2, SessionP!SessionTypeTheorem
  <2>4. SessionP!TypeOK => Session!TypeOK
    BY DEF Session!TypeOK, SessionP!TypeOK
  <2> QED
    BY <2>1, <2>3, <2>4, SessionSteps, PTL DEF OperationsSpec, SessionP!Spec
<1>5. OperationsSpec => []Request!TypeOK
  BY BandsInvariant, BandsTyped, PTL
<1>6. OperationsSpec => []OfInstance
  <2>1. OperationsInit => OfInstance
    BY DEF OperationsInit, OfInstance
  <2>2. ASSUME [OperationsNext]_allVars PROVE part' = part
    <3>1. CASE WalkMoves \/ BandsMove
      BY <3>1 DEF WalkMoves, BandsMove
    <3>2. CASE CallsMove \/ ViewMoves \/ SessionMoves
      BY <3>2 DEF CallsMove, ViewMoves, SessionMoves
    <3>3. CASE UNCHANGED allVars
      BY <3>3 DEF allVars
    <3> QED
      BY <2>2, <3>1, <3>2, <3>3 DEF OperationsNext
  <2>3. OfInstance /\ [OperationsNext]_allVars => OfInstance'
    BY <2>2 DEF OfInstance
  <2> QED
    BY <2>1, <2>3, PTL DEF OperationsSpec
<1>7. OfInstance /\ TypeOK /\ Calls!TypeOK /\ View!TypeOK /\ Session!TypeOK /\ Request!TypeOK
        => OperationsTypeOK
  <2> SUFFICES ASSUME OfInstance, TypeOK, Calls!TypeOK, View!TypeOK, Session!TypeOK, Request!TypeOK
               PROVE  OperationsTypeOK
    OBVIOUS
  <2>1. part \in {"walk", "bands", "calls", "view", "session"}
    BY OperationsAssumption DEF OfInstance
  <2> QED
    BY <2>1 DEF OperationsTypeOK
<1> QED
  BY <1>1, <1>2, <1>3, <1>4, <1>5, <1>6, <1>7, PTL
=============================================================================
