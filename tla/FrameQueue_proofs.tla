------------------------- MODULE FrameQueue_proofs --------------------------
(***************************************************************************)
(* Proofs about FrameQueue, for every capacity, header length and set of   *)
(* frame lengths.                                                          *)
(***************************************************************************)
EXTENDS FrameQueue, TLAPS

(* Contiguous says where each record ends; that an older record lies       *)
(* entirely before a younger one is what survives a drop of any number of  *)
(* frames, and so is part of the inductive invariant.                      *)
Ordered ==
  \A i, j \in 1..Len(queue) : i < j => queue[i].end <= queue[j].start

EndsWritten == \A i \in 1..Len(queue) : queue[i].end <= written

(* A record is as long as that of a frame that can be offered.             *)
LensKnown ==
  \A i \in 1..Len(queue) : queue[i].end - queue[i].start - HdrLen \in FrameLens

IInv == /\ TypeOK
        /\ LensKnown
        /\ WithinCapacity
        /\ Accounted
        /\ NoGaps
        /\ Contiguous
        /\ Ordered
        /\ EndsWritten

-----------------------------------------------------------------------------
(* Arithmetic that the proofs instantiate.                                 *)
LEMMA LaterStart ==
  \A w, c, s, t \in Nat : w - s <= c /\ s <= t => w - t <= c
  OBVIOUS

LEMMA Between ==
  \A s, h, e, t \in Nat : s + h < e /\ e <= t => s <= t
  OBVIOUS

LEMMA Inside ==
  \A i, k, m, n \in Nat : m = n - k /\ i <= m /\ i # m =>
     k + i # n /\ i + 1 <= m /\ k + (i + 1) = (k + i) + 1
  OBVIOUS

(* What is left of a sequence when its k oldest elements are taken.        *)
LEMMA Rest ==
  ASSUME NEW S, NEW s \in Seq(S), NEW k \in 0..Len(s)
  PROVE  /\ SubSeq(s, k + 1, Len(s)) \in Seq(S)
         /\ Len(SubSeq(s, k + 1, Len(s))) = Len(s) - k
         /\ \A i \in 1..Len(s) - k : SubSeq(s, k + 1, Len(s))[i] = s[k + i]
  OBVIOUS

LEMMA RestOfOne ==
  ASSUME NEW S, NEW s \in Seq(S), s # <<>>
  PROVE  /\ Tail(s) \in Seq(S)
         /\ Len(Tail(s)) = Len(s) - 1
         /\ \A i \in 1..Len(s) - 1 : Tail(s)[i] = s[1 + i]
  OBVIOUS

LEMMA Added ==
  ASSUME NEW S, NEW s \in Seq(S), NEW x \in S
  PROVE  /\ Append(s, x) \in Seq(S)
         /\ Len(Append(s, x)) = Len(s) + 1
         /\ \A i \in 1..Len(s) : Append(s, x)[i] = s[i]
         /\ Append(s, x)[Len(s) + 1] = x
  OBVIOUS

-----------------------------------------------------------------------------
(* The numbers of the invariant, as a set: the prover reads the primed and *)
(* the unprimed ones alike in this form.                                   *)
LEMMA Numbers ==
  ASSUME IInv
  PROVE  /\ {Len(queue), written, incoming, accepted, dropped, delivered} \subseteq Nat
         /\ {Capacity, HdrLen} \subseteq Nat
         /\ HdrLen > 0
         /\ \A i \in 1..Len(queue) : {queue[i].start, queue[i].end} \subseteq Nat
<1>1. {Len(queue), written, incoming, accepted, dropped, delivered} \subseteq Nat
  BY FrameLensAssumption DEF IInv, TypeOK
<1>2. {Capacity, HdrLen} \subseteq Nat /\ HdrLen > 0
  BY CapacityAssumption, HdrLenAssumption
<1>3. ASSUME NEW i \in 1..Len(queue)
      PROVE  {queue[i].start, queue[i].end} \subseteq Nat
  <2>1. queue[i] \in Frame
    BY DEF IInv, TypeOK
  <2> QED BY <2>1 DEF Frame
<1> QED BY <1>1, <1>2, <1>3

(* Taking the k oldest frames away, and adding k to what was dropped and   *)
(* delivered, preserves the invariant: it covers drops and drains alike.   *)
LEMMA TakingOldest ==
  ASSUME IInv, NEW k \in 0..Len(queue),
         queue' \in Seq(Frame),
         Len(queue') = Len(queue) - k,
         \A i \in 1..Len(queue) - k : queue'[i] = queue[k + i],
         NEW d \in Nat, NEW e \in Nat, k = d + e,
         dropped' = dropped + d, delivered' = delivered + e,
         UNCHANGED <<written, incoming, accepted>>
  PROVE  IInv'
<1>1. TypeOK'
  BY DEF IInv, TypeOK
<1>2. /\ {Len(queue), Len(queue'), k, written, HdrLen, Capacity, accepted,
          dropped, delivered} \subseteq Nat
      /\ k <= Len(queue)
  <2>1. Len(queue') \in Nat
    BY <1>1 DEF TypeOK
  <2> QED BY <2>1, Numbers
<1>3. ASSUME NEW i \in 1..Len(queue')
      PROVE  /\ k + i \in 1..Len(queue)
             /\ queue'[i] = queue[k + i]
             /\ {queue[k + i].start, queue[k + i].end} \subseteq Nat
  <2>1. i \in 1..Len(queue) - k /\ k + i \in 1..Len(queue)
    BY <1>2
  <2> QED BY <2>1, Numbers
<1>4. Accounted'
  <2>1. dropped + delivered + Len(queue) = (dropped + d) + (delivered + e) + (Len(queue) - k)
    BY DEF IInv, TypeOK
  <2> QED BY <2>1, Zenon DEF IInv, Accounted
<1>5. NoGaps'
  <2> SUFFICES ASSUME NEW i \in 1..Len(queue')
               PROVE  queue'[i].seq = dropped' + delivered' + i
    BY DEF NoGaps
  <2>1. queue'[i].seq = dropped + delivered + (k + i)
    BY <1>3 DEF IInv, NoGaps
  <2>2. dropped + delivered + (k + i) = (dropped + d) + (delivered + e) + i
    BY DEF IInv, TypeOK
  <2> QED BY <2>1, <2>2, Zenon
<1>6. Contiguous'
  <2> SUFFICES ASSUME NEW i \in 1..Len(queue')
               PROVE  /\ queue'[i].start + HdrLen < queue'[i].end
                      /\ queue'[i].end = IF i = Len(queue') THEN written'
                                         ELSE queue'[i + 1].start
    BY DEF Contiguous
  <2>1. /\ queue'[i].start + HdrLen < queue'[i].end
        /\ queue'[i].end = IF k + i = Len(queue) THEN written
                           ELSE queue[(k + i) + 1].start
    BY <1>3 DEF IInv, Contiguous
  <2>2. CASE i = Len(queue')
    <3>1. k + i = Len(queue)
      BY <1>2, <2>2
    <3> QED BY <2>1, <2>2, <3>1
  <2>3. CASE i # Len(queue')
    <3>1. k + i # Len(queue) /\ i + 1 \in 1..Len(queue') /\ k + (i + 1) = (k + i) + 1
      <4>1. Len(queue) \in Nat /\ Len(queue') \in Nat /\ k \in Nat /\ i \in Nat
            /\ i <= Len(queue') /\ i # Len(queue') /\ Len(queue') = Len(queue) - k
        BY <1>2, <2>3
      <4>2. k + i # Len(queue) /\ i + 1 <= Len(queue') /\ k + (i + 1) = (k + i) + 1
        BY ONLY <4>1, Inside, Zenon
      <4> QED BY <4>1, <4>2
    <3>2. queue'[i + 1] = queue[(k + i) + 1]
      BY <1>3, <3>1
    <3> QED BY <2>1, <2>3, <3>1, <3>2
  <2> QED BY <2>2, <2>3
<1>7. Ordered'
  <2> SUFFICES ASSUME NEW i \in 1..Len(queue'), NEW j \in 1..Len(queue'), i < j
               PROVE  queue'[i].end <= queue'[j].start
    BY DEF Ordered
  <2>1. k + i < k + j
    BY <1>2
  <2> QED BY <1>3, <2>1 DEF IInv, Ordered
<1>8. EndsWritten'
  <2> SUFFICES ASSUME NEW i \in 1..Len(queue') PROVE queue'[i].end <= written'
    BY DEF EndsWritten
  <2> QED BY <1>3 DEF IInv, EndsWritten
<1>9. WithinCapacity'
  <2>1. CASE queue' = <<>>
    BY <1>2, <2>1 DEF WithinCapacity, Used
  <2>2. CASE queue' # <<>>
    <3>1. 1 \in 1..Len(queue') /\ 1 \in 1..Len(queue) /\ queue # <<>>
      BY <1>2, <2>2
    <3>2. queue'[1] = queue[k + 1] /\ k + 1 \in 1..Len(queue)
      BY <1>3, <3>1
    <3>3. {queue[1].start, queue[1].end, queue[k + 1].start} \subseteq Nat
      BY <3>1, <3>2, Numbers
    <3>4. queue[1].start <= queue[k + 1].start
      <4>1. CASE k = 0
        BY <3>3, <4>1
      <4>2. CASE k # 0
        <5>1. queue[1].end <= queue[k + 1].start
          BY <3>1, <3>2, <4>2 DEF IInv, Ordered
        <5>2. queue[1].start + HdrLen < queue[1].end
          BY <3>1 DEF IInv, Contiguous
        <5> QED BY <1>2, <3>3, <5>1, <5>2, Between, Zenon
      <4> QED BY <4>1, <4>2
    <3>5. Used' = written - queue[k + 1].start /\ written - queue[1].start <= Capacity
      BY <2>2, <3>1, <3>2 DEF IInv, WithinCapacity, Used
    <3>6. written - queue[k + 1].start <= Capacity
      <4>1. /\ written \in Nat /\ Capacity \in Nat
            /\ queue[1].start \in Nat /\ queue[k + 1].start \in Nat
        BY <1>2, <3>3
      <4> QED BY <3>4, <3>5, <4>1, LaterStart, Zenon
    <3> QED BY <3>5, <3>6 DEF WithinCapacity
  <2> QED BY <2>1, <2>2
<1>10. LensKnown'
  <2> SUFFICES ASSUME NEW i \in 1..Len(queue')
               PROVE  queue'[i].end - queue'[i].start - HdrLen \in FrameLens
    BY DEF LensKnown
  <2> QED BY <1>3 DEF IInv, LensKnown
<1> QED BY <1>1, <1>4, <1>5, <1>6, <1>7, <1>8, <1>9, <1>10 DEF IInv

LEMMA InvInit == Init => IInv
  BY CapacityAssumption
     DEF Init, IInv, TypeOK, WithinCapacity, Used, Accounted, NoGaps, Contiguous,
         Ordered, EndsWritten, LensKnown

LEMMA InvNext == IInv /\ [Next]_vars => IInv'
<1> SUFFICES ASSUME IInv, [Next]_vars PROVE IInv'
  OBVIOUS
<1>1. ASSUME NEW n \in FrameLens, Offer(n) PROVE IInv'
  BY <1>1 DEF Offer, IInv, TypeOK, WithinCapacity, Used, Accounted, NoGaps,
              Contiguous, Ordered, EndsWritten, LensKnown
<1>2. CASE DropOldest
  <2>1. queue \in Seq(Frame) /\ queue # <<>> /\ queue' = Tail(queue)
    BY <1>2 DEF DropOldest, IInv, TypeOK
  <2>2. 1 \in 0..Len(queue)
    BY <2>1
  <2>3. /\ queue' \in Seq(Frame)
        /\ Len(queue') = Len(queue) - 1
        /\ \A i \in 1..Len(queue) - 1 : queue'[i] = queue[1 + i]
    BY <2>1, RestOfOne
  <2>4. /\ dropped' = dropped + 1 /\ delivered' = delivered
        /\ UNCHANGED <<written, incoming, accepted>>
    BY <1>2 DEF DropOldest
  <2>5. delivered' = delivered + 0 /\ 1 = 1 + 0
    BY <2>4, Numbers
  <2> QED BY <2>2, <2>3, <2>4, <2>5, TakingOldest
<1>3. CASE Accept
  <2> DEFINE f == [seq |-> accepted + 1, start |-> written,
                   end |-> written + HdrLen + incoming]
  <2>1. /\ {Len(queue), written, incoming, accepted, dropped, delivered,
            HdrLen, Capacity} \subseteq Nat
        /\ incoming > 0 /\ HdrLen > 0
    BY <1>3, Numbers DEF Accept
  <2>2. f \in Frame
    BY <2>1 DEF Frame
  <2>3. queue \in Seq(Frame) /\ queue' = Append(queue, f)
    BY <1>3 DEF Accept, IInv, TypeOK
  <2>4. /\ queue' \in Seq(Frame)
        /\ Len(queue') = Len(queue) + 1
        /\ \A i \in 1..Len(queue) : queue'[i] = queue[i]
        /\ queue'[Len(queue) + 1] = f
    BY <2>2, <2>3, Added
  <2>5. /\ f.seq = accepted + 1 /\ f.start = written
        /\ f.end = written + HdrLen + incoming
    OBVIOUS
  <2>6. /\ written' = written + HdrLen + incoming
        /\ accepted' = accepted + 1 /\ incoming' = 0
        /\ dropped' = dropped /\ delivered' = delivered
        /\ Used + HdrLen + incoming <= Capacity
    BY <1>3 DEF Accept, Fits
  <2> HIDE DEF f
  <2>7. TypeOK'
    BY <2>1, <2>4, <2>6 DEF TypeOK
  <2>8. accepted + 1 = dropped + delivered + (Len(queue) + 1)
    BY DEF IInv, TypeOK, Accounted
  <2>9. ASSUME NEW i \in 1..Len(queue')
        PROVE  \/ i \in 1..Len(queue) /\ queue'[i] = queue[i] /\ i # Len(queue) + 1
               \/ i = Len(queue) + 1 /\ queue'[i] = f
    BY <2>1, <2>4
  <2>15. Accounted'
    BY <2>4, <2>6, <2>8, Zenon DEF Accounted
  <2>10. NoGaps'
    <3> SUFFICES ASSUME NEW i \in 1..Len(queue')
                 PROVE  queue'[i].seq = dropped' + delivered' + i
      BY DEF NoGaps
    <3>1. CASE i = Len(queue) + 1 /\ queue'[i] = f
      BY <3>1, <2>5, <2>6, <2>8, Zenon
    <3>2. CASE i \in 1..Len(queue) /\ queue'[i] = queue[i]
      BY <3>2, <2>6 DEF IInv, NoGaps
    <3> QED BY <3>1, <3>2, <2>9
  <2>11. EndsWritten'
    <3> SUFFICES ASSUME NEW i \in 1..Len(queue') PROVE queue'[i].end <= written'
      BY DEF EndsWritten
    <3>1. CASE i = Len(queue) + 1 /\ queue'[i] = f
      BY <3>1, <2>1, <2>5, <2>6
    <3>2. CASE i \in 1..Len(queue) /\ queue'[i] = queue[i]
      <4>1. queue[i].end <= written /\ {queue[i].end} \subseteq Nat
        BY <3>2, Numbers DEF IInv, EndsWritten
      <4> QED BY <3>2, <4>1, <2>1, <2>6
    <3> QED BY <3>1, <3>2, <2>9
  <2>12. Ordered'
    <3> SUFFICES ASSUME NEW i \in 1..Len(queue'), NEW j \in 1..Len(queue'), i < j
                 PROVE  queue'[i].end <= queue'[j].start
      BY DEF Ordered
    <3>1. i \in 1..Len(queue) /\ queue'[i] = queue[i]
      BY <2>1, <2>4
    <3>2. CASE j = Len(queue) + 1 /\ queue'[j] = f
      BY <3>1, <3>2, <2>5 DEF IInv, EndsWritten
    <3>3. CASE j \in 1..Len(queue) /\ queue'[j] = queue[j]
      BY <3>1, <3>3 DEF IInv, Ordered
    <3> QED BY <3>2, <3>3, <2>9
  <2>13. Contiguous'
    <3> SUFFICES ASSUME NEW i \in 1..Len(queue')
                 PROVE  /\ queue'[i].start + HdrLen < queue'[i].end
                        /\ queue'[i].end = IF i = Len(queue') THEN written'
                                           ELSE queue'[i + 1].start
      BY DEF Contiguous
    <3>1. CASE i = Len(queue) + 1 /\ queue'[i] = f
      BY <3>1, <2>1, <2>4, <2>5, <2>6
    <3>2. CASE i \in 1..Len(queue) /\ queue'[i] = queue[i] /\ i # Len(queue) + 1
      <4>1. /\ queue[i].start + HdrLen < queue[i].end
            /\ queue[i].end = IF i = Len(queue) THEN written ELSE queue[i + 1].start
        BY <3>2 DEF IInv, Contiguous
      <4>2. CASE i = Len(queue)
        BY <3>2, <4>1, <4>2, <2>4, <2>5
      <4>3. CASE i # Len(queue)
        <5>1. i + 1 \in 1..Len(queue)
          BY <3>2, <4>3, <2>1
        <5> QED BY <3>2, <4>1, <4>3, <5>1, <2>4
      <4> QED BY <4>2, <4>3
    <3> QED BY <3>1, <3>2, <2>9
  <2>14. WithinCapacity'
    <3>1. CASE queue = <<>>
      BY <3>1, <2>1, <2>4, <2>5, <2>6 DEF WithinCapacity, Used
    <3>2. CASE queue # <<>>
      <4>1. 1 \in 1..Len(queue) /\ queue'[1] = queue[1] /\ queue' # <<>>
        BY <3>2, <2>1, <2>4
      <4>2. {queue[1].start} \subseteq Nat
        BY <4>1, Numbers
      <4>3. Used = written - queue[1].start /\ Used' = written' - queue[1].start
        BY <3>2, <4>1 DEF Used
      <4> QED BY <4>2, <4>3, <2>1, <2>6 DEF WithinCapacity
    <3> QED BY <3>1, <3>2
  <2>16. LensKnown'
    <3> SUFFICES ASSUME NEW i \in 1..Len(queue')
                 PROVE  queue'[i].end - queue'[i].start - HdrLen \in FrameLens
      BY DEF LensKnown
    <3>1. CASE i = Len(queue) + 1 /\ queue'[i] = f
      <4>1. queue'[i].end - queue'[i].start - HdrLen = incoming
        BY <3>1, <2>1, <2>5
      <4> QED BY <4>1, <2>1 DEF IInv, TypeOK
    <3>2. CASE i \in 1..Len(queue) /\ queue'[i] = queue[i]
      BY <3>2 DEF IInv, LensKnown
    <3> QED BY <3>1, <3>2, <2>9
  <2> QED BY <2>7, <2>15, <2>10, <2>11, <2>12, <2>13, <2>14, <2>16 DEF IInv
<1>4. ASSUME NEW k \in 1..Len(queue), Deliver(k) PROVE IInv'
  <2>1. queue \in Seq(Frame) /\ k \in 0..Len(queue)
        /\ queue' = SubSeq(queue, k + 1, Len(queue))
    BY <1>4 DEF Deliver, IInv, TypeOK
  <2>2. /\ queue' \in Seq(Frame)
        /\ Len(queue') = Len(queue) - k
        /\ \A i \in 1..Len(queue) - k : queue'[i] = queue[k + i]
    BY <2>1, Rest
  <2>3. /\ dropped' = dropped /\ delivered' = delivered + k
        /\ UNCHANGED <<written, incoming, accepted>>
    BY <1>4 DEF Deliver
  <2>4. dropped' = dropped + 0 /\ k = 0 + k /\ 0 \in Nat /\ k \in Nat
    BY <2>3, Numbers
  <2> QED BY <2>1, <2>2, <2>3, <2>4, TakingOldest
<1>5. CASE Reset
  BY <1>5, CapacityAssumption
     DEF Reset, IInv, TypeOK, WithinCapacity, Used, Accounted, NoGaps,
         Contiguous, Ordered, EndsWritten, LensKnown
<1>6. CASE UNCHANGED vars
  BY <1>6 DEF vars, IInv, TypeOK, WithinCapacity, Used, Accounted, NoGaps,
              Contiguous, Ordered, EndsWritten, LensKnown
<1> QED BY <1>1, <1>2, <1>3, <1>4, <1>5, <1>6 DEF Next

(* The inductive invariant holds in every reachable state.                 *)
THEOREM Invariance == Spec => []IInv
  BY InvInit, InvNext, PTL DEF Spec

(* The variables keep their types: in particular the frame that a push is  *)
(* making room for is always one that was offered.                         *)
THEOREM TypeTheorem == Spec => []TypeOK
<1>1. IInv => TypeOK
  BY DEF IInv
<1> QED BY <1>1, Invariance, PTL

(* The frames in the store never occupy more than its capacity, whatever   *)
(* sequence of pushes, drops, drains and resets led there.                 *)
THEOREM CapacityTheorem == Spec => []WithinCapacity
<1>1. IInv => WithinCapacity
  BY DEF IInv
<1> QED BY <1>1, Invariance, PTL

(* Every frame accepted is held, was handed out or is counted as dropped.  *)
THEOREM AccountingTheorem == Spec => []Accounted
<1>1. IInv => Accounted
  BY DEF IInv
<1> QED BY <1>1, Invariance, PTL

(* What drains hand out is the accepted stream with gaps only where drops  *)
(* were counted: the frames held are numbered on from there without a gap. *)
THEOREM NoGapsTheorem == Spec => []NoGaps
<1>1. IInv => NoGaps
  BY DEF IInv
<1> QED BY <1>1, Invariance, PTL

(* Records stay contiguous in the stream of bytes.                         *)
THEOREM ContiguityTheorem == Spec => []Contiguous
<1>1. IInv => Contiguous
  BY DEF IInv
<1> QED BY <1>1, Invariance, PTL
=============================================================================
