-------------------------- MODULE FrameRing_proofs --------------------------
(***************************************************************************)
(* Proofs about FrameRing, for every capacity of the ring, every base of   *)
(* the bytes, and every set of frame lengths whose records fit: the ring   *)
(* of bytes implements FrameQueue, and what it hands out are the frames.   *)
(***************************************************************************)
EXTENDS FrameRing, SequenceTheorems, TLAPS

FQP == INSTANCE FrameQueue_proofs WITH
         Capacity  <- RingCap - 1,
         queue     <- frames,
         written   <- wrote,
         incoming  <- IF pusher = "room" THEN len ELSE 0,
         accepted  <- total + IF pusher = "count" THEN 1 ELSE 0

(* A push that is under way has a frame of an allowed length, and nobody   *)
(* drains while it makes room.                                             *)
Phases ==
  /\ pusher # "idle" => len \in FrameLens
  /\ ~(pusher = "room" /\ drainer = "loop")

IInv ==
  /\ TypeOK
  /\ Phases
  /\ RingHoldsFrames
  /\ FQP!IInv

-----------------------------------------------------------------------------
(* Division with remainder.                                                *)
LEMMA DivMod ==
  ASSUME NEW a \in Nat, NEW m \in Nat \ {0}
  PROVE  /\ a % m \in Nat /\ a % m < m /\ a % m \in 0 .. m - 1
         /\ a \div m \in Nat
         /\ a = m * (a \div m) + (a % m)
  OBVIOUS

LEMMA Quotient ==
  ASSUME NEW m \in Nat \ {0}, NEW q \in Int, NEW p \in Int, NEW r \in Nat, NEW s \in Nat,
         r < m, s < m, m * q + r = m * p + s
  PROVE  q = p /\ r = s
  OBVIOUS

LEMMA ModIs ==
  ASSUME NEW a \in Nat, NEW m \in Nat \ {0}, NEW q \in Nat, NEW r \in Nat,
         r < m, a = m * q + r
  PROVE  a % m = r /\ a \div m = q
  BY DivMod, Quotient

LEMMA ModOfSum ==
  ASSUME NEW a \in Nat, NEW b \in Nat, NEW m \in Nat \ {0}
  PROVE  ((a % m) + b) % m = (a + b) % m
<1> DEFINE q == a \div m
           r == a % m
           p == (r + b) \div m
           s == (r + b) % m
<1>1. q \in Nat /\ r \in Nat /\ r < m /\ a = m * q + r
  BY DivMod
<1>2. p \in Nat /\ s \in Nat /\ s < m /\ r + b = m * p + s
  <2>1. r + b \in Nat
    BY <1>1
  <2> QED
    BY <2>1, DivMod
<1>3. r = a % m /\ s = (r + b) % m
  OBVIOUS
<1> HIDE DEF q, r, p, s
<1>4. a + b = m * (q + p) + s /\ a + b \in Nat /\ q + p \in Nat
  BY <1>1, <1>2
<1>5. \A x, y \in Nat : x = m * y + s => x % m = s
  BY <1>2, ModIs
<1>6. (a + b) % m = s
  BY <1>4, <1>5
<1> QED
  BY <1>3, <1>6

LEMMA RoundTheArray ==
  ASSUME NEW a \in Nat, NEW m \in Nat \ {0}
  PROVE  (a + m) % m = a % m
<1> DEFINE q == a \div m
           r == a % m
<1>1. q \in Nat /\ r \in Nat /\ r < m /\ a = m * q + r
  BY DivMod
<1>2. r = a % m
  OBVIOUS
<1> HIDE DEF q, r
<1>3. a + m = m * (q + 1) + r /\ a + m \in Nat /\ q + 1 \in Nat
  BY <1>1
<1>4. \A x, y \in Nat : x = m * y + r => x % m = r
  BY <1>1, ModIs
<1> QED
  BY <1>2, <1>3, <1>4

(* The cell k after position w is found at distance k.                     *)
LEMMA Distance ==
  ASSUME NEW w \in Nat, NEW m \in Nat \ {0}, NEW k \in Nat, k < m
  PROVE  (((w + k) % m) + m - (w % m)) % m = k
<1> DEFINE q == w \div m
           r == w % m
           p == (w + k) \div m
           i == (w + k) % m
<1>1. q \in Nat /\ r \in Nat /\ r < m /\ w = m * q + r
  BY DivMod
<1>2. p \in Nat /\ i \in Nat /\ i < m /\ w + k = m * p + i
  BY DivMod
<1>3. r = w % m /\ i = (w + k) % m
  OBVIOUS
<1> HIDE DEF q, r, p, i
<1>4. p <= q + 1
  <2>1. SUFFICES ASSUME p >= q + 2 PROVE FALSE
    BY <1>1, <1>2
  <2>2. m * p >= m * (q + 2)
    BY <1>1, <1>2, <2>1
  <2> QED
    BY <1>1, <1>2, <2>2
<1>5. i + m - r = m * (1 + q - p) + k /\ i + m - r \in Nat /\ 1 + q - p \in Nat
  BY <1>1, <1>2, <1>4
<1>6. \A x, y \in Nat : x = m * y + k => x % m = k
  BY ModIs
<1> QED
  BY <1>3, <1>5, <1>6

(* The distance of a cell leads back to it.                                *)
LEMMA Reached ==
  ASSUME NEW w \in Nat, NEW m \in Nat \ {0}, NEW i \in 0 .. m - 1
  PROVE  /\ (i + m - (w % m)) % m \in 0 .. m - 1
         /\ (w + ((i + m - (w % m)) % m)) % m = i
<1> DEFINE q == w \div m
           r == w % m
           e == (i + m - r) \div m
           d == (i + m - r) % m
<1>1. q \in Nat /\ r \in Nat /\ r < m /\ w = m * q + r
  BY DivMod
<1>2. e \in Nat /\ d \in Nat /\ d < m /\ i + m - r = m * e + d
  <2>1. i + m - r \in Nat
    BY <1>1
  <2> QED
    BY <2>1, DivMod
<1>3. r = w % m /\ d = (i + m - r) % m
  OBVIOUS
<1> HIDE DEF q, r, e, d
<1>4. e <= 1
  <2>1. SUFFICES ASSUME e >= 2 PROVE FALSE
    BY <1>2
  <2>2. m * e >= m * 2
    BY <1>2, <2>1
  <2> QED
    BY <1>1, <1>2, <2>2
<1>5. w + d = m * (q + 1 - e) + i /\ w + d \in Nat /\ q + 1 - e \in Nat
  BY <1>1, <1>2, <1>4
<1>6. \A x, y \in Nat : x = m * y + i => x % m = i
  BY ModIs
<1>7. (w + d) % m = i
  BY <1>5, <1>6
<1>8. d \in 0 .. m - 1
  BY <1>2
<1> QED
  BY <1>3, <1>7, <1>8, Zenon

(* Four digits in base b spell the number.                                 *)
LEMMA DivOfDiv ==
  ASSUME NEW n \in Nat, NEW b \in Nat \ {0}, NEW c \in Nat \ {0}
  PROVE  n \div (b * c) = (n \div b) \div c
<1> DEFINE q == n \div b
           r == n % b
           p == q \div c
           s == q % c
<1>1. q \in Nat /\ r \in Nat /\ r < b /\ n = b * q + r
  BY DivMod
<1>2. p \in Nat /\ s \in Nat /\ s < c /\ q = c * p + s
  BY <1>1, DivMod
<1>3. q = n \div b /\ p = q \div c
  OBVIOUS
<1> HIDE DEF q, r, p, s
<1>4. b * c \in Nat \ {0}
  OBVIOUS
<1>5. n = (b * c) * p + (b * s + r)
  BY <1>1, <1>2
<1>6. b * s + r \in Nat /\ b * s + r < b * c
  <2>1. b * s + b <= b * c
    <3>1. s + 1 <= c
      BY <1>2
    <3>2. b * (s + 1) <= b * c
      BY <1>2, <3>1
    <3> QED
      BY <1>2, <3>2
  <2> QED
    BY <1>1, <1>2, <2>1
<1>7. \A m \in Nat \ {0}, x \in Nat : x < m /\ n = m * p + x => n \div m = p
  BY <1>2, ModIs
<1>8. n \div (b * c) = p
  BY <1>4, <1>5, <1>6, <1>7
<1> QED
  BY <1>3, <1>8

LEMMA Digits ==
  ASSUME NEW n \in Nat, n < Base * Base * Base * Base
  PROVE  (n % Base)
           + Base * (((n \div Base) % Base)
             + Base * (((n \div (Base * Base)) % Base)
               + Base * ((n \div (Base * Base * Base)) % Base))) = n
<1> DEFINE a == n \div Base
           b == n \div (Base * Base)
           c == n \div (Base * Base * Base)
<1>1. Base \in Nat \ {0} /\ Base * Base \in Nat \ {0}
  BY RingAssumption
<1>2. a \in Nat /\ n % Base \in Nat /\ n = Base * a + (n % Base)
  BY <1>1, DivMod
<1>3. b = a \div Base /\ c = b \div Base
  BY <1>1, DivOfDiv
<1>4. b \in Nat /\ a % Base \in Nat /\ a = Base * b + (a % Base)
  BY <1>1, <1>2, <1>3, DivMod
<1>5. c \in Nat /\ b % Base \in Nat /\ b = Base * c + (b % Base)
  BY <1>1, <1>3, <1>4, DivMod
<1> HIDE DEF a, b, c
<1> DEFINE r == n % Base
           s == a % Base
           t == b % Base
<1>6. /\ r \in Nat /\ s \in Nat /\ t \in Nat
      /\ n = Base * a + r /\ a = Base * b + s /\ b = Base * c + t
  BY <1>2, <1>4, <1>5
<1>7. r = n % Base /\ s = a % Base /\ t = b % Base
  OBVIOUS
<1> HIDE DEF r, s, t
<1>8. c < Base
  <2>1. SUFFICES ASSUME c >= Base PROVE FALSE
    BY <1>1, <1>5
  <2>2. Base * c >= Base * Base
    BY <1>1, <1>5, <2>1
  <2>3. b >= Base * Base
    BY <1>1, <1>4, <1>5, <1>6, <2>2
  <2>4. Base * b >= Base * (Base * Base)
    BY <1>1, <1>4, <2>3
  <2>5. a >= Base * Base * Base
    BY <1>1, <1>2, <1>4, <1>6, <2>4
  <2>6. Base * a >= Base * (Base * Base * Base)
    BY <1>1, <1>2, <2>5
  <2>7. n >= Base * Base * Base * Base
    BY <1>1, <1>2, <1>6, <2>6
  <2> QED
    BY <1>1, <2>7
<1>9. c % Base = c
  <2>1. Base \in Nat \ {0} /\ c \in Nat /\ c < Base /\ 0 \in Nat /\ c = Base * 0 + c
    BY <1>1, <1>5, <1>8
  <2> QED
    BY ONLY <2>1, ModIs
<1>10. r + Base * (s + Base * (t + Base * c)) = n
  BY <1>1, <1>2, <1>4, <1>5, <1>6
<1> QED
  BY <1>7, <1>9, <1>10 DEF a, b, c

-----------------------------------------------------------------------------
(* The ring.                                                               *)
Oldest == IF frames = <<>> THEN wrote ELSE frames[1].start

LEMMA RingCapType == RingCap \in Nat \ {0} /\ Index = 0 .. RingCap - 1
  BY RingAssumption DEF Index

LEMMA FrameType ==
  ASSUME TypeOK, NEW i \in 1 .. Len(frames)
  PROVE  /\ frames[i].start \in Nat /\ frames[i].end \in Nat /\ frames[i].seq \in Nat
         /\ frames[i] \in [seq : Nat, start : Nat, end : Nat]
<1>1. frames \in Seq([seq : Nat, start : Nat, end : Nat])
  BY DEF TypeOK
<1>2. frames[i] \in [seq : Nat, start : Nat, end : Nat]
  BY <1>1, ElementOfSeq, Zenon
<1> QED
  BY <1>2

(* Every frame held is in the part of the stream between reader and        *)
(* writer, and that part is shorter than the array.                        *)
LEMMA Window ==
  ASSUME IInv
  PROVE  /\ Oldest \in Nat /\ wrote \in Nat
         /\ Oldest <= wrote /\ wrote - Oldest <= RingCap - 1
         /\ FQP!Used = wrote - Oldest
         /\ \A i \in 1 .. Len(frames) :
              /\ Oldest <= frames[i].start
              /\ frames[i].start + HdrLen < frames[i].end
              /\ frames[i].end <= wrote
<1>1. wrote \in Nat /\ Len(frames) \in Nat
  BY DEF IInv, TypeOK
<1>2. ASSUME NEW i \in 1 .. Len(frames)
      PROVE  /\ Oldest <= frames[i].start
             /\ frames[i].start + HdrLen < frames[i].end
             /\ frames[i].end <= wrote
  <2>1. frames[i].start \in Nat /\ frames[i].end \in Nat
    BY FrameType DEF IInv
  <2>2. 1 \in 1 .. Len(frames) /\ frames # <<>>
    BY <1>1
  <2>3. frames[1].start \in Nat /\ frames[1].end \in Nat
    BY <2>2, FrameType DEF IInv
  <2>4. frames[i].start + HdrLen < frames[i].end /\ frames[1].start + HdrLen < frames[1].end
    BY <2>2 DEF IInv, FQP!IInv, FQP!Contiguous
  <2>5. frames[i].end <= wrote
    BY DEF IInv, FQP!IInv, FQP!EndsWritten
  <2>6. i # 1 => frames[1].end <= frames[i].start
    BY <1>1, <2>2 DEF IInv, FQP!IInv, FQP!Ordered
  <2>7. frames[1].start <= frames[i].start
    BY <2>1, <2>3, <2>4, <2>6 DEF HdrLen
  <2> QED
    BY <2>2, <2>4, <2>5, <2>7 DEF Oldest
<1>3. Oldest \in Nat /\ Oldest <= wrote
  <2>1. CASE frames = <<>>
    BY <1>1, <2>1 DEF Oldest
  <2>2. CASE frames # <<>>
    <3>1. 1 \in 1 .. Len(frames)
      BY <2>2 DEF IInv, TypeOK
    <3>2. frames[1].start \in Nat /\ frames[1].end \in Nat
      BY <3>1, FrameType DEF IInv
    <3>3. frames[1].start + HdrLen < frames[1].end /\ frames[1].end <= wrote
      BY <1>2, <3>1
    <3> QED
      BY <1>1, <2>2, <3>2, <3>3 DEF Oldest, HdrLen
  <2> QED
    BY <2>1, <2>2
<1>4. FQP!Used = wrote - Oldest
  BY <1>1 DEF FQP!Used, Oldest
<1>5. wrote - Oldest <= RingCap - 1
  BY <1>4 DEF IInv, FQP!IInv, FQP!WithinCapacity
<1> QED
  BY <1>1, <1>2, <1>3, <1>4, <1>5

(* What the code computes from the two indices is what is in the store.    *)
LEMMA UsedIsUsed ==
  ASSUME IInv
  PROVE  /\ RingUsed = wrote - Oldest
         /\ RingFree = RingCap - 1 - (wrote - Oldest)
         /\ head = wrote % RingCap /\ tail = Oldest % RingCap
<1>1. head = wrote % RingCap /\ tail = Oldest % RingCap
  BY DEF IInv, RingHoldsFrames, Oldest
<1>2. /\ Oldest \in Nat /\ wrote - Oldest \in Nat /\ wrote - Oldest < RingCap
      /\ Oldest + (wrote - Oldest) = wrote
  BY Window, RingCapType
<1>3. (((Oldest + (wrote - Oldest)) % RingCap) + RingCap - (Oldest % RingCap)) % RingCap
        = wrote - Oldest
  BY <1>2, RingCapType, Distance
<1>4. RingUsed = wrote - Oldest
  BY <1>1, <1>2, <1>3 DEF RingUsed
<1> QED
  BY <1>1, <1>4 DEF RingFree

(* A frame is in the store when a header's worth of bytes is.              *)
LEMMA HeldWhenUsed ==
  ASSUME IInv
  PROVE  IF frames = <<>> THEN RingUsed = 0
         ELSE /\ 1 \in 1 .. Len(frames)
              /\ RingUsed >= frames[1].end - frames[1].start
              /\ RingUsed > HdrLen
<1>1. CASE frames = <<>>
  BY <1>1, UsedIsUsed, Window DEF Oldest
<1>2. CASE frames # <<>>
  <2>1. 1 \in 1 .. Len(frames)
    BY <1>2 DEF IInv, TypeOK
  <2>2. frames[1].start \in Nat /\ frames[1].end \in Nat
    BY <2>1, FrameType DEF IInv
  <2> QED
    BY <1>2, <2>1, <2>2, UsedIsUsed, Window DEF Oldest, HdrLen
<1> QED
  BY <1>1, <1>2

(* A record read at the reader index is the oldest frame's.                *)
LEMMA OldestBytes ==
  ASSUME IInv, frames # <<>>,
         NEW j \in 1 .. frames[1].end - frames[1].start
  PROVE  ring[Advance(tail, j - 1)] = RecordOf(frames[1])[j]
<1>1. 1 \in 1 .. Len(frames)
  BY HeldWhenUsed
<1>2. frames[1].start \in Nat /\ frames[1].end \in Nat
  BY <1>1, FrameType DEF IInv
<1>3. ring[(frames[1].start + j - 1) % RingCap] = RecordOf(frames[1])[j]
  BY <1>1 DEF IInv, RingHoldsFrames
<1>4. tail = frames[1].start % RingCap
  BY UsedIsUsed DEF Oldest
<1>5. j - 1 \in Nat /\ frames[1].start + (j - 1) = frames[1].start + j - 1
  BY <1>2
<1>6. ((frames[1].start % RingCap) + (j - 1)) % RingCap = (frames[1].start + j - 1) % RingCap
  BY <1>2, <1>5, RingCapType, ModOfSum
<1> QED
  BY <1>3, <1>4, <1>6 DEF Advance

(* The header found there is the oldest frame's length.                    *)
LEMMA OldestHeader ==
  ASSUME IInv, frames # <<>>
  PROVE  /\ HeaderAt(tail) = frames[1].end - frames[1].start - HdrLen
         /\ HeaderAt(tail) \in Nat
         /\ HdrLen + HeaderAt(tail) = frames[1].end - frames[1].start
         /\ HdrLen + HeaderAt(tail) \in Nat
<1> DEFINE n == frames[1].end - frames[1].start - HdrLen
<1>1. 1 \in 1 .. Len(frames)
  BY HeldWhenUsed
<1>2. frames[1].start \in Nat /\ frames[1].end \in Nat
  BY <1>1, FrameType DEF IInv
<1>3. n \in FrameLens
  BY <1>1 DEF IInv, FQP!IInv, FQP!LensKnown
<1>4. n \in Nat /\ n < Base * Base * Base * Base
  BY <1>3, LensAssumption
<1>5. frames[1].end - frames[1].start = HdrLen + n
  BY <1>2 DEF HdrLen
<1>6. /\ RecordOf(frames[1])[1] = n % Base
      /\ RecordOf(frames[1])[2] = (n \div Base) % Base
      /\ RecordOf(frames[1])[3] = (n \div (Base * Base)) % Base
      /\ RecordOf(frames[1])[4] = (n \div (Base * Base * Base)) % Base
  BY <1>4 DEF RecordOf, Record, HdrLen
<1>7. /\ ring[Advance(tail, 0)] = n % Base
      /\ ring[Advance(tail, 1)] = (n \div Base) % Base
      /\ ring[Advance(tail, 2)] = (n \div (Base * Base)) % Base
      /\ ring[Advance(tail, 3)] = (n \div (Base * Base * Base)) % Base
  <2> HIDE DEF n
  <2>1. \A k \in 1 .. 4 : k \in 1 .. frames[1].end - frames[1].start
    BY <1>4, <1>5 DEF HdrLen
  <2>2. \A k \in 1 .. 4 : ring[Advance(tail, k - 1)] = RecordOf(frames[1])[k]
    BY <2>1, OldestBytes
  <2>3. /\ ring[Advance(tail, 1 - 1)] = RecordOf(frames[1])[1]
        /\ ring[Advance(tail, 2 - 1)] = RecordOf(frames[1])[2]
        /\ ring[Advance(tail, 3 - 1)] = RecordOf(frames[1])[3]
        /\ ring[Advance(tail, 4 - 1)] = RecordOf(frames[1])[4]
    BY <2>2
  <2>4. 1 - 1 = 0 /\ 2 - 1 = 1 /\ 3 - 1 = 2 /\ 4 - 1 = 3
    OBVIOUS
  <2> QED
    BY <1>6, <2>3, <2>4
<1> HIDE DEF n
<1>8. HeaderAt(tail) = n
  BY <1>4, <1>7, Digits DEF HeaderAt
<1> QED
  BY <1>2, <1>4, <1>5, <1>8 DEF n, HdrLen

-----------------------------------------------------------------------------
(* A turn of either loop takes the oldest record away: the reader index    *)
(* moves past it, and what the array holds is what it held after it.       *)
OldestTaken ==
  /\ frames # <<>>
  /\ frames' = SubSeq(frames, 2, Len(frames))
  /\ tail' = Advance(tail, frames[1].end - frames[1].start)
  /\ UNCHANGED <<ring, head, wrote>>

LEMMA WithoutOldest ==
  ASSUME IInv, OldestTaken
  PROVE  /\ frames' \in Seq([seq : Nat, start : Nat, end : Nat])
         /\ Len(frames') = Len(frames) - 1
         /\ \A i \in 1 .. Len(frames') : i + 1 \in 1 .. Len(frames) /\ frames'[i] = frames[i + 1]
<1>1. frames \in Seq([seq : Nat, start : Nat, end : Nat]) /\ Len(frames) \in Nat
  BY DEF IInv, TypeOK
<1>2. frames' = Tail(frames) /\ frames # <<>>
  BY <1>1, TailIsSubSeq, Zenon DEF OldestTaken
<1>3. /\ frames' \in Seq([seq : Nat, start : Nat, end : Nat])
      /\ Len(frames') = Len(frames) - 1
      /\ \A i \in 1 .. Len(frames') : frames'[i] = frames[i + 1]
  BY <1>1, <1>2, HeadTailProperties, Zenon
<1>4. \A i \in 1 .. Len(frames') : i + 1 \in 1 .. Len(frames)
  BY <1>1, <1>3
<1> QED
  BY <1>3, <1>4

LEMMA TakingOldestKeeps ==
  ASSUME IInv, OldestTaken
  PROVE  RingHoldsFrames' /\ tail' \in Index
<1>1. 1 \in 1 .. Len(frames) /\ Len(frames) \in Nat
  BY HeldWhenUsed DEF OldestTaken, IInv, TypeOK
<1>2. frames[1].start \in Nat /\ frames[1].end \in Nat
  BY <1>1, FrameType DEF IInv
<1>3. frames[1].start + HdrLen < frames[1].end
  BY <1>1, Window
<1>4. frames[1].end = IF 1 = Len(frames) THEN wrote ELSE frames[2].start
  <2>1. 1 + 1 = 2
    OBVIOUS
  <2> QED
    BY <1>1, <2>1 DEF IInv, FQP!IInv, FQP!Contiguous
<1>5. tail' = frames[1].end % RingCap
  <2>1. tail = frames[1].start % RingCap
    BY UsedIsUsed DEF Oldest, OldestTaken
  <2>2. /\ frames[1].end - frames[1].start \in Nat
        /\ frames[1].start + (frames[1].end - frames[1].start) = frames[1].end
    BY <1>2, <1>3 DEF HdrLen
  <2>3. ((frames[1].start % RingCap) + (frames[1].end - frames[1].start)) % RingCap
          = frames[1].end % RingCap
    BY <1>2, <2>2, ModOfSum, RingCapType
  <2> QED
    BY <2>1, <2>3 DEF OldestTaken, Advance
<1>6. tail' = (IF frames' = <<>> THEN wrote' ELSE frames'[1].start) % RingCap
  <2>1. CASE Len(frames) = 1
    <3>1. frames' = <<>>
      BY <2>1, <1>1, WithoutOldest
    <3> QED
      BY <2>1, <3>1, <1>4, <1>5 DEF OldestTaken
  <2>2. CASE Len(frames) # 1
    <3>1. 1 \in 1 .. Len(frames') /\ 1 + 1 = 2
      BY <2>2, <1>1, WithoutOldest
    <3>2. frames' # <<>>
      BY <3>1
    <3>3. frames'[1] = frames[2]
      BY <3>1, WithoutOldest
    <3> QED
      BY <2>2, <3>2, <3>3, <1>4, <1>5
  <2> QED
    BY <2>1, <2>2
<1>7. ASSUME NEW i \in 1 .. Len(frames'), NEW j \in 1 .. frames'[i].end - frames'[i].start
      PROVE  ring'[(frames'[i].start + j - 1) % RingCap] = RecordOf(frames'[i])[j]
  <2>1. i + 1 \in 1 .. Len(frames) /\ frames'[i] = frames[i + 1]
    BY WithoutOldest
  <2> QED
    BY <2>1 DEF IInv, RingHoldsFrames, OldestTaken
<1>8. RingHoldsFrames'
  <2>1. head' = wrote' % RingCap
    BY UsedIsUsed DEF OldestTaken
  <2>2. \A i \in 1 .. Len(frames') : \A j \in 1 .. frames'[i].end - frames'[i].start :
          ring'[(frames'[i].start + j - 1) % RingCap] = RecordOf(frames'[i])[j]
    BY <1>7
  <2>3. \A f : RecordOf(f)' = RecordOf(f)
    OBVIOUS
  <2> QED
    BY <1>6, <2>1, <2>2 DEF RingHoldsFrames, RecordOf
<1>9. tail' \in Index
  BY <1>2, <1>5, DivMod, RingCapType
<1> QED
  BY <1>8, <1>9

-----------------------------------------------------------------------------
(* A record written at the writer index fits between the two indices: it   *)
(* is found there afterwards, and every older record is as it was.         *)
NewFrame == [seq |-> total + 1, start |-> wrote, end |-> wrote + HdrLen + len]

LEMMA RoomWhenWritten ==
  ASSUME IInv, pusher = "room", ~NeedsRoom
  PROVE  /\ len \in FrameLens /\ len \in Nat \ {0}
         /\ wrote - Oldest + HdrLen + len <= RingCap - 1
<1>1. len \in FrameLens
  BY DEF IInv, Phases
<1>2. len \in Nat \ {0} /\ HdrLen + len < RingCap
  BY <1>1, LensAssumption
<1>3. wrote - Oldest \in Nat /\ RingUsed = wrote - Oldest
      /\ RingFree = RingCap - 1 - (wrote - Oldest)
  BY Window, UsedIsUsed
<1>4. CASE RingFree >= HdrLen + len
  BY <1>1, <1>2, <1>3, <1>4, RingCapType DEF HdrLen
<1>5. CASE RingUsed < HdrLen
  <2>1. RingUsed = 0
    BY <1>3, <1>5, HeldWhenUsed DEF HdrLen
  <2> QED
    BY <1>1, <1>2, <1>3, <2>1, RingCapType DEF HdrLen
<1>6. RingFree >= HdrLen + len \/ RingUsed < HdrLen
  BY <1>2, <1>3, RingCapType DEF NeedsRoom, HdrLen
<1> QED
  BY <1>4, <1>5, <1>6

(* The cells of the bytes just written, and of those of the window.        *)
LEMMA WrittenCells ==
  ASSUME wrote \in Nat, head = wrote % RingCap, NEW n \in Nat, NEW bytes
  PROVE  /\ \A k \in Nat : k < RingCap =>
              Written(bytes, n)[(wrote + k) % RingCap]
                = IF k < n THEN bytes[k + 1] ELSE ring[(wrote + k) % RingCap]
         /\ \A p \in Nat : p < wrote /\ p + RingCap >= wrote + n =>
              Written(bytes, n)[p % RingCap] = ring[p % RingCap]
<1>1. ASSUME NEW k \in Nat, k < RingCap
      PROVE  Written(bytes, n)[(wrote + k) % RingCap]
               = IF k < n THEN bytes[k + 1] ELSE ring[(wrote + k) % RingCap]
  <2> DEFINE i == (wrote + k) % RingCap
  <2>1. i \in Index
    <3>1. wrote + k \in Nat
      OBVIOUS
    <3> QED
      BY <3>1, DivMod, RingCapType
  <2>2. (i + RingCap - head) % RingCap = k
    BY <1>1, Distance, RingCapType
  <2> HIDE DEF i
  <2>3. Written(bytes, n)[i] = IF k < n THEN bytes[k + 1] ELSE ring[i]
    BY <2>1, <2>2 DEF Written
  <2> QED
    BY <2>3 DEF i
<1>2. ASSUME NEW p \in Nat, p < wrote, p + RingCap >= wrote + n
      PROVE  Written(bytes, n)[p % RingCap] = ring[p % RingCap]
  <2> DEFINE k == p + RingCap - wrote
  <2>1. k \in Nat /\ k < RingCap /\ ~(k < n) /\ wrote + k = p + RingCap
    BY <1>2, RingCapType
  <2>2. (p + RingCap) % RingCap = p % RingCap
    BY RoundTheArray, RingCapType
  <2> HIDE DEF k
  <2>3. Written(bytes, n)[(wrote + k) % RingCap] = ring[(wrote + k) % RingCap]
    BY <1>1, <2>1
  <2> QED
    BY <2>1, <2>2, <2>3
<1> QED
  BY <1>1, <1>2

LEMMA RecordType ==
  ASSUME NEW n \in Nat, NEW mark \in Nat, NEW j \in 1 .. HdrLen + n
  PROVE  Record(n, mark)[j] \in Nat
<1>1. Base \in Nat \ {0} /\ Base * Base \in Nat \ {0} /\ Base * Base * Base \in Nat \ {0}
  BY RingAssumption
<1>2. /\ n % Base \in Nat
      /\ (n \div Base) % Base \in Nat
      /\ (n \div (Base * Base)) % Base \in Nat
      /\ (n \div (Base * Base * Base)) % Base \in Nat
  BY <1>1, DivMod
<1>3. Record(n, mark)[j] =
        CASE j = 1 -> n % Base
          [] j = 2 -> (n \div Base) % Base
          [] j = 3 -> (n \div (Base * Base)) % Base
          [] j = 4 -> (n \div (Base * Base * Base)) % Base
          [] OTHER -> mark
  BY DEF Record
<1> QED
  BY <1>2, <1>3

LEMMA WrittenType ==
  ASSUME wrote \in Nat, head = wrote % RingCap, ring \in [Index -> Nat],
         NEW n \in Nat, NEW mark \in Nat
  PROVE  Written(Record(n, mark), HdrLen + n) \in [Index -> Nat]
<1> DEFINE bytes == Record(n, mark)
<1>1. ASSUME NEW i \in Index
      PROVE  (IF (i + RingCap - head) % RingCap < HdrLen + n
              THEN bytes[((i + RingCap - head) % RingCap) + 1] ELSE ring[i]) \in Nat
  <2> DEFINE d == (i + RingCap - head) % RingCap
  <2>1. d \in Nat
    BY <1>1, Reached, RingCapType
  <2>2. CASE d < HdrLen + n
    <3>1. d + 1 \in 1 .. HdrLen + n
      BY <2>1, <2>2 DEF HdrLen
    <3>2. bytes[d + 1] \in Nat
      BY <3>1, RecordType
    <3> QED
      BY <2>2, <3>2
  <2>3. CASE ~(d < HdrLen + n)
    BY <2>3
  <2> QED
    BY <2>2, <2>3
<1> HIDE DEF bytes
<1>2. Written(bytes, HdrLen + n) \in [Index -> Nat]
  BY <1>1 DEF Written
<1> QED
  BY <1>2 DEF bytes

LEMMA WritingKeeps ==
  ASSUME IInv, PushWrite
  PROVE  /\ RingHoldsFrames'
         /\ ring' \in [Index -> Nat] /\ head' \in Index
         /\ frames' \in Seq([seq : Nat, start : Nat, end : Nat])
         /\ wrote' \in Nat
<1> DEFINE n == HdrLen + len
<1>1. /\ ring' = Written(Record(len, total + 1), n)
      /\ head' = Advance(head, n)
      /\ frames' = Append(frames, NewFrame)
      /\ wrote' = wrote + HdrLen + len
      /\ tail' = tail /\ total' = total
      /\ pusher = "room" /\ ~NeedsRoom
  BY DEF PushWrite, NewFrame
<1>2. /\ wrote \in Nat /\ total \in Nat /\ Len(frames) \in Nat /\ ring \in [Index -> Nat]
      /\ frames \in Seq([seq : Nat, start : Nat, end : Nat])
  BY DEF IInv, TypeOK
<1>3. /\ len \in FrameLens /\ len \in Nat \ {0}
      /\ Oldest \in Nat /\ Oldest <= wrote
      /\ wrote - Oldest + HdrLen + len <= RingCap - 1
      /\ RingCap \in Nat \ {0}
  BY <1>1, RoomWhenWritten, Window, RingCapType
<1>4. n \in Nat /\ n < RingCap /\ wrote' = wrote + n /\ wrote' \in Nat
  BY <1>1, <1>2, <1>3 DEF HdrLen
<1>5. head = wrote % RingCap /\ tail = Oldest % RingCap
  BY UsedIsUsed
<1>6. /\ NewFrame \in [seq : Nat, start : Nat, end : Nat]
      /\ NewFrame.seq = total + 1 /\ NewFrame.start = wrote /\ NewFrame.end = wrote + n
  BY <1>2, <1>3 DEF NewFrame, HdrLen
<1>7. /\ frames' \in Seq([seq : Nat, start : Nat, end : Nat])
      /\ frames' # <<>>
      /\ Len(frames') = Len(frames) + 1
      /\ \A i \in 1 .. Len(frames) : frames'[i] = frames[i]
      /\ frames'[Len(frames) + 1] = NewFrame
  <2>1. /\ Append(frames, NewFrame) \in Seq([seq : Nat, start : Nat, end : Nat])
        /\ Append(frames, NewFrame) # <<>>
        /\ Len(Append(frames, NewFrame)) = Len(frames) + 1
        /\ \A i \in 1 .. Len(frames) : Append(frames, NewFrame)[i] = frames[i]
        /\ Append(frames, NewFrame)[Len(frames) + 1] = NewFrame
    BY <1>2, <1>6, AppendProperties, Zenon
  <2> QED
    BY <2>1, <1>1
<1>8. ASSUME NEW i \in 1 .. Len(frames')
      PROVE  \/ i \in 1 .. Len(frames) /\ frames'[i] = frames[i]
             \/ i = Len(frames) + 1 /\ frames'[i] = NewFrame
  <2>1. i \in 1 .. Len(frames) \/ i = Len(frames) + 1
    BY <1>2, <1>7
  <2> QED
    BY <2>1, <1>7, Zenon
<1>9. head' = wrote' % RingCap
  <2>1. ((wrote % RingCap) + n) % RingCap = (wrote + n) % RingCap
    BY <1>2, <1>3, <1>4, ModOfSum
  <2>2. head' = (head + n) % RingCap
    BY <1>1 DEF Advance
  <2> QED
    BY <2>1, <2>2, <1>4, <1>5
<1>10. tail' = (IF frames' = <<>> THEN wrote' ELSE frames'[1].start) % RingCap
  <2>1. frames'[1].start = Oldest
    <3>1. CASE frames = <<>>
      <4>1. Len(frames) + 1 = 1
        BY <3>1
      <4> QED
        BY <3>1, <4>1, <1>6, <1>7 DEF Oldest
    <3>2. CASE frames # <<>>
      BY <3>2, <1>7, HeldWhenUsed DEF Oldest
    <3> QED
      BY <3>1, <3>2
  <2> QED
    BY <2>1, <1>1, <1>5, <1>7
<1>11. RecordOf(NewFrame) = Record(len, total + 1)
  <2>1. NewFrame.end - NewFrame.start - HdrLen = len
    BY <1>2, <1>3, <1>6 DEF HdrLen
  <2> QED
    BY <2>1, <1>6 DEF RecordOf
<1> HIDE DEF n
<1>12. ASSUME NEW i \in 1 .. Len(frames), NEW j \in 1 .. frames[i].end - frames[i].start
       PROVE  ring'[(frames[i].start + j - 1) % RingCap] = RecordOf(frames[i])[j]
  <2> DEFINE p == frames[i].start + j - 1
  <2>1. /\ frames[i].start \in Nat /\ frames[i].end \in Nat
        /\ Oldest <= frames[i].start /\ frames[i].end <= wrote
    BY FrameType, Window DEF IInv
  <2>2. p \in Nat /\ p < wrote /\ p + RingCap >= wrote + n
    <3>1. n = 4 + len /\ wrote - Oldest + 4 + len <= RingCap - 1
      BY <1>3 DEF n, HdrLen
    <3>2. j \in Nat /\ 1 <= j /\ j <= frames[i].end - frames[i].start
      BY <2>1
    <3> DEFINE s == frames[i].start
               e == frames[i].end
               o == Oldest
    <3>3. /\ s \in Nat /\ e \in Nat /\ o \in Nat /\ wrote \in Nat /\ RingCap \in Nat /\ len \in Nat
          /\ o <= s /\ e <= wrote /\ j <= e - s /\ wrote - o + 4 + len <= RingCap - 1
          /\ p = s + j - 1
      BY <3>1, <3>2, <2>1, <1>2, <1>3
    <3> HIDE DEF s, e, o, p
    <3> QED
      BY <3>1, <3>2, <3>3
  <2>3. ring[p % RingCap] = RecordOf(frames[i])[j]
    BY DEF IInv, RingHoldsFrames
  <2> HIDE DEF p
  <2>4. ring'[p % RingCap] = ring[p % RingCap]
    BY <2>2, <1>1, <1>2, <1>4, <1>5, WrittenCells
  <2> QED
    BY <2>3, <2>4 DEF p
<1>13. ASSUME NEW j \in 1 .. n
       PROVE  ring'[(wrote + j - 1) % RingCap] = Record(len, total + 1)[j]
  <2>1. j - 1 \in Nat /\ j - 1 < RingCap /\ j - 1 < n /\ (j - 1) + 1 = j
        /\ wrote + (j - 1) = wrote + j - 1
    BY <1>2, <1>3, <1>4
  <2>2. ring'[(wrote + (j - 1)) % RingCap] = Record(len, total + 1)[(j - 1) + 1]
    BY <2>1, <1>1, <1>2, <1>4, <1>5, WrittenCells
  <2> QED
    BY <2>1, <2>2
<1>14. RingHoldsFrames'
  <2>1. ASSUME NEW i \in 1 .. Len(frames'), NEW j \in 1 .. frames'[i].end - frames'[i].start
        PROVE  ring'[(frames'[i].start + j - 1) % RingCap] = RecordOf(frames'[i])[j]
    <3>1. CASE i \in 1 .. Len(frames) /\ frames'[i] = frames[i]
      BY <3>1, <1>12
    <3>2. CASE i = Len(frames) + 1 /\ frames'[i] = NewFrame
      <4>1. frames'[i].start = wrote /\ frames'[i].end - frames'[i].start = n
        BY <3>2, <1>2, <1>4, <1>6
      <4> QED
        BY <3>2, <4>1, <1>11, <1>13
    <3> QED
      BY <1>8, <3>1, <3>2
  <2> QED
    BY <1>9, <1>10, <2>1 DEF RingHoldsFrames, RecordOf
<1>15. ring' \in [Index -> Nat]
  <2>1. total + 1 \in Nat
    BY <1>2
  <2> QED
    BY <2>1, <1>1, <1>2, <1>3, <1>5, WrittenType DEF n
<1>16. head' \in Index
  BY <1>4, <1>9, DivMod, RingCapType
<1> QED
  BY <1>4, <1>7, <1>14, <1>15, <1>16

-----------------------------------------------------------------------------
(* Every step of the ring is a step of the queue of frames, or none.       *)
LEMMA PushRefines ==
  ASSUME IInv
  PROVE  /\ \A n \in FrameLens : PushLock(n) => FQP!Offer(n)
         /\ PushDropOldest => FQP!DropOldest
         /\ PushWrite => FQP!Accept
         /\ PushCount => UNCHANGED FQP!vars
<1>1. /\ frames \in Seq([seq : Nat, start : Nat, end : Nat])
      /\ total \in Nat /\ dropped \in Nat /\ wrote \in Nat /\ len \in FrameLens \cup {0}
  BY DEF IInv, TypeOK
<1>2. \A n \in FrameLens : PushLock(n) => FQP!Offer(n)
  BY <1>1 DEF PushLock, FQP!Offer, cvars, hvars
<1>3. ASSUME PushDropOldest PROVE FQP!DropOldest
  <2>1. pusher = "room" /\ len \in FrameLens /\ len \in Nat \ {0}
    BY <1>3, LensAssumption DEF PushDropOldest, IInv, Phases
  <2>2. /\ RingFree < HdrLen + len /\ RingUsed >= HdrLen
    BY <1>3 DEF PushDropOldest, NeedsRoom
  <2>3. frames # <<>>
    BY <2>2, HeldWhenUsed DEF HdrLen
  <2>4. ~FQP!Fits(len)
    <3>1. FQP!Used = wrote - Oldest /\ wrote - Oldest \in Nat
          /\ RingFree = RingCap - 1 - (wrote - Oldest)
      BY Window, UsedIsUsed
    <3> QED
      BY <2>1, <2>2, <3>1, RingCapType DEF FQP!Fits, HdrLen
  <2>5. frames' = Tail(frames)
    BY <1>1, <1>3, <2>3, TailIsSubSeq, Zenon DEF PushDropOldest
  <2>6. /\ pusher' = pusher /\ len' = len /\ total' = total /\ wrote' = wrote
        /\ delivered' = delivered /\ dropped' = dropped + 1
    BY <1>3 DEF PushDropOldest
  <2> QED
    BY <2>1, <2>3, <2>4, <2>5, <2>6 DEF FQP!DropOldest
<1>4. ASSUME PushWrite PROVE FQP!Accept
  <2>1. pusher = "room" /\ ~NeedsRoom /\ pusher' = "count" /\ total' = total
        /\ wrote' = wrote + HdrLen + len /\ UNCHANGED <<dropped, delivered>>
        /\ frames' = Append(frames, [seq |-> total + 1, start |-> wrote,
                                     end |-> wrote + HdrLen + len])
    BY <1>4 DEF PushWrite
  <2>2. len \in Nat \ {0} /\ wrote - Oldest + HdrLen + len <= RingCap - 1
    BY <2>1, RoomWhenWritten
  <2>3. FQP!Fits(len)
    <3>1. FQP!Used = wrote - Oldest /\ wrote - Oldest \in Nat
      BY Window
    <3> QED
      BY <2>2, <3>1 DEF FQP!Fits
  <2>4. total + 0 = total /\ total' + 1 = (total + 0) + 1
    BY <1>1, <2>1
  <2> QED
    BY <2>1, <2>2, <2>3, <2>4 DEF FQP!Accept
<1>5. ASSUME PushCount PROVE UNCHANGED FQP!vars
  BY <1>1, <1>5 DEF PushCount, FQP!vars, hvars
<1> QED
  BY <1>2, <1>3, <1>4, <1>5

LEMMA DrainRefines ==
  ASSUME IInv
  PROVE  /\ \A cap \in DrainCaps : DrainLock(cap) => UNCHANGED FQP!vars
         /\ DrainRecord => FQP!Deliver(1) /\ 1 \in 1 .. Len(frames)
         /\ DrainUnlock => UNCHANGED FQP!vars
         /\ ResetRing => FQP!Reset
<1>1. /\ frames \in Seq([seq : Nat, start : Nat, end : Nat])
      /\ total \in Nat /\ dropped \in Nat /\ wrote \in Nat /\ delivered \in Nat
  BY DEF IInv, TypeOK
<1>2. \A cap \in DrainCaps : DrainLock(cap) => UNCHANGED FQP!vars
  BY DEF DrainLock, FQP!vars, cvars, hvars
<1>3. ASSUME DrainRecord PROVE FQP!Deliver(1) /\ 1 \in 1 .. Len(frames)
  <2>1. RingUsed >= HdrLen /\ pusher # "room"
    BY <1>3 DEF DrainRecord, HasRecord, IInv, Phases
  <2>2. 1 \in 1 .. Len(frames)
    BY <2>1, HeldWhenUsed DEF HdrLen
  <2>3. 1 + 1 = 2
    OBVIOUS
  <2> QED
    BY <1>3, <2>1, <2>2, <2>3 DEF DrainRecord, FQP!Deliver
<1>4. DrainUnlock => UNCHANGED FQP!vars
  BY DEF DrainUnlock, FQP!vars, cvars, hvars
<1>5. ResetRing => FQP!Reset
  BY DEF ResetRing, FQP!Reset, Locked
<1> QED
  BY <1>2, <1>3, <1>4, <1>5

LEMMA QueueStep == IInv /\ [Next]_vars => [FQP!Next]_(FQP!vars)
<1> SUFFICES ASSUME IInv, [Next]_vars PROVE [FQP!Next]_(FQP!vars)
  OBVIOUS
<1>1. CASE Push
  BY <1>1, PushRefines DEF Push, FQP!Next
<1>2. CASE Drain
  BY <1>2, DrainRefines DEF Drain, FQP!Next
<1>3. CASE ResetRing
  BY <1>3, DrainRefines DEF FQP!Next
<1>4. CASE UNCHANGED vars
  BY <1>4 DEF vars, cvars, hvars, FQP!vars
<1> QED
  BY <1>1, <1>2, <1>3, <1>4 DEF Next

-----------------------------------------------------------------------------
(* The assumptions of FrameQueue hold of the ring.                         *)
LEMMA QueueAssumed ==
  /\ FQP!CapacityAssumption /\ FQP!HdrLenAssumption
  /\ FQP!FrameLensAssumption /\ FQP!MaxFramesAssumption
<1>1. RingCap - 1 \in Nat
  BY RingAssumption
<1>2. \A n \in FrameLens : HdrLen + n <= RingCap - 1
  <2> SUFFICES ASSUME NEW n \in FrameLens PROVE HdrLen + n <= RingCap - 1
    OBVIOUS
  <2>1. n \in Nat /\ HdrLen + n < RingCap
    BY LensAssumption
  <2> QED
    BY <2>1, RingAssumption DEF HdrLen
<1> QED
  BY <1>1, <1>2, RingAssumption, LensAssumption
     DEF FQP!CapacityAssumption, FQP!HdrLenAssumption, FQP!FrameLensAssumption,
         FQP!MaxFramesAssumption, HdrLen

LEMMA QueueInvariant ==
  /\ FQP!Init => FQP!IInv
  /\ FQP!IInv /\ [FQP!Next]_(FQP!vars) => FQP!IInv'
<1>1. FQP!Init => FQP!IInv
  BY QueueAssumed, FQP!InvInit
<1>2. FQP!IInv /\ [FQP!Next]_(FQP!vars) => FQP!IInv'
  BY QueueAssumed, FQP!InvNext
<1> QED
  BY <1>1, <1>2

LEMMA QueueInit == Init => FQP!Init
  BY DEF Init, FQP!Init

LEMMA Initially == Init => IInv
<1> SUFFICES ASSUME Init PROVE IInv
  OBVIOUS
<1>1. FQP!IInv
  BY QueueInit, QueueInvariant
<1>2. frames = <<>> /\ Len(frames) = 0 /\ wrote = 0 /\ got = <<>>
  BY DEF Init
<1>3. 0 % RingCap = 0 /\ 0 \in Index
  BY RingCapType, ModIs
<1>4. RingHoldsFrames
  BY <1>2, <1>3 DEF Init, RingHoldsFrames
<1>5. TypeOK
  BY <1>2, <1>3 DEF Init, TypeOK
<1> QED
  BY <1>1, <1>4, <1>5 DEF Init, IInv, Phases

(* The copy of a record is a sequence of bytes.                            *)
LEMMA Copied ==
  ASSUME IInv, DrainRecord
  PROVE  /\ BytesAt(tail, HdrLen + HeaderAt(tail)) \in Seq(Nat)
         /\ got' \in Seq(Seq(Nat))
<1> DEFINE n == HdrLen + HeaderAt(tail)
<1>1. frames # <<>>
  BY DrainRefines
<1>2. n \in Nat
  BY <1>1, OldestHeader
<1>3. tail \in Nat /\ ring \in [Index -> Nat]
  BY RingCapType DEF IInv, TypeOK
<1> HIDE DEF n
<1>4. ASSUME NEW j \in 1 .. n PROVE ring[Advance(tail, j - 1)] \in Nat
  <2>1. tail + (j - 1) \in Nat
    BY <1>3
  <2>2. Advance(tail, j - 1) \in Index
    BY <2>1, DivMod, RingCapType DEF Advance
  <2> QED
    BY <1>3, <2>2
<1>5. BytesAt(tail, n) \in [1 .. n -> Nat]
  BY <1>4 DEF BytesAt
<1>6. BytesAt(tail, n) \in Seq(Nat)
  BY <1>2, <1>5, IsASeq
<1>7. got' = Append(got, BytesAt(tail, n)) /\ got \in Seq(Seq(Nat))
  BY DEF DrainRecord, n, IInv, TypeOK
<1>8. got' \in Seq(Seq(Nat))
  BY <1>6, <1>7, AppendProperties, Zenon
<1> QED
  BY <1>6, <1>8 DEF n

(* The two turns that take the oldest record move the reader index alike.  *)
LEMMA TakeOldest ==
  ASSUME IInv
  PROVE  PushDropOldest \/ DrainRecord => OldestTaken
<1>1. ASSUME PushDropOldest \/ DrainRecord PROVE OldestTaken
  <2>1. RingUsed >= HdrLen
    BY <1>1 DEF PushDropOldest, NeedsRoom, DrainRecord, HasRecord
  <2>2. frames # <<>>
    BY <2>1, HeldWhenUsed DEF HdrLen
  <2>3. /\ HdrLen + HeaderAt(tail) = frames[1].end - frames[1].start
        /\ HdrLen + HeaderAt(tail) \in Nat
    BY <2>2, OldestHeader
  <2>4. frames[1].end - frames[1].start <= RingUsed /\ RingUsed \in Nat
    BY <2>2, HeldWhenUsed, UsedIsUsed, Window
  <2>5. ~(HdrLen + HeaderAt(tail) > RingUsed)
    BY <2>3, <2>4
  <2>6. tail' = Advance(tail, frames[1].end - frames[1].start)
    BY <1>1, <2>3, <2>5 DEF PushDropOldest, DrainRecord
  <2> QED
    BY <1>1, <2>2, <2>6 DEF OldestTaken, PushDropOldest, DrainRecord
<1> QED
  BY <1>1

LEMMA Inductive == IInv /\ [Next]_vars => IInv'
<1> SUFFICES ASSUME IInv, [Next]_vars PROVE IInv'
  OBVIOUS
<1>1. FQP!IInv'
  BY QueueStep, QueueInvariant DEF IInv
<1>2. TypeOK /\ Phases /\ RingHoldsFrames
  BY DEF IInv
<1>3. ASSUME UNCHANGED <<ring, head, tail, frames, wrote>>
      PROVE  RingHoldsFrames'
  BY <1>2, <1>3 DEF RingHoldsFrames, RecordOf
<1>4. ASSUME NEW n \in FrameLens, PushLock(n) PROVE IInv'
  <2>1. TypeOK' /\ Phases'
    BY <1>2, <1>4 DEF PushLock, TypeOK, Phases, Locked, cvars, hvars
  <2> QED
    BY <1>1, <1>3, <1>4, <2>1 DEF PushLock, cvars, hvars, IInv
<1>5. CASE PushDropOldest
  <2>1. OldestTaken
    BY <1>5, TakeOldest
  <2>2. RingHoldsFrames' /\ tail' \in Index
        /\ frames' \in Seq([seq : Nat, start : Nat, end : Nat])
    BY <2>1, TakingOldestKeeps, WithoutOldest
  <2>3. TypeOK'
    BY <1>2, <1>5, <2>2 DEF PushDropOldest, TypeOK
  <2>4. Phases'
    BY <1>2, <1>5 DEF PushDropOldest, Phases
  <2> QED
    BY <1>1, <2>2, <2>3, <2>4 DEF IInv
<1>6. CASE PushWrite
  <2>1. /\ RingHoldsFrames'
        /\ ring' \in [Index -> Nat] /\ head' \in Index
        /\ frames' \in Seq([seq : Nat, start : Nat, end : Nat])
        /\ wrote' \in Nat
    BY <1>6, WritingKeeps
  <2>2. TypeOK'
    BY <1>2, <1>6, <2>1 DEF PushWrite, TypeOK
  <2>3. Phases'
    BY <1>2, <1>6 DEF PushWrite, Phases
  <2> QED
    BY <1>1, <2>1, <2>2, <2>3 DEF IInv
<1>7. CASE PushCount
  <2>1. TypeOK' /\ Phases'
    BY <1>2, <1>7 DEF PushCount, TypeOK, Phases, hvars
  <2> QED
    BY <1>1, <1>3, <1>7, <2>1 DEF PushCount, hvars, IInv
<1>8. ASSUME NEW cap \in DrainCaps, DrainLock(cap) PROVE IInv'
  <2>1. cap \in Nat /\ <<>> \in Seq(Seq(Nat))
    BY RingAssumption
  <2>2. TypeOK'
    BY <1>2, <1>8, <2>1 DEF DrainLock, TypeOK, cvars, hvars
  <2>3. Phases'
    BY <1>2, <1>8 DEF DrainLock, Phases, Locked
  <2> QED
    BY <1>1, <1>3, <1>8, <2>2, <2>3 DEF DrainLock, cvars, hvars, IInv
<1>9. CASE DrainRecord
  <2>1. OldestTaken
    BY <1>9, TakeOldest
  <2>2. RingHoldsFrames' /\ tail' \in Index
        /\ frames' \in Seq([seq : Nat, start : Nat, end : Nat])
    BY <2>1, TakingOldestKeeps, WithoutOldest
  <2>3. got' \in Seq(Seq(Nat))
    BY <1>9, Copied
  <2>4. space' \in Nat
    <3>1. frames # <<>>
      BY <1>9, DrainRefines
    <3>2. HdrLen + HeaderAt(tail) \in Nat /\ space \in Nat
      BY <1>2, <3>1, OldestHeader DEF TypeOK
    <3> QED
      BY <1>9, <3>2 DEF DrainRecord, HasRecord
  <2>5. TypeOK'
    BY <1>2, <1>9, <2>2, <2>3, <2>4 DEF DrainRecord, TypeOK
  <2>6. Phases'
    BY <1>2, <1>9 DEF DrainRecord, Phases
  <2> QED
    BY <1>1, <2>2, <2>5, <2>6 DEF IInv
<1>10. CASE DrainUnlock
  <2>1. <<>> \in Seq(Seq(Nat))
    OBVIOUS
  <2>2. TypeOK' /\ Phases'
    BY <1>2, <1>10, <2>1 DEF DrainUnlock, TypeOK, Phases, cvars, hvars
  <2> QED
    BY <1>1, <1>3, <1>10, <2>2 DEF DrainUnlock, cvars, hvars, IInv
<1>11. CASE ResetRing
  <2>1. frames' = <<>> /\ Len(frames') = 0 /\ wrote' = 0 /\ head' = 0 /\ tail' = 0
    BY <1>11 DEF ResetRing
  <2>2. 0 % RingCap = 0 /\ 0 \in Index
    BY RingCapType, ModIs
  <2>3. RingHoldsFrames'
    BY <2>1, <2>2 DEF RingHoldsFrames
  <2>4. TypeOK'
    BY <1>2, <1>11, <2>2 DEF ResetRing, TypeOK
  <2>5. Phases'
    BY <1>2, <1>11 DEF ResetRing, Phases
  <2> QED
    BY <1>1, <2>3, <2>4, <2>5 DEF IInv
<1>12. CASE UNCHANGED vars
  <2>1. TypeOK' /\ Phases'
    BY <1>2, <1>12 DEF vars, TypeOK, Phases, cvars, hvars
  <2> QED
    BY <1>1, <1>3, <1>12, <2>1 DEF vars, cvars, hvars, IInv
<1> QED
  BY <1>4, <1>5, <1>6, <1>7, <1>8, <1>9, <1>10, <1>11, <1>12 DEF Next, Push, Drain

LEMMA Invariance == Spec => []IInv
  BY Initially, Inductive, PTL DEF Spec

(* The variables keep their types: indices stay in the array, and what is  *)
(* copied out are bytes.                                                   *)
THEOREM RingTypeTheorem == Spec => []TypeOK
<1>1. IInv => TypeOK
  BY DEF IInv
<1> QED
  BY <1>1, Invariance, PTL

(* The array holds exactly the records of the frames pushed and not yet    *)
(* dropped or drained, wherever its end cuts them, for every capacity.     *)
THEOREM RingHoldsFramesTheorem == Spec => []RingHoldsFrames
<1>1. IInv => RingHoldsFrames
  BY DEF IInv
<1> QED
  BY <1>1, Invariance, PTL

(* What a drain copies out is the oldest frame's record, whole and         *)
(* unchanged.                                                              *)
THEOREM DrainsOldestWholeTheorem == Spec => DrainsOldestWhole
<1>1. ASSUME IInv, [Next]_vars, Len(got') > Len(got)
      PROVE  frames # <<>> /\ got'[Len(got')] = RecordOf(frames[1])
  <2>1. got \in Seq(Seq(Nat)) /\ Len(got) \in Nat
    BY <1>1 DEF IInv, TypeOK
  <2>2. DrainRecord
    <3>1. ASSUME got' = got \/ got' = <<>> PROVE FALSE
      BY <1>1, <2>1, <3>1
    <3> QED
      BY <1>1, <3>1 DEF Next, Push, Drain, PushLock, PushDropOldest, PushWrite,
                        PushCount, DrainLock, DrainUnlock, ResetRing, vars
  <2>3. frames # <<>> /\ 1 \in 1 .. Len(frames)
    BY <1>1, <2>2, DrainRefines
  <2> DEFINE n == HdrLen + HeaderAt(tail)
             f == frames[1]
  <2>4. n = f.end - f.start /\ n \in Nat /\ f.start \in Nat /\ f.end \in Nat
    BY <1>1, <2>3, OldestHeader, FrameType DEF IInv
  <2>5. got' = Append(got, BytesAt(tail, n)) /\ BytesAt(tail, n) \in Seq(Nat)
    BY <1>1, <2>2, Copied DEF DrainRecord
  <2> HIDE DEF n
  <2>6. got'[Len(got')] = BytesAt(tail, n)
    <3>1. /\ Len(Append(got, BytesAt(tail, n))) = Len(got) + 1
          /\ Append(got, BytesAt(tail, n))[Len(got) + 1] = BytesAt(tail, n)
      BY <2>1, <2>5, AppendProperties, Zenon
    <3> QED
      BY <2>5, <3>1
  <2>7. BytesAt(tail, n) = RecordOf(f)
    <3>1. \A j \in 1 .. n : ring[Advance(tail, j - 1)] = RecordOf(f)[j]
      BY <1>1, <2>3, <2>4, OldestBytes
    <3>2. HdrLen + (f.end - f.start - HdrLen) = n
      BY <2>4 DEF HdrLen
    <3>3. RecordOf(f) = [j \in 1 .. n |-> RecordOf(f)[j]]
      BY <3>2 DEF RecordOf, Record
    <3>4. BytesAt(tail, n) = [j \in 1 .. n |-> RecordOf(f)[j]]
      BY <3>1 DEF BytesAt
    <3> QED
      BY <3>3, <3>4
  <2> QED
    BY <2>3, <2>6, <2>7
<1>2. IInv /\ [Next]_vars =>
        [Len(got') > Len(got) =>
           /\ frames # <<>>
           /\ got'[Len(got')] = RecordOf(frames[1])]_vars
  BY <1>1
<1> QED
  BY <1>2, Invariance, PTL DEF Spec, DrainsOldestWhole

(* The ring of bytes implements the bounded queue of frames.               *)
THEOREM RefinementTheorem == Spec => ImplementsFrameQueue
<1>1. Init => FQ!Init
  BY DEF Init, FQ!Init
<1>2. FQP!Next <=> FQ!Next
  BY DEF FQP!Next, FQ!Next, FQP!Offer, FQ!Offer, FQP!DropOldest, FQ!DropOldest,
         FQP!Accept, FQ!Accept, FQP!Deliver, FQ!Deliver, FQP!Reset, FQ!Reset,
         FQP!Fits, FQ!Fits, FQP!Used, FQ!Used
<1>3. IInv /\ [Next]_vars => [FQ!Next]_(FQ!vars)
  BY <1>2, QueueStep DEF FQP!vars, FQ!vars
<1> QED
  BY <1>1, <1>3, Invariance, PTL DEF Spec, ImplementsFrameQueue, FQ!Spec
=============================================================================
