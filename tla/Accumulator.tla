----------------------------- MODULE Accumulator ------------------------------
(***************************************************************************)
(* How the capture worker finds frames in what it reads (sniffer_loop in   *)
(* sniffer.c): bytes are gathered in acc, the oldest are dropped when it   *)
(* is full, and whatever ends with the flag 0x7E is decoded and pushed.    *)
(*                                                                         *)
(* A byte is the frame it belongs to and its place there; the last one is  *)
(* the flag. hdlc_decode accepts exactly what is one whole frame and fits  *)
(* its buffer. Others read the device too and may take bytes of a frame.   *)
(* What becomes of a pushed frame is the subject of Sniffer.               *)
(***************************************************************************)
EXTENDS Naturals, FiniteSets, Sequences, SequencesExt

CONSTANTS AccCap,      \* bytes of acc, 16384
          Chunk,       \* bytes of chunk, 4096
          DecodeCap,   \* bytes of decoded, 4096
          FrameKinds,  \* the frames of the instance: bytes raw and bytes unstuffed
          MaxFrames,   \* bound of the model: frames sent, each when less than a
                       \* chunk is left of those before
          MaxTaken     \* bound of the model: reads of others

(* Stuffing doubles at most what it leaves, and the flag is one byte more. *)
AccumulatorAssumption ==
  /\ FrameKinds \subseteq [raw : Nat \ {0}, plain : Nat]
  /\ \A k \in FrameKinds : k.raw \in k.plain + 1 .. 2 * k.plain + 1
  /\ {AccCap, Chunk, DecodeCap, MaxFrames, MaxTaken} \subseteq Nat /\ Chunk \in 1 .. AccCap

VARIABLES
  sent,    \* the kinds of the frames sent, by number
  device,  \* bytes that wait to be read
  taken,   \* reads of others so far
  acc,     \* acc[0 .. acc_n - 1]
  pushed,  \* frames this worker has pushed, by number
  tail,    \* history: all that it has read behind the last flag,
  whole,   \* the frames of which it has read every byte,
  inPlace  \* and those of them that began behind a flag, or with the capture

history == <<tail, whole, inPlace>>
vars    == <<sent, device, taken, acc, pushed, history>>

BytesOf(f, kind) == [i \in 1 .. kind.raw |-> [frame |-> f, at |-> i]]
IsFlag(b)  == b.at = sent[b.frame].raw
IsFrame(s) == s # <<>> /\ s = BytesOf(s[1].frame, sent[s[1].frame])

(* hdlc_decode returns a length: two bytes of checksum and at least one.   *)
Decodes(s) == IsFrame(s) /\ sent[s[1].frame].plain \in 3 .. DecodeCap

Init ==
  /\ sent = <<>> /\ device = <<>> /\ taken = 0
  /\ acc = <<>> /\ pushed = <<>>
  /\ tail = <<>> /\ whole = {} /\ inPlace = {}

-----------------------------------------------------------------------------
(* The pieces of a that end with a flag, as the loop over i comes to them, *)
(* and what is behind the last.                                            *)
InOrder(S) ==
  CHOOSE s \in [1 .. Cardinality(S) -> S] : \A i, j \in DOMAIN s : i < j => s[i] < s[j]

Ends(a) == InOrder({i \in DOMAIN a : IsFlag(a[i])})

Pieces(a) ==
  LET e == Ends(a)
  IN  [k \in DOMAIN e |-> SubSeq(a, IF k = 1 THEN 1 ELSE e[k - 1] + 1, e[k])]

Rest(a) ==
  IF Ends(a) = <<>> THEN a ELSE SubSeq(a, Last(Ends(a)) + 1, Len(a))

(* Faulty: raw_len is compared as if it did not count the flag.            *)
ExtractedLonger(a) ==
  LET p    == Pieces(a)
      good == InOrder({k \in DOMAIN p : Len(p[k]) > 4 /\ Decodes(p[k])})
  IN  [k \in DOMAIN good |-> p[good[k]][1].frame]

(* if (raw_len > 3) and hdlc_decode succeeds                               *)
Extracted(a) ==
  LET p    == Pieces(a)
      good == InOrder({k \in DOMAIN p : Len(p[k]) > 3 /\ Decodes(p[k])})
  IN  [k \in DOMAIN good |-> p[good[k]][1].frame]

(* The append, which drops the oldest bytes if acc overflows.              *)
Appended(chunk) ==
  LET over  == Len(acc) + Len(chunk)
      shift == IF over <= AccCap THEN 0
               ELSE IF over - AccCap > Len(acc) THEN Len(acc) ELSE over - AccCap
  IN  SubSeq(acc, shift + 1, Len(acc)) \o chunk

EndsWithFrame(s) ==
  LET raw == sent[Last(s).frame].raw
  IN  raw <= Len(s) /\ IsFrame(SubSeq(s, Len(s) - raw + 1, Len(s)))

Remember(chunk) ==
  LET ended == ToSet(Pieces(tail \o chunk))
  IN  /\ tail' = Rest(tail \o chunk)
      /\ whole' = whole \cup {Last(s).frame : s \in {p \in ended : EndsWithFrame(p)}}
      /\ inPlace' = inPlace \cup {Last(s).frame : s \in {p \in ended : IsFrame(p)}}

(* One turn of the worker's loop in which diag_read returns n bytes.       *)
Read ==
  /\ \E n \in 1 .. Chunk :
       /\ n <= Len(device)
       /\ LET chunk == SubSeq(device, 1, n)
              a     == Appended(chunk)
          IN  /\ acc' = Rest(a)
              /\ pushed' = pushed \o Extracted(a)
              /\ Remember(chunk)
       /\ device' = SubSeq(device, n + 1, Len(device))
  /\ UNCHANGED <<sent, taken>>

(* Another worker: acc_n is its own, and the store was reset.              *)
Start ==
  /\ acc' = <<>> /\ pushed' = <<>>
  /\ tail' = <<>> /\ whole' = {} /\ inPlace' = {}
  /\ UNCHANGED <<sent, device, taken>>

(* send_and_recv or a drain of the log reads from the device.              *)
OtherReads ==
  /\ \E n \in 1 .. Len(device) : device' = SubSeq(device, n + 1, Len(device))
  /\ taken < MaxTaken /\ taken' = taken + 1
  /\ UNCHANGED <<sent, acc, pushed, history>>

ModemSends ==
  /\ Len(sent) < MaxFrames /\ Len(device) < Chunk
  /\ \E k \in FrameKinds :
       /\ sent' = Append(sent, k)
       /\ device' = device \o BytesOf(Len(sent) + 1, k)
  /\ UNCHANGED <<taken, acc, pushed, history>>

Next == Read \/ Start \/ OtherReads \/ ModemSends

Spec == Init /\ [][Next]_vars

-----------------------------------------------------------------------------
TypeOK ==
  /\ sent \in Seq(FrameKinds) /\ Len(sent) <= MaxFrames /\ taken \in 0 .. MaxTaken
  /\ \A s \in {device, acc, tail} :
       \A i \in DOMAIN s : s[i].frame \in DOMAIN sent /\ s[i].at \in 1 .. sent[s[i].frame].raw
  /\ Len(acc) <= AccCap
  /\ pushed \in Seq(DOMAIN sent) /\ inPlace \subseteq whole /\ whole \subseteq DOMAIN sent

(* Of what the worker has read up to a flag, every frame that arrived in   *)
(* place and can be decoded has been pushed, whatever the chunks and       *)
(* however long the garbage and the frames before it: acc never overflows  *)
(* at the cost of one of those. Nothing is pushed twice, out of order, or  *)
(* that was not read whole.                                                *)
WholeIsPushed ==
  /\ {f \in inPlace : sent[f].plain \in 3 .. DecodeCap} \subseteq ToSet(pushed)
  /\ ToSet(pushed) \subseteq whole
  /\ \A i, j \in DOMAIN pushed : i < j => pushed[i] < pushed[j]
=============================================================================
