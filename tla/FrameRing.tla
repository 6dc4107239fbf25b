----------------------------- MODULE FrameRing ------------------------------
(***************************************************************************)
(* The frame store of sniffer.c as it is implemented: an array of bytes    *)
(* used as a ring, in which each frame is a record of a little-endian      *)
(* length header and the payload, cut by the end of the array wherever it  *)
(* falls.  The loops that drop and drain records run with g_ring_mtx held  *)
(* and are modelled turn by turn; they find the record boundaries only     *)
(* from the header bytes in the array.                                     *)
(*                                                                         *)
(* frames, wrote and delivered are history variables: no guard and no      *)
(* other variable depends on them.  They map this module to FrameQueue.    *)
(***************************************************************************)
EXTENDS Naturals, Sequences

CONSTANTS RingCap,    \* RING_CAP
          Base,       \* values of a byte, 256 in the code
          FrameLens,  \* payload lengths pushed
          DrainCaps,  \* buf_cap of the callers of sniffer_drain
          MaxFrames   \* bound of the model: frames pushed between resets

HdrLen == 4

ASSUME RingAssumption ==
  /\ RingCap \in Nat \ {0}
  /\ Base \in Nat /\ Base >= 2
  /\ DrainCaps \subseteq Nat
  /\ MaxFrames \in Nat
ASSUME LensAssumption ==
  /\ FrameLens \subseteq Nat \ {0}
  /\ \A n \in FrameLens : n < Base * Base * Base * Base
                       /\ HdrLen + n < RingCap

VARIABLES
  ring,       \* g_ring
  head,       \* g_ring_head, the writer index
  tail,       \* g_ring_tail, the reader index
  total,      \* g_total
  dropped,    \* g_dropped
  pusher,     \* where ring_push_frame is: "idle", "room", "count"
  len,        \* its frame's length
  drainer,    \* where sniffer_drain is: "idle", "loop"
  space,      \* buf_cap - written
  got,        \* the records copied to buf by the drain in progress
  frames, wrote, delivered

cvars == <<ring, head, tail, total, dropped>>
hvars == <<frames, wrote, delivered>>
vars  == <<cvars, pusher, len, drainer, space, got, hvars>>

Index == 0 .. RingCap - 1

-----------------------------------------------------------------------------
(* The ring.                                                               *)
RingUsed == (head + RingCap - tail) % RingCap

(* Faulty: a full ring looks empty.                                        *)
RingFreeAll == RingCap - RingUsed

RingFree == RingCap - 1 - RingUsed

(* Faulty: the index runs off the array.                                   *)
AdvanceFlat(i, n) == i + n

Advance(i, n) == (i + n) % RingCap

(* The bytes of a record: the header, then payload bytes.  The payload is  *)
(* abstracted to a mark that tells its frame from all others.              *)
Record(n, mark) ==
  [j \in 1 .. HdrLen + n |->
     CASE j = 1 -> n % Base
       [] j = 2 -> (n \div Base) % Base
       [] j = 3 -> (n \div (Base * Base)) % Base
       [] j = 4 -> (n \div (Base * Base * Base)) % Base
       [] OTHER -> mark]

(* ring_write_locked copies n bytes, in two pieces when they pass the end  *)
(* of the array: the cell at distance d after head takes byte d + 1.       *)
Written(bytes, n) ==
  [i \in Index |-> LET d == (i + RingCap - head) % RingCap
                   IN  IF d < n THEN bytes[d + 1] ELSE ring[i]]

(* Faulty: only the first byte of the header is looked at.                 *)
HeaderByte(t) == ring[t]

(* The header that is read at the reader index, whatever bytes are there.  *)
HeaderAt(t) ==
  LET hb(j) == ring[Advance(t, j)]
  IN  hb(0) + Base * (hb(1) + Base * (hb(2) + Base * hb(3)))

(* Faulty: the second piece of a record cut by the end is not read.        *)
BytesFlat(t, n) ==
  [j \in 1 .. n |-> IF t + j - 1 < RingCap THEN ring[t + j - 1] ELSE 0]

(* The n bytes read from index t on.                                       *)
BytesAt(t, n) == [j \in 1 .. n |-> ring[Advance(t, j - 1)]]

-----------------------------------------------------------------------------
Init ==
  /\ ring = [i \in Index |-> 0]
  /\ head = 0 /\ tail = 0
  /\ total = 0 /\ dropped = 0
  /\ pusher = "idle" /\ len = 0
  /\ drainer = "idle" /\ space = 0 /\ got = <<>>
  /\ frames = <<>> /\ wrote = 0 /\ delivered = 0

Locked == pusher = "room" \/ drainer = "loop"

(* ring_push_frame takes the mutex.                                        *)
PushLock(n) ==
  /\ pusher = "idle"
  /\ ~Locked
  /\ total < MaxFrames
  /\ pusher' = "room"
  /\ len' = n
  /\ UNCHANGED <<cvars, drainer, space, got, hvars>>

NeedsRoom == RingFree < HdrLen + len /\ RingUsed >= HdrLen

(* One turn of the loop of ring_drop_oldest_locked.                        *)
PushDropOldest ==
  /\ pusher = "room"
  /\ NeedsRoom
  /\ LET adv == HdrLen + HeaderAt(tail)
     IN  tail' = Advance(tail, IF adv > RingUsed THEN RingUsed ELSE adv)
  /\ dropped' = dropped + 1
  /\ frames' = SubSeq(frames, 2, Len(frames))
  /\ UNCHANGED <<ring, head, total, pusher, len, drainer, space, got, wrote, delivered>>

(* The record is written and the mutex released.                           *)
PushWrite ==
  /\ pusher = "room"
  /\ ~NeedsRoom
  /\ ring' = Written(Record(len, total + 1), HdrLen + len)
  /\ head' = Advance(head, HdrLen + len)
  /\ pusher' = "count"
  /\ frames' = Append(frames, [seq   |-> total + 1,
                               start |-> wrote,
                               end   |-> wrote + HdrLen + len])
  /\ wrote' = wrote + HdrLen + len
  /\ UNCHANGED <<tail, total, dropped, len, drainer, space, got, delivered>>

(* g_total is incremented after the mutex is released.                     *)
PushCount ==
  /\ pusher = "count"
  /\ total' = total + 1
  /\ pusher' = "idle"
  /\ len' = 0
  /\ UNCHANGED <<ring, head, tail, dropped, drainer, space, got, hvars>>

DrainLock(cap) ==
  /\ drainer = "idle"
  /\ ~Locked
  /\ drainer' = "loop"
  /\ space' = cap
  /\ got' = <<>>
  /\ UNCHANGED <<cvars, pusher, len, hvars>>

(* The loop goes on while a whole record is there and fits in buf; a       *)
(* header that was read for nothing is put back.                           *)
HasRecord ==
  /\ RingUsed >= HdrLen
  /\ HeaderAt(tail) <= RingUsed - HdrLen
  /\ HdrLen + HeaderAt(tail) <= space

DrainRecord ==
  /\ drainer = "loop"
  /\ HasRecord
  /\ LET n == HdrLen + HeaderAt(tail)
     IN  /\ got' = Append(got, BytesAt(tail, n))
         /\ tail' = Advance(tail, n)
         /\ space' = space - n
  /\ frames' = SubSeq(frames, 2, Len(frames))
  /\ delivered' = delivered + 1
  /\ UNCHANGED <<ring, head, total, dropped, pusher, len, drainer, wrote>>

DrainUnlock ==
  /\ drainer = "loop"
  /\ ~HasRecord
  /\ drainer' = "idle"
  /\ space' = 0
  /\ got' = <<>>
  /\ UNCHANGED <<cvars, pusher, len, hvars>>

(* sniffer_start resets the ring and the counters; the worker of an        *)
(* earlier capture was joined, so no push is in progress (module Sniffer). *)
ResetRing ==
  /\ pusher = "idle"
  /\ ~Locked
  /\ head' = 0 /\ tail' = 0
  /\ total' = 0 /\ dropped' = 0
  /\ frames' = <<>> /\ wrote' = 0 /\ delivered' = 0
  /\ UNCHANGED <<ring, pusher, len, drainer, space, got>>

Push == \/ \E n \in FrameLens : PushLock(n)
        \/ PushDropOldest
        \/ PushWrite
        \/ PushCount

Drain == \/ \E cap \in DrainCaps : DrainLock(cap)
         \/ DrainRecord
         \/ DrainUnlock

Next == Push \/ Drain \/ ResetRing

Spec == Init /\ [][Next]_vars

-----------------------------------------------------------------------------
TypeOK ==
  /\ ring \in [Index -> Nat]
  /\ head \in Index /\ tail \in Index
  /\ total \in Nat /\ dropped \in Nat
  /\ pusher \in {"idle", "room", "count"}
  /\ len \in FrameLens \cup {0}
  /\ drainer \in {"idle", "loop"}
  /\ space \in Nat
  /\ got \in Seq(Seq(Nat))
  /\ frames \in Seq([seq : Nat, start : Nat, end : Nat])
  /\ wrote \in Nat /\ delivered \in Nat

(* Bytes of the stream that a frame's record is made of.                   *)
RecordOf(f) == Record(f.end - f.start - HdrLen, f.seq)

(* The array holds, from the reader index to the writer index, exactly the *)
(* records of the frames that were pushed and not yet dropped or drained,  *)
(* wherever the end of the array cuts them: no drop loses the framing, no  *)
(* write runs into a record still held, no header is damaged.              *)
RingHoldsFrames ==
  /\ head = wrote % RingCap
  /\ tail = (IF frames = <<>> THEN wrote ELSE frames[1].start) % RingCap
  /\ \A i \in 1 .. Len(frames) :
       \A j \in 1 .. frames[i].end - frames[i].start :
         ring[(frames[i].start + j - 1) % RingCap] = RecordOf(frames[i])[j]

(* A drain copies out the oldest frame's record, whole and unchanged.      *)
DrainsOldestWhole ==
  [][Len(got') > Len(got) =>
       /\ frames # <<>>
       /\ got'[Len(got')] = RecordOf(frames[1])]_vars

(* sniffer.h:32 calls g_total the frames seen since start, dropped ones    *)
(* included: it would be at no time below the frames dropped and drained.  *)
TotalCoversAll == dropped + delivered <= total

FQ == INSTANCE FrameQueue WITH
        Capacity  <- RingCap - 1,
        queue     <- frames,
        written   <- wrote,
        incoming  <- IF pusher = "room" THEN len ELSE 0,
        accepted  <- total + IF pusher = "count" THEN 1 ELSE 0,
        dropped   <- dropped,
        delivered <- delivered

(* The ring implements the bounded queue of frames: each turn of a loop    *)
(* under the mutex is a step of FrameQueue, the late count is none.        *)
ImplementsFrameQueue == FQ!Spec
=============================================================================
