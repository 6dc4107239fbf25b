----------------------------- MODULE FrameQueue -----------------------------
(***************************************************************************)
(* What the frame store of sniffer.c promises: a FIFO of frames bounded in *)
(* bytes.  A push that finds no room discards the oldest frames, one by    *)
(* one and counted, until the new frame fits; a drain hands out the oldest *)
(* frames.  The store is seen here as a window on the stream of bytes ever *)
(* written: a frame is its number in the stream and the interval of bytes  *)
(* that its record (length header and payload) occupies.                   *)
(* FrameRing is the byte-level ring buffer that implements this module.    *)
(***************************************************************************)
EXTENDS Naturals, Sequences

CONSTANTS Capacity,   \* bytes the store can hold: RING_CAP - 1
          HdrLen,     \* bytes of the length header in front of each frame
          FrameLens,  \* payload lengths that can be offered
          MaxFrames   \* bound of the model: frames accepted between resets

ASSUME CapacityAssumption == Capacity \in Nat
ASSUME HdrLenAssumption   == HdrLen \in Nat \ {0}
ASSUME FrameLensAssumption ==
  /\ FrameLens \subseteq Nat \ {0}
  /\ \A n \in FrameLens : HdrLen + n <= Capacity
ASSUME MaxFramesAssumption == MaxFrames \in Nat

VARIABLES
  queue,      \* the frames in the store, oldest first
  written,    \* bytes written since the last reset
  incoming,   \* payload length of the frame a push is making room for, or 0
  accepted,   \* frames put in the store since the last reset
  dropped,    \* frames discarded to make room: g_dropped
  delivered   \* frames handed out by drains

vars == <<queue, written, incoming, accepted, dropped, delivered>>

Frame == [seq : Nat, start : Nat, end : Nat]

-----------------------------------------------------------------------------
Used == IF queue = <<>> THEN 0 ELSE written - queue[1].start

(* Faulty: the header of the new frame is forgotten.                       *)
FitsBare(n) == Used + n <= Capacity

Fits(n) == Used + HdrLen + n <= Capacity

Init ==
  /\ queue = <<>>
  /\ written = 0
  /\ incoming = 0
  /\ accepted = 0
  /\ dropped = 0
  /\ delivered = 0

(* Faulty: the length with the header is passed on.                        *)
OfferNeed(n) ==
  /\ incoming = 0
  /\ accepted < MaxFrames
  /\ incoming' = HdrLen + n
  /\ UNCHANGED <<queue, written, accepted, dropped, delivered>>

(* A push begins: from here to Accept the store is locked.                 *)
Offer(n) ==
  /\ incoming = 0
  /\ accepted < MaxFrames
  /\ incoming' = n
  /\ UNCHANGED <<queue, written, accepted, dropped, delivered>>

(* Faulty: the frame discarded is not counted.                             *)
DropSilently ==
  /\ incoming # 0
  /\ ~Fits(incoming)
  /\ queue # <<>>
  /\ queue' = Tail(queue)
  /\ UNCHANGED <<written, incoming, accepted, dropped, delivered>>

(* One turn of the loop that makes room.                                   *)
DropOldest ==
  /\ incoming # 0
  /\ ~Fits(incoming)
  /\ queue # <<>>
  /\ queue' = Tail(queue)
  /\ dropped' = dropped + 1
  /\ UNCHANGED <<written, incoming, accepted, delivered>>

(* Faulty: the writer moves by the payload alone.                          *)
AcceptShort ==
  /\ incoming # 0
  /\ Fits(incoming)
  /\ queue' = Append(queue, [seq   |-> accepted + 1,
                             start |-> written,
                             end   |-> written + HdrLen + incoming])
  /\ written' = written + incoming
  /\ accepted' = accepted + 1
  /\ incoming' = 0
  /\ UNCHANGED <<dropped, delivered>>

Accept ==
  /\ incoming # 0
  /\ Fits(incoming)
  /\ queue' = Append(queue, [seq   |-> accepted + 1,
                             start |-> written,
                             end   |-> written + HdrLen + incoming])
  /\ written' = written + HdrLen + incoming
  /\ accepted' = accepted + 1
  /\ incoming' = 0
  /\ UNCHANGED <<dropped, delivered>>

(* Faulty: the youngest frames are handed out.                             *)
DeliverYoungest(k) ==
  /\ incoming = 0
  /\ queue' = SubSeq(queue, 1, Len(queue) - k)
  /\ delivered' = delivered + k
  /\ UNCHANGED <<written, incoming, accepted, dropped>>

(* A drain hands out the k oldest frames.                                  *)
Deliver(k) ==
  /\ incoming = 0
  /\ queue' = SubSeq(queue, k + 1, Len(queue))
  /\ delivered' = delivered + k
  /\ UNCHANGED <<written, incoming, accepted, dropped>>

(* A new capture starts from an empty store and zeroed counters.           *)
Reset ==
  /\ incoming = 0
  /\ queue' = <<>>
  /\ written' = 0
  /\ accepted' = 0
  /\ dropped' = 0
  /\ delivered' = 0
  /\ UNCHANGED incoming

Next ==
  \/ \E n \in FrameLens : Offer(n)
  \/ DropOldest
  \/ Accept
  \/ \E k \in 1..Len(queue) : Deliver(k)
  \/ Reset

Spec == Init /\ [][Next]_vars

-----------------------------------------------------------------------------
TypeOK ==
  /\ queue \in Seq(Frame)
  /\ written \in Nat
  /\ incoming \in FrameLens \cup {0}
  /\ accepted \in Nat
  /\ dropped \in Nat
  /\ delivered \in Nat

(* The frames in the store never occupy more than its capacity.            *)
WithinCapacity == Used <= Capacity

(* Every frame put in the store is still there, was handed out, or was     *)
(* counted as dropped.                                                     *)
Accounted == accepted = dropped + delivered + Len(queue)

(* The frames in the store are the last ones accepted, in order and with   *)
(* no gap: whatever is missing from what drains hand out went at the old   *)
(* end, and the dropped counter says how much it was.                      *)
NoGaps == \A i \in 1..Len(queue) : queue[i].seq = dropped + delivered + i

(* Records are contiguous in the stream: each one begins where the one     *)
(* before it ends, the last one ends where the next write begins.          *)
Contiguous ==
  \A i \in 1..Len(queue) :
    /\ queue[i].start + HdrLen < queue[i].end
    /\ queue[i].end = IF i = Len(queue) THEN written ELSE queue[i + 1].start
=============================================================================
