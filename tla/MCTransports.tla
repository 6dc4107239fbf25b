----------------------------- MODULE MCTransports -----------------------------
(* Frames for model checking Transports, for a decoder of 3 bytes: a flag  *)
(* alone, the shortest frame that decodes, one in which every byte is      *)
(* stuffed, and one that is too long for the decoder and for acc.          *)
EXTENDS Transports

MCFrameKinds ==
  { [raw |-> 1, plain |-> 0], [raw |-> 4, plain |-> 3],
    [raw |-> 7, plain |-> 3], [raw |-> 10, plain |-> 5] }
=============================================================================
