---------------------------- MODULE MCOperations -----------------------------
(* Frames to model check the walks: up to three TLVs, those of up to two   *)
(* cut anywhere. Two are results, one is too short to be one, one holds a  *)
(* client id, one has no value, one is longer than any frame.              *)
EXTENDS Operations

Pieces ==
  { <<>>, <<2, 4, 0, 0, 0, 1, 0>>, <<2, 5, 0, 1, 0, 3, 0, 9>>, <<2, 2, 0, 2, 4>>,
    <<1, 2, 0, 3, 9>>, <<7, 0, 0>>, <<1, 4, 1, 2>> }

MCFrames ==
  {p \o q \o r : p \in Pieces, q \in Pieces, r \in Pieces}
  \cup UNION {{SubSeq(p \o q, 1, n) : n \in 0 .. Len(p \o q)} : p \in Pieces, q \in Pieces}
=============================================================================
