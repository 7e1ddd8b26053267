----------------------------- MODULE MCFeedPath -----------------------------
(***************************************************************************)
(* Instances of FeedPath for TLC.  A word has 4 bytes, the UDP header one  *)
(* word and a half, the MoldUDP64 header 5 bytes; messages have 2 or 5.    *)
(***************************************************************************)
EXTENDS FeedPath, TLC

Block(type, len) == [type |-> type, len |-> len]
Short == Block(2, 2)
Long == Block(5, 5)

\* Valid messages; after one of the wrong length for its type and one that is too
\* long for the decoder; and after an empty frame.
MCPayloads ==
  { <<Short>>, <<Long, Short>>, <<Block(2, 3), Block(5, 7), Long>>,
    <<Block(0, 0), Short>> }
=============================================================================
