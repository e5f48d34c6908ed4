--------------------------- MODULE MCSegmentStream ---------------------------
(* Values of the constants of SegmentStream for TLC. *)
EXTENDS SegmentStream

AllMarked  == 0..FinalSegment   \* a producer that uses setObject
LastMarked == {FinalSegment}    \* a producer that learns the end last

=============================================================================
