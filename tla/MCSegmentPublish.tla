--------------------------- MODULE MCSegmentPublish ---------------------------
(* Values of the constants of SegmentPublish for TLC. *)
EXTENDS SegmentPublish

\* Two contents, no byte, and lengths that the payload lengths 1 and 2 divide or not.
SomeObjects ==
    {[i \in 1..n |-> <<"a", i>>] : n \in {0, 1, 3}} \union {<< <<"b", 1>>, <<"b", 2>> >>}
=============================================================================
