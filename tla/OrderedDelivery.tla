--------------------------- MODULE OrderedDelivery ---------------------------
(***************************************************************************)
(* What a SegmentStreamHandler promises to its onSegment callback           *)
(* (segment-stream-handler.hpp:77-90): the segments 0, 1, ..., Final are    *)
(* supplied in order, each once, and after the final segment the callback   *)
(* is called once more with a null segment to signal the end of stream.     *)
(* How the segments get here is no part of the promise.                     *)
(***************************************************************************)
EXTENDS Integers, Sequences

CONSTANTS
    Final,       \* number of the last segment of the stream
    EndOfStream  \* what stands for the null segment

VARIABLE output  \* the arguments of the onSegment calls made so far

\* The whole stream as the callback must see it.
Expected == [i \in 1..(Final + 2) |-> IF i = Final + 2 THEN EndOfStream ELSE i - 1]

\* The first n calls.
Prefix(n) == [i \in 1..n |-> Expected[i]]

Init == output = << >>

\* One or more calls happen together; the final segment never goes out without
\* the end-of-stream call right behind it.
Deliver ==
    \E n \in (Len(output) + 1)..(Final + 2) :
        /\ n # Final + 1
        /\ output' = Prefix(n)

Spec == Init /\ [][Deliver]_output

\* The promise with progress: the stream goes on until its end.
FairSpec == Spec /\ WF_output(Deliver)
=============================================================================
