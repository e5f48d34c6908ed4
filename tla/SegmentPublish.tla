---------------------------- MODULE SegmentPublish ----------------------------
(***************************************************************************)
(* The publishing side: setObject of the SegmentStreamHandler               *)
(* (segment-stream-handler.cpp) and of the GeneralizedObjectHandler, which  *)
(* calls it (generalized-object-handler.cpp), on one Namespace node.  The   *)
(* Data packet of a node stays the first one attached to it (setData),      *)
(* while its object is replaced (setObject_).  A consumer fetches packets   *)
(* at any time, as in SegmentStream: it reports the segments in order and   *)
(* stops at the final number that the packet received last has.             *)
(*                                                                          *)
(* A call is one action, since it does not return to the event loop.        *)
(***************************************************************************)
EXTENDS Integers, FiniteSets, Sequences, SequencesExt

CONSTANTS
    Objects,   \* the objects that the application publishes, as sequences of bytes
    Payloads,  \* the values of maxSegmentPayloadLength_ considered
    MaxCalls,  \* bound: setObject calls
    Zeros,     \* the digest field of a segment that does not exist
    NoPacket   \* no Data packet is attached to a node

ASSUME PublishAssumption ==
    /\ \A o \in Objects : o \in Seq(Range(o))
    /\ Payloads \subseteq Nat \ {0}  \* setMaxSegmentPayloadLength throws otherwise
    /\ MaxCalls \in Nat

Segment == UNION {0..Len(o) : o \in Objects}

VARIABLES
    generalized,     \* the application publishes generalized objects
    packets,         \* data_ of each segment's node
    manifest,        \* the content of data_ of the _manifest node
    manifestObject,  \* object_ of the _manifest node
    meta,            \* the content of data_ of the _meta node
    nodeObject,      \* object_ of the node
    calls,           \* history: the setObject calls
    got,             \* consumer: the segments it has received
    final,           \* consumer: finalSegmentNumber_
    nReported,       \* consumer: how many segments it has reported
    done             \* consumer: it has reported the end of stream

nodes    == <<packets, manifest, manifestObject, meta, nodeObject>>
consumer == <<got, final, nReported, done>>
vars     == <<generalized, nodes, calls, consumer>>

Init ==
    /\ generalized \in BOOLEAN
    /\ packets = [s \in Segment |-> NoPacket]
    /\ manifest = NoPacket
    /\ manifestObject = NoPacket
    /\ meta = NoPacket
    /\ nodeObject = NoPacket
    /\ calls = << >>
    /\ got = {}
    /\ final = -1
    /\ nReported = 0
    /\ done = FALSE

-----------------------------------------------------------------------------
(* Splitting an object.                                                     *)

\* Slip: the loop goes on while the offset is at most the size.
Offsets_ToSize(o, max) == {offset \in 0..Len(o) : offset % max = 0}

\* The offsets of the loop over the object.
Offsets(o, max) == {offset \in 0..(Len(o) - 1) : offset % max = 0}

\* Slip: the count of the segments in place of the last number.
FinalSegment_Count(o, max) == Cardinality(Offsets(o, max))

\* The last value of the loop's counter, 0 if it does not run.
FinalSegment(o, max) == IF o = << >> THEN 0 ELSE Cardinality(Offsets(o, max)) - 1

Payload(o, max, s) ==
    LET offset == s * max
        length == IF offset + max > Len(o) THEN Len(o) - offset ELSE max
    IN  SubSeq(o, offset + 1, offset + length)

Packet(o, max, s, useManifest) ==
    [content |-> Payload(o, max, s), final |-> FinalSegment(o, max), digestSigned |-> useManifest]

\* The implicit digest: no two packets have the same.
Digest(s, packet) == <<s, packet>>

\* manifestContent: the digests of the new packets, whichever packets the nodes keep.
ManifestOf(o, max) ==
    [i \in 1..(FinalSegment(o, max) + 1) |->
        IF o = << >> THEN Zeros ELSE Digest(i - 1, Packet(o, max, i - 1, TRUE))]

\* The content of the _meta packet.
MetaOf(o, hasSegments) == [hasSegments |-> hasSegments, object |-> o]

\* A node with a packet differs from one without.
ASSUME NoPacketAssumption ==
    \A o \in Objects, max \in Payloads, b \in BOOLEAN :
        /\ \A s \in Segment : NoPacket # Packet(o, max, s, b)
        /\ NoPacket # ManifestOf(o, max)
        /\ NoPacket # MetaOf(o, b)

-----------------------------------------------------------------------------
(* The calls.                                                               *)

\* Slip: a second packet replaces the first.
Attached_Last(old, new) == new

\* setData: a node keeps its packet.
Attached(old, new) == IF old = NoPacket THEN new ELSE old

\* The segments below n get their packets.
PutSegments(o, max, useManifest, n) ==
    packets' = [s \in Segment |->
                   IF s < n THEN Attached(packets[s], Packet(o, max, s, useManifest))
                            ELSE packets[s]]

\* Slip: the new manifest takes the place of the first.
PutManifest_Replaces(o, max, signed) ==
    IF signed
      THEN manifest' = ManifestOf(o, max) /\ manifestObject' = manifest'
      ELSE UNCHANGED <<manifest, manifestObject>>

\* serializeObject on the _manifest node, which leaves the node as it is if the packet
\* cannot be signed.
PutManifest(o, max, signed) ==
    IF signed
      THEN /\ manifest' = Attached(manifest, ManifestOf(o, max))
           /\ manifestObject' = ManifestOf(o, max)
      ELSE UNCHANGED <<manifest, manifestObject>>

\* setObject of the SegmentStreamHandler: ok says whether everything was signed.  When a
\* segment cannot be signed the exception ends the call; with a manifest a segment needs
\* no key.
SetSegments(o, max, useManifest, ok) ==
    LET n == Cardinality(Offsets(o, max)) IN
    \/ /\ PutSegments(o, max, useManifest, n)
       /\ IF useManifest THEN PutManifest(o, max, ok)
                         ELSE ok /\ UNCHANGED <<manifest, manifestObject>>
       /\ nodeObject' = o
    \/ /\ ~useManifest
       /\ ~ok
       /\ \E k \in 0..(n - 1) : PutSegments(o, max, useManifest, k)
       /\ UNCHANGED <<manifest, manifestObject, nodeObject>>

Call(o, max, useManifest, other, ok) ==
    calls' = Append(calls, [object |-> o, max |-> max, manifest |-> useManifest,
                            other |-> other, ok |-> ok])

SetObject ==
    /\ ~generalized
    /\ Len(calls) < MaxCalls
    /\ \E o \in Objects, max \in Payloads, useManifest, ok \in BOOLEAN :
          /\ SetSegments(o, max, useManifest, ok)
          /\ Call(o, max, useManifest, FALSE, ok)
    /\ UNCHANGED <<generalized, meta, consumer>>

\* Slip: the new packet takes the place of the first.
PutMeta_Replaces(o, hasSegments, signed) ==
    meta' = IF signed THEN MetaOf(o, hasSegments) ELSE meta

\* serializeObject on the _meta node.
PutMeta(o, hasSegments, signed) ==
    meta' = IF signed THEN Attached(meta, MetaOf(o, hasSegments)) ELSE meta

\* setObject of the GeneralizedObjectHandler, with or without something else for the
\* "other" field.  The call goes on when the _meta packet cannot be signed.
SetGeneralizedObject ==
    /\ generalized
    /\ Len(calls) < MaxCalls
    /\ \E o \in Objects, max \in Payloads, other, metaSigned, ok \in BOOLEAN :
          LET hasSegments == Len(o) > max \/ other IN
          /\ PutMeta(o, hasSegments, metaSigned)
          /\ IF hasSegments
               THEN SetSegments(o, max, TRUE, ok)
               ELSE /\ ok
                    /\ nodeObject' = o
                    /\ UNCHANGED <<packets, manifest, manifestObject>>
          /\ Call(o, max, TRUE, other, metaSigned /\ ok)
    /\ UNCHANGED <<generalized, consumer>>

-----------------------------------------------------------------------------
(* The consumer.                                                            *)

\* The packet of segment s arrives: onStateChanged.
Receive(s) ==
    /\ ~done
    /\ packets[s] # NoPacket
    /\ s \notin got
    /\ got' = got \union {s}
    /\ final' = packets[s].final
    /\ \E n \in nReported..(Max(got') + 1) :
          /\ \A t \in nReported..(n - 1) : t \in got'
          /\ \A t \in nReported..(n - 2) : t # final'
          /\ n \notin got' \/ (n > nReported /\ n - 1 = final')
          /\ nReported' = n
          /\ done' = (n > nReported /\ n - 1 = final')
    /\ UNCHANGED <<generalized, nodes, calls>>

\* The digests that verifyWithManifest compares: it reads the packet of each of them.
Missing(list) == {s \in 0..(Len(list) - 1) : s \notin got}

Verifies(list) == \A s \in 0..(Len(list) - 1) : list[s + 1] = Digest(s, packets[s])

Next == SetObject \/ SetGeneralizedObject \/ \E s \in Segment : Receive(s)

Spec == Init /\ [][Next]_vars

\* The network delivers what is published.
FairSpec == Spec /\ \A s \in Segment : WF_vars(Receive(s))

-----------------------------------------------------------------------------
(* Properties.                                                              *)

\* The content that the consumer's onSegment calls have had.
Assembled == FlattenSeq([i \in 1..nReported |-> packets[i - 1].content])

SameArguments(c, d) == [c EXCEPT !.ok = TRUE] = [d EXCEPT !.ok = TRUE]

\* The application repeats a call of which something could not be signed, until everything
\* is, before it publishes something else.
Repeats ==
    \A i \in 1..(Len(calls) - 1) : ~calls[i].ok => SameArguments(calls[i], calls[i + 1])

TypeOK ==
    /\ generalized \in BOOLEAN
    /\ \A s \in Segment :
          packets[s] # NoPacket =>
              /\ \E max \in Payloads : Len(packets[s].content) \in 1..max
              /\ packets[s].final \in Segment
              /\ packets[s].digestSigned \in BOOLEAN
    /\ nodeObject \in Objects \union {NoPacket}
    /\ got \subseteq {s \in Segment : packets[s] # NoPacket}
    /\ final \in Segment \union {-1}
    /\ nReported \in 0..Cardinality(got)
    /\ done \in BOOLEAN
    /\ Len(calls) <= MaxCalls

\* What a consumer assembles is an object that was published, however many objects of
\* whatever lengths and payload lengths follow each other on the node: never a mixture
\* (segment-stream-handler.cpp:103-180).
AssembledIsPublished ==
    done /\ Repeats => \E i \in DOMAIN calls : Assembled = calls[i].object

\* When the first object on the node is published with a manifest, a consumer that has it
\* whole can verify it: no packet is missing that verifyWithManifest reads, all digests
\* are right, and no segment is left out (segment-stream-handler.cpp:122-180, 182-205).  An
\* empty object has no segment but a digest in its manifest.
FirstVerifies ==
    done /\ Repeats /\ calls[1].manifest /\ manifest # NoPacket /\ manifest[1] # Zeros =>
        Missing(manifest) = {} /\ Verifies(manifest) /\ Len(manifest) = nReported

\* The _meta packet that a consumer of a generalized object gets belongs to the object that
\* it assembles, unless that object is empty (generalized-object-handler.cpp:53-86).
MetaFits ==
    done /\ Repeats /\ meta # NoPacket /\ meta.hasSegments /\ meta.object # << >> =>
        Assembled = meta.object

\* An object that is published first and has a byte is received whole, whatever is
\* published after it.
FirstIsReceived ==
    (calls # << >> /\ calls[1].ok /\ packets[0] # NoPacket /\ calls[1].object # << >>) ~> done
=============================================================================
