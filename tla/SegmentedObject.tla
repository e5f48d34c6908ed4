--------------------------- MODULE SegmentedObject ---------------------------
(***************************************************************************)
(* The SegmentedObjectHandler (segmented-object-handler.cpp) on top of its  *)
(* SegmentStreamHandler: its onSegment callback collects the segments, and  *)
(* at the end of stream their concatenation is deserialized into the object *)
(* of the stream's own Namespace node.  The callback runs inside the step   *)
(* of SegmentStream that calls onSegment.                                   *)
(*                                                                          *)
(* GeneralizedObject attaches the handler to a node and has the next-state  *)
(* relation.                                                                *)
(***************************************************************************)
EXTENDS SegmentStream

CONSTANT NoContent  \* there is no concatenation yet

ASSUME ContentAssumption == NoContent \notin Seq(Published)

VARIABLES
    nodeState,  \* state_ of the stream's node
    segments,   \* segments_: the contents collected so far, as segment numbers
    content,    \* history: what was handed to deserialize_
    taken,      \* an OnDeserializeNeeded callback has the content
    callbacks,  \* onSegmentedObjectCallbacks_ are still registered
    notified    \* history: how often they were called

objectVars == <<nodeState, segments, content, taken, callbacks, notified>>

InitCollector ==
    /\ nodeState = "NAME_EXISTS"
    /\ segments = << >>
    /\ content = NoContent
    /\ taken = FALSE
    /\ callbacks = TRUE
    /\ notified = 0

\* defaultOnDeserialized on the stream's node, and onObjectSet.
SetStreamObject ==
    /\ nodeState' = "OBJECT_READY"
    /\ notified' = IF callbacks THEN notified + 1 ELSE notified
    /\ callbacks' = FALSE

\* Slips: the segments of the last run are not yet collected when the content is put
\* together; deserialize_ goes on to the default after a handler took the content.
OnSegment_DropsLastRun(calls) ==
    IF calls # << >> /\ calls[Len(calls)] = EndOfStream
      THEN /\ segments' = << >>
           /\ content' = segments
           /\ SetStreamObject
           /\ UNCHANGED taken
      ELSE /\ segments' = segments \o calls
           /\ UNCHANGED <<nodeState, content, taken, callbacks, notified>>
OnSegment_FallsThrough(calls) ==
    IF calls # << >> /\ calls[Len(calls)] = EndOfStream
      THEN /\ segments' = << >>
           /\ content' = segments \o SubSeq(calls, 1, Len(calls) - 1)
           /\ taken' \in BOOLEAN
           /\ SetStreamObject
      ELSE /\ segments' = segments \o calls
           /\ UNCHANGED <<nodeState, content, taken, callbacks, notified>>

\* deserialize_ of the content c on the stream's node.
DeserializeContent(c) ==
    /\ content' = c
    /\ \/ /\ taken' = TRUE   \* it finds a handler
          /\ nodeState' = IF nodeState = "NAME_EXISTS" THEN "DESERIALIZING" ELSE nodeState
          /\ UNCHANGED <<callbacks, notified>>
       \/ SetStreamObject /\ UNCHANGED taken

\* onSegment for each of the calls, one after the other.
OnSegment(calls) ==
    IF calls # << >> /\ calls[Len(calls)] = EndOfStream
      THEN /\ segments' = << >>
           /\ DeserializeContent(segments \o SubSeq(calls, 1, Len(calls) - 1))
      ELSE /\ segments' = segments \o calls
           /\ UNCHANGED <<nodeState, content, taken, callbacks, notified>>

\* The onSegment calls that a step of SegmentStream makes.
NewCalls == SubSeq(reported', Len(reported) + 1, Len(reported'))

\* objectNeeded() on the stream's node: the handler promises to produce.
NeedObject ==
    /\ StartFetching
    /\ nodeState' = "PRODUCING_OBJECT"
    /\ UNCHANGED <<segments, content, taken, callbacks, notified>>

\* Any other step of the stream, with the onSegment calls it makes.
Stream ==
    /\ \/ AnnounceAgain
       \/ OnManifest
       \/ \E s \in Segment :
             \/ AskAgain(s)
             \/ OnData(s)
             \/ OnDecrypted(s)
             \/ OnDecryptionError(s)
             \/ OnDeserialized(s)
             \/ OnTimeout(s)
             \/ OnNetworkNack(s)
             \/ Expire(s)
    /\ OnSegment(NewCalls)

\* The handler that took the concatenation calls onDeserialized.
OnObjectDeserialized ==
    /\ taken
    /\ taken' = FALSE
    /\ SetStreamObject
    /\ UNCHANGED <<vars, segments, content>>

-----------------------------------------------------------------------------
(* Properties.                                                              *)

TypeOKObject ==
    /\ nodeState \in {"NAME_EXISTS", "PRODUCING_OBJECT", "DESERIALIZING", "OBJECT_READY"}
    /\ segments \in Seq(Published)
    /\ content \in Seq(Published) \union {NoContent}
    /\ taken \in BOOLEAN
    /\ callbacks \in BOOLEAN
    /\ notified \in Nat

\* The content that is deserialized is all segments in order, each once
\* (segmented-object-handler.cpp:65-93).
ObjectIsWhole ==
    content # NoContent => content = [i \in 1..(FinalSegment + 1) |-> i - 1]

\* onSegmentedObject is called exactly once for a stream, when the whole content has been
\* deserialized, and a ready node has a deserialized content behind it.
ReadyMeansAnnounced ==
    /\ nodeState = "OBJECT_READY" => notified = 1
    /\ notified = IF content # NoContent /\ ~taken THEN 1 ELSE 0
=============================================================================
