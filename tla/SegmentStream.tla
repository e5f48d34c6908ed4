---------------------------- MODULE SegmentStream ----------------------------
(***************************************************************************)
(* The SegmentStreamHandler (segment-stream-handler.cpp) attached to a      *)
(* Namespace node whose children are the segments of a stream that a remote *)
(* producer has published.  Every action is one complete callback of the    *)
(* single-threaded event loop (Face::processEvents) or one call of the      *)
(* application: a Data packet, a timeout or a network nack for one segment, *)
(* the late result of a decryption or a deserialization, or objectNeeded(). *)
(*                                                                          *)
(* A segment's node is created when it is first touched; a node that does   *)
(* not exist yet and one in NAME_EXISTS are the same here.                  *)
(***************************************************************************)
EXTENDS Integers, FiniteSets, Sequences

CONSTANTS
    FinalSegment,  \* number of the last segment the producer has published
    Marked,        \* the segments whose MetaInfo has the FinalBlockId
    PipelineSize,  \* interestPipelineSize_
    InitialCount,  \* initialInterestCount_
    HasDecryptor,  \* whether getDecryptor() finds a decryptor for the segments
    UsesManifest,  \* whether the segments have a DigestSha256Signature
    Expiring,      \* the segments whose MetaInfo has a FreshnessPeriod
    EndOfStream,   \* the null Namespace of the last onSegment call
    MaxInterests,  \* bound: Interests in flight for one segment
    MaxLosses      \* bound: Interests for published segments that fail

ASSUME StreamAssumption ==
    /\ FinalSegment \in Nat
    /\ Marked \subseteq 0..FinalSegment
    /\ FinalSegment \in Marked
    /\ PipelineSize \in Nat \ {0}      \* setInterestPipelineSize throws otherwise
    /\ InitialCount \in Nat \ {0}      \* setInitialInterestCount throws otherwise
    /\ HasDecryptor \in BOOLEAN
    /\ UsesManifest \in BOOLEAN
    /\ Expiring \subseteq 0..FinalSegment
    /\ EndOfStream \notin Int
    /\ MaxInterests \in Nat \ {0}
    /\ MaxLosses \in Nat

Limit == IF PipelineSize >= InitialCount THEN PipelineSize ELSE InitialCount

Published == 0..FinalSegment

\* Until the final number is known the handler asks past the end, but by less
\* than one full pipeline: this range loses no request.
Segment == 0..(FinalSegment + Limit)

\* The states of a segment's node that the handler and its children reach.
SegmentState ==
    {"NAME_EXISTS", "INTEREST_EXPRESSED", "INTEREST_TIMEOUT",
     "INTEREST_NETWORK_NACK", "DATA_RECEIVED", "DESERIALIZING", "DECRYPTING",
     "DECRYPTION_ERROR", "OBJECT_READY"}

VARIABLES
    state,         \* state_ of each segment's node
    inFlight,      \* how many Interests of each segment await an answer
    data,          \* the segments whose node has a Data packet attached
    object,        \* the segments whose node has an object
    stale,         \* the segments whose freshnessExpiryTime_ has passed
    decrypting,    \* the segments whose decryption has not called back
    deserializing, \* the segments whose deserialization has not called back
    manifest,      \* state_ of the _manifest node
    maxReported,   \* maxReportedSegmentNumber_
    finalSegment,  \* finalSegmentNumber_, -1 until known
    attached,      \* the onStateChanged and onSegment callbacks are registered
    reported,      \* history: the arguments of the onSegment calls so far
    losses         \* history: Interests for published segments that failed

nodeVars   == <<state, inFlight, data, object, stale, decrypting, deserializing>>
streamVars == <<maxReported, finalSegment, attached, reported>>
vars       == <<nodeVars, manifest, streamVars, losses>>

InitStream ==
    /\ state = [s \in Segment |-> "NAME_EXISTS"]
    /\ inFlight = [s \in Segment |-> 0]
    /\ data = {}
    /\ object = {}
    /\ stale = {}
    /\ decrypting = {}
    /\ deserializing = {}
    /\ manifest = "NAME_EXISTS"
    /\ maxReported = -1
    /\ finalSegment = -1
    /\ reported = << >>
    /\ losses = 0

\* setNamespace has registered the callbacks.
Init == InitStream /\ attached = TRUE

-----------------------------------------------------------------------------
(* The handler.                                                             *)

\* Requested in the eyes of requestNewSegments: there is no Data packet and the
\* state is not below INTEREST_EXPRESSED, whatever became of the Interest.
Requested(st, d) == {s \in Segment : s \notin d /\ st[s] # "NAME_EXISTS"}

\* Slips: the final number is not looked at; the loop increments before its first look.
Unrequested_PastFinal(st, d, m, f) ==
    {s \in Segment : s > m /\ s \notin d /\ st[s] = "NAME_EXISTS"}
Unrequested_SkipsNext(st, d, m, f) ==
    {s \in Segment : /\ s > m + 1
                     /\ f >= 0 => s <= f
                     /\ s \notin d
                     /\ st[s] = "NAME_EXISTS"}

\* What is left to request after segment number m when the final number is f.
Unrequested(st, d, m, f) ==
    {s \in Segment : /\ s > m
                     /\ f >= 0 => s <= f
                     /\ s \notin d
                     /\ st[s] = "NAME_EXISTS"}

\* Slips: max new segments whatever is requested already; segments with data keep their
\* slot.
IsNextBatch_AllNew(batch, max, st, d, m, f) ==
    LET remaining == Unrequested(st, d, m, f)
    IN  /\ batch \subseteq remaining
        /\ \A s \in batch, t \in remaining \ batch : s < t
        /\ Cardinality(batch) <= max
        /\ batch = remaining \/ Cardinality(batch) = max
IsNextBatch_CountsReceived(batch, max, st, d, m, f) ==
    LET room      == max - Cardinality({s \in Segment : st[s] # "NAME_EXISTS"})
        remaining == Unrequested(st, d, m, f)
    IN  /\ batch \subseteq remaining
        /\ \A s \in batch, t \in remaining \ batch : s < t
        /\ batch # {} => Cardinality(batch) <= room
        /\ batch = remaining \/ Cardinality(batch) >= room

\* The lowest unrequested numbers, as many as bring the requested ones to max.
IsNextBatch(batch, max, st, d, m, f) ==
    LET room      == max - Cardinality(Requested(st, d))
        remaining == Unrequested(st, d, m, f)
    IN  /\ batch \subseteq remaining
        /\ \A s \in batch, t \in remaining \ batch : s < t
        /\ batch # {} => Cardinality(batch) <= room
        /\ batch = remaining \/ Cardinality(batch) >= room

\* requestNewSegments(max), when the nodes have the states st and the numbers of
\* Interests fl before it runs: objectNeeded() on every segment of the batch.
RequestNewSegments(max, st, fl, d, m, f) ==
    \E batch \in SUBSET Segment :
        /\ IsNextBatch(batch, max, st, d, m, f)
        /\ state' = [s \in Segment |->
                        IF s \in batch THEN "INTEREST_EXPRESSED" ELSE st[s]]
        /\ inFlight' = [s \in Segment |-> IF s \in batch THEN fl[s] + 1 ELSE fl[s]]

\* Slip: one segment per event instead of a loop.
ReportsUpTo_One(last, f, obj) ==
    last = IF maxReported + 1 \in obj THEN maxReported + 1 ELSE maxReported

\* last is where the reporting loop stops: every segment up to it has an object,
\* and it is the final one or the next has none.
ReportsUpTo(last, f, obj) ==
    /\ \A s \in (maxReported + 1)..last : s \in obj
    /\ \A s \in (maxReported + 1)..(last - 1) : s # f
    /\ (last + 1 \notin obj) \/ (last > maxReported /\ last = f)

\* Slip: any report finishes the stream once the final number is known.
Finishes_AnyReport(last, f) == last > maxReported /\ f >= 0

\* The loop is over because the final segment was reported in it.
Finishes(last, f) == last > maxReported /\ last = f

\* The onSegment calls of one run of the loop.
Calls(last, f) ==
    [i \in 1..(last - maxReported) |-> maxReported + i]
        \o (IF Finishes(last, f) THEN <<EndOfStream>> ELSE << >>)

\* onStateChanged for OBJECT_READY of segment s, with the nodes as st, fl, d and
\* obj say: learn the final number, report in order, request more.
Report(s, st, fl, d, obj) ==
    LET f == IF s \in Marked THEN FinalSegment ELSE finalSegment IN
    \E last \in maxReported..FinalSegment :
        /\ ReportsUpTo(last, f, obj)
        /\ finalSegment' = f
        /\ maxReported' = last
        /\ reported' = reported \o Calls(last, f)
        /\ attached' = ~Finishes(last, f)
        /\ manifest' = IF /\ UsesManifest
                          /\ last > maxReported
                          /\ manifest = "NAME_EXISTS"
                         THEN "INTEREST_EXPRESSED" ELSE manifest
        /\ IF Finishes(last, f)
             THEN state' = st /\ inFlight' = fl
             ELSE RequestNewSegments(PipelineSize, st, fl, d, last, f)

\* The same, if the callback is registered.
OnStateChanged(s, st, fl, d, obj) ==
    IF attached
      THEN Report(s, st, fl, d, obj)
      ELSE /\ state' = st
           /\ inFlight' = fl
           /\ UNCHANGED <<manifest, streamVars>>

\* defaultOnDeserialized on the node of segment s.
SetObject(s, fl, d) ==
    /\ data' = d
    /\ object' = object \union {s}
    /\ OnStateChanged(s, [state EXCEPT ![s] = "OBJECT_READY"], fl, d, object \union {s})

\* A state change other than OBJECT_READY: the handler ignores it.
SetState(s, new, fl) ==
    /\ state' = [state EXCEPT ![s] = new]
    /\ inFlight' = fl
    /\ UNCHANGED <<manifest, streamVars>>

-----------------------------------------------------------------------------
(* The application's calls.                                                 *)

\* The segments whose packet satisfies an Interest with the given MustBeFresh.
Matching(mustBeFresh) == IF mustBeFresh THEN data \ stale ELSE data

\* findBestMatchName on the stream's node returns segment s, the first that matches.
BestMatch(s, mustBeFresh) ==
    s \in Matching(mustBeFresh) /\ \A t \in Matching(mustBeFresh) : s <= t

\* objectNeeded(mustBeFresh) on the stream's node, when the best match has an object:
\* it only repeats the OBJECT_READY of that segment.
AnnounceAgain ==
    \E s \in object, mustBeFresh \in BOOLEAN :
        /\ BestMatch(s, mustBeFresh)
        /\ OnStateChanged(s, [state EXCEPT ![s] = "OBJECT_READY"], inFlight, data, object)
        /\ UNCHANGED <<data, object, stale, decrypting, deserializing, losses>>

\* objectNeeded(mustBeFresh) on the stream's node otherwise: it calls the handler's
\* onObjectNeeded, which removeCallback leaves registered after the end of stream.
StartFetching ==
    /\ \E mustBeFresh \in BOOLEAN : \A s \in object : ~BestMatch(s, mustBeFresh)
    /\ RequestNewSegments(InitialCount, state, inFlight, data, maxReported, finalSegment)
    /\ UNCHANGED <<data, object, stale, decrypting, deserializing, manifest, streamVars, losses>>

\* objectNeeded(mustBeFresh) on the node of a segment that was requested before.
AskAgain(s) ==
    /\ state[s] # "NAME_EXISTS"
    /\ \E mustBeFresh \in BOOLEAN :
         IF s \in object \cap Matching(mustBeFresh)
           THEN OnStateChanged(s, [state EXCEPT ![s] = "OBJECT_READY"], inFlight, data, object)
           ELSE /\ inFlight[s] < MaxInterests
                /\ SetState(s, "INTEREST_EXPRESSED", [inFlight EXCEPT ![s] = @ + 1])
    /\ UNCHANGED <<data, object, stale, decrypting, deserializing, losses>>

-----------------------------------------------------------------------------
(* The callbacks of the Face and of the decryptor and deserializers.        *)

Answered(s) == [inFlight EXCEPT ![s] = @ - 1]

\* deserialize_ of the content of segment s: an OnDeserializeNeeded callback takes
\* it and answers later, or the content becomes the object at once.
Deserialize(s, fl, d) ==
    \/ /\ deserializing' = deserializing \union {s}
       /\ data' = d
       /\ SetState(s, IF state[s] \in {"DECRYPTING", "DECRYPTION_ERROR", "OBJECT_READY"}
                        THEN state[s] ELSE "DESERIALIZING", fl)
       /\ UNCHANGED object
    \/ SetObject(s, fl, d) /\ UNCHANGED deserializing

\* onData for the Data packet of segment s, which leaves the Interests fl in flight.
Receive(s, fl) ==
    /\ \/ /\ s \in data      \* a packet is already attached: nothing else happens
          /\ inFlight' = fl
          /\ UNCHANGED <<state, data, object, decrypting, deserializing>>
          /\ UNCHANGED <<manifest, streamVars>>
       \/ /\ s \notin data
          /\ ~HasDecryptor
          /\ Deserialize(s, fl, data \union {s})
          /\ UNCHANGED decrypting
       \/ /\ s \notin data
          /\ HasDecryptor
          /\ data' = data \union {s}
          /\ \/ /\ SetState(s, "DECRYPTING", fl)
                /\ decrypting' = decrypting \union {s}
             \/ /\ SetState(s, "DECRYPTION_ERROR", fl)  \* not decodable
                /\ UNCHANGED decrypting
          /\ UNCHANGED <<object, deserializing>>
    /\ UNCHANGED <<stale, losses>>

\* The packet answers an Interest for its segment.
OnData(s) ==
    /\ s \in Published
    /\ inFlight[s] > 0
    /\ Receive(s, Answered(s))

\* The decryptor calls back with the plain content.
OnDecrypted(s) ==
    /\ s \in decrypting
    /\ decrypting' = decrypting \ {s}
    /\ Deserialize(s, inFlight, data)
    /\ UNCHANGED <<stale, losses>>

\* A slip: the packet that cannot be decrypted is dropped, so that it can be asked for
\* again, and the time of its freshness is left behind.
OnDecryptionError_Detaches(s) ==
    /\ s \in decrypting
    /\ decrypting' = decrypting \ {s}
    /\ SetState(s, "DECRYPTION_ERROR", inFlight)
    /\ data' = data \ {s}
    /\ UNCHANGED <<object, stale, deserializing, losses>>

\* The decryptor calls back with an error.
OnDecryptionError(s) ==
    /\ s \in decrypting
    /\ decrypting' = decrypting \ {s}
    /\ SetState(s, "DECRYPTION_ERROR", inFlight)
    /\ UNCHANGED <<data, object, stale, deserializing, losses>>

\* The handler that took the content calls onDeserialized.
OnDeserialized(s) ==
    /\ s \in deserializing
    /\ deserializing' = deserializing \ {s}
    /\ SetObject(s, inFlight, data)
    /\ UNCHANGED <<stale, decrypting, losses>>

\* An Interest for segment s fails.  One for a segment that is not published can
\* only fail; of the others at most MaxLosses do.
Fails(s, new) ==
    /\ inFlight[s] > 0
    /\ IF s \in Published
         THEN losses < MaxLosses /\ losses' = losses + 1
         ELSE UNCHANGED losses
    /\ SetState(s, new, Answered(s))
    /\ UNCHANGED <<data, object, stale, decrypting, deserializing>>

OnTimeout(s) == Fails(s, "INTEREST_TIMEOUT")

OnNetworkNack(s) == Fails(s, "INTEREST_NETWORK_NACK")

\* The _manifest node gets its object, or its Interest fails: no segment changes.
OnManifest ==
    /\ manifest = "INTEREST_EXPRESSED"
    /\ manifest' \in {"OBJECT_READY", "INTEREST_TIMEOUT"}
    /\ UNCHANGED <<nodeVars, streamVars, losses>>

\* Time passes the freshnessExpiryTime_ of segment s.
Expire(s) ==
    /\ s \in (data \ stale) \cap Expiring
    /\ stale' = stale \union {s}
    /\ UNCHANGED <<state, inFlight, data, object, decrypting, deserializing>>
    /\ UNCHANGED <<manifest, streamVars, losses>>

Next ==
    \/ AnnounceAgain
    \/ StartFetching
    \/ OnManifest
    \/ \E s \in Segment :
          \/ AskAgain(s)
          \/ OnData(s)
          \/ OnDecrypted(s)
          \/ OnDecryptionError(s)
          \/ OnDeserialized(s)
          \/ OnTimeout(s)
          \/ OnNetworkNack(s)
          \/ Expire(s)

Spec == Init /\ [][Next]_vars

\* The application asks for a segment again when its Interest has failed.
Retry(s) ==
    /\ state[s] \in {"INTEREST_TIMEOUT", "INTEREST_NETWORK_NACK"}
    /\ s \in Published \ data
    /\ AskAgain(s)

\* The application starts the stream, the network answers what is in flight, and
\* decryptors and deserializers call back.
Fairness ==
    /\ WF_vars(StartFetching)
    /\ \A s \in Segment :
          /\ WF_vars(OnData(s))
          /\ WF_vars(OnDecrypted(s))
          /\ WF_vars(OnDeserialized(s))

FairSpec == Spec /\ Fairness

\* The same, with an application that asks again for what has failed.
RetrySpec == FairSpec /\ \A s \in Segment : WF_vars(Retry(s))

-----------------------------------------------------------------------------
(* Properties.                                                              *)

\* Every variable has its type.
TypeOK ==
    /\ state \in [Segment -> SegmentState]
    /\ inFlight \in [Segment -> Nat]
    /\ data \subseteq Published
    /\ object \subseteq data
    /\ stale \subseteq data
    /\ decrypting \subseteq data
    /\ deserializing \subseteq data
    /\ manifest \in {"NAME_EXISTS", "INTEREST_EXPRESSED", "INTEREST_TIMEOUT", "OBJECT_READY"}
    /\ maxReported \in -1..FinalSegment
    /\ finalSegment \in {-1, FinalSegment}
    /\ attached \in BOOLEAN
    /\ reported \in Seq(Published \union {EndOfStream})
    /\ losses \in 0..MaxLosses

\* The calls of onSegment are those of OrderedDelivery: every segment once, in
\* order whatever the order of arrival, and then the end of stream.
Delivery == INSTANCE OrderedDelivery WITH Final <- FinalSegment, output <- reported

DeliversInOrder == Delivery!Spec

\* The whole stream is delivered, and then its end.  Interests may fail, as long as the
\* application asks again for their segments.  This is for packets that are not encrypted:
\* one that cannot be decrypted stays attached, and asking again does not help.
DeliversAll == Delivery!FairSpec

\* No segment that could be reported is held back: between callbacks the next
\* segment to report never has its object already.
NothingHeldBack == attached => maxReported + 1 \notin object

\* requestNewSegments never brings the requested segments without data above the
\* pipeline size (or the initial count, if that is larger).
PipelineBound == Cardinality(Requested(state, data)) <= Limit

\* A slot of the pipeline that a segment frees is used again: from the first object
\* on, the slots are all taken - by segments that are requested or that have data
\* but no object yet - or there is no segment left to request.
NoFreeSlot ==
    attached /\ object # {} =>
        \/ Cardinality(Requested(state, data) \union (data \ object)) >= PipelineSize
        \/ Unrequested(state, data, maxReported, finalSegment) = {}

\* Once the final number is known no segment beyond it is requested for the first
\* time, although requests beyond it may still be in flight.
NoRequestPastFinal ==
    [][\A s \in Segment :
          finalSegment >= 0 /\ s > finalSegment /\ state[s] = "NAME_EXISTS"
              => state'[s] = "NAME_EXISTS"]_vars
=============================================================================
