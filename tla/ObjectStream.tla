---------------------------- MODULE ObjectStream ----------------------------
(***************************************************************************)
(* A producer and a consumer that use GeneralizedObjectStreamHandler        *)
(* (generalized-object-stream-handler.cpp), each on its own Namespace, with *)
(* the GeneralizedObjectHandlers they create.  The producer publishes       *)
(* objects under sequence numbers and answers Interests for _latest with a  *)
(* versioned packet that names the newest one.  The consumer fetches the    *)
(* object that _latest names each time it polls it (pipeline size zero), or *)
(* keeps a pipeline of Interests for the _meta packets of the next numbers. *)
(* Every action is one complete event or call, on either side.              *)
(***************************************************************************)
EXTENDS Integers, Sequences, FiniteSets, FiniteSetsExt, SequencesExt

CONSTANTS
    Highest,       \* bound: the highest sequence number that is ever asked for
    Publishable,   \* bound: the numbers that the producer publishes
    Segmented,     \* the objects whose _meta packet says hasSegments
    Malformed,     \* the objects whose _meta packet may be one that cannot be decoded
    Sizes,         \* the values of pipelineSize_
    SigningFails,  \* whether the signing of a _meta packet may fail
    MaxVersions,   \* bound: the packets made for _latest
    MaxAsked,      \* bound: Interests for _latest in flight
    MaxCalls       \* bound: objectNeeded() calls of the application

SequenceNumber == 0..Highest

ASSUME ObjectStreamAssumption ==
    /\ Highest \in Nat
    /\ Publishable \subseteq SequenceNumber
    /\ Segmented \subseteq SequenceNumber
    /\ Malformed \subseteq SequenceNumber
    /\ Sizes \subseteq Nat
    /\ SigningFails \in BOOLEAN
    /\ MaxVersions \in Nat
    /\ MaxAsked \in Nat
    /\ MaxCalls \in Nat

\* The states of a _meta node; INTEREST_TIMEOUT stands for INTEREST_NETWORK_NACK too.
MetaState == {"NAME_EXISTS", "INTEREST_EXPRESSED", "INTEREST_TIMEOUT", "OBJECT_READY"}

VARIABLES
    published,    \* the numbers whose _meta packet and segments the producer has
    produced,     \* producedSequenceNumber_
    packets,      \* the number that each version of _latest names
    current,      \* the newest version is still fresh at the producer
    cached,       \* the versions that are still fresh somewhere in the network
    pipelineSize, \* pipelineSize_
    meta,         \* state_ of the _meta node of each number
    assembling,   \* the objects whose segments are being fetched
    failed,       \* those that are never reported: a segment did not come, or _meta is malformed
    reported,     \* history: the arguments of onSequencedGeneralizedObject
    nRequested,   \* nRequestedSequenceNumbers_
    maxRequested, \* maxRequestedSequenceNumber_
    nReported,    \* nReportedSequenceNumbers_
    maxReported,  \* maxReportedSequenceNumber_
    asked,        \* how many Interests for _latest await an answer
    timers,       \* how many callLater calls have not fired
    attached,     \* the versions whose node has its packet and object
    fresh,        \* those of them whose freshnessExpiryTime_ has not passed
    calls,        \* history: how often the application has called objectNeeded()
    repeated      \* history: an answer for _latest was a packet that was there already

producerVars == <<published, produced, packets, current, cached>>
requestVars  == <<meta, nRequested, maxRequested>>
reportVars   == <<reported, nReported>>
objectVars   == <<assembling, failed>>
latestVars   == <<attached, fresh>>
callVars     == <<calls, repeated>>
vars == <<producerVars, pipelineSize, requestVars, reportVars, maxReported, objectVars,
          asked, timers, latestVars, callVars>>

Init ==
    /\ published = {}
    /\ produced = -1
    /\ packets = << >>
    /\ current = FALSE
    /\ cached = {}
    /\ pipelineSize \in Sizes
    /\ meta = [s \in SequenceNumber |-> "NAME_EXISTS"]
    /\ assembling = {}
    /\ failed = {}
    /\ reported = << >>
    /\ nRequested = 0
    /\ maxRequested = 0
    /\ nReported = 0
    /\ maxReported = -1
    /\ asked = 0
    /\ timers = 0
    /\ attached = {}
    /\ fresh = {}
    /\ calls = 0
    /\ repeated = FALSE

-----------------------------------------------------------------------------
(* The producer and the network.                                            *)

\* GeneralizedObjectHandler::setObject: serialize the _meta packet and the segments, or
\* fail to sign them, which nobody notices.
SetObject(n) ==
    \/ published' = published \union {n}
    \/ SigningFails /\ UNCHANGED published

\* setObject(n) of the stream: the number is stored whatever becomes of the object.
Publish(n) ==
    /\ produced' = n
    /\ SetObject(n)
    /\ UNCHANGED <<packets, current, cached, pipelineSize, requestVars, reportVars>>
    /\ UNCHANGED <<maxReported, objectVars, asked, timers, latestVars, callVars>>

\* onObjectNeeded when there is no fresh packet: make the next version.  The consumer's
\* Interest asks for it; once there is a version, a producer without a pipeline polls
\* itself, as its own packets reach its onStateChanged too.
MakeLatest ==
    /\ asked > 0 \/ packets # << >>
    /\ produced >= 0
    /\ ~current
    /\ Len(packets) < MaxVersions
    /\ packets' = Append(packets, produced)
    /\ current' = TRUE
    /\ cached' = cached \union {Len(packets')}
    /\ UNCHANGED <<published, produced, pipelineSize, requestVars, reportVars, maxReported>>
    /\ UNCHANGED <<objectVars, asked, timers, latestVars, callVars>>

\* The newest version is no longer fresh at the producer.
ExpireAtProducer ==
    /\ current
    /\ current' = FALSE
    /\ UNCHANGED <<published, produced, packets, cached, pipelineSize, requestVars>>
    /\ UNCHANGED <<reportVars, maxReported, objectVars, asked, timers, latestVars, callVars>>

\* The last copy of version v in the network is no longer fresh.
ExpireInNetwork(v) ==
    /\ v \in cached
    /\ current => v # Len(packets)
    /\ cached' = cached \ {v}
    /\ UNCHANGED <<published, produced, packets, current, pipelineSize, requestVars>>
    /\ UNCHANGED <<reportVars, maxReported, objectVars, asked, timers, latestVars, callVars>>

\* Version v is no longer fresh at the consumer.
Expire(v) ==
    /\ v \in fresh
    /\ fresh' = fresh \ {v}
    /\ UNCHANGED <<producerVars, pipelineSize, requestVars, reportVars, maxReported>>
    /\ UNCHANGED <<objectVars, asked, timers, attached, callVars>>

-----------------------------------------------------------------------------
(* The consumer's handler.                                                  *)

\* The sequence nodes that have an object.
Objects == ToSet(reported)

\* requestNewSequenceNumbers() when the _meta nodes have the states m: Interests for the
\* lowest numbers after from that were never requested, as many as fill the pipeline.
RequestNewSequenceNumbers(m, from, nReq, nRep) ==
    LET free == {s \in SequenceNumber : s > from /\ m[s] = "NAME_EXISTS"}
        room == pipelineSize - (nReq - nRep)
    IN  \E batch \in SUBSET free :
            /\ \A s \in batch, t \in free \ batch : s < t
            /\ Cardinality(batch) = IF room > 0 THEN room ELSE 0
            /\ meta' = [s \in SequenceNumber |->
                           IF s \in batch THEN "INTEREST_EXPRESSED" ELSE m[s]]
            /\ nRequested' = nReq + Cardinality(batch)
            /\ maxRequested' = Max(batch \union {maxRequested})

\* A slip: the pipeline goes on after the named number.
Fetch_GoesPast(target, m) ==
    /\ pipelineSize > 0
    /\ maxReported' = target
    /\ RequestNewSequenceNumbers(m, target, nReported, nReported)

\* Fetch the object that _latest names, unless it was requested before, or forget what is
\* outstanding and fill the pipeline from that number on.
Fetch(target, m) ==
    \/ /\ pipelineSize = 0
       /\ meta' = IF m[target] = "NAME_EXISTS"
                    THEN [m EXCEPT ![target] = "INTEREST_EXPRESSED"] ELSE m
       /\ UNCHANGED <<nRequested, maxRequested, maxReported>>
    \/ /\ pipelineSize > 0
       /\ maxReported' = target - 1
       /\ RequestNewSequenceNumbers(m, target - 1, nReported, nReported)

\* A slip: the next poll is scheduled only if there is something to fetch.
OnLatest_StopsWhenDone(v, m, t) ==
    IF packets[v] \in Objects
      THEN /\ meta' = m
           /\ timers' = t
           /\ UNCHANGED <<nRequested, maxRequested, maxReported>>
      ELSE /\ Fetch(packets[v], m)
           /\ timers' = IF pipelineSize = 0 THEN t + 1 ELSE t

\* onStateChanged when version v gets or is announced OBJECT_READY, with the states m of
\* the _meta nodes and t timers; without a pipeline, it schedules the next poll.
OnLatest(v, m, t) ==
    /\ IF packets[v] \in Objects
         THEN meta' = m /\ UNCHANGED <<nRequested, maxRequested, maxReported>>
         ELSE Fetch(packets[v], m)
    /\ timers' = IF pipelineSize = 0 THEN t + 1 ELSE t

\* objectNeeded(true) on the _latest node: the first version that is still fresh is
\* announced again, or an Interest is expressed.
NeedLatest(m, t) ==
    \/ /\ fresh # {}
       /\ OnLatest(Min(fresh), m, t)
       /\ UNCHANGED asked
    \/ /\ fresh = {}
       /\ asked < MaxAsked
       /\ asked' = asked + 1
       /\ meta' = m
       /\ timers' = t
       /\ UNCHANGED <<nRequested, maxRequested, maxReported>>

\* A slip: the report is not counted.
OnGeneralizedObject_Uncounted(s, m) ==
    /\ reported' = Append(reported, s)
    /\ UNCHANGED nReported
    /\ maxReported' = Max({s, maxReported})
    /\ IF pipelineSize > 0
         THEN RequestNewSequenceNumbers(m, maxReported', nRequested, nReported)
         ELSE meta' = m /\ UNCHANGED <<nRequested, maxRequested>>

\* onGeneralizedObject(s) when the _meta nodes have the states m.
OnGeneralizedObject(s, m) ==
    /\ reported' = Append(reported, s)
    /\ nReported' = nReported + 1
    /\ maxReported' = Max({s, maxReported})
    /\ IF pipelineSize > 0
         THEN RequestNewSequenceNumbers(m, maxReported', nRequested, nReported')
         ELSE meta' = m /\ UNCHANGED <<nRequested, maxRequested>>

-----------------------------------------------------------------------------
(* The consumer's calls and events.                                         *)

\* objectNeeded() on the stream's node.  Once there are packets below it, the best match
\* among them is announced again: the first version of _latest, or a packet that the
\* handler does not care for.
AskObject ==
    /\ calls < MaxCalls
    /\ calls' = calls + 1
    /\ \/ /\ attached = {} /\ \A s \in SequenceNumber : meta[s] # "OBJECT_READY"
          /\ NeedLatest(meta, timers)
       \/ /\ attached # {}
          /\ OnLatest(Min(attached), meta, timers)
          /\ UNCHANGED asked
       \/ /\ \E s \in SequenceNumber : meta[s] = "OBJECT_READY"
          /\ UNCHANGED <<requestVars, maxReported, timers, asked>>
    /\ UNCHANGED <<producerVars, pipelineSize, reportVars, objectVars, latestVars, repeated>>

\* setPipelineSize(size), which throws for a change between zero and non-zero.
SetPipelineSize(size) ==
    /\ size = 0 <=> pipelineSize = 0
    /\ pipelineSize' = size
    /\ UNCHANGED <<producerVars, requestVars, reportVars, maxReported, objectVars>>
    /\ UNCHANGED <<asked, timers, latestVars, callVars>>

\* onData for version v of _latest; a packet that is attached already changes nothing.
OnLatestData(v) ==
    /\ asked > 0
    /\ v \in cached
    /\ asked' = asked - 1
    /\ \/ /\ v \in attached
          /\ repeated' = TRUE
          /\ UNCHANGED <<requestVars, maxReported, timers, latestVars>>
       \/ /\ v \notin attached
          /\ attached' = attached \union {v}
          /\ fresh' = fresh \union {v}
          /\ OnLatest(v, meta, timers)
          /\ UNCHANGED repeated
    /\ UNCHANGED <<producerVars, pipelineSize, reportVars, objectVars, calls>>

\* The Interest for _latest times out or is nacked: ask again later.
OnLatestTimeout ==
    /\ asked > 0
    /\ asked' = asked - 1
    /\ timers' = timers + 1
    /\ UNCHANGED <<producerVars, pipelineSize, requestVars, reportVars, maxReported>>
    /\ UNCHANGED <<objectVars, latestVars, callVars>>

\* A callLater delay is over.
Poll ==
    /\ timers > 0
    /\ NeedLatest(meta, timers - 1)
    /\ UNCHANGED <<producerVars, pipelineSize, reportVars, objectVars, latestVars, callVars>>

\* A slip: segment 0 is not requested.
OnMeta_NoSegments(s) ==
    /\ meta[s] = "INTEREST_EXPRESSED"
    /\ s \in published
    /\ LET m == [meta EXCEPT ![s] = "OBJECT_READY"] IN
         \/ /\ s \in Segmented
            /\ meta' = m
            /\ UNCHANGED <<objectVars, nRequested, maxRequested, reportVars, maxReported>>
         \/ /\ s \notin Segmented
            /\ OnGeneralizedObject(s, m)
            /\ UNCHANGED objectVars
    /\ UNCHANGED <<producerVars, pipelineSize, asked, timers, latestVars, callVars>>

\* The _meta packet of number s arrives (onDeserializeNeeded): fetch the segments, or
\* the object is in the packet, or decoding throws and nobody is told.
OnMeta(s) ==
    /\ meta[s] = "INTEREST_EXPRESSED"
    /\ s \in published
    /\ LET m == [meta EXCEPT ![s] = "OBJECT_READY"] IN
         \/ /\ s \in Segmented
            /\ meta' = m
            /\ assembling' = assembling \union {s}
            /\ UNCHANGED <<failed, nRequested, maxRequested, reportVars, maxReported>>
         \/ /\ s \notin Segmented
            /\ OnGeneralizedObject(s, m)
            /\ UNCHANGED objectVars
         \/ /\ s \in Malformed
            /\ meta' = m
            /\ failed' = failed \union {s}
            /\ UNCHANGED <<assembling, nRequested, maxRequested, reportVars, maxReported>>
    /\ UNCHANGED <<producerVars, pipelineSize, asked, timers, latestVars, callVars>>

\* The Interest for the _meta packet of number s times out or is nacked; if it is the
\* highest of the pipeline, _latest is asked for.
OnMetaTimeout(s) ==
    /\ meta[s] = "INTEREST_EXPRESSED"
    /\ LET m == [meta EXCEPT ![s] = "INTEREST_TIMEOUT"] IN
         IF pipelineSize > 0 /\ s = maxRequested
           THEN NeedLatest(m, timers)
           ELSE /\ meta' = m
                /\ UNCHANGED <<nRequested, maxRequested, maxReported, asked, timers>>
    /\ UNCHANGED <<producerVars, pipelineSize, reportVars, objectVars, latestVars, callVars>>

\* The SegmentedObjectHandler has the whole object of number s.
OnSegmentedObject(s) ==
    /\ s \in assembling
    /\ assembling' = assembling \ {s}
    /\ OnGeneralizedObject(s, meta)
    /\ UNCHANGED <<producerVars, pipelineSize, failed, asked, timers, latestVars, callVars>>

\* An Interest for a segment of number s fails: the handler does not ask again.
SegmentsFail(s) ==
    /\ s \in assembling
    /\ assembling' = assembling \ {s}
    /\ failed' = failed \union {s}
    /\ UNCHANGED <<producerVars, pipelineSize, requestVars, reportVars, maxReported>>
    /\ UNCHANGED <<asked, timers, latestVars, callVars>>

Next ==
    \/ AskObject
    \/ MakeLatest
    \/ ExpireAtProducer
    \/ OnLatestTimeout
    \/ Poll
    \/ \E n \in Publishable : Publish(n)
    \/ \E size \in Sizes : SetPipelineSize(size)
    \/ \E v \in 1..MaxVersions :
          \/ ExpireInNetwork(v)
          \/ Expire(v)
          \/ OnLatestData(v)
    \/ \E s \in SequenceNumber :
          \/ OnMeta(s)
          \/ OnMetaTimeout(s)
          \/ OnSegmentedObject(s)
          \/ SegmentsFail(s)

Spec == Init /\ [][Next]_vars

-----------------------------------------------------------------------------
(* Properties.                                                              *)

Requested == {s \in SequenceNumber : meta[s] # "NAME_EXISTS"}

\* Types; the counters of the handler agree with what was requested and reported, and
\* only packets that exist are attached.
TypeOK ==
    /\ published \subseteq Publishable
    /\ produced \in Publishable \union {-1}
    /\ packets \in Seq(Publishable)
    /\ current \in BOOLEAN
    /\ cached \subseteq 1..Len(packets)
    /\ pipelineSize \in Sizes
    /\ meta \in [SequenceNumber -> MetaState]
    /\ assembling \subseteq Segmented
    /\ failed \subseteq Segmented \union Malformed
    /\ nRequested \in 0..Cardinality(Requested)
    /\ nReported = Len(reported)
    /\ pipelineSize > 0 => maxRequested = Max(Requested \union {0})
    /\ maxReported \in SequenceNumber \union {-1}
    /\ asked \in 0..MaxAsked
    /\ timers \in Nat
    /\ attached \subseteq 1..Len(packets)
    /\ fresh \subseteq attached
    /\ calls \in 0..MaxCalls
    /\ repeated \in BOOLEAN

\* Each object is reported once, after it was published, and an object whose _meta packet
\* has come is reported, or its segments are under way, or one of them has failed, or the
\* packet is malformed: none is forgotten (generalized-object-handler.cpp:148-179).
ReportedOnce ==
    /\ IsInjective(reported)
    /\ Objects \subseteq published
    /\ Objects \intersect assembling = {}
    /\ failed \intersect (Objects \union assembling) = {}
    /\ Objects \union assembling \union failed
           = {s \in SequenceNumber : meta[s] = "OBJECT_READY"}

\* Once the pipeline runs it counts as outstanding at least as many numbers as the
\* smallest size it had, and never more than were requested and not reported: the reset
\* at a _latest packet (:204) and the late reports of forgotten requests never make the
\* counters promise a request that nobody made.
PipelineIsHeld ==
    nRequested > 0 =>
        /\ nRequested - nReported >= Min(Sizes \ {0})
        /\ nRequested - nReported <= Cardinality(Requested \ Objects)

\* The object that a _latest packet of the consumer names was requested, whatever the
\* pipeline was doing when the packet came (:184-206).
LatestIsRequested == \A v \in attached : packets[v] \in Requested

\* Without a pipeline the handler polls _latest for ever, once for each call of the
\* application and no more, as long as no answer repeats a packet (:138-143, 209-218).
PollingGoesOn ==
    pipelineSize = 0 =>
        /\ asked + timers <= calls
        /\ calls > 0 /\ ~repeated => asked + timers > 0
=============================================================================
