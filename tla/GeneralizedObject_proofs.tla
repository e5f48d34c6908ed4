------------------------ MODULE GeneralizedObject_proofs ------------------------
(***************************************************************************)
(* Proofs about GeneralizedObject: what the three handlers together make of *)
(* an object, for every length, pipeline, marking and schedule of packets.  *)
(***************************************************************************)
EXTENDS GeneralizedObject, SegmentStream_proofs

\* How many onSegment calls there have been.
Done == IF attached THEN maxReported + 1 ELSE IF maxReported = -1 THEN 0 ELSE FinalSegment + 2

\* The stream before it is attached, while it runs and after its end.
StreamInv ==
    /\ maxReported \in -1..FinalSegment
    /\ finalSegment \in {-1, FinalSegment}
    /\ attached \in BOOLEAN
    /\ ~attached => maxReported \in {-1, FinalSegment}
    /\ reported = Delivery!Prefix(Done)

\* What has been collected is what has been reported; once there is a content it is the
\* whole object, and the stream has come to its end or was never attached.
ContentInv ==
    /\ decodes \in BOOLEAN
    /\ hasSegments \in BOOLEAN
    /\ meta \in BOOLEAN
    /\ ~meta \/ ~FetchesSegments => ~attached /\ maxReported = -1
    /\ ~meta => content = NoContent
    /\ content = NoContent => segments = reported /\ Done <= FinalSegment + 1
    /\ content # NoContent =>
          /\ content = Whole
          /\ ~attached
          /\ segments = << >>

\* The content is announced once.
AnnouncedInv ==
    /\ taken \in BOOLEAN
    /\ callbacks \in BOOLEAN
    /\ callbacks <=> notified = 0
    /\ ReadyMeansAnnounced
    /\ taken => content # NoContent

\* The inductive invariant.
GInv == StreamInv /\ ContentInv /\ AnnouncedInv

-----------------------------------------------------------------------------
(* The stream.                                                              *)

\* One run of the reporting loop, as far as the stream's own variables go.
ReportStep ==
    \E last \in maxReported..FinalSegment, f \in {-1, FinalSegment} :
        /\ finalSegment' = f
        /\ maxReported' = last
        /\ reported' = reported \o Calls(last, f)
        /\ attached' = ~Finishes(last, f)

LEMMA ReportSteps ==
    ASSUME finalSegment \in {-1, FinalSegment}, NEW s, NEW st, NEW fl, NEW d, NEW obj,
           Report(s, st, fl, d, obj)
    PROVE  ReportStep
  BY DEF Report, ReportStep

\* Whatever callback or call runs, the stream's variables change only by a run of the
\* loop, and only while the handler is attached.
StreamStep == UNCHANGED streamVars \/ (attached /\ ReportStep)

LEMMA OnStateChangedSteps ==
    ASSUME finalSegment \in {-1, FinalSegment}, NEW s, NEW st, NEW fl, NEW d, NEW obj,
           OnStateChanged(s, st, fl, d, obj)
    PROVE  StreamStep
  BY ReportSteps DEF OnStateChanged, StreamStep

LEMMA DeserializeSteps ==
    ASSUME finalSegment \in {-1, FinalSegment}, NEW s, NEW fl, NEW d, Deserialize(s, fl, d)
    PROVE  StreamStep
  BY OnStateChangedSteps DEF Deserialize, SetObject, SetState, StreamStep

LEMMA ReceiveSteps ==
    ASSUME finalSegment \in {-1, FinalSegment}, NEW s, NEW fl, Receive(s, fl)
    PROVE  StreamStep
  BY DeserializeSteps DEF Receive, SetState, StreamStep

LEMMA AskAgainSteps ==
    ASSUME finalSegment \in {-1, FinalSegment}, NEW s, AskAgain(s)
    PROVE  StreamStep
  BY OnStateChangedSteps DEF AskAgain, SetState, StreamStep

LEMMA StreamSteps ==
    ASSUME finalSegment \in {-1, FinalSegment}, Stream
    PROVE  StreamStep /\ OnSegment(NewCalls)
<1>1. CASE AnnounceAgain
  BY <1>1, OnStateChangedSteps DEF AnnounceAgain, Stream
<1>2. CASE OnManifest
  BY <1>2 DEF OnManifest, StreamStep, Stream
<1>3. ASSUME NEW s \in Segment, AskAgain(s) PROVE StreamStep
  BY <1>3, AskAgainSteps
<1>4. ASSUME NEW s \in Segment, OnData(s) PROVE StreamStep
  BY <1>4, ReceiveSteps DEF OnData
<1>5. ASSUME NEW s \in Segment, OnDecrypted(s) PROVE StreamStep
  BY <1>5, DeserializeSteps DEF OnDecrypted
<1>6. ASSUME NEW s \in Segment, OnDeserialized(s) PROVE StreamStep
  BY <1>6, OnStateChangedSteps DEF OnDeserialized, SetObject
<1>7. ASSUME NEW s \in Segment, OnDecryptionError(s) \/ OnTimeout(s) \/ OnNetworkNack(s) \/ Expire(s)
      PROVE  StreamStep
  BY <1>7 DEF OnDecryptionError, OnTimeout, OnNetworkNack, Fails, Expire, SetState, StreamStep
<1>8. QED
  BY <1>1, <1>2, <1>3, <1>4, <1>5, <1>6, <1>7 DEF Stream

\* A run of the loop, from the state of a handler that has just been attached or has been
\* before, extends the prefix.
LEMMA ReportStepExtends ==
    ASSUME StreamInv, attached \/ maxReported = -1, ReportStep
    PROVE  StreamInv' /\ Done \in 0..(FinalSegment + 1) /\ Done' \in Done..(FinalSegment + 2)
<1> USE StreamAssumption DEF StreamAssumption
<1>1. PICK last \in maxReported..FinalSegment, f \in {-1, FinalSegment} :
        /\ finalSegment' = f
        /\ maxReported' = last
        /\ reported' = reported \o Calls(last, f)
        /\ attached' = ~Finishes(last, f)
  BY DEF ReportStep
<1>2. maxReported \in -1..FinalSegment /\ last \in Int
  BY DEF StreamInv
<1>3. Finishes(last, f) => last = FinalSegment
  BY <1>2 DEF Finishes
<1>4. Done = maxReported + 1 /\ reported = Delivery!Prefix(maxReported + 1)
  BY DEF Done, StreamInv
<1>5. reported' = Delivery!Prefix(IF Finishes(last, f) THEN FinalSegment + 2 ELSE last + 1)
  BY <1>1, <1>2, <1>3, <1>4, CallsExtend
<1>6. CASE Finishes(last, f)
  <2>1. maxReported' = FinalSegment /\ attached' = FALSE /\ last > maxReported
    BY <1>1, <1>3, <1>6 DEF Finishes
  <2>2. Done' = FinalSegment + 2
    BY <2>1 DEF Done
  <2>3. QED
    BY <1>1, <1>2, <1>4, <1>5, <1>6, <2>1, <2>2 DEF StreamInv
<1>7. CASE ~Finishes(last, f)
  <2>1. maxReported' = last /\ attached' = TRUE
    BY <1>1, <1>7
  <2>2. Done' = last + 1
    BY <2>1 DEF Done
  <2>3. QED
    BY <1>1, <1>2, <1>4, <1>5, <1>7, <2>1, <2>2 DEF StreamInv
<1>8. QED
  BY <1>6, <1>7

-----------------------------------------------------------------------------
(* The content.                                                             *)

\* The onSegment calls of a step that extends the prefix of n calls to one of k.
LEMMA NewCallsAre ==
    ASSUME NEW n \in 0..(FinalSegment + 1), NEW k \in n..(FinalSegment + 2),
           reported = Delivery!Prefix(n), reported' = Delivery!Prefix(k)
    PROVE  /\ NewCalls \in Seq(Published \union {EndOfStream})
           /\ Len(NewCalls) = k - n
           /\ \A i \in 1..(k - n) :
                 NewCalls[i] = IF n + i = FinalSegment + 2 THEN EndOfStream ELSE n + i - 1
<1> USE StreamAssumption DEF StreamAssumption
<1>1. /\ reported \in Seq(Published \union {EndOfStream})
      /\ Len(reported) = n
  BY PrefixType
<1>2. /\ reported' \in Seq(Published \union {EndOfStream})
      /\ Len(reported') = k
      /\ \A i \in 1..k : reported'[i] = IF i = FinalSegment + 2 THEN EndOfStream ELSE i - 1
  BY PrefixType
<1>3. /\ NewCalls \in Seq(Published \union {EndOfStream})
      /\ Len(NewCalls) = k - n
      /\ \A i \in 1..(k - n) : NewCalls[i] = reported'[n + i]
  BY <1>1, <1>2, SubSeqProperties DEF NewCalls
<1>4. QED
  BY <1>2, <1>3

\* Collected segments and new ones are the next prefix, as long as it is not the end.
LEMMA CollectingExtends ==
    ASSUME NEW n \in 0..(FinalSegment + 1), NEW k \in n..(FinalSegment + 1),
           reported = Delivery!Prefix(n), reported' = Delivery!Prefix(k)
    PROVE  reported \o NewCalls = reported' /\ (NewCalls # << >> => NewCalls[Len(NewCalls)] # EndOfStream)
<1> USE StreamAssumption DEF StreamAssumption
<1>1. /\ reported \in Seq(Published \union {EndOfStream})
      /\ Len(reported) = n
      /\ \A i \in 1..n : reported[i] = i - 1
  BY PrefixType
<1>2. /\ reported' \in Seq(Published \union {EndOfStream})
      /\ Len(reported') = k
      /\ \A i \in 1..k : reported'[i] = i - 1
  BY PrefixType
<1>3. /\ NewCalls \in Seq(Published \union {EndOfStream})
      /\ Len(NewCalls) = k - n
      /\ \A i \in 1..(k - n) : NewCalls[i] = n + i - 1
  BY NewCallsAre
<1>4. /\ reported \o NewCalls \in Seq(Published \union {EndOfStream})
      /\ Len(reported \o NewCalls) = k
      /\ \A i \in 1..k :
            (reported \o NewCalls)[i] = IF i <= n THEN reported[i] ELSE NewCalls[i - n]
  BY <1>1, <1>3, ConcatProperties
<1>5. \A i \in 1..k : (reported \o NewCalls)[i] = reported'[i]
  BY <1>1, <1>2, <1>3, <1>4
<1>6. reported \o NewCalls = reported'
  BY <1>2, <1>4, <1>5, SeqEqual
<1>7. ASSUME NewCalls # << >> PROVE NewCalls[Len(NewCalls)] # EndOfStream
  <2>1. Len(NewCalls) \in 1..(k - n)
    BY <1>3, <1>7, EmptySeq
  <2>2. NewCalls[Len(NewCalls)] \in Int
    BY <2>1, <1>3
  <2>3. QED
    BY <2>2
<1>8. QED
  BY <1>6, <1>7

\* The whole object is a sequence of segments, and not NoContent.
LEMMA WholeType ==
    /\ Whole \in Seq(Published)
    /\ Whole \in Seq(Published \union {EndOfStream})
    /\ Len(Whole) = FinalSegment + 1
    /\ \A i \in 1..(FinalSegment + 1) : Whole[i] = i - 1
    /\ Whole # NoContent
<1> USE StreamAssumption DEF StreamAssumption
<1>1. FinalSegment + 1 \in Nat
  OBVIOUS
<1>2. ASSUME NEW i \in 1..(FinalSegment + 1) PROVE i - 1 \in Published
  BY DEF Published
<1>3. Whole \in [1..(FinalSegment + 1) -> Published]
  BY <1>2 DEF Whole
<1>4. Whole \in Seq(Published) /\ Len(Whole) = FinalSegment + 1
  BY <1>1, <1>3, SeqDef, LenProperties
<1>5. Whole \in Seq(Published \union {EndOfStream})
  BY <1>4
<1>6. \A i \in 1..(FinalSegment + 1) : Whole[i] = i - 1
  BY DEF Whole
<1>7. QED
  BY <1>4, <1>5, <1>6, ContentAssumption DEF ContentAssumption

\* At the end of the stream the collected segments and the new ones, without the null
\* segment, are the whole object.
LEMMA CollectedIsWhole ==
    ASSUME NEW n \in 0..(FinalSegment + 1),
           reported = Delivery!Prefix(n), reported' = Delivery!Prefix(FinalSegment + 2)
    PROVE  /\ NewCalls # << >> /\ NewCalls[Len(NewCalls)] = EndOfStream
           /\ reported \o SubSeq(NewCalls, 1, Len(NewCalls) - 1) = Whole
<1> USE StreamAssumption DEF StreamAssumption
<1> DEFINE m == FinalSegment + 2 - n
           front == SubSeq(NewCalls, 1, Len(NewCalls) - 1)
<1>1. /\ reported \in Seq(Published \union {EndOfStream})
      /\ Len(reported) = n
      /\ \A i \in 1..n : reported[i] = i - 1
  BY PrefixType
<1>2. m \in Nat /\ m >= 1
  OBVIOUS
<1>3. /\ NewCalls \in Seq(Published \union {EndOfStream})
      /\ Len(NewCalls) = m
      /\ \A i \in 1..m :
            NewCalls[i] = IF n + i = FinalSegment + 2 THEN EndOfStream ELSE n + i - 1
  BY NewCallsAre
<1>4. NewCalls # << >> /\ NewCalls[Len(NewCalls)] = EndOfStream
  BY <1>2, <1>3, EmptySeq
<1>5. /\ front \in Seq(Published \union {EndOfStream})
      /\ Len(front) = m - 1
      /\ \A i \in 1..(m - 1) : front[i] = n + i - 1
  <2>1. /\ front \in Seq(Published \union {EndOfStream})
        /\ Len(front) = m - 1
        /\ \A i \in 1..(m - 1) : front[i] = NewCalls[i]
    BY <1>2, <1>3, SubSeqProperties
  <2>2. QED
    BY <2>1, <1>3
<1> HIDE DEF front
<1>6. /\ reported \o front \in Seq(Published \union {EndOfStream})
      /\ Len(reported \o front) = FinalSegment + 1
      /\ \A i \in 1..(FinalSegment + 1) :
            (reported \o front)[i] = IF i <= n THEN reported[i] ELSE front[i - n]
  BY <1>1, <1>5, ConcatProperties
<1>7. /\ Whole \in Seq(Published \union {EndOfStream})
      /\ Len(Whole) = FinalSegment + 1
      /\ \A i \in 1..(FinalSegment + 1) : Whole[i] = i - 1
  BY WholeType
<1>8. ASSUME NEW i \in 1..(FinalSegment + 1) PROVE (reported \o front)[i] = Whole[i]
  <2>1. Whole[i] = i - 1
    BY <1>7
  <2>2. (reported \o front)[i] = IF i <= n THEN reported[i] ELSE front[i - n]
    BY <1>6
  <2>3. CASE i <= n
    <3>1. reported[i] = i - 1
      BY <1>1, <2>3
    <3>2. QED
      BY <2>1, <2>2, <2>3, <3>1
  <2>4. CASE ~(i <= n)
    <3>1. i - n \in 1..(m - 1)
      BY <2>4
    <3>2. front[i - n] = n + (i - n) - 1
      BY <1>5, <3>1
    <3>3. n + (i - n) - 1 = i - 1
      OBVIOUS
    <3>4. QED
      BY <2>1, <2>2, <2>4, <3>2, <3>3
  <2>5. QED
    BY <2>3, <2>4
<1>9. reported \o front = Whole
  BY <1>6, <1>7, <1>8, SeqEqual
<1>10. QED
  BY <1>4, <1>9 DEF front

\* deserialize_ announces the content at once, or a handler has it.
LEMMA ContentIsGiven ==
    ASSUME AnnouncedInv, content = NoContent, NEW c, c # NoContent, DeserializeContent(c)
    PROVE  AnnouncedInv' /\ content' = c
<1>1. ~taken /\ notified = 0 /\ callbacks /\ nodeState # "OBJECT_READY"
  BY DEF AnnouncedInv, ReadyMeansAnnounced
<1>2. content' = c /\ content' # NoContent
  BY DEF DeserializeContent
<1>3. CASE taken' = TRUE /\ nodeState' # "OBJECT_READY" /\ UNCHANGED <<callbacks, notified>>
  <2>1. taken' /\ taken' \in BOOLEAN /\ notified' = 0 /\ callbacks' = TRUE
    BY <1>1, <1>3 DEF AnnouncedInv
  <2>2. QED
    BY <1>2, <1>3, <2>1 DEF AnnouncedInv, ReadyMeansAnnounced
<1>4. CASE SetStreamObject /\ UNCHANGED taken
  <2>1. notified' = 1 /\ callbacks' = FALSE /\ ~taken' /\ taken' \in BOOLEAN
    BY <1>1, <1>4 DEF SetStreamObject, AnnouncedInv
  <2>2. 1 # 0
    OBVIOUS
  <2>3. QED
    BY <1>2, <2>1, <2>2, Zenon DEF AnnouncedInv, ReadyMeansAnnounced
<1>5. QED
  BY <1>1, <1>2, <1>3, <1>4 DEF DeserializeContent

\* A step that makes no onSegment call collects nothing.
LEMMA NothingCollected ==
    ASSUME StreamInv, ContentInv, AnnouncedInv, UNCHANGED reported, OnSegment(NewCalls)
    PROVE  UNCHANGED objectVars
<1> USE StreamAssumption DEF StreamAssumption
<1>1. Done \in 0..(FinalSegment + 2) /\ reported = Delivery!Prefix(Done)
  BY DEF StreamInv, Done
<1>2. reported \in Seq(Published \union {EndOfStream}) /\ Len(reported) \in Nat
  BY <1>1, PrefixType
<1>3. NewCalls = << >>
  BY <1>2, SubSeqEmpty DEF NewCalls
<1>4. segments \in Seq(Published \union {EndOfStream})
  BY <1>2, EmptySeq DEF ContentInv
<1>5. segments \o << >> = segments
  BY <1>4, ConcatEmptySeq
<1>6. QED
  BY <1>3, <1>5 DEF OnSegment, objectVars

\* Only a stream that has ended has made all of its calls.
LEMMA EndMeansDetached ==
    ASSUME NEW a, NEW m \in -1..FinalSegment,
           (IF a THEN m + 1 ELSE IF m = -1 THEN 0 ELSE FinalSegment + 2) = FinalSegment + 2
    PROVE  ~a
<1>1. FinalSegment \in Nat
  BY StreamAssumption DEF StreamAssumption
<1>2. m + 1 # FinalSegment + 2
  BY <1>1
<1>3. QED
  BY <1>2

\* A run of the loop, with the onSegment calls it makes, preserves the invariant.
LEMMA ReportPreserves ==
    ASSUME GInv, attached \/ (FetchesSegments /\ maxReported = -1 /\ content = NoContent),
           ReportStep, OnSegment(NewCalls),
           meta' = TRUE, UNCHANGED <<decodes, hasSegments>>
    PROVE  GInv'
<1> USE StreamAssumption DEF StreamAssumption
<1>1. StreamInv' /\ Done \in 0..(FinalSegment + 1) /\ Done' \in Done..(FinalSegment + 2)
  BY ReportStepExtends DEF GInv
<1>2. /\ content = NoContent
      /\ segments = reported
      /\ hasSegments = TRUE /\ decodes = TRUE
      /\ reported = Delivery!Prefix(Done)
  BY DEF FetchesSegments, GInv, ContentInv, StreamInv
<1>3. reported' = Delivery!Prefix(Done')
  BY <1>1 DEF StreamInv
<1>4. CASE Done' = FinalSegment + 2
  <2>1. /\ NewCalls # << >> /\ NewCalls[Len(NewCalls)] = EndOfStream
        /\ reported \o SubSeq(NewCalls, 1, Len(NewCalls) - 1) = Whole
    BY <1>1, <1>2, <1>3, <1>4, CollectedIsWhole
  <2>2. segments' = << >> /\ DeserializeContent(Whole)
    BY <1>2, <2>1 DEF OnSegment
  <2>3. AnnouncedInv' /\ content' = Whole
    BY <1>2, <2>2, WholeType, ContentIsGiven DEF GInv
  <2>4. ~attached'
    BY <1>1, <1>4, EndMeansDetached DEF Done, StreamInv
  <2>5. QED
    BY <1>1, <1>2, <2>2, <2>3, <2>4, WholeType DEF FetchesSegments, GInv, ContentInv
<1>5. CASE Done' # FinalSegment + 2
  <2>1. Done' \in Done..(FinalSegment + 1)
    BY <1>1, <1>5
  <2>2. reported \o NewCalls = reported' /\ (NewCalls # << >> => NewCalls[Len(NewCalls)] # EndOfStream)
    BY <1>1, <1>2, <1>3, <2>1, CollectingExtends
  <2>3. segments' = reported' /\ UNCHANGED <<nodeState, content, taken, callbacks, notified>>
    BY <1>2, <2>2 DEF OnSegment
  <2>4. QED
    BY <1>1, <1>2, <2>1, <2>3 DEF FetchesSegments, GInv, ContentInv, AnnouncedInv, ReadyMeansAnnounced
<1>6. QED
  BY <1>4, <1>5

\* So does any step of the stream.
LEMMA StreamPreserves ==
    ASSUME GInv, StreamStep, OnSegment(NewCalls), UNCHANGED <<meta, decodes, hasSegments>>
    PROVE  GInv'
<1>1. CASE UNCHANGED streamVars
  <2>1. UNCHANGED <<objectVars, streamVars>>
    BY <1>1, NothingCollected DEF GInv, streamVars
  <2>2. QED
    BY <2>1 DEF FetchesSegments, GInv, StreamInv, ContentInv, AnnouncedInv, ReadyMeansAnnounced, Done,
                objectVars, streamVars
<1>2. CASE attached /\ ReportStep
  <2>1. meta' = TRUE
    BY <1>2 DEF FetchesSegments, GInv, ContentInv
  <2>2. QED
    BY <1>2, <2>1, ReportPreserves
<1>3. QED
  BY <1>1, <1>2 DEF StreamStep

-----------------------------------------------------------------------------
(* The invariant.                                                           *)

LEMMA InitGeneralizedEstablishes == InitGeneralized => GInv
<1> SUFFICES ASSUME InitGeneralized PROVE GInv
  OBVIOUS
<1> USE StreamAssumption DEF StreamAssumption
<1>1. /\ maxReported = -1 /\ finalSegment = -1 /\ reported = << >>
      /\ ~attached /\ attached \in BOOLEAN
      /\ segments = << >> /\ content = NoContent
      /\ ~taken /\ taken \in BOOLEAN /\ callbacks /\ callbacks \in BOOLEAN
      /\ notified = 0 /\ nodeState = "NAME_EXISTS"
      /\ decodes \in BOOLEAN /\ hasSegments \in BOOLEAN /\ ~meta /\ meta \in BOOLEAN
  BY DEF InitGeneralized, InitStream, InitCollector
<1>2. Done = 0
  BY <1>1 DEF Done
<1>3. Delivery!Prefix(0) = << >>
  BY PrefixType, EmptySeq
<1>4. StreamInv
  BY <1>1, <1>2, <1>3 DEF StreamInv
<1>5. ContentInv
  BY <1>1, <1>2 DEF ContentInv, FetchesSegments
<1>6. AnnouncedInv
  BY <1>1 DEF AnnouncedInv, ReadyMeansAnnounced
<1>7. QED
  BY <1>4, <1>5, <1>6 DEF GInv

\* A step of the handlers that the invariant does not look at.
LEMMA OtherPreserves ==
    ASSUME GInv, UNCHANGED <<streamVars, segments, content, taken, callbacks, notified>>,
           UNCHANGED <<meta, decodes, hasSegments>>, nodeState' \in {nodeState, "PRODUCING_OBJECT"}
    PROVE  GInv'
  BY DEF FetchesSegments, GInv, StreamInv, ContentInv, AnnouncedInv, ReadyMeansAnnounced, Done, streamVars

\* The first _meta packet attaches the segmented handler, or has the whole object.
LEMMA TakeMetaPreserves ==
    ASSUME GInv, TakeMeta, UNCHANGED <<decodes, hasSegments>>
    PROVE  GInv'
<1>1. CASE meta
  <2>1. UNCHANGED <<vars, objectVars, meta>>
    BY <1>1 DEF TakeMeta
  <2>2. QED
    BY <2>1, OtherPreserves DEF vars, objectVars
<1>2. CASE ~meta
  <2>1. /\ content = NoContent /\ attached = FALSE /\ maxReported = -1
        /\ segments = reported /\ meta' = TRUE
    BY <1>2 DEF TakeMeta, GInv, ContentInv, StreamInv
  <2>2. finalSegment \in {-1, FinalSegment}
    BY DEF GInv, StreamInv
  <2>3. CASE FetchesSegments /\ 0 \in object
    <3>1. Report(0, state, inFlight, data, object) /\ OnSegment(NewCalls)
      BY <1>2, <2>3 DEF TakeMeta, Attach, FetchesSegments
    <3>2. ReportStep
      BY <2>2, <3>1, ReportSteps
    <3>3. QED
      BY <2>1, <2>3, <3>1, <3>2, ReportPreserves
  <2>4. CASE FetchesSegments /\ 0 \notin object
    <3>1. /\ attached' = TRUE
          /\ UNCHANGED <<maxReported, finalSegment, reported>>
          /\ OnSegment(NewCalls)
      BY <1>2, <2>4 DEF TakeMeta, Attach, FetchesSegments
    <3>2. UNCHANGED objectVars
      BY <3>1, NothingCollected DEF GInv
    <3>3. Done = 0 /\ Done' = 0
      BY <2>1, <3>1 DEF Done
    <3>4. StreamInv'
      BY <3>1, <3>3 DEF GInv, StreamInv
    <3>5. ContentInv'
      BY <2>1, <2>4, <3>1, <3>2, <3>3, StreamAssumption
         DEF FetchesSegments, GInv, ContentInv, objectVars, StreamAssumption
    <3>6. QED
      BY <3>2, <3>4, <3>5 DEF GInv, AnnouncedInv, ReadyMeansAnnounced, objectVars
  <2>5. CASE decodes /\ ~hasSegments
    <3>1. DeserializeContent(Whole) /\ UNCHANGED <<vars, segments>>
      BY <1>2, <2>5 DEF TakeMeta, FetchesSegments
    <3>2. AnnouncedInv' /\ content' = Whole
      BY <2>1, <3>1, WholeType, ContentIsGiven DEF GInv
    <3>3. Done = 0 /\ reported = << >>
      BY <2>1, PrefixType, EmptySeq, StreamAssumption DEF Done, GInv, StreamInv, StreamAssumption
    <3>4. StreamInv' /\ Done' = Done
      BY <3>1 DEF GInv, StreamInv, Done, vars, streamVars
    <3>5. ContentInv'
      BY <2>1, <2>5, <3>1, <3>2, <3>3, <3>4, WholeType DEF FetchesSegments, GInv, ContentInv, vars, streamVars
    <3>6. QED
      BY <3>2, <3>4, <3>5 DEF GInv
  <2>6. CASE ~decodes
    <3>1. UNCHANGED <<vars, objectVars>>
      BY <1>2, <2>6 DEF TakeMeta, FetchesSegments
    <3>2. StreamInv' /\ AnnouncedInv'
      BY <3>1 DEF GInv, StreamInv, AnnouncedInv, ReadyMeansAnnounced, Done,
                  vars, streamVars, objectVars
    <3>3. ContentInv'
      BY <2>1, <2>6, <3>1 DEF GInv, StreamInv, ContentInv, FetchesSegments, Done,
                              vars, streamVars, objectVars
    <3>4. QED
      BY <3>2, <3>3 DEF GInv
  <2>7. QED
    BY <2>3, <2>4, <2>5, <2>6 DEF GInv, ContentInv, FetchesSegments
<1>3. QED
  BY <1>1, <1>2

\* The handler of the whole content calls back.
LEMMA OnObjectDeserializedPreserves ==
    ASSUME GInv, OnObjectDeserialized, UNCHANGED <<meta, decodes, hasSegments>>
    PROVE  GInv'
<1>1. /\ taken /\ taken' = FALSE /\ SetStreamObject
      /\ UNCHANGED <<streamVars, segments, content>>
  BY DEF OnObjectDeserialized, vars
<1>2. notified = 0 /\ callbacks /\ content # NoContent
  BY <1>1 DEF GInv, AnnouncedInv, ReadyMeansAnnounced
<1>3. AnnouncedInv'
  <2>1. notified' = 1 /\ callbacks' = FALSE /\ ~taken' /\ taken' \in BOOLEAN /\ content' # NoContent
    <3>1. notified' = 1 /\ callbacks' = FALSE
      BY <1>1, <1>2 DEF SetStreamObject
    <3>2. QED
      BY <1>1, <1>2, <3>1
  <2>2. 1 # 0
    OBVIOUS
  <2>3. QED
    BY <2>1, <2>2, Zenon DEF AnnouncedInv, ReadyMeansAnnounced
<1>4. StreamInv' /\ ContentInv'
  BY <1>1 DEF FetchesSegments, GInv, StreamInv, ContentInv, Done, streamVars
<1>5. QED
  BY <1>3, <1>4 DEF GInv

LEMMA NextGeneralizedPreserves == GInv /\ [NextGeneralized]_allVars => GInv'
<1> SUFFICES ASSUME GInv, [NextGeneralized]_allVars PROVE GInv'
  OBVIOUS
<1>0. finalSegment \in {-1, FinalSegment}
  BY DEF GInv, StreamInv
<1>1. CASE UNCHANGED allVars
  BY <1>1, OtherPreserves DEF allVars, vars, objectVars, metaVars, fixed
<1>2. CASE NeedMeta
  BY <1>2, OtherPreserves DEF NeedMeta, AnnounceMeta, vars, fixed
<1>3. CASE NeedPrefix
  BY <1>3, OtherPreserves DEF NeedPrefix, vars, objectVars, metaVars, fixed
<1>4. CASE NeedSegments
  BY <1>4, OtherPreserves DEF NeedSegments, NeedObject, StartFetching, AnnounceMeta, metaVars, fixed
<1>5. CASE OnMeta
  BY <1>5, TakeMetaPreserves DEF OnMeta, fixed
<1>6. ASSUME NEW s \in Segment, OnPrefixSegment(s) PROVE GInv'
  <2>1. StreamStep
    BY <1>0, <1>6, ReceiveSteps DEF OnPrefixSegment
  <2>2. QED
    BY <1>6, <2>1, StreamPreserves DEF OnPrefixSegment, fixed
<1>7. CASE OnPrefixManifest
  BY <1>7, OtherPreserves DEF OnPrefixManifest, objectVars, fixed
<1>8. CASE OnSecondMeta
  BY <1>8, OtherPreserves DEF OnSecondMeta, vars, objectVars, metaVars, fixed
<1>9. CASE OnMetaLost
  BY <1>9, OtherPreserves DEF OnMetaLost, objectVars, fixed
<1>10. CASE Objects
  <2>1. CASE Stream
    BY <1>0, <1>10, <2>1, StreamSteps, StreamPreserves DEF Objects, metaVars, fixed
  <2>2. CASE OnObjectDeserialized
    BY <1>10, <2>2, OnObjectDeserializedPreserves DEF Objects, metaVars, fixed
  <2>3. QED
    BY <1>10, <2>1, <2>2 DEF Objects
<1>11. CASE FindMeta
  BY <1>11, OtherPreserves DEF FindMeta, AnnounceMeta, vars, objectVars, fixed
<1>12. QED
  BY <1>1, <1>2, <1>3, <1>4, <1>5, <1>6, <1>7, <1>8, <1>9, <1>10, <1>11 DEF NextGeneralized

LEMMA GeneralizedInvariance == SpecGeneralized => []GInv
<1>1. InitGeneralized => GInv
  BY InitGeneralizedEstablishes
<1>2. GInv /\ [NextGeneralized]_allVars => GInv'
  BY NextGeneralizedPreserves
<1>3. QED
  BY <1>1, <1>2, PTL DEF SpecGeneralized

\* What is deserialized into the object's node is the whole object: no segment is missing
\* from the concatenation, none is in it twice and none out of order, whichever packet of
\* the object came first and whenever the handlers were attached.
THEOREM ObjectAssembledWhole == SpecGeneralized => []ObjectIsWhole
<1>1. GInv => ObjectIsWhole
  BY DEF FetchesSegments, GInv, ContentInv, ObjectIsWhole, Whole
<1>2. QED
  BY <1>1, GeneralizedInvariance, PTL

\* onSegmentedObject is called exactly once for an object, when its content has been
\* deserialized, and no node is OBJECT_READY before.
THEOREM ObjectAnnouncedOnce == SpecGeneralized => []ReadyMeansAnnounced
<1>1. GInv => ReadyMeansAnnounced
  BY DEF GInv, AnnouncedInv
<1>2. QED
  BY <1>1, GeneralizedInvariance, PTL

-----------------------------------------------------------------------------
(* The reports, when no second object has segments.                         *)

First  == Pair("first", "first")
Second == Pair("second", "second")

SecondReported == secondMeta /\ second = "whole"

\* What has been reported is what has been announced and what _meta of the second object
\* had, each once.
ReportsInv ==
    /\ ~joined
    /\ second \in {"none", "whole", "malformed"}
    /\ secondMeta \in BOOLEAN
    /\ notified \in {0, 1}
    /\ ~SecondReported /\ notified = 0 => reports = << >>
    /\ ~SecondReported /\ notified = 1 => reports = <<First>>
    /\ SecondReported /\ notified = 0 => reports = <<Second>>
    /\ SecondReported /\ notified = 1 => reports \in {<<First, Second>>, <<Second, First>>}

LEMMA Appending ==
    ASSUME NEW a, NEW b
    PROVE  /\ << >> \o << >> = << >>
           /\ << >> \o <<a>> = <<a>>
           /\ <<a>> \o << >> = <<a>>
           /\ <<a, b>> \o << >> = <<a, b>>
           /\ <<a>> \o <<b>> = <<a, b>>
           /\ Append(<< >>, a) = <<a>>
           /\ Append(<<a>>, b) = <<a, b>>
<1>1. /\ <<a>> \in Seq({a, b}) /\ <<b>> \in Seq({a, b}) /\ <<a, b>> \in Seq({a, b})
      /\ << >> \in Seq({a, b})
  OBVIOUS
<1>2. /\ << >> \o << >> = << >>
      /\ << >> \o <<a>> = <<a>>
      /\ <<a>> \o << >> = <<a>>
      /\ <<a, b>> \o << >> = <<a, b>>
  BY <1>1, ConcatEmptySeq
<1>3. <<a>> \o <<b>> = <<a, b>>
  <2>1. /\ <<a>> \o <<b>> \in Seq({a, b})
        /\ Len(<<a>> \o <<b>>) = 2
        /\ (<<a>> \o <<b>>)[1] = a
        /\ (<<a>> \o <<b>>)[2] = b
    BY <1>1, ConcatProperties
  <2>2. Len(<<a, b>>) = 2 /\ <<a, b>>[1] = a /\ <<a, b>>[2] = b
    OBVIOUS
  <2>3. \A i \in 1..2 : (<<a>> \o <<b>>)[i] = <<a, b>>[i]
    BY <2>1, <2>2
  <2>4. QED
    BY <1>1, <2>1, <2>2, <2>3, SeqEqual
<1>4. Append(<< >>, a) = <<a>>
  OBVIOUS
<1>5. Append(<<a>>, b) = <<a, b>>
  BY <1>1, <1>3, AppendIsConcat
<1>6. QED
  BY <1>2, <1>3, <1>4, <1>5

\* The object of the stream's node is announced, or not.
Announces == UNCHANGED notified \/ SetStreamObject

LEMMA ContentAnnounces == ASSUME NEW c, DeserializeContent(c) PROVE Announces
  BY DEF DeserializeContent, Announces

LEMMA OnSegmentAnnounces == ASSUME NEW calls, OnSegment(calls) PROVE Announces
  BY ContentAnnounces DEF OnSegment, Announces

LEMMA ReportObjectPreserves ==
    ASSUME GInv, ReportsInv, Announces, ReportObject, UNCHANGED secondVars
    PROVE  ReportsInv'
<1>1. notified' = notified \/ (notified = 0 /\ notified' = 1)
  <2>1. callbacks <=> notified = 0
    BY DEF GInv, AnnouncedInv
  <2>2. CASE callbacks
    BY <2>1, <2>2 DEF Announces, SetStreamObject
  <2>3. CASE ~callbacks
    BY <2>3 DEF Announces, SetStreamObject
  <2>4. QED
    BY <2>2, <2>3
<1>2. CASE notified' = notified
  <2>1. reports' = reports \o << >>
    BY <1>2 DEF ReportObject
  <2>2. reports' = reports
    BY <2>1, Appending DEF ReportsInv
  <2>3. QED
    BY <1>2, <2>2 DEF ReportsInv, SecondReported, secondVars
<1>3. CASE notified = 0 /\ notified' = 1
  <2>1. reports' = reports \o <<First>>
    BY <1>3 DEF ReportObject, ReportsInv, First
  <2>2. CASE SecondReported
    <3>1. reports = <<Second>>
      BY <1>3, <2>2 DEF ReportsInv
    <3>2. reports' = <<Second, First>>
      BY <2>1, <3>1, Appending
    <3>3. QED
      BY <1>3, <2>2, <3>2 DEF ReportsInv, SecondReported, secondVars
  <2>3. CASE ~SecondReported
    BY <1>3, <2>1, <2>3, Appending DEF ReportsInv, SecondReported, secondVars
  <2>4. QED
    BY <2>2, <2>3
<1>4. QED
  BY <1>1, <1>2, <1>3

LEMMA ReportsInitially ==
    ASSUME "segmented" \notin Seconds, InitGeneralized
    PROVE  ReportsInv
<1>1. /\ second \in {"none"} \union Seconds
      /\ ~joined /\ ~secondMeta /\ secondMeta \in BOOLEAN
      /\ notified = 0 /\ reports = << >>
  BY DEF InitGeneralized, InitCollector
<1>2. second \in {"none", "whole", "malformed"}
  BY <1>1, GeneralizedAssumption DEF GeneralizedAssumption
<1>3. QED
  BY <1>1, <1>2 DEF ReportsInv, SecondReported

\* The second object's _meta packet.
LEMMA OnSecondMetaPreserves ==
    ASSUME ReportsInv, OnSecondMeta
    PROVE  ReportsInv'
<1>1. second \in {"whole", "malformed"} /\ secondMeta' = TRUE /\ UNCHANGED <<second, notified>>
  BY DEF OnSecondMeta, ReportsInv, objectVars
<1>2. ~joined'
  BY <1>1 DEF OnSecondMeta, ReportsInv
<1>3. reports' = IF second = "whole" /\ ~secondMeta THEN Append(reports, Second) ELSE reports
  BY <1>1 DEF OnSecondMeta, Second
<1>4. CASE secondMeta \/ second = "malformed"
  BY <1>1, <1>2, <1>3, <1>4 DEF ReportsInv, SecondReported
<1>5. CASE ~secondMeta /\ second = "whole"
  BY <1>1, <1>2, <1>3, <1>5, Appending DEF ReportsInv, SecondReported
<1>6. QED
  BY <1>1, <1>4, <1>5

LEMMA ReportsPreserved ==
    GInv /\ ReportsInv /\ [NextGeneralized]_allVars => ReportsInv'
<1> SUFFICES ASSUME GInv, ReportsInv, [NextGeneralized]_allVars PROVE ReportsInv'
  OBVIOUS
<1>1. CASE UNCHANGED <<reports, notified, secondVars>>
  BY <1>1 DEF ReportsInv, SecondReported, secondVars
<1>2. CASE Announces /\ ReportObject /\ UNCHANGED secondVars
  BY <1>2, ReportObjectPreserves
<1>3. CASE UNCHANGED allVars
  BY <1>1, <1>3 DEF allVars, objectVars
<1>4. CASE NeedMeta
  BY <1>1, <1>4 DEF NeedMeta
<1>5. CASE NeedPrefix
  BY <1>1, <1>5 DEF NeedPrefix, objectVars
<1>6. CASE NeedSegments
  BY <1>1, <1>6 DEF NeedSegments, NeedObject
<1>7. CASE OnMeta
  <2>1. UNCHANGED secondVars
    BY <1>7 DEF OnMeta
  <2>2. CASE meta
    BY <1>1, <1>7, <2>1, <2>2 DEF OnMeta, TakeMeta, objectVars
  <2>3. CASE ~meta
    <3>1. Announces /\ ReportObject
      BY <1>7, <2>3, ContentAnnounces, OnSegmentAnnounces
      DEF OnMeta, TakeMeta, Announces, objectVars
    <3>2. QED
      BY <1>2, <2>1, <3>1
  <2>4. QED
    BY <2>2, <2>3
<1>8. ASSUME NEW s \in Segment, OnPrefixSegment(s) PROVE ReportsInv'
  BY <1>2, <1>8, OnSegmentAnnounces DEF OnPrefixSegment
<1>9. CASE OnPrefixManifest
  BY <1>1, <1>9 DEF OnPrefixManifest, objectVars
<1>10. CASE OnSecondMeta
  BY <1>10, OnSecondMetaPreserves
<1>11. CASE OnMetaLost
  BY <1>1, <1>11 DEF OnMetaLost, objectVars
<1>12. CASE Objects
  <2>1. Announces
    BY <1>12, OnSegmentAnnounces DEF Objects, Stream, OnObjectDeserialized, Announces
  <2>2. QED
    BY <1>2, <1>12, <2>1 DEF Objects
<1>13. CASE FindMeta
  BY <1>1, <1>13 DEF FindMeta, objectVars
<1>14. QED
  BY <1>3, <1>4, <1>5, <1>6, <1>7, <1>8, <1>9, <1>10, <1>11, <1>12, <1>13 DEF NextGeneralized

\* As long as no second object under the prefix has segments, every object is reported at
\* most once and with the ContentMetaInfo of its own _meta packet.  (With such an object
\* it is not so.)
THEOREM ReportsFitWithoutSecondStream ==
    ASSUME "segmented" \notin Seconds
    PROVE  SpecGeneralized => []ReportsFit
<1>1. InitGeneralized => GInv /\ ReportsInv
  BY InitGeneralizedEstablishes, ReportsInitially
<1>2. GInv /\ ReportsInv /\ [NextGeneralized]_allVars => GInv' /\ ReportsInv'
  BY NextGeneralizedPreserves, ReportsPreserved
<1>3. ReportsInv => ReportsFit
  <2> SUFFICES ASSUME ReportsInv PROVE ReportsFit
    OBVIOUS
  <2>1. reports \in {<< >>, <<First>>, <<Second>>, <<First, Second>>, <<Second, First>>}
    BY DEF ReportsInv
  <2>2. /\ First.meta = First.object
        /\ Second.meta = Second.object
        /\ First # Second
    BY DEF First, Second, Pair
  <2>3. QED
    BY <2>1, <2>2 DEF ReportsFit
<1>4. QED
  BY <1>1, <1>2, <1>3, PTL DEF SpecGeneralized

-----------------------------------------------------------------------------
(* The types of the three handlers' variables.                              *)

NodeState == {"NAME_EXISTS", "PRODUCING_OBJECT", "DESERIALIZING", "OBJECT_READY"}

ReportType == [meta : {"first", "second"}, object : {"first", "second"}]

\* What the types of the variables need besides GInv: an Interest for _meta that awaits an
\* answer has put the _meta node out of NAME_EXISTS, so that AskMetaOnce is within the bound.
TypesInv ==
    /\ nodeState \in NodeState
    /\ nComponents \in NComponents
    /\ metaState \in {"NAME_EXISTS", "INTEREST_EXPRESSED", "INTEREST_TIMEOUT", "OBJECT_READY"}
    /\ metaAsked \in 0..MaxAsked
    /\ metaState = "NAME_EXISTS" => metaAsked = 0
    /\ asked \in 0..MaxAsked
    /\ second \in {"none"} \union Seconds
    /\ secondMeta \in BOOLEAN
    /\ joined \in BOOLEAN
    /\ reports \in Seq(ReportType)

LEMMA TypesInitially == InitGeneralized => TypesInv
<1> SUFFICES ASSUME InitGeneralized PROVE TypesInv
  OBVIOUS
<1>1. nodeState \in NodeState /\ nComponents \in NComponents
  BY DEF InitGeneralized, InitCollector, NodeState
<1>2. second \in {"none"} \union Seconds
  BY DEF InitGeneralized
<1>3. metaState = "NAME_EXISTS" /\ metaAsked \in 0..MaxAsked /\ metaAsked = 0 /\ asked \in 0..MaxAsked
  BY GeneralizedAssumption DEF InitGeneralized, GeneralizedAssumption
<1>4. secondMeta \in BOOLEAN /\ joined \in BOOLEAN /\ reports \in Seq(ReportType)
  BY EmptySeq DEF InitGeneralized
<1>5. QED
  BY <1>1, <1>2, <1>3, <1>4 DEF TypesInv

LEMMA ContentKeepsNodeState ==
    ASSUME nodeState \in NodeState, NEW c, DeserializeContent(c)
    PROVE  nodeState' \in NodeState
  BY DEF DeserializeContent, SetStreamObject, NodeState

LEMMA OnSegmentKeepsNodeState ==
    ASSUME nodeState \in NodeState, NEW calls, OnSegment(calls)
    PROVE  nodeState' \in NodeState
  BY ContentKeepsNodeState DEF OnSegment

LEMMA ReportObjectKeepsReports ==
    ASSUME reports \in Seq(ReportType), ReportObject
    PROVE  reports' \in Seq(ReportType)
<1> DEFINE one == <<Pair("first", "first")>>
           two == <<Pair("first", "first"), Pair("second", "first")>>
<1>1. << >> \in Seq(ReportType) /\ one \in Seq(ReportType) /\ two \in Seq(ReportType)
  BY DEF Pair, ReportType
<1>2. \E more \in Seq(ReportType) : reports' = reports \o more
  BY <1>1 DEF ReportObject
<1>3. QED
  BY <1>2, ConcatProperties

LEMMA TypesPreserved == TypesInv /\ [NextGeneralized]_allVars => TypesInv'
<1> SUFFICES ASSUME TypesInv, [NextGeneralized]_allVars PROVE TypesInv'
  OBVIOUS
<1> USE GeneralizedAssumption DEF GeneralizedAssumption
<1>1. CASE UNCHANGED allVars
  BY <1>1 DEF TypesInv, allVars, objectVars, metaVars, secondVars, fixed
<1>2. CASE NeedMeta
  <2>1. /\ metaState' \in {"INTEREST_EXPRESSED", "OBJECT_READY"}
        /\ metaAsked' \in 0..MaxAsked
    <3>1. CASE ~meta /\ metaAsked < MaxAsked /\ AskMeta
      BY <3>1 DEF TypesInv, AskMeta
    <3>2. CASE AnnounceMeta
      BY <3>2 DEF TypesInv, AnnounceMeta
    <3>3. QED
      BY <1>2, <3>1, <3>2 DEF NeedMeta
  <2>2. QED
    BY <1>2, <2>1 DEF TypesInv, NeedMeta, NodeState, secondVars, fixed
<1>3. CASE NeedPrefix
  BY <1>3 DEF TypesInv, NeedPrefix, objectVars, metaVars, secondVars, fixed
<1>4. CASE NeedSegments
  BY <1>4 DEF TypesInv, NeedSegments, NeedObject, AnnounceMeta, NodeState, metaVars, secondVars, fixed
<1>5. CASE OnMeta
  <2>1. UNCHANGED <<secondVars, fixed>>
    BY <1>5 DEF OnMeta
  <2>2. nodeState' \in NodeState /\ reports' \in Seq(ReportType)
    <3>1. CASE meta
      BY <1>5, <3>1 DEF TypesInv, OnMeta, TakeMeta, objectVars
    <3>2. CASE ~meta
      BY <1>5, <3>2, ContentKeepsNodeState, OnSegmentKeepsNodeState, ReportObjectKeepsReports
      DEF TypesInv, OnMeta, TakeMeta, objectVars
    <3>3. QED
      BY <3>1, <3>2
  <2>3. metaState' \in {metaState, "OBJECT_READY"}
    BY <1>5 DEF OnMeta, TakeMeta
  <2>4. /\ metaAsked' \in 0..MaxAsked /\ asked' \in 0..MaxAsked
        /\ metaState' = "NAME_EXISTS" => metaAsked' = 0
    BY <1>5, <2>3 DEF TypesInv, OnMeta
  <2>5. QED
    BY <2>1, <2>2, <2>3, <2>4 DEF TypesInv, secondVars, fixed
<1>6. ASSUME NEW s \in Segment, OnPrefixSegment(s) PROVE TypesInv'
  <2>1. nodeState' \in NodeState /\ reports' \in Seq(ReportType)
    BY <1>6, OnSegmentKeepsNodeState, ReportObjectKeepsReports DEF TypesInv, OnPrefixSegment
  <2>2. UNCHANGED <<metaState, metaAsked>> \/ AskMetaOnce
    BY <1>6 DEF OnPrefixSegment
  <2>3. QED
    BY <1>6, <2>1, <2>2
    DEF TypesInv, OnPrefixSegment, AskMetaOnce, AskMeta, secondVars, fixed
<1>7. CASE OnPrefixManifest
  BY <1>7 DEF TypesInv, OnPrefixManifest, AskMetaOnce, AskMeta, objectVars, secondVars, fixed
<1>8. CASE OnSecondMeta
  <2>1. joined' \in BOOLEAN
    BY <1>8 DEF OnSecondMeta
  <2>2. reports' \in Seq(ReportType)
    <3>1. Pair("second", "second") \in ReportType
      BY DEF Pair, ReportType
    <3>2. QED
      BY <1>8, <3>1, AppendProperties DEF TypesInv, OnSecondMeta
  <2>3. QED
    BY <1>8, <2>1, <2>2 DEF TypesInv, OnSecondMeta, objectVars, metaVars, fixed
<1>9. CASE OnMetaLost
  BY <1>9 DEF TypesInv, OnMetaLost, objectVars, secondVars, fixed
<1>10. CASE Objects
  <2>1. nodeState' \in NodeState
    BY <1>10, OnSegmentKeepsNodeState
    DEF TypesInv, Objects, Stream, OnObjectDeserialized, SetStreamObject, NodeState
  <2>2. reports' \in Seq(ReportType)
    BY <1>10, ReportObjectKeepsReports DEF TypesInv, Objects
  <2>3. QED
    BY <1>10, <2>1, <2>2 DEF TypesInv, Objects, metaVars, secondVars, fixed
<1>11. CASE FindMeta
  BY <1>11 DEF TypesInv, FindMeta, AnnounceMeta, objectVars, secondVars, fixed
<1>12. QED
  BY <1>1, <1>2, <1>3, <1>4, <1>5, <1>6, <1>7, <1>8, <1>9, <1>10, <1>11 DEF NextGeneralized

\* What has been collected never has the end of stream in it, no more Interests for _meta
\* await an answer than were sent, and the reports are pairs of the two objects.
THEOREM GeneralizedTypeOK == SpecGeneralized => []TypeOKGeneralized
<1>1. InitGeneralized => GInv /\ TypesInv
  BY InitGeneralizedEstablishes, TypesInitially
<1>2. GInv /\ TypesInv /\ [NextGeneralized]_allVars => GInv' /\ TypesInv'
  BY NextGeneralizedPreserves, TypesPreserved
<1>3. GInv /\ TypesInv => TypeOKGeneralized
  <2> SUFFICES ASSUME GInv, TypesInv PROVE TypeOKGeneralized
    OBVIOUS
  <2>1. segments \in Seq(Published)
    <3>1. CASE content = NoContent
      <4>1. segments = Delivery!Prefix(Done) /\ Done \in 0..(FinalSegment + 1)
        BY <3>1, StreamAssumption DEF FetchesSegments, GInv, ContentInv, StreamInv, Done, StreamAssumption
      <4>2. ASSUME NEW n \in 0..(FinalSegment + 1) PROVE Delivery!Prefix(n) \in Seq(Published)
        <5> DEFINE p == Delivery!Prefix(n)
        <5>1. /\ p \in Seq(Published \union {EndOfStream}) /\ Len(p) = n /\ n \in Nat
              /\ \A i \in 1..n : p[i] = i - 1
          BY PrefixType, StreamAssumption DEF StreamAssumption
        <5>2. \A i \in 1..n : i - 1 \in Published
          BY StreamAssumption DEF StreamAssumption, Published
        <5> HIDE DEF p
        <5>3. p \in [1..n -> Published]
          BY <5>1, <5>2, LenProperties
        <5>4. p \in Seq(Published)
          BY <5>1, <5>3, SeqDef
        <5>5. QED
          BY <5>4 DEF p
      <4>3. QED
        BY <4>1, <4>2
    <3>2. CASE content # NoContent
      BY <3>2, EmptySeq DEF FetchesSegments, GInv, ContentInv
    <3>3. QED
      BY <3>1, <3>2
  <2>2. content \in Seq(Published) \union {NoContent}
    BY WholeType DEF FetchesSegments, GInv, ContentInv
  <2>3. notified \in Nat
    BY DEF GInv, AnnouncedInv, ReadyMeansAnnounced
  <2>4. TypeOKObject
    BY <2>1, <2>2, <2>3 DEF TypeOKObject, TypesInv, NodeState, GInv, AnnouncedInv
  <2>5. QED
    BY <2>4 DEF TypeOKGeneralized, TypesInv, ReportType, GInv, ContentInv
<1>4. QED
  BY <1>1, <1>2, <1>3, PTL DEF SpecGeneralized
================================================================================
