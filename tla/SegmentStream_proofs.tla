------------------------- MODULE SegmentStream_proofs -------------------------
(***************************************************************************)
(* Proofs about SegmentStream, for every length of stream, every set of     *)
(* marked segments, every pipeline size and every schedule of arrivals.     *)
(***************************************************************************)
EXTENDS SegmentStream, FiniteSetTheorems, SequenceTheorems, TLAPS

USE DEF Published

\* The state of the handler determines what has been reported.
ReportedInOrder ==
    reported = Delivery!Prefix(IF attached THEN maxReported + 1 ELSE FinalSegment + 2)

\* Reported segments have objects.
ReportedHaveObjects == \A s \in 0..maxReported : s \in object

\* The final number is known as soon as a marked segment has its object.
FinalKnown ==
    attached => \A s \in object \cap Marked : finalSegment = FinalSegment

\* The callbacks are removed exactly when the final segment is reported.
EndAtFinal == IF attached THEN maxReported < FinalSegment ELSE maxReported = FinalSegment

\* An Interest is in flight only for a segment whose node has left NAME_EXISTS.
InFlightRequested == \A s \in Segment : inFlight[s] > 0 => state[s] # "NAME_EXISTS"

\* The inductive invariant.
IInv ==
    /\ TypeOK
    /\ InFlightRequested
    /\ ReportedInOrder
    /\ ReportedHaveObjects
    /\ FinalKnown
    /\ EndAtFinal
    /\ NothingHeldBack
    /\ PipelineBound

-----------------------------------------------------------------------------
(* Facts about the data.                                                    *)

\* The prefixes of the stream are sequences with the expected elements.
LEMMA PrefixType ==
    ASSUME NEW n \in 0..(FinalSegment + 2)
    PROVE  /\ Delivery!Prefix(n) \in Seq(Published \union {EndOfStream})
           /\ Len(Delivery!Prefix(n)) = n
           /\ \A i \in 1..n : Delivery!Prefix(n)[i] =
                 IF i = FinalSegment + 2 THEN EndOfStream ELSE i - 1
  BY StreamAssumption DEF StreamAssumption, Delivery!Prefix, Delivery!Expected

\* One run of the reporting loop extends the prefix reported so far.
LEMMA CallsExtend ==
    ASSUME NEW last \in maxReported..FinalSegment, NEW f,
           maxReported \in -1..FinalSegment,
           Finishes(last, f) => last = FinalSegment
    PROVE  Delivery!Prefix(maxReported + 1) \o Calls(last, f)
              = Delivery!Prefix(IF Finishes(last, f) THEN FinalSegment + 2 ELSE last + 1)
<1> DEFINE S == Published \union {EndOfStream}
           p == Delivery!Prefix(maxReported + 1)
           a == [i \in 1..(last - maxReported) |-> maxReported + i]
           e == IF Finishes(last, f) THEN <<EndOfStream>> ELSE << >>
           q == Delivery!Prefix(IF Finishes(last, f) THEN FinalSegment + 2 ELSE last + 1)
<1>0. FinalSegment \in Nat /\ last \in Int /\ maxReported \in Int
  BY StreamAssumption DEF StreamAssumption
<1>1. /\ p \in Seq(S)
      /\ Len(p) = maxReported + 1
      /\ \A i \in 1..(maxReported + 1) : p[i] = i - 1
  BY <1>0, PrefixType
<1>2. /\ a \in Seq(S)
      /\ Len(a) = last - maxReported
      /\ \A i \in 1..(last - maxReported) : a[i] = maxReported + i
  BY <1>0
<1>3. /\ e \in Seq(S)
      /\ Len(e) = IF Finishes(last, f) THEN 1 ELSE 0
      /\ Finishes(last, f) => e[1] = EndOfStream
  <2>1. EndOfStream \in S
    OBVIOUS
  <2>2. CASE Finishes(last, f)
    <3>1. e = <<EndOfStream>>
      BY <2>2
    <3>2. QED
      BY <3>1, <2>1, <2>2
  <2>3. CASE ~Finishes(last, f)
    <3>1. e = << >>
      BY <2>3
    <3>2. QED
      BY <3>1, <2>3, EmptySeq
  <2>4. QED
    BY <2>2, <2>3
<1>4. /\ q \in Seq(S)
      /\ Len(q) = IF Finishes(last, f) THEN FinalSegment + 2 ELSE last + 1
      /\ \A i \in 1..Len(q) : q[i] = IF i = FinalSegment + 2 THEN EndOfStream ELSE i - 1
  <2>1. CASE Finishes(last, f)
    BY <2>1, <1>0, PrefixType
  <2>2. CASE ~Finishes(last, f)
    BY <2>2, <1>0, PrefixType
  <2>3. QED
    BY <2>1, <2>2
<1> HIDE DEF p, a, e, q, S
<1>5. /\ a \o e \in Seq(S)
      /\ Len(a \o e) = Len(a) + Len(e)
      /\ \A i \in 1..(Len(a) + Len(e)) :
            (a \o e)[i] = IF i <= Len(a) THEN a[i] ELSE e[i - Len(a)]
  BY <1>2, <1>3, ConcatProperties
<1>6. /\ p \o (a \o e) \in Seq(S)
      /\ Len(p \o (a \o e)) = Len(p) + Len(a \o e)
      /\ \A i \in 1..(Len(p) + Len(a \o e)) :
            (p \o (a \o e))[i] = IF i <= Len(p) THEN p[i] ELSE (a \o e)[i - Len(p)]
  BY <1>1, <1>5, ConcatProperties
<1>7. Len(p \o (a \o e)) = Len(q)
  BY <1>0, <1>1, <1>2, <1>3, <1>4, <1>5, <1>6
<1>8. ASSUME NEW i \in 1..Len(q)
      PROVE  (p \o (a \o e))[i] = q[i]
  <2>1. CASE i <= Len(p)
    BY <2>1, <1>0, <1>1, <1>4, <1>6, <1>7
  <2>2. CASE i > Len(p) /\ i - Len(p) <= Len(a)
    <3>1. (p \o (a \o e))[i] = a[i - Len(p)]
      BY <2>2, <1>0, <1>1, <1>2, <1>3, <1>5, <1>6, <1>7
    <3>2. a[i - Len(p)] = i - 1
      BY <2>2, <1>0, <1>1, <1>2
    <3>3. i # FinalSegment + 2
      BY <2>2, <1>0, <1>1, <1>2
    <3>4. QED
      BY <3>1, <3>2, <3>3, <1>4
  <2>3. CASE i > Len(p) /\ i - Len(p) > Len(a)
    <3>1. Finishes(last, f) /\ i = FinalSegment + 2
      BY <2>3, <1>0, <1>1, <1>2, <1>3, <1>4
    <3>2. (p \o (a \o e))[i] = e[1]
      BY <2>3, <3>1, <1>0, <1>1, <1>2, <1>3, <1>5, <1>6, <1>7
    <3>3. QED
      BY <3>1, <3>2, <1>3, <1>4
  <2>4. QED
    BY <2>1, <2>2, <2>3, <1>0, <1>1, <1>2, <1>3, <1>4
<1>9. p \o (a \o e) = q
  BY <1>4, <1>6, <1>7, <1>8, SeqEqual
<1>10. QED
  BY <1>9 DEF p, a, e, q, Calls
-----------------------------------------------------------------------------
(* Facts about the handler's operations.                                    *)

LEMMA SegmentFinite ==
    /\ Limit \in Nat \ {0}
    /\ PipelineSize <= Limit
    /\ InitialCount <= Limit
    /\ Published \subseteq Segment
    /\ Segment \subseteq Int
    /\ IsFiniteSet(Segment)
  BY StreamAssumption, FS_Interval DEF StreamAssumption, Limit, Segment

\* Whatever the states are, requestNewSegments keeps the types and, if it is asked
\* for no more than Limit, the bound.
LEMMA RequestPreserves ==
    ASSUME NEW max \in Nat, max <= Limit,
           NEW st \in [Segment -> SegmentState],
           NEW fl \in [Segment -> Nat],
           NEW d, NEW m, NEW f,
           \A s \in Segment : fl[s] > 0 => st[s] # "NAME_EXISTS",
           Cardinality(Requested(st, d)) <= Limit,
           data' = d,
           RequestNewSegments(max, st, fl, d, m, f)
    PROVE  /\ state' \in [Segment -> SegmentState]
           /\ inFlight' \in [Segment -> Nat]
           /\ InFlightRequested'
           /\ PipelineBound'
<1>1. PICK batch \in SUBSET Segment :
         /\ IsNextBatch(batch, max, st, d, m, f)
         /\ state' = [s \in Segment |->
                        IF s \in batch THEN "INTEREST_EXPRESSED" ELSE st[s]]
         /\ inFlight' = [s \in Segment |-> IF s \in batch THEN fl[s] + 1 ELSE fl[s]]
  BY DEF RequestNewSegments
<1>2. state' \in [Segment -> SegmentState]
  BY <1>1 DEF SegmentState
<1>3. inFlight' \in [Segment -> Nat]
  BY <1>1
<1>4. PipelineBound'
  <2> DEFINE R == Requested(st, d)
             R1 == Requested(state', d)
  <2>1. /\ IsFiniteSet(R) /\ Cardinality(R) \in Nat
        /\ IsFiniteSet(batch) /\ Cardinality(batch) \in Nat
    BY SegmentFinite, FS_Subset, FS_CardinalityType DEF Requested
  <2>2. CASE batch = {}
    <3>1. R1 = R
      BY <2>2, <1>1 DEF Requested
    <3>2. QED
      BY <3>1 DEF PipelineBound
  <2>3. CASE batch # {}
    <3>1. Cardinality(batch) <= max - Cardinality(R)
      BY <2>3, <1>1 DEF IsNextBatch
    <3>2. R1 \subseteq R \union batch
      BY <1>1 DEF Requested
    <3>3. /\ IsFiniteSet(R \union batch)
          /\ Cardinality(R \union batch) <= Cardinality(R) + Cardinality(batch)
      <4> HIDE DEF R
      <4>1. Cardinality(R \cap batch) \in Nat
        BY <2>1, FS_Intersection, FS_CardinalityType
      <4>2. /\ IsFiniteSet(R \union batch)
            /\ Cardinality(R \union batch)
                  = Cardinality(R) + Cardinality(batch) - Cardinality(R \cap batch)
        BY <2>1, FS_Union
      <4>3. QED
        BY <2>1, <4>1, <4>2
    <3>4. Cardinality(R1) <= Cardinality(R \union batch)
      BY <3>2, <3>3, FS_Subset
    <3>5. Cardinality(R1) \in Nat /\ Cardinality(R \union batch) \in Nat
      BY <3>2, <3>3, FS_Subset, FS_CardinalityType
    <3>6. Cardinality(R1) <= Limit
      BY <2>1, <3>1, <3>3, <3>4, <3>5, SegmentFinite
    <3>7. QED
      BY <3>6 DEF PipelineBound
  <2>4. QED
    BY <2>2, <2>3
<1>5. InFlightRequested'
  BY <1>1 DEF InFlightRequested
<1>6. QED
  BY <1>2, <1>3, <1>4, <1>5
\* What a run of onStateChanged for segment s does, given the nodes it works on.
LEMMA OnStateChangedPreserves ==
    ASSUME IInv,
           NEW s \in Published,
           NEW st \in [Segment -> SegmentState],
           NEW fl \in [Segment -> Nat],
           NEW d \in SUBSET Published, data \subseteq d,
           NEW obj, obj = object \union {s}, obj \subseteq d,
           \A t \in Segment : fl[t] > 0 => st[t] # "NAME_EXISTS",
           Cardinality(Requested(st, d)) <= Limit,
           data' = d,
           object' = obj,
           stale' \subseteq d,
           decrypting' \subseteq d,
           deserializing' \subseteq d,
           losses' \in 0..MaxLosses,
           OnStateChanged(s, st, fl, d, obj)
    PROVE  IInv' /\ [Delivery!Deliver]_reported
<1> USE StreamAssumption DEF StreamAssumption
<1>1. CASE ~attached
  <2>1. UNCHANGED streamVars /\ UNCHANGED manifest /\ state' = st /\ inFlight' = fl
    BY <1>1 DEF OnStateChanged
  <2>2. TypeOK'
    BY <2>1 DEF IInv, TypeOK, streamVars
  <2>3. PipelineBound' /\ InFlightRequested'
    BY <2>1 DEF PipelineBound, InFlightRequested
  <2>4. ReportedInOrder' /\ EndAtFinal' /\ [Delivery!Deliver]_reported
    BY <2>1 DEF IInv, ReportedInOrder, EndAtFinal, streamVars
  <2>5. ReportedHaveObjects' /\ FinalKnown' /\ NothingHeldBack'
    BY <2>1, <1>1 DEF IInv, ReportedHaveObjects, FinalKnown, NothingHeldBack, streamVars
  <2>6. QED
    BY <2>2, <2>3, <2>4, <2>5 DEF IInv
<1>2. CASE attached
  <2> DEFINE f == IF s \in Marked THEN FinalSegment ELSE finalSegment
  <2>1. PICK last \in maxReported..FinalSegment :
          /\ ReportsUpTo(last, f, obj)
          /\ finalSegment' = f
          /\ maxReported' = last
          /\ reported' = reported \o Calls(last, f)
          /\ attached' = ~Finishes(last, f)
          /\ manifest' = IF /\ UsesManifest
                            /\ last > maxReported
                            /\ manifest = "NAME_EXISTS"
                           THEN "INTEREST_EXPRESSED" ELSE manifest
          /\ IF Finishes(last, f)
               THEN state' = st /\ inFlight' = fl
               ELSE RequestNewSegments(PipelineSize, st, fl, d, last, f)
    BY <1>2 DEF OnStateChanged, Report
  <2>2. maxReported \in -1..(FinalSegment - 1) /\ f \in {-1, FinalSegment}
    BY <1>2 DEF IInv, TypeOK, EndAtFinal
  <2>3. \A t \in obj \cap Marked : f = FinalSegment
    BY <1>2 DEF IInv, FinalKnown
  <2>4. Finishes(last, f) => last = FinalSegment
    BY <2>2 DEF Finishes
  <2>5. \A t \in 0..last : t \in obj
    BY <2>1, <2>2 DEF IInv, ReportedHaveObjects, ReportsUpTo
  <2>6. ~Finishes(last, f) => last < FinalSegment
    BY <2>1, <2>2, <2>3, <2>5 DEF Finishes
  <2>7. /\ state' \in [Segment -> SegmentState]
        /\ inFlight' \in [Segment -> Nat]
        /\ PipelineBound'
        /\ InFlightRequested'
    <3>1. CASE Finishes(last, f)
      BY <3>1, <2>1 DEF PipelineBound, InFlightRequested
    <3>2. CASE ~Finishes(last, f)
      BY <3>2, <2>1, RequestPreserves, SegmentFinite
    <3>3. QED
      BY <3>1, <3>2
  <2>8. ReportedInOrder'
    <3>1. reported = Delivery!Prefix(maxReported + 1)
      BY <1>2 DEF IInv, ReportedInOrder
    <3>2. reported' = Delivery!Prefix(IF Finishes(last, f) THEN FinalSegment + 2
                                                          ELSE last + 1)
      BY <3>1, <2>1, <2>2, <2>4, CallsExtend
    <3>3. QED
      BY <3>2, <2>1 DEF ReportedInOrder
  <2>9. TypeOK'
    <3>1. reported' \in Seq(Published \union {EndOfStream})
      <4> DEFINE n == IF attached' THEN maxReported' + 1 ELSE FinalSegment + 2
      <4>1. n \in 0..(FinalSegment + 2)
        BY <2>1, <2>2
      <4>2. reported' = Delivery!Prefix(n)
        BY <2>8 DEF ReportedInOrder
      <4> HIDE DEF n
      <4>3. QED
        BY <4>1, <4>2, PrefixType
    <3>2. manifest' \in {"NAME_EXISTS", "INTEREST_EXPRESSED", "INTEREST_TIMEOUT",
                         "OBJECT_READY"}
      BY <2>1 DEF IInv, TypeOK
    <3>3. /\ maxReported' \in -1..FinalSegment
          /\ finalSegment' \in {-1, FinalSegment}
          /\ attached' \in BOOLEAN
      BY <2>1, <2>2
    <3>4. QED
      BY <3>1, <3>2, <3>3, <2>7 DEF TypeOK
  <2>10. EndAtFinal'
    BY <2>1, <2>4, <2>6 DEF EndAtFinal
  <2>11. ReportedHaveObjects'
    BY <2>1, <2>5 DEF ReportedHaveObjects
  <2>12. FinalKnown'
    BY <2>1, <2>3 DEF FinalKnown
  <2>13. NothingHeldBack'
    BY <2>1 DEF NothingHeldBack, ReportsUpTo, Finishes
  <2>14. [Delivery!Deliver]_reported
    <3> DEFINE n == IF Finishes(last, f) THEN FinalSegment + 2 ELSE last + 1
    <3> HIDE DEF f
    <3>1. reported = Delivery!Prefix(maxReported + 1) /\ reported' = Delivery!Prefix(n)
      BY <1>2, <2>8, <2>1 DEF IInv, ReportedInOrder
    <3>2. CASE last = maxReported
      BY <3>1, <3>2, <2>2 DEF Finishes
    <3>3. CASE last > maxReported
      <4>1. n \in (maxReported + 2)..(FinalSegment + 2) /\ n # FinalSegment + 1
        BY <3>3, <2>2, <2>4, <2>6
      <4>2. Len(reported) = maxReported + 1
        BY <3>1, <2>2, PrefixType
      <4> HIDE DEF n
      <4>3. n \in (Len(reported) + 1)..(FinalSegment + 2)
        BY <4>1, <4>2, <2>2
      <4>4. Delivery!Deliver
        BY <3>1, <4>1, <4>3 DEF Delivery!Deliver
      <4>5. QED
        BY <4>4
    <3>4. QED
      BY <3>2, <3>3, <2>2
  <2>15. QED
    BY <2>7, <2>8, <2>9, <2>10, <2>11, <2>12, <2>13, <2>14 DEF IInv
<1>3. QED
  BY <1>1, <1>2
\* A callback that the handler ignores: nothing is reported.
LEMMA QuietPreserves ==
    ASSUME IInv,
           UNCHANGED <<streamVars, object>>,
           data' \in SUBSET Published, data \subseteq data',
           stale' \subseteq data',
           decrypting' \subseteq data',
           deserializing' \subseteq data',
           manifest' \in {"NAME_EXISTS", "INTEREST_EXPRESSED", "INTEREST_TIMEOUT",
                          "OBJECT_READY"},
           losses' \in 0..MaxLosses,
           state' \in [Segment -> SegmentState],
           inFlight' \in [Segment -> Nat],
           InFlightRequested',
           PipelineBound'
    PROVE  IInv' /\ [Delivery!Deliver]_reported
<1>1. TypeOK'
  BY DEF IInv, TypeOK, streamVars
<1>2. ReportedInOrder' /\ EndAtFinal' /\ UNCHANGED reported
  BY DEF IInv, ReportedInOrder, EndAtFinal, streamVars
<1>3. ReportedHaveObjects' /\ FinalKnown' /\ NothingHeldBack'
  BY DEF IInv, ReportedHaveObjects, FinalKnown, NothingHeldBack, streamVars
<1>4. QED
  BY <1>1, <1>2, <1>3 DEF IInv

\* Fewer requested segments are within the bound.
LEMMA FewerRequested ==
    ASSUME IInv, NEW st, NEW d, Requested(st, d) \subseteq Requested(state, data)
    PROVE  Cardinality(Requested(st, d)) <= Limit
<1>1. IsFiniteSet(Requested(state, data))
  BY SegmentFinite, FS_Subset DEF Requested
<1>2. /\ Cardinality(Requested(st, d)) <= Cardinality(Requested(state, data))
      /\ IsFiniteSet(Requested(st, d))
  BY <1>1, FS_Subset
<1>3. Cardinality(Requested(st, d)) \in Nat /\ Cardinality(Requested(state, data)) \in Nat
  BY <1>1, <1>2, FS_CardinalityType
<1>4. QED
  BY <1>2, <1>3, SegmentFinite DEF IInv, PipelineBound

\* The node of segment s changes to a state the handler ignores.
LEMMA SetStatePreserves ==
    ASSUME IInv,
           NEW s \in Segment, NEW new \in SegmentState \ {"NAME_EXISTS"},
           NEW fl \in [Segment -> Nat],
           \A t \in Segment : t # s /\ fl[t] > 0 => inFlight[t] > 0,
           s \in data' \/ state[s] # "NAME_EXISTS",
           data' \in SUBSET Published, data \subseteq data',
           SetState(s, new, fl),
           UNCHANGED <<object, stale>>,
           decrypting' \subseteq data',
           deserializing' \subseteq data',
           losses' \in 0..MaxLosses
    PROVE  IInv' /\ [Delivery!Deliver]_reported
<1>1. state' = [state EXCEPT ![s] = new] /\ inFlight' = fl /\ UNCHANGED <<manifest, streamVars>>
  BY DEF SetState
<1>2. state' \in [Segment -> SegmentState]
  BY <1>1 DEF IInv, TypeOK
<1>3. InFlightRequested'
  BY <1>1 DEF IInv, TypeOK, InFlightRequested
<1>4. PipelineBound'
  <2>1. Requested(state', data') \subseteq Requested(state, data)
    BY <1>1 DEF Requested, IInv, TypeOK
  <2>2. QED
    BY <2>1, FewerRequested DEF PipelineBound
<1>5. QED
  BY <1>1, <1>2, <1>3, <1>4, QuietPreserves DEF IInv, TypeOK

\* The node of segment s gets its object.
LEMMA SetObjectPreserves ==
    ASSUME IInv,
           NEW s \in Published,
           NEW fl \in [Segment -> Nat],
           \A t \in Segment : t # s /\ fl[t] > 0 => inFlight[t] > 0,
           NEW d \in SUBSET Published, data \subseteq d, s \in d,
           SetObject(s, fl, d),
           UNCHANGED stale,
           decrypting' \subseteq d,
           deserializing' \subseteq d,
           losses' \in 0..MaxLosses
    PROVE  IInv' /\ [Delivery!Deliver]_reported
<1> DEFINE st == [state EXCEPT ![s] = "OBJECT_READY"]
<1>1. st \in [Segment -> SegmentState]
  BY DEF IInv, TypeOK, SegmentState
<1>2. \A t \in Segment : fl[t] > 0 => st[t] # "NAME_EXISTS"
  BY DEF IInv, TypeOK, InFlightRequested
<1>3. Cardinality(Requested(st, d)) <= Limit
  <2>1. Requested(st, d) \subseteq Requested(state, data)
    BY DEF Requested, IInv, TypeOK
  <2>2. QED
    BY <2>1, FewerRequested
<1>3a. stale' \subseteq d
  BY DEF IInv, TypeOK
<1>4. /\ data' = d
      /\ object' = object \union {s}
      /\ OnStateChanged(s, st, fl, d, object \union {s})
  BY DEF SetObject
<1>5. object \union {s} \subseteq d
  BY DEF IInv, TypeOK
<1> HIDE DEF st
<1>6. QED
  BY <1>1, <1>2, <1>3, <1>3a, <1>4, <1>5, OnStateChangedPreserves

-----------------------------------------------------------------------------
(* Every action.                                                            *)

LEMMA InitEstablishes == Init => IInv /\ Delivery!Init
<1> SUFFICES ASSUME Init PROVE IInv /\ Delivery!Init
  OBVIOUS
<1> USE StreamAssumption DEF Init, InitStream
<1>1. TypeOK
  BY DEF TypeOK, StreamAssumption, SegmentState
<1>2. PipelineBound
  <2>1. Requested(state, data) = {}
    BY DEF Requested
  <2>2. QED
    BY <2>1, FS_EmptySet, SegmentFinite DEF PipelineBound
<1>3. ReportedInOrder
  BY PrefixType, EmptySeq DEF ReportedInOrder, StreamAssumption
<1>4. QED
  BY <1>1, <1>2, <1>3 DEF IInv, InFlightRequested, ReportedHaveObjects, FinalKnown,
       EndAtFinal, NothingHeldBack, Delivery!Init, StreamAssumption

LEMMA AnnounceAgainPreserves ==
    IInv /\ AnnounceAgain => IInv' /\ [Delivery!Deliver]_reported
<1> SUFFICES ASSUME IInv, AnnounceAgain PROVE IInv' /\ [Delivery!Deliver]_reported
  OBVIOUS
<1>1. PICK s \in object :
        /\ OnStateChanged(s, [state EXCEPT ![s] = "OBJECT_READY"], inFlight, data, object)
        /\ UNCHANGED <<data, object, stale, decrypting, deserializing, losses>>
  BY DEF AnnounceAgain
<1>2. SetObject(s, inFlight, data)
  <2>1. object \union {s} = object
    OBVIOUS
  <2>2. QED
    BY <1>1, <2>1 DEF SetObject
<1>3. QED
  BY <1>1, <1>2, SetObjectPreserves DEF IInv, TypeOK

LEMMA StartFetchingPreserves ==
    IInv /\ StartFetching => IInv' /\ [Delivery!Deliver]_reported
<1> SUFFICES ASSUME IInv, StartFetching PROVE IInv' /\ [Delivery!Deliver]_reported
  OBVIOUS
<1>1. /\ RequestNewSegments(InitialCount, state, inFlight, data, maxReported, finalSegment)
      /\ UNCHANGED <<data, object, stale, decrypting, deserializing, manifest, streamVars,
                     losses>>
  BY DEF StartFetching
<1>2. InitialCount \in Nat
  BY StreamAssumption DEF StreamAssumption
<1>3. /\ state' \in [Segment -> SegmentState]
      /\ inFlight' \in [Segment -> Nat]
      /\ InFlightRequested'
      /\ PipelineBound'
  BY <1>1, <1>2, SegmentFinite, RequestPreserves DEF IInv, TypeOK, PipelineBound,
     InFlightRequested
<1>4. QED
  BY <1>1, <1>3, QuietPreserves DEF IInv, TypeOK

LEMMA AskAgainPreserves ==
    ASSUME NEW s \in Segment
    PROVE  IInv /\ AskAgain(s) => IInv' /\ [Delivery!Deliver]_reported
<1> SUFFICES ASSUME IInv, AskAgain(s) PROVE IInv' /\ [Delivery!Deliver]_reported
  OBVIOUS
<1> DEFINE fl == [inFlight EXCEPT ![s] = @ + 1]
<1>1. /\ state[s] # "NAME_EXISTS"
      /\ UNCHANGED <<data, object, stale, decrypting, deserializing, losses>>
  BY DEF AskAgain
<1>2. CASE /\ s \in object
           /\ OnStateChanged(s, [state EXCEPT ![s] = "OBJECT_READY"], inFlight, data, object)
  <2>1. SetObject(s, inFlight, data)
    <3>1. object \union {s} = object
      BY <1>2
    <3>2. QED
      BY <1>1, <1>2, <3>1 DEF SetObject
  <2>2. QED
    BY <1>1, <1>2, <2>1, SetObjectPreserves DEF IInv, TypeOK
<1>3. CASE SetState(s, "INTEREST_EXPRESSED", fl)
  <2>2. fl \in [Segment -> Nat] /\ \A t \in Segment : t # s => fl[t] = inFlight[t]
    BY DEF IInv, TypeOK
  <2> HIDE DEF fl
  <2>3. QED
    BY <1>1, <1>3, <2>2, SetStatePreserves DEF IInv, TypeOK, SegmentState
<1>4. QED
  BY <1>2, <1>3 DEF AskAgain

LEMMA AnsweredType ==
    ASSUME IInv, NEW s \in Segment, inFlight[s] > 0
    PROVE  /\ Answered(s) \in [Segment -> Nat]
           /\ \A t \in Segment : Answered(s)[t] > 0 => inFlight[t] > 0
           /\ state[s] # "NAME_EXISTS"
  BY DEF IInv, TypeOK, Answered, InFlightRequested

\* The content of a segment that has its data reaches the deserializers.
LEMMA DeserializePreserves ==
    ASSUME IInv,
           NEW s \in Published,
           NEW fl \in [Segment -> Nat],
           \A t \in Segment : fl[t] > 0 => inFlight[t] > 0,
           NEW d \in SUBSET Published, data \subseteq d, s \in d,
           Deserialize(s, fl, d),
           UNCHANGED stale,
           decrypting' \subseteq d,
           losses' \in 0..MaxLosses
    PROVE  IInv' /\ [Delivery!Deliver]_reported
<1>1. CASE SetObject(s, fl, d) /\ UNCHANGED deserializing
  BY <1>1, SetObjectPreserves DEF IInv, TypeOK
<1>2. CASE /\ deserializing' = deserializing \union {s}
           /\ data' = d
           /\ SetState(s, IF state[s] \in {"DECRYPTING", "DECRYPTION_ERROR", "OBJECT_READY"}
                            THEN state[s] ELSE "DESERIALIZING", fl)
           /\ UNCHANGED object
  <2> DEFINE new == IF state[s] \in {"DECRYPTING", "DECRYPTION_ERROR", "OBJECT_READY"}
                      THEN state[s] ELSE "DESERIALIZING"
  <2>1. new \in SegmentState \ {"NAME_EXISTS"}
    BY DEF SegmentState
  <2>2. SetState(s, new, fl)
    BY <1>2
  <2> HIDE DEF new
  <2>3. QED
    BY <1>2, <2>1, <2>2, SegmentFinite, SetStatePreserves DEF IInv, TypeOK
<1>3. QED
  BY <1>1, <1>2 DEF Deserialize

LEMMA OnDataPreserves ==
    ASSUME NEW s \in Segment
    PROVE  IInv /\ OnData(s) => IInv' /\ [Delivery!Deliver]_reported
<1> SUFFICES ASSUME IInv, OnData(s) PROVE IInv' /\ [Delivery!Deliver]_reported
  OBVIOUS
<1> DEFINE fl == Answered(s)
<1>1. s \in Published /\ inFlight[s] > 0 /\ UNCHANGED <<stale, losses>>
  BY DEF OnData, Receive
<1>2. /\ fl \in [Segment -> Nat]
      /\ \A t \in Segment : fl[t] > 0 => inFlight[t] > 0
      /\ state[s] # "NAME_EXISTS"
  BY <1>1, AnsweredType
<1>3. /\ data \union {s} \in SUBSET Published
      /\ data \subseteq data \union {s}
      /\ decrypting \subseteq data \union {s}
      /\ decrypting \union {s} \subseteq data \union {s}
      /\ deserializing \subseteq data \union {s}
      /\ losses' \in 0..MaxLosses
  BY <1>1 DEF IInv, TypeOK
<1>4. CASE s \in data
  <2>1. /\ inFlight' = fl
        /\ UNCHANGED <<state, data, object, decrypting, deserializing, manifest, streamVars>>
    BY <1>4 DEF OnData, Receive
  <2>2. InFlightRequested' /\ PipelineBound'
    BY <1>2, <2>1 DEF IInv, InFlightRequested, PipelineBound, Requested
  <2>3. QED
    BY <1>1, <1>2, <1>3, <2>1, <2>2, QuietPreserves DEF IInv, TypeOK
<1>5. CASE s \notin data /\ ~HasDecryptor
  <2>1. Deserialize(s, fl, data \union {s}) /\ UNCHANGED decrypting
    BY <1>5 DEF OnData, Receive
  <2> HIDE DEF fl
  <2>2. QED
    BY <1>1, <1>2, <1>3, <2>1, DeserializePreserves
<1>6. CASE s \notin data /\ HasDecryptor
  <2>1. PICK new \in {"DECRYPTING", "DECRYPTION_ERROR"} :
          /\ data' = data \union {s}
          /\ SetState(s, new, fl)
          /\ decrypting' \in {decrypting, decrypting \union {s}}
          /\ UNCHANGED <<object, deserializing>>
    BY <1>6 DEF OnData, Receive
  <2>2. new \in SegmentState \ {"NAME_EXISTS"}
    BY DEF SegmentState
  <2> HIDE DEF fl
  <2>3. QED
    BY <1>1, <1>2, <1>3, <2>1, <2>2, SetStatePreserves
<1>7. QED
  BY <1>4, <1>5, <1>6 DEF OnData, Receive

LEMMA OnDecryptedPreserves ==
    ASSUME NEW s \in Segment
    PROVE  IInv /\ OnDecrypted(s) => IInv' /\ [Delivery!Deliver]_reported
  BY DeserializePreserves DEF OnDecrypted, IInv, TypeOK

LEMMA OnDecryptionErrorPreserves ==
    ASSUME NEW s \in Segment
    PROVE  IInv /\ OnDecryptionError(s) => IInv' /\ [Delivery!Deliver]_reported
  BY SetStatePreserves DEF OnDecryptionError, IInv, TypeOK, SegmentState

LEMMA OnDeserializedPreserves ==
    ASSUME NEW s \in Segment
    PROVE  IInv /\ OnDeserialized(s) => IInv' /\ [Delivery!Deliver]_reported
  BY SetObjectPreserves DEF OnDeserialized, IInv, TypeOK

LEMMA FailsPreserves ==
    ASSUME NEW s \in Segment, NEW new \in {"INTEREST_TIMEOUT", "INTEREST_NETWORK_NACK"}
    PROVE  IInv /\ Fails(s, new) => IInv' /\ [Delivery!Deliver]_reported
<1> SUFFICES ASSUME IInv, Fails(s, new) PROVE IInv' /\ [Delivery!Deliver]_reported
  OBVIOUS
<1>1. /\ inFlight[s] > 0
      /\ SetState(s, new, Answered(s))
      /\ UNCHANGED <<data, object, stale, decrypting, deserializing>>
  BY DEF Fails
<1>2. losses' \in 0..MaxLosses
  BY StreamAssumption DEF Fails, IInv, TypeOK, StreamAssumption
<1>3. new \in SegmentState \ {"NAME_EXISTS"}
  BY DEF SegmentState
<1>4. QED
  BY <1>1, <1>2, <1>3, AnsweredType, SetStatePreserves DEF IInv, TypeOK

LEMMA OnManifestPreserves ==
    IInv /\ OnManifest => IInv' /\ [Delivery!Deliver]_reported
<1> SUFFICES ASSUME IInv, OnManifest PROVE IInv' /\ [Delivery!Deliver]_reported
  OBVIOUS
<1>1. /\ manifest' \in {"OBJECT_READY", "INTEREST_TIMEOUT"}
      /\ UNCHANGED <<nodeVars, streamVars, losses>>
  BY DEF OnManifest
<1>2. InFlightRequested' /\ PipelineBound'
  BY <1>1 DEF IInv, InFlightRequested, PipelineBound, Requested, nodeVars
<1>3. QED
  BY <1>1, <1>2, QuietPreserves DEF IInv, TypeOK, nodeVars

LEMMA ExpirePreserves ==
    ASSUME NEW s \in Segment
    PROVE  IInv /\ Expire(s) => IInv' /\ [Delivery!Deliver]_reported
<1> SUFFICES ASSUME IInv, Expire(s) PROVE IInv' /\ [Delivery!Deliver]_reported
  OBVIOUS
<1>1. /\ stale' = stale \union {s} /\ s \in data
      /\ UNCHANGED <<state, inFlight, data, object, decrypting, deserializing>>
      /\ UNCHANGED <<manifest, streamVars, losses>>
  BY DEF Expire
<1>2. InFlightRequested' /\ PipelineBound'
  BY <1>1 DEF IInv, InFlightRequested, PipelineBound, Requested
<1>3. QED
  BY <1>1, <1>2, QuietPreserves DEF IInv, TypeOK

LEMMA NextPreserves == IInv /\ [Next]_vars => IInv' /\ [Delivery!Deliver]_reported
<1> SUFFICES ASSUME IInv, [Next]_vars PROVE IInv' /\ [Delivery!Deliver]_reported
  OBVIOUS
<1>1. CASE UNCHANGED vars
  <2>1. UNCHANGED <<streamVars, nodeVars, manifest, losses>>
    BY <1>1 DEF vars
  <2>2. QED
    BY <2>1 DEF streamVars, nodeVars, IInv, TypeOK, InFlightRequested, ReportedInOrder,
       ReportedHaveObjects, FinalKnown, EndAtFinal, NothingHeldBack, PipelineBound, Requested
<1>2. CASE Next
  BY <1>2, AnnounceAgainPreserves, StartFetchingPreserves, AskAgainPreserves,
     OnDataPreserves, OnDecryptedPreserves, OnDecryptionErrorPreserves,
     OnDeserializedPreserves, FailsPreserves, OnManifestPreserves, ExpirePreserves
     DEF Next, OnTimeout, OnNetworkNack
<1>3. QED
  BY <1>1, <1>2

-----------------------------------------------------------------------------
(* Theorems.                                                                *)

LEMMA Invariance == Spec => []IInv
<1>1. Init => IInv
  BY InitEstablishes
<1>2. IInv /\ [Next]_vars => IInv'
  BY NextPreserves
<1>3. QED
  BY <1>1, <1>2, PTL DEF Spec

\* The variables keep their types: in particular only published segments get data,
\* and a segment has an object only if it has data.
THEOREM TypeCorrect == Spec => []TypeOK
<1>1. IInv => TypeOK
  BY DEF IInv
<1>2. QED
  BY <1>1, Invariance, PTL

\* A SegmentStreamHandler implements OrderedDelivery: whatever the order in which
\* packets, timeouts, decryptions and deserializations arrive, onSegment is called
\* for 0, 1, 2, ... without gap or repetition, and with null right after the end.
THEOREM StreamDeliversInOrder == Spec => DeliversInOrder
<1>1. Init => Delivery!Init
  BY InitEstablishes
<1>2. IInv /\ [Next]_vars => [Delivery!Deliver]_reported
  BY NextPreserves
<1>3. QED
  BY <1>1, <1>2, Invariance, PTL DEF Spec, DeliversInOrder, Delivery!Spec

\* Between callbacks no segment that could be reported is held back.
THEOREM StreamHoldsNothingBack == Spec => []NothingHeldBack
<1>1. IInv => NothingHeldBack
  BY DEF IInv
<1>2. QED
  BY <1>1, Invariance, PTL

\* The segments requested without data never exceed the larger of the pipeline
\* size and the initial count.
THEOREM StreamPipelineBounded == Spec => []PipelineBound
<1>1. IInv => PipelineBound
  BY DEF IInv
<1>2. QED
  BY <1>1, Invariance, PTL

-----------------------------------------------------------------------------
(* The slots of the pipeline.                                               *)

\* No node goes back to NAME_EXISTS, and only those of published segments leave it.
Advances(st) ==
    \A t \in Segment :
        /\ st[t] = "NAME_EXISTS" => state[t] = "NAME_EXISTS"
        /\ state[t] = "NAME_EXISTS" => st[t] = "NAME_EXISTS" \/ t \in Published

\* A step in which the handler does nothing.
Quiet ==
    /\ UNCHANGED streamVars
    /\ attached => UNCHANGED object
    /\ data \subseteq data'
    /\ Advances(state')

\* A step in which it runs its reporting loop.
Reporting ==
    \E s, st, fl : Advances(st) /\ Report(s, st, fl, data', object')

LEMMA OnStateChangedKind ==
    ASSUME NEW s, NEW st, NEW fl, Advances(st), data \subseteq data',
           OnStateChanged(s, st, fl, data', object')
    PROVE  Quiet \/ Reporting
  BY DEF OnStateChanged, Quiet, Reporting, Advances

LEMMA SetObjectKind ==
    ASSUME IInv, NEW s \in Published, NEW fl, NEW d, data \subseteq d, SetObject(s, fl, d)
    PROVE  Quiet \/ Reporting
<1> DEFINE st == [state EXCEPT ![s] = "OBJECT_READY"]
<1>1. Advances(st)
  BY DEF Advances, IInv, TypeOK
<1>2. OnStateChanged(s, st, fl, data', object') /\ data \subseteq data'
  BY DEF SetObject
<1> HIDE DEF st
<1>3. QED
  BY <1>1, <1>2, OnStateChangedKind

LEMMA SetStateKind ==
    ASSUME IInv, NEW s \in Segment, NEW new, new # "NAME_EXISTS", NEW fl,
           s \in Published \/ state[s] # "NAME_EXISTS",
           SetState(s, new, fl), UNCHANGED object, data \subseteq data'
    PROVE  Quiet
<1>1. state' = [state EXCEPT ![s] = new] /\ UNCHANGED streamVars
  BY DEF SetState
<1>2. Advances(state')
  BY <1>1 DEF Advances, IInv, TypeOK
<1>3. QED
  BY <1>1, <1>2 DEF Quiet

LEMMA DeserializeKind ==
    ASSUME IInv, NEW s \in Published, NEW fl, NEW d, data \subseteq d, Deserialize(s, fl, d)
    PROVE  Quiet \/ Reporting
<1>1. CASE SetObject(s, fl, d)
  BY <1>1, SetObjectKind
<1>2. CASE /\ SetState(s, IF state[s] \in {"DECRYPTING", "DECRYPTION_ERROR", "OBJECT_READY"}
                            THEN state[s] ELSE "DESERIALIZING", fl)
           /\ data' = d
           /\ UNCHANGED object
  <2> DEFINE new == IF state[s] \in {"DECRYPTING", "DECRYPTION_ERROR", "OBJECT_READY"}
                      THEN state[s] ELSE "DESERIALIZING"
  <2>1. new # "NAME_EXISTS" /\ SetState(s, new, fl)
    BY <1>2
  <2> HIDE DEF new
  <2>2. QED
    BY <1>2, <2>1, SetStateKind, SegmentFinite
<1>3. QED
  BY <1>1, <1>2 DEF Deserialize

\* Whatever happens, the handler starts fetching, runs its loop or does nothing.
LEMMA StepKind ==
    ASSUME IInv, [Next]_vars
    PROVE  Quiet \/ Reporting \/ StartFetching
<1>1. CASE UNCHANGED <<state, data, object, streamVars>>
  BY <1>1 DEF Quiet, Advances
<1>2. CASE UNCHANGED vars
  BY <1>1, <1>2 DEF vars, nodeVars
<1>3. CASE AnnounceAgain
  <2>1. PICK s \in object :
          /\ OnStateChanged(s, [state EXCEPT ![s] = "OBJECT_READY"], inFlight, data, object)
          /\ UNCHANGED <<data, object>>
    BY <1>3 DEF AnnounceAgain
  <2>2. Advances([state EXCEPT ![s] = "OBJECT_READY"])
    BY DEF Advances, IInv, TypeOK
  <2>3. QED
    BY <2>1, <2>2, OnStateChangedKind
<1>4. CASE OnManifest
  BY <1>1, <1>4 DEF OnManifest, nodeVars
<1>5. ASSUME NEW s \in Segment, AskAgain(s) PROVE Quiet \/ Reporting
  <2>1. state[s] # "NAME_EXISTS" /\ UNCHANGED <<data, object>>
    BY <1>5 DEF AskAgain
  <2>2. CASE OnStateChanged(s, [state EXCEPT ![s] = "OBJECT_READY"], inFlight, data, object)
    <3>1. Advances([state EXCEPT ![s] = "OBJECT_READY"])
      BY <2>1 DEF Advances, IInv, TypeOK
    <3>2. QED
      BY <2>1, <2>2, <3>1, OnStateChangedKind
  <2>3. CASE SetState(s, "INTEREST_EXPRESSED", [inFlight EXCEPT ![s] = @ + 1])
    BY <2>1, <2>3, SetStateKind
  <2>4. QED
    BY <1>5, <2>2, <2>3 DEF AskAgain
<1>6. ASSUME NEW s \in Segment, OnData(s) PROVE Quiet \/ Reporting
  <2>1. s \in Published
    BY <1>6 DEF OnData
  <2>2. CASE UNCHANGED <<state, data, object, streamVars>>
    BY <2>2 DEF Quiet, Advances
  <2>3. CASE Deserialize(s, Answered(s), data \union {s})
    BY <2>1, <2>3, DeserializeKind
  <2>4. CASE /\ \E new \in {"DECRYPTING", "DECRYPTION_ERROR"} : SetState(s, new, Answered(s))
             /\ data' = data \union {s}
             /\ UNCHANGED object
    BY <2>1, <2>4, SetStateKind
  <2>5. QED
    BY <1>6, <2>2, <2>3, <2>4 DEF OnData, Receive
<1>7. ASSUME NEW s \in Segment, OnDecrypted(s) PROVE Quiet \/ Reporting
  BY <1>7, DeserializeKind DEF OnDecrypted, IInv, TypeOK
<1>8. ASSUME NEW s \in Segment, OnDecryptionError(s) PROVE Quiet
  BY <1>8, SetStateKind DEF OnDecryptionError, IInv, TypeOK
<1>9. ASSUME NEW s \in Segment, OnDeserialized(s) PROVE Quiet \/ Reporting
  BY <1>9, SetObjectKind DEF OnDeserialized, IInv, TypeOK
<1>10. ASSUME NEW s \in Segment, OnTimeout(s) \/ OnNetworkNack(s) PROVE Quiet
  <2>1. PICK new \in {"INTEREST_TIMEOUT", "INTEREST_NETWORK_NACK"} : Fails(s, new)
    BY <1>10 DEF OnTimeout, OnNetworkNack
  <2>2. SetState(s, new, Answered(s)) /\ inFlight[s] > 0 /\ UNCHANGED <<data, object>>
    BY <2>1 DEF Fails
  <2>3. QED
    BY <2>2, SetStateKind, AnsweredType
<1>11. ASSUME NEW s \in Segment, Expire(s) PROVE Quiet
  BY <1>11 DEF Expire, Quiet, Advances
<1>12. QED
  BY <1>2, <1>3, <1>4, <1>5, <1>6, <1>7, <1>8, <1>9, <1>10, <1>11 DEF Next

\* The segments that hold a slot.
Slots == Requested(state, data) \union (data \ object)

\* When no slot is given up and no segment becomes free, none stays free.
LEMMA SlotsKept ==
    ASSUME IInv, IInv', NoFreeSlot,
           UNCHANGED streamVars, attached => UNCHANGED object, data \subseteq data',
           \A t \in Segment : state'[t] = "NAME_EXISTS" => state[t] = "NAME_EXISTS"
    PROVE  NoFreeSlot'
<1> SUFFICES ASSUME attached', object' # {} PROVE NoFreeSlot'
  BY DEF NoFreeSlot
<1>1. object' = object /\ attached /\ object # {}
  BY DEF streamVars
<1>2. Slots \subseteq Slots'
  BY <1>1 DEF Slots, Requested, IInv, TypeOK
<1>3. Unrequested(state', data', maxReported', finalSegment')
         \subseteq Unrequested(state, data, maxReported, finalSegment)
  BY DEF Unrequested, streamVars
<1>4. IsFiniteSet(Slots) /\ IsFiniteSet(Slots')
  <2>1. Slots \subseteq Segment /\ Slots' \subseteq Segment
    BY SegmentFinite DEF Slots, Requested, IInv, TypeOK
  <2>2. QED
    BY <2>1, SegmentFinite, FS_Subset
<1>5. /\ Cardinality(Slots) <= Cardinality(Slots')
      /\ Cardinality(Slots) \in Nat /\ Cardinality(Slots') \in Nat
  BY <1>2, <1>4, FS_Subset, FS_CardinalityType
<1>6. CASE Cardinality(Slots) >= PipelineSize
  <2>1. Cardinality(Slots') >= PipelineSize
    BY <1>5, <1>6, StreamAssumption DEF StreamAssumption
  <2>2. QED
    BY <2>1 DEF NoFreeSlot, Slots
<1>7. CASE Unrequested(state, data, maxReported, finalSegment) = {}
  BY <1>3, <1>7 DEF NoFreeSlot
<1>8. QED
  BY <1>1, <1>6, <1>7 DEF NoFreeSlot, Slots

\* requestNewSegments fills the pipeline or leaves nothing to request.
LEMMA RequestFills ==
    ASSUME NEW max \in Nat, NEW st, NEW fl, NEW d, NEW m, NEW f,
           RequestNewSegments(max, st, fl, d, m, f)
    PROVE  \/ Cardinality(Requested(state', d)) >= max
           \/ Unrequested(state', d, m, f) = {}
<1>1. PICK batch \in SUBSET Segment :
         /\ IsNextBatch(batch, max, st, d, m, f)
         /\ state' = [s \in Segment |->
                        IF s \in batch THEN "INTEREST_EXPRESSED" ELSE st[s]]
  BY DEF RequestNewSegments
<1> DEFINE R == Requested(st, d)
<1>2. batch \subseteq Unrequested(st, d, m, f)
  BY <1>1 DEF IsNextBatch
<1>3. CASE batch = Unrequested(st, d, m, f)
  BY <1>1, <1>3 DEF Unrequested
<1>4. CASE Cardinality(batch) >= max - Cardinality(R)
  <2>1. Requested(state', d) = R \union batch /\ R \cap batch = {}
    BY <1>1, <1>2 DEF Requested, Unrequested
  <2>2. IsFiniteSet(R) /\ IsFiniteSet(batch)
    BY SegmentFinite, FS_Subset DEF Requested
  <2> HIDE DEF R
  <2>3. Cardinality(R \union batch) = Cardinality(R) + Cardinality(batch) - Cardinality(R \cap batch)
    BY <2>2, FS_Union
  <2>4. Cardinality(R \cap batch) = 0
    BY <2>1, FS_EmptySet
  <2>5. Cardinality(R) \in Nat /\ Cardinality(batch) \in Nat
    BY <2>2, FS_CardinalityType
  <2>6. QED
    BY <1>4, <2>1, <2>3, <2>4, <2>5
<1>5. QED
  BY <1>1, <1>3, <1>4 DEF IsNextBatch

LEMMA ReportingFills ==
    ASSUME IInv, IInv', Reporting
    PROVE  NoFreeSlot'
<1>1. PICK s, st, fl : Report(s, st, fl, data', object')
  BY DEF Reporting
<1> DEFINE f == IF s \in Marked THEN FinalSegment ELSE finalSegment
<1>2. PICK last \in maxReported..FinalSegment :
        /\ finalSegment' = f
        /\ maxReported' = last
        /\ attached' = ~Finishes(last, f)
        /\ IF Finishes(last, f)
             THEN TRUE
             ELSE RequestNewSegments(PipelineSize, st, fl, data', last, f)
  BY <1>1 DEF Report
<1> HIDE DEF f
<1>3. CASE Finishes(last, f)
  BY <1>2, <1>3 DEF NoFreeSlot
<1>4. CASE ~Finishes(last, f)
  <2>1. PipelineSize \in Nat
    BY StreamAssumption DEF StreamAssumption
  <2>2. \/ Cardinality(Requested(state', data')) >= PipelineSize
        \/ Unrequested(state', data', maxReported', finalSegment') = {}
    BY <1>2, <1>4, <2>1, RequestFills
  <2>3. Requested(state', data') \subseteq Slots' /\ Slots' \subseteq Segment
    BY SegmentFinite DEF Slots, Requested, IInv, TypeOK
  <2>4. IsFiniteSet(Slots')
    BY <2>3, SegmentFinite, FS_Subset
  <2>5. /\ Cardinality(Requested(state', data')) <= Cardinality(Slots')
        /\ IsFiniteSet(Requested(state', data'))
    BY <2>3, <2>4, FS_Subset
  <2>6. Cardinality(Slots') \in Nat /\ Cardinality(Requested(state', data')) \in Nat
    BY <2>4, <2>5, FS_CardinalityType
  <2>7. Cardinality(Slots') >= PipelineSize
        \/ Unrequested(state', data', maxReported', finalSegment') = {}
    BY <2>1, <2>2, <2>5, <2>6
  <2>8. QED
    BY <2>7 DEF NoFreeSlot, Slots
<1>5. QED
  BY <1>3, <1>4

\* From the first object on, a slot of the pipeline that becomes free is used again as
\* long as there is a segment left to request (requestNewSegments).
THEOREM StreamLeavesNoSlotFree == Spec => []NoFreeSlot
<1>1. Init => NoFreeSlot
  BY DEF Init, InitStream, NoFreeSlot
<1>2. IInv /\ IInv' /\ NoFreeSlot /\ [Next]_vars => NoFreeSlot'
  <2> SUFFICES ASSUME IInv, IInv', NoFreeSlot, [Next]_vars PROVE NoFreeSlot'
    OBVIOUS
  <2>1. CASE Quiet
    BY <2>1, SlotsKept DEF Quiet, Advances
  <2>2. CASE Reporting
    BY <2>2, ReportingFills
  <2>3. CASE StartFetching
    <3>1. /\ UNCHANGED <<data, object, streamVars>>
          /\ \A t \in Segment : state'[t] = "NAME_EXISTS" => state[t] = "NAME_EXISTS"
      BY <2>3 DEF StartFetching, RequestNewSegments
    <3>2. QED
      BY <3>1, SlotsKept
  <2>4. QED
    BY <2>1, <2>2, <2>3, StepKind
<1>3. QED
  BY <1>1, <1>2, Invariance, PTL DEF Spec

LEMMA RequestStops ==
    ASSUME NEW max, NEW st, NEW fl, NEW d, NEW m,
           RequestNewSegments(max, st, fl, d, m, FinalSegment),
           NEW t \in Segment, t > FinalSegment, st[t] = "NAME_EXISTS"
    PROVE  state'[t] = "NAME_EXISTS"
<1>1. PICK batch \in SUBSET Segment :
         /\ IsNextBatch(batch, max, st, d, m, FinalSegment)
         /\ state' = [s \in Segment |->
                        IF s \in batch THEN "INTEREST_EXPRESSED" ELSE st[s]]
  BY DEF RequestNewSegments
<1>2. batch \subseteq Unrequested(st, d, m, FinalSegment)
  BY <1>1 DEF IsNextBatch
<1>3. FinalSegment \in Nat /\ t \in Int
  BY SegmentFinite, StreamAssumption DEF StreamAssumption
<1>4. t \notin batch
  BY <1>2, <1>3 DEF Unrequested
<1>5. QED
  BY <1>1, <1>4

\* Once the final number is known no segment beyond it is requested for the first time.
THEOREM StreamStopsAtFinal == Spec => NoRequestPastFinal
<1> DEFINE Kept == \A s \in Segment :
                      finalSegment >= 0 /\ s > finalSegment /\ state[s] = "NAME_EXISTS"
                          => state'[s] = "NAME_EXISTS"
<1>1. IInv /\ [Next]_vars => [Kept]_vars
  <2> SUFFICES ASSUME IInv, [Next]_vars,
                      NEW t \in Segment,
                      finalSegment >= 0, t > finalSegment, state[t] = "NAME_EXISTS"
               PROVE  state'[t] = "NAME_EXISTS"
    OBVIOUS
  <2>1. finalSegment = FinalSegment /\ t \notin Published
    BY StreamAssumption DEF IInv, TypeOK, StreamAssumption
  <2>2. CASE Quiet
    BY <2>1, <2>2 DEF Quiet, Advances
  <2>3. CASE Reporting
    <3>1. PICK s, st, fl : Advances(st) /\ Report(s, st, fl, data', object')
      BY <2>3 DEF Reporting
    <3>2. st[t] = "NAME_EXISTS"
      BY <2>1, <3>1 DEF Advances
    <3>3. PICK last : \/ state' = st
                      \/ RequestNewSegments(PipelineSize, st, fl, data', last, FinalSegment)
      BY <2>1, <3>1 DEF Report
    <3>4. QED
      BY <2>1, <3>2, <3>3, RequestStops
  <2>4. CASE StartFetching
    BY <2>1, <2>4, RequestStops DEF StartFetching
  <2>5. QED
    BY <2>2, <2>3, <2>4, StepKind
<1>2. QED
  BY <1>1, Invariance, PTL DEF Spec, NoRequestPastFinal
=============================================================================
