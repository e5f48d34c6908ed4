-------------------------- MODULE ObjectStream_proofs --------------------------
(***************************************************************************)
(* Proofs about ObjectStream, for every set of numbers, every pipeline size *)
(* and every order in which packets are made, lost, repeated and late.      *)
(***************************************************************************)
EXTENDS ObjectStream, FiniteSetTheorems, SequenceTheorems, WellFoundedInduction, TLAPS

\* The numbers whose _meta node has its object, or has been requested, in the states m.
Ready(m)       == {s \in SequenceNumber : m[s] = "OBJECT_READY"}
RequestedIn(m) == {s \in SequenceNumber : m[s] # "NAME_EXISTS"}

\* What the counters of the handler say of the requested and the reported numbers.
Counts(size, requested, objects, nReq, nRep, maxReq) ==
    /\ nReq \in Nat
    /\ nRep = Cardinality(objects)
    /\ nReq - nRep <= Cardinality(requested \ objects)
    /\ nReq > 0 => nReq - nRep >= Min(Sizes \ {0})
    /\ size = 0 => nReq = 0
    /\ size > 0 => maxReq = Max(requested \union {0})

ProducerInv ==
    /\ published \subseteq Publishable
    /\ produced \in Publishable \union {-1}
    /\ packets \in Seq(Publishable)
    /\ current \in BOOLEAN
    /\ cached \subseteq 1..Len(packets)

MetaInv ==
    /\ meta \in [SequenceNumber -> MetaState]
    /\ reported \in Seq(SequenceNumber)
    /\ assembling \subseteq Segmented \intersect published
    /\ failed \subseteq Segmented \union Malformed
    /\ pipelineSize \in Sizes
    /\ maxReported \in SequenceNumber \union {-1}
    /\ ReportedOnce

CountInv ==
    /\ nReported = Len(reported)
    /\ Counts(pipelineSize, Requested, Objects, nRequested, nReported, maxRequested)

LatestInv ==
    /\ attached \subseteq 1..Len(packets)
    /\ fresh \subseteq attached
    /\ LatestIsRequested

\* The application has to ask first.
NothingBeforeCalls == pipelineSize = 0 /\ calls = 0 => Requested = {} /\ attached = {}

PollInv ==
    /\ asked \in 0..MaxAsked
    /\ timers \in Nat
    /\ calls \in 0..MaxCalls
    /\ repeated \in BOOLEAN
    /\ PollingGoesOn
    /\ NothingBeforeCalls

\* The inductive invariant: the properties, that what is under way was published, and that
\* nothing is requested without a pipeline before the application has asked.
OInv == ProducerInv /\ MetaInv /\ CountInv /\ LatestInv /\ PollInv

-----------------------------------------------------------------------------
(* Facts about the data.                                                    *)

\* A set of numbers that is not empty has a smallest element.
LEMMA MinIs ==
    ASSUME NEW S \in SUBSET Nat, S # {}
    PROVE  Min(S) \in S /\ \A y \in S : Min(S) <= y
<1>1. PICK x \in S : \A y \in S : ~(<<y, x>> \in OpToRel(<, Nat))
  BY NatLessThanWellFounded, WFMin
<1>2. ASSUME NEW y \in S PROVE x <= y
  <2>1. x \in Nat /\ y \in Nat
    OBVIOUS
  <2>2. <<y, x>> \in Nat \X Nat /\ <<y, x>>[1] = y /\ <<y, x>>[2] = x
    BY <2>1
  <2>3. y < x => <<y, x>> \in OpToRel(<, Nat)
    BY <2>2 DEF OpToRel
  <2>4. ~(y < x)
    BY <1>1, <2>3
  <2>5. QED
    BY <2>1, <2>4
<1>3. QED
  BY <1>2 DEF Min

\* A set of sequence numbers has a largest one; -1 may be among them.
LEMMA MaxIs ==
    ASSUME NEW S \in SUBSET (-1..Highest), S # {}
    PROVE  Max(S) \in S /\ \A y \in S : Max(S) >= y
<1> DEFINE T == {Highest - y : y \in S}
<1>0. Highest \in Nat
  BY ObjectStreamAssumption DEF ObjectStreamAssumption
<1>1. T \in SUBSET Nat /\ T # {}
  <2>1. ASSUME NEW y \in S PROVE Highest - y \in Nat
    BY <1>0
  <2>2. QED
    BY <2>1
<1>2. Min(T) \in T /\ \A z \in T : Min(T) <= z
  BY <1>1, MinIs
<1>3. PICK x \in S : Min(T) = Highest - x
  BY <1>2
<1>4. ASSUME NEW y \in S PROVE x >= y
  <2>1. Highest - y \in T
    OBVIOUS
  <2>2. Highest - x <= Highest - y
    BY <1>2, <1>3, <2>1
  <2>3. x \in Int /\ y \in Int
    BY <1>0
  <2>4. QED
    BY <1>0, <2>2, <2>3
<1>5. QED
  BY <1>4 DEF Max

LEMMA NumbersAreFinite ==
    /\ Highest \in Nat
    /\ SequenceNumber \subseteq -1..Highest
    /\ SequenceNumber \subseteq Nat
    /\ \A S \in SUBSET SequenceNumber : IsFiniteSet(S) /\ Cardinality(S) \in Nat
<1>1. Highest \in Nat
  BY ObjectStreamAssumption DEF ObjectStreamAssumption
<1>2. IsFiniteSet(SequenceNumber)
  BY <1>1, FS_Interval DEF SequenceNumber
<1>3. \A S \in SUBSET SequenceNumber : IsFiniteSet(S) /\ Cardinality(S) \in Nat
  BY <1>2, FS_Subset, FS_CardinalityType
<1>4. QED
  BY <1>1, <1>3 DEF SequenceNumber

\* The largest of a set that grows by a batch.
LEMMA MaxOfUnion ==
    ASSUME NEW S \in SUBSET SequenceNumber, NEW batch \in SUBSET SequenceNumber
    PROVE  Max(batch \union {Max(S \union {0})}) = Max((S \union batch) \union {0})
<1> DEFINE a == Max(S \union {0})
           b == Max(batch \union {a})
           c == Max((S \union batch) \union {0})
<1>0. SequenceNumber \subseteq -1..Highest /\ 0 \in -1..Highest /\ SequenceNumber \subseteq Nat
  BY NumbersAreFinite
<1>1. a \in S \union {0} /\ \A y \in S \union {0} : a >= y
  BY <1>0, MaxIs
<1>2. b \in batch \union {a} /\ \A y \in batch \union {a} : b >= y
  <2>1. batch \union {a} \in SUBSET (-1..Highest)
    BY <1>0, <1>1
  <2> HIDE DEF a
  <2>2. QED
    BY <2>1, MaxIs
<1>3. c \in (S \union batch) \union {0} /\ \A y \in (S \union batch) \union {0} : c >= y
  BY <1>0, MaxIs
<1> HIDE DEF a, b, c
<1>4. a \in Nat /\ b \in Nat /\ c \in Nat
  BY <1>0, <1>1, <1>2, <1>3
<1>5. b >= c
  BY <1>1, <1>2, <1>3, <1>0, <1>4
<1>6. c >= b
  BY <1>1, <1>2, <1>3, <1>0, <1>4
<1>7. b = c
  BY <1>4, <1>5, <1>6
<1>8. QED
  BY <1>7 DEF a, b, c

\* A report of a number that is not there yet.
LEMMA AppendNew ==
    ASSUME NEW r \in Seq(SequenceNumber), IsInjective(r),
           NEW s \in SequenceNumber, s \notin ToSet(r)
    PROVE  /\ Append(r, s) \in Seq(SequenceNumber)
           /\ Len(Append(r, s)) = Len(r) + 1
           /\ ToSet(Append(r, s)) = ToSet(r) \union {s}
           /\ IsInjective(Append(r, s))
<1> DEFINE q == Append(r, s)
           n == Len(r)
<1>1. /\ q \in Seq(SequenceNumber)
      /\ Len(q) = n + 1
      /\ \A i \in 1..n : q[i] = r[i]
      /\ q[n + 1] = s
  BY AppendProperties
<1>2. n \in Nat /\ DOMAIN r = 1..n /\ DOMAIN q = 1..(n + 1)
  BY <1>1, LenProperties
<1> HIDE DEF q, n
<1>3. \A i \in 1..(n + 1) : i \in 1..n \/ i = n + 1
  BY <1>2
<1>4. ToSet(q) = ToSet(r) \union {s}
  BY <1>1, <1>2, <1>3 DEF ToSet
<1>5. \A i \in 1..n : r[i] # s
  BY <1>2 DEF ToSet
<1>6. IsInjective(q)
  BY <1>1, <1>2, <1>3, <1>5 DEF IsInjective
<1>7. QED
  BY <1>1, <1>4, <1>6 DEF q, n

-----------------------------------------------------------------------------
(* The pipeline.                                                            *)

\* No number is forgotten, and no object comes or goes.
Extends(m) ==
    /\ meta' \in [SequenceNumber -> MetaState]
    /\ Ready(meta') = Ready(m)
    /\ RequestedIn(m) \subseteq RequestedIn(meta')

\* The disjoint parts of a finite set of numbers.
LEMMA PartsOf ==
    ASSUME NEW A \in SUBSET SequenceNumber, NEW B \in SUBSET SequenceNumber, A \cap B = {}
    PROVE  /\ Cardinality(A \union B) = Cardinality(A) + Cardinality(B)
           /\ Cardinality(A) \in Nat /\ Cardinality(B) \in Nat
<1>1. IsFiniteSet(A) /\ IsFiniteSet(B) /\ Cardinality(A) \in Nat /\ Cardinality(B) \in Nat
  BY NumbersAreFinite
<1>2. Cardinality(A \union B) = Cardinality(A) + Cardinality(B) - Cardinality(A \cap B)
  BY <1>1, FS_Union
<1>3. Cardinality(A \cap B) = 0
  BY FS_EmptySet
<1>4. QED
  BY <1>1, <1>2, <1>3

LEMMA SmallestSize ==
    ASSUME NEW size \in Sizes, size > 0
    PROVE  Min(Sizes \ {0}) \in Nat /\ size >= Min(Sizes \ {0})
<1>1. Sizes \subseteq Nat
  BY ObjectStreamAssumption DEF ObjectStreamAssumption
<1>2. Sizes \ {0} \in SUBSET Nat /\ Sizes \ {0} # {} /\ size \in Sizes \ {0}
  BY <1>1
<1>3. Min(Sizes \ {0}) \in Sizes \ {0} /\ Min(Sizes \ {0}) <= size
  BY <1>2, MinIs
<1>4. QED
  BY <1>1, <1>2, <1>3

\* What a batch of requests is.
LEMMA BatchIs ==
    ASSUME NEW m \in [SequenceNumber -> MetaState], NEW from, NEW nReq, NEW nRep,
           RequestNewSequenceNumbers(m, from, nReq, nRep)
    PROVE  \E batch \in SUBSET SequenceNumber :
              /\ Extends(m)
              /\ batch \cap RequestedIn(m) = {}
              /\ RequestedIn(meta') = RequestedIn(m) \union batch
              /\ Cardinality(batch) = IF pipelineSize - (nReq - nRep) > 0
                                        THEN pipelineSize - (nReq - nRep) ELSE 0
              /\ nRequested' = nReq + Cardinality(batch)
              /\ maxRequested' = Max(batch \union {maxRequested})
              /\ \A s \in batch : s > from
              /\ \A s \in batch, t \in SequenceNumber \ batch :
                    t > from /\ m[t] = "NAME_EXISTS" => s < t
<1> DEFINE free == {s \in SequenceNumber : s > from /\ m[s] = "NAME_EXISTS"}
<1>1. PICK batch \in SUBSET free :
        /\ \A s \in batch, t \in free \ batch : s < t
        /\ Cardinality(batch) = IF pipelineSize - (nReq - nRep) > 0
                                  THEN pipelineSize - (nReq - nRep) ELSE 0
        /\ meta' = [s \in SequenceNumber |->
                       IF s \in batch THEN "INTEREST_EXPRESSED" ELSE m[s]]
        /\ nRequested' = nReq + Cardinality(batch)
        /\ maxRequested' = Max(batch \union {maxRequested})
  BY DEF RequestNewSequenceNumbers
<1>2. meta' \in [SequenceNumber -> MetaState]
  BY <1>1 DEF MetaState
<1>3. Ready(meta') = Ready(m)
  BY <1>1 DEF Ready
<1>4. RequestedIn(meta') = RequestedIn(m) \union batch /\ batch \cap RequestedIn(m) = {}
  BY <1>1 DEF RequestedIn
<1>5. Extends(m)
  BY <1>2, <1>3, <1>4 DEF Extends
<1>6. QED
  BY <1>1, <1>4, <1>5

\* The counters after a batch of requests, when obj are the reported numbers.
LEMMA RequestCounts ==
    ASSUME NEW m \in [SequenceNumber -> MetaState],
           NEW from \in -1..Highest,
           NEW obj \in SUBSET RequestedIn(m),
           NEW nReq \in Nat,
           NEW nRep, nRep = Cardinality(obj),
           nReq - nRep <= Cardinality(RequestedIn(m) \ obj),
           pipelineSize \in Sizes, pipelineSize > 0,
           maxRequested = Max(RequestedIn(m) \union {0}),
           RequestNewSequenceNumbers(m, from, nReq, nRep)
    PROVE  /\ Counts(pipelineSize, RequestedIn(meta'), obj, nRequested', nRep, maxRequested')
           /\ Extends(m)
           /\ nReq = nRep /\ from < Highest => from + 1 \in RequestedIn(meta')
<1>1. PICK batch \in SUBSET SequenceNumber :
              /\ Extends(m)
              /\ batch \cap RequestedIn(m) = {}
              /\ RequestedIn(meta') = RequestedIn(m) \union batch
              /\ Cardinality(batch) = IF pipelineSize - (nReq - nRep) > 0
                                        THEN pipelineSize - (nReq - nRep) ELSE 0
              /\ nRequested' = nReq + Cardinality(batch)
              /\ maxRequested' = Max(batch \union {maxRequested})
              /\ \A s \in batch : s > from
              /\ \A s \in batch, t \in SequenceNumber \ batch :
                    t > from /\ m[t] = "NAME_EXISTS" => s < t
  BY BatchIs
<1>2. RequestedIn(m) \in SUBSET SequenceNumber /\ obj \in SUBSET SequenceNumber
  BY DEF RequestedIn
<1>3. /\ Cardinality(batch) \in Nat /\ nRep \in Nat
      /\ Cardinality(RequestedIn(m) \ obj) \in Nat
      /\ pipelineSize \in Nat
  BY <1>2, NumbersAreFinite, ObjectStreamAssumption DEF ObjectStreamAssumption
<1>4. nRequested' \in Nat
  BY <1>1, <1>3
<1>5. nRequested' - nRep >= Min(Sizes \ {0})
  <2>1. nRequested' - nRep >= pipelineSize
    BY <1>1, <1>3
  <2>2. QED
    BY <1>3, <1>4, <2>1, SmallestSize
<1>6. nRequested' - nRep <= Cardinality(RequestedIn(meta') \ obj)
  <2>1. RequestedIn(meta') \ obj = (RequestedIn(m) \ obj) \union batch
    BY <1>1
  <2>2. (RequestedIn(m) \ obj) \cap batch = {}
    BY <1>1
  <2>3. Cardinality(RequestedIn(meta') \ obj)
           = Cardinality(RequestedIn(m) \ obj) + Cardinality(batch)
    BY <1>2, <2>1, <2>2, PartsOf
  <2>4. QED
    BY <1>1, <1>3, <2>3
<1>7. maxRequested' = Max(RequestedIn(meta') \union {0})
  <2>1. Max(batch \union {Max(RequestedIn(m) \union {0})})
           = Max((RequestedIn(m) \union batch) \union {0})
    BY <1>2, MaxOfUnion
  <2>2. maxRequested' = Max(batch \union {Max(RequestedIn(m) \union {0})})
    BY <1>1, Zenon
  <2>3. QED
    BY <1>1, <2>1, <2>2, Zenon
<1>8. Counts(pipelineSize, RequestedIn(meta'), obj, nRequested', nRep, maxRequested')
  BY <1>4, <1>5, <1>6, <1>7 DEF Counts
<1>9. ASSUME nReq = nRep, from < Highest PROVE from + 1 \in RequestedIn(meta')
  <2> DEFINE t == from + 1
  <2>1. t \in SequenceNumber /\ t > from /\ from \in Int
    BY <1>9, NumbersAreFinite DEF SequenceNumber
  <2>2. batch # {}
    <3>1. Cardinality(batch) > 0
      BY <1>1, <1>3, <1>9
    <3>2. QED
      BY <3>1, FS_EmptySet
  <2>3. PICK s \in batch : s > from
    BY <1>1, <2>2
  <2>4. s \in Int /\ ~(s < t)
    BY <2>1, <2>3, NumbersAreFinite
  <2> HIDE DEF t
  <2>5. t \in batch \/ m[t] # "NAME_EXISTS"
    BY <1>1, <2>1, <2>4
  <2>6. t \in RequestedIn(meta')
    BY <1>1, <2>1, <2>5 DEF RequestedIn
  <2>7. QED
    BY <2>6 DEF t
<1>10. QED
  BY <1>1, <1>8, <1>9

\* A state of the _meta nodes that differs from theirs in the failure of one request.
Like(m) ==
    /\ m \in [SequenceNumber -> MetaState]
    /\ Ready(m) = Ready(meta)
    /\ RequestedIn(m) = Requested

\* What the steps keep that report nothing.
Kept ==
    /\ Counts(pipelineSize, RequestedIn(meta'), Objects, nRequested', nReported, maxRequested')
    /\ Extends(meta)
    /\ maxReported' \in SequenceNumber \union {-1}

LEMMA ObjectsAreRequested ==
    ASSUME MetaInv
    PROVE  Objects \subseteq Requested /\ Objects \subseteq Ready(meta)
  BY DEF MetaInv, ReportedOnce, Ready, Requested

LEMMA StayKeeps ==
    ASSUME MetaInv, CountInv, NEW m, Like(m),
           meta' = m, UNCHANGED <<nRequested, maxRequested, maxReported>>
    PROVE  Kept
<1>1. Requested = RequestedIn(meta)
  BY DEF Requested, RequestedIn
<1>2. RequestedIn(meta') = Requested /\ Ready(meta') = Ready(meta)
  BY DEF Like
<1>3. Extends(meta)
  BY <1>1, <1>2 DEF Extends, Like
<1>4. Counts(pipelineSize, RequestedIn(meta'), Objects, nRequested', nReported, maxRequested')
  BY <1>2 DEF CountInv
<1>5. QED
  BY <1>3, <1>4 DEF Kept, MetaInv

LEMMA FetchKeeps ==
    ASSUME MetaInv, CountInv, NEW m, Like(m), NEW target \in SequenceNumber, Fetch(target, m)
    PROVE  Kept /\ target \in RequestedIn(meta')
<1>0. pipelineSize \in Nat
  BY ObjectStreamAssumption DEF MetaInv, ObjectStreamAssumption
<1>1. CASE pipelineSize = 0
  <2>1. /\ meta' = IF m[target] = "NAME_EXISTS"
                     THEN [m EXCEPT ![target] = "INTEREST_EXPRESSED"] ELSE m
        /\ UNCHANGED <<nRequested, maxRequested, maxReported>>
    BY <1>1 DEF Fetch
  <2>2. Extends(m) /\ RequestedIn(meta') = RequestedIn(m) \union {target}
    BY <2>1 DEF Like, Extends, Ready, RequestedIn, MetaState
  <2>3. nRequested = 0 /\ nReported \in Nat
    BY <1>1, ObjectsAreRequested, NumbersAreFinite DEF CountInv, Counts, Requested
  <2>4. Cardinality(RequestedIn(meta') \ Objects) \in Nat
    BY NumbersAreFinite DEF RequestedIn
  <2>5. Counts(pipelineSize, RequestedIn(meta'), Objects, nRequested', nReported, maxRequested')
    BY <1>1, <2>1, <2>3, <2>4 DEF CountInv, Counts
  <2>6. QED
    BY <2>1, <2>2, <2>5 DEF Kept, Like, Extends, MetaInv, Requested, RequestedIn
<1>2. CASE pipelineSize > 0
  <2>1. maxReported' = target - 1 /\ RequestNewSequenceNumbers(m, target - 1, nReported, nReported)
    BY <1>2 DEF Fetch
  <2>2. target \in 0..Highest /\ target - 1 \in -1..Highest /\ target - 1 < Highest /\ (target - 1) + 1 = target
    BY NumbersAreFinite DEF SequenceNumber
  <2>3. /\ Objects \in SUBSET RequestedIn(m)
        /\ nReported = Cardinality(Objects)
        /\ nReported \in Nat
        /\ maxRequested = Max(RequestedIn(m) \union {0})
    BY <1>2, ObjectsAreRequested, NumbersAreFinite DEF CountInv, Counts, Like, Requested
  <2>4. nReported - nReported <= Cardinality(RequestedIn(m) \ Objects)
    <3>1. Cardinality(RequestedIn(m) \ Objects) \in Nat
      BY NumbersAreFinite DEF RequestedIn
    <3>2. QED
      BY <2>3, <3>1
  <2>5. /\ Counts(pipelineSize, RequestedIn(meta'), Objects, nRequested', nReported, maxRequested')
        /\ Extends(m)
        /\ target \in RequestedIn(meta')
    BY <1>2, <2>1, <2>2, <2>3, <2>4, RequestCounts DEF Like, MetaInv
  <2>6. maxReported' \in SequenceNumber \union {-1}
    BY <2>1, <2>2 DEF SequenceNumber
  <2>7. QED
    BY <2>5, <2>6 DEF Kept, Like, Extends, Requested, RequestedIn
<1>3. QED
  BY <1>0, <1>1, <1>2

\* A version of _latest is announced: its number has been requested then.
LEMMA OnLatestKeeps ==
    ASSUME OInv, NEW m, Like(m), NEW t, NEW v \in 1..Len(packets), OnLatest(v, m, t)
    PROVE  /\ Kept
           /\ packets[v] \in RequestedIn(meta')
           /\ timers' = IF pipelineSize = 0 THEN t + 1 ELSE t
<1>1. packets[v] \in SequenceNumber
  BY ElementOfSeq, ObjectStreamAssumption DEF OInv, ProducerInv, ObjectStreamAssumption
<1>2. CASE packets[v] \in Objects
  <2>1. Kept
    BY <1>2, StayKeeps DEF OnLatest, OInv
  <2>2. packets[v] \in RequestedIn(meta')
    BY <1>2, <2>1, ObjectsAreRequested DEF OInv, Kept, Extends, Requested, RequestedIn
  <2>3. QED
    BY <2>1, <2>2 DEF OnLatest
<1>3. CASE packets[v] \notin Objects
  BY <1>1, <1>3, FetchKeeps DEF OnLatest, OInv
<1>4. QED
  BY <1>2, <1>3

\* Asking for _latest: there is an answer at once, or one more Interest.
LEMMA NeedLatestKeeps ==
    ASSUME OInv, NEW m, Like(m), NEW t, NeedLatest(m, t)
    PROVE  /\ Kept
           /\ \/ asked' = asked /\ timers' = IF pipelineSize = 0 THEN t + 1 ELSE t
              \/ asked < MaxAsked /\ asked' = asked + 1 /\ timers' = t
<1>1. CASE fresh # {} /\ OnLatest(Min(fresh), m, t) /\ UNCHANGED asked
  <2>1. fresh \subseteq 1..Len(packets) /\ fresh \subseteq Nat
    BY LenProperties DEF OInv, LatestInv, ProducerInv
  <2>2. Min(fresh) \in 1..Len(packets)
    BY <1>1, <2>1, MinIs
  <2>3. QED
    BY <1>1, <2>2, OnLatestKeeps
<1>2. CASE /\ asked < MaxAsked /\ asked' = asked + 1 /\ meta' = m /\ timers' = t
           /\ UNCHANGED <<nRequested, maxRequested, maxReported>>
  BY <1>2, StayKeeps DEF OInv
<1>3. QED
  BY <1>1, <1>2 DEF NeedLatest

\* An object is reported, when the _meta nodes have the states m.
LEMMA ReportKeeps ==
    ASSUME OInv, NEW s \in SequenceNumber, s \notin Objects, s \in Requested,
           NEW m \in [SequenceNumber -> MetaState], RequestedIn(m) = Requested,
           OnGeneralizedObject(s, m), UNCHANGED pipelineSize
    PROVE  /\ CountInv'
           /\ Extends(m)
           /\ reported' \in Seq(SequenceNumber)
           /\ IsInjective(reported')
           /\ Objects' = Objects \union {s}
           /\ maxReported' \in SequenceNumber \union {-1}
<1>1. /\ reported' \in Seq(SequenceNumber)
      /\ Len(reported') = Len(reported) + 1
      /\ Objects' = Objects \union {s}
      /\ IsInjective(reported')
  BY AppendNew DEF OnGeneralizedObject, Objects, OInv, MetaInv, ReportedOnce
<1>2. maxReported' \in SequenceNumber \union {-1}
  <2>1. {s, maxReported} \in SUBSET (-1..Highest)
    BY NumbersAreFinite DEF OInv, MetaInv
  <2>2. Max({s, maxReported}) \in {s, maxReported}
    BY <2>1, MaxIs
  <2>3. QED
    BY <2>2 DEF OnGeneralizedObject, OInv, MetaInv
<1>3. nReported' = nReported + 1 /\ nReported' = Len(reported')
  BY <1>1 DEF OnGeneralizedObject, OInv, CountInv
<1>4. /\ Objects \in SUBSET Requested
      /\ Requested \in SUBSET SequenceNumber
      /\ nReported = Cardinality(Objects)
      /\ nReported \in Nat
      /\ nRequested \in Nat
      /\ nRequested - nReported <= Cardinality(Requested \ Objects)
  BY ObjectsAreRequested, NumbersAreFinite DEF OInv, CountInv, Counts, Requested
<1> DEFINE obj == Objects \union {s}
<1>5. nReported' = Cardinality(obj)
  BY <1>3, <1>4, NumbersAreFinite, FS_AddElement
<1>6. nRequested - nReported' <= Cardinality(Requested \ obj)
  <2>1. Requested \ Objects = (Requested \ obj) \union {s} /\ (Requested \ obj) \cap {s} = {}
    OBVIOUS
  <2>2. /\ Cardinality(Requested \ Objects) = Cardinality(Requested \ obj) + Cardinality({s})
        /\ Cardinality(Requested \ obj) \in Nat
    BY <1>4, <2>1, PartsOf
  <2>3. Cardinality({s}) = 1
    BY FS_Singleton
  <2> HIDE DEF obj
  <2>4. QED
    BY <1>3, <1>4, <2>2, <2>3
<1>7. pipelineSize \in Sizes /\ pipelineSize \in Nat
  BY ObjectStreamAssumption DEF OInv, MetaInv, ObjectStreamAssumption
<1>8. obj \in SUBSET RequestedIn(m) /\ obj = Objects'
  BY <1>1, <1>4
<1> HIDE DEF obj
<1>9. CASE pipelineSize > 0
  <2>1. RequestNewSequenceNumbers(m, maxReported', nRequested, nReported')
    BY <1>9 DEF OnGeneralizedObject
  <2>2. maxReported' \in -1..Highest
    BY <1>2, NumbersAreFinite
  <2>3. maxRequested = Max(RequestedIn(m) \union {0})
    BY <1>9 DEF OInv, CountInv, Counts
  <2>4. /\ Counts(pipelineSize, RequestedIn(meta'), obj, nRequested', nReported', maxRequested')
        /\ Extends(m)
    BY <1>4, <1>5, <1>6, <1>7, <1>8, <1>9, <2>1, <2>2, <2>3, RequestCounts
  <2>5. Requested' = RequestedIn(meta')
    BY DEF Requested, RequestedIn
  <2>6. CountInv'
    BY <1>3, <1>8, <2>4, <2>5 DEF CountInv
  <2>7. QED
    BY <1>1, <1>2, <2>4, <2>6
<1>10. CASE pipelineSize = 0
  <2>1. meta' = m /\ UNCHANGED <<nRequested, maxRequested>>
    BY <1>10 DEF OnGeneralizedObject
  <2>2. Extends(m)
    BY <2>1 DEF Extends
  <2>3. Requested' = Requested
    BY <2>1 DEF Requested, RequestedIn
  <2>4. nRequested = 0
    BY <1>10 DEF OInv, CountInv, Counts
  <2>5. Counts(pipelineSize, Requested', obj, nRequested', nReported', maxRequested')
    BY <1>5, <1>6, <1>10, <2>1, <2>3, <2>4 DEF Counts
  <2>6. CountInv'
    BY <1>3, <1>8, <2>5 DEF CountInv
  <2>7. QED
    BY <1>1, <1>2, <2>2, <2>6
<1>11. QED
  BY <1>7, <1>9, <1>10

-----------------------------------------------------------------------------
(* Every action.                                                            *)

LEMMA InitEstablishes == Init => OInv
<1> SUFFICES ASSUME Init PROVE OInv
  OBVIOUS
<1> USE DEF Init
<1>1. Requested = {} /\ Ready(meta) = {} /\ RequestedIn(meta) = {}
  BY DEF Requested, Ready, RequestedIn
<1>2. Objects = {} /\ Len(reported) = 0 /\ reported \in Seq(SequenceNumber)
  BY EmptySeq DEF Objects, ToSet
<1>3. ProducerInv
  <2>1. packets \in Seq(Publishable) /\ current \in BOOLEAN
    BY EmptySeq
  <2>2. QED
    BY <2>1 DEF ProducerInv
<1>4. MetaInv
  <2>1. ReportedOnce
    BY <1>1, <1>2 DEF ReportedOnce, Ready, IsInjective
  <2>2. QED
    BY <1>2, <2>1 DEF MetaInv, MetaState
<1>5. CountInv
  <2>1. Cardinality({}) = 0
    BY FS_EmptySet
  <2>2. Max({0}) = 0
    <3>1. {0} \in SUBSET (-1..Highest)
      BY NumbersAreFinite
    <3>2. QED
      BY <3>1, MaxIs
  <2>3. QED
    BY <1>1, <1>2, <2>1, <2>2 DEF CountInv, Counts
<1>6. LatestInv
  BY DEF LatestInv, LatestIsRequested
<1>7. PollInv
  <2>1. repeated \in BOOLEAN
    OBVIOUS
  <2>2. asked = 0 /\ timers = 0 /\ calls = 0 /\ attached = {}
    OBVIOUS
  <2>3. asked \in 0..MaxAsked /\ timers \in Nat /\ calls \in 0..MaxCalls
    BY <2>2, ObjectStreamAssumption DEF ObjectStreamAssumption
  <2>4. PollingGoesOn
    BY <2>2 DEF PollingGoesOn
  <2>5. NothingBeforeCalls
    BY <1>1 DEF NothingBeforeCalls
  <2>6. QED
    BY <2>1, <2>3, <2>4, <2>5 DEF PollInv
<1>8. QED
  BY <1>3, <1>4, <1>5, <1>6, <1>7 DEF OInv

\* Steps that report nothing.
LEMMA KeptPreserves ==
    ASSUME OInv, Kept,
           UNCHANGED <<pipelineSize, reportVars, objectVars, published>>
    PROVE  MetaInv' /\ CountInv' /\ Requested \subseteq Requested'
<1>1. Requested' = RequestedIn(meta') /\ Requested = RequestedIn(meta)
  BY DEF Requested, RequestedIn
<1>2. Objects' = Objects
  BY DEF Objects, reportVars
<1>3. ReportedOnce'
  BY <1>2 DEF OInv, MetaInv, ReportedOnce, Kept, Extends, Ready, reportVars, objectVars
<1>4. MetaInv'
  BY <1>3 DEF OInv, MetaInv, Kept, Extends, reportVars, objectVars
<1>5. CountInv'
  BY <1>1, <1>2 DEF OInv, CountInv, Kept, reportVars
<1>6. Requested \subseteq Requested'
  BY <1>1 DEF Kept, Extends
<1>7. QED
  BY <1>4, <1>5, <1>6

\* Steps of the producer and of the clock, and steps that leave all of this alone.
LEMMA ConsumerUnchanged ==
    ASSUME OInv, UNCHANGED <<pipelineSize, requestVars, reportVars, maxReported, objectVars>>,
           published \subseteq published'
    PROVE  MetaInv' /\ CountInv' /\ Requested' = Requested
<1>1. Requested' = Requested /\ Objects' = Objects
  BY DEF Requested, Objects, requestVars, reportVars
<1>2. ReportedOnce'
  BY <1>1 DEF OInv, MetaInv, ReportedOnce, requestVars, reportVars, objectVars
<1>3. MetaInv'
  BY <1>2 DEF OInv, MetaInv, requestVars, reportVars, objectVars
<1>4. CountInv'
  BY <1>1 DEF OInv, CountInv, requestVars, reportVars
<1>5. QED
  BY <1>1, <1>3, <1>4

LEMMA LatestKept ==
    ASSUME LatestInv, UNCHANGED <<packets, attached>>, fresh' \subseteq fresh,
           Requested \subseteq Requested'
    PROVE  LatestInv'
  BY DEF LatestInv, LatestIsRequested

LEMMA PollingKept ==
    ASSUME PollInv, UNCHANGED <<pipelineSize, asked, timers, calls, repeated, attached>>,
           pipelineSize = 0 /\ calls = 0 => Requested' = Requested
    PROVE  PollInv'
  BY DEF PollInv, PollingGoesOn, NothingBeforeCalls

LEMMA LikeMeta == ASSUME MetaInv PROVE Like(meta)
  BY DEF MetaInv, Like, Requested, RequestedIn

LEMMA SetObjectPreserves ==
    ASSUME OInv, NEW n \in Publishable, Publish(n)
    PROVE  OInv'
<1>1. MetaInv' /\ CountInv' /\ Requested' = Requested
  BY ConsumerUnchanged DEF Publish, SetObject
<1>2. ProducerInv'
  BY DEF Publish, SetObject, OInv, ProducerInv
<1>3. LatestInv'
  BY <1>1, LatestKept DEF Publish, OInv, latestVars
<1>4. PollInv'
  BY <1>1, PollingKept DEF Publish, OInv, latestVars, callVars
<1>5. QED
  BY <1>1, <1>2, <1>3, <1>4 DEF OInv

LEMMA MakeLatestPreserves == OInv /\ MakeLatest => OInv'
<1> SUFFICES ASSUME OInv, MakeLatest PROVE OInv'
  OBVIOUS
<1>1. MetaInv' /\ CountInv' /\ Requested' = Requested
  BY ConsumerUnchanged DEF MakeLatest
<1>2. /\ packets' = Append(packets, produced)
      /\ produced \in Publishable
      /\ packets \in Seq(Publishable)
  BY NumbersAreFinite, ObjectStreamAssumption
     DEF MakeLatest, OInv, ProducerInv, ObjectStreamAssumption
<1>3. /\ packets' \in Seq(Publishable)
      /\ Len(packets') = Len(packets) + 1
      /\ Len(packets) \in Nat
      /\ \A i \in 1..Len(packets) : packets'[i] = packets[i]
  BY <1>2, AppendProperties, LenProperties
<1>4. 1..Len(packets) \subseteq 1..Len(packets') /\ Len(packets') \in 1..Len(packets')
  BY <1>3
<1>5. ProducerInv'
  <2>1. cached' \subseteq 1..Len(packets')
    BY <1>4 DEF MakeLatest, OInv, ProducerInv
  <2>2. current' \in BOOLEAN /\ UNCHANGED <<published, produced>>
    BY DEF MakeLatest
  <2>3. QED
    BY <1>3, <2>1, <2>2 DEF OInv, ProducerInv
<1>6. LatestInv'
  <2>1. UNCHANGED <<attached, fresh>>
    BY DEF MakeLatest, latestVars
  <2>2. QED
    BY <1>1, <1>3, <1>4, <2>1 DEF OInv, LatestInv, LatestIsRequested
<1>7. PollInv'
  BY <1>1, PollingKept DEF MakeLatest, OInv, latestVars, callVars
<1>8. QED
  BY <1>1, <1>5, <1>6, <1>7 DEF OInv

\* Packets expire, and Interests for segments fail.
LEMMA ExpiryPreserves ==
    ASSUME OInv, NEW v, ExpireAtProducer \/ ExpireInNetwork(v) \/ Expire(v)
    PROVE  OInv'
<1>1. MetaInv' /\ CountInv' /\ Requested' = Requested
  BY ConsumerUnchanged DEF ExpireAtProducer, ExpireInNetwork, Expire, producerVars
<1>2. ProducerInv'
  <2>1. UNCHANGED <<published, produced, packets>> /\ cached' \subseteq cached
    BY DEF ExpireAtProducer, ExpireInNetwork, Expire, producerVars
  <2>2. current' \in BOOLEAN
    BY DEF ExpireAtProducer, ExpireInNetwork, Expire, producerVars, OInv, ProducerInv
  <2>3. QED
    BY <2>1, <2>2 DEF OInv, ProducerInv
<1>3. LatestInv'
  <2>1. UNCHANGED <<packets, attached>> /\ fresh' \subseteq fresh
    BY DEF ExpireAtProducer, ExpireInNetwork, Expire, producerVars, latestVars
  <2>2. QED
    BY <1>1, <2>1, LatestKept DEF OInv
<1>4. PollInv'
  <2>1. UNCHANGED <<pipelineSize, asked, timers, calls, repeated, attached>>
    BY DEF ExpireAtProducer, ExpireInNetwork, Expire, latestVars, callVars
  <2>2. QED
    BY <1>1, <2>1, PollingKept DEF OInv
<1>5. QED
  BY <1>1, <1>2, <1>3, <1>4 DEF OInv

\* How many polls there are after a step without a pipeline.
LEMMA PollingGrows ==
    ASSUME PollInv, UNCHANGED pipelineSize,
           asked' \in 0..MaxAsked, timers' \in Nat, calls' \in 0..MaxCalls, repeated' \in BOOLEAN,
           pipelineSize = 0 => calls' # 0,
           pipelineSize = 0 => /\ asked' + timers' <= calls'
                               /\ ~repeated' => asked' + timers' > 0
    PROVE  PollInv'
<1>1. PollingGoesOn'
  BY DEF PollingGoesOn
<1>2. NothingBeforeCalls'
  BY Zenon DEF NothingBeforeCalls
<1>3. QED
  BY <1>1, <1>2 DEF PollInv

LEMMA AskObjectPreserves == OInv /\ AskObject => OInv'
<1> SUFFICES ASSUME OInv, AskObject PROVE OInv'
  OBVIOUS
<1>1. /\ calls' = calls + 1 /\ calls < MaxCalls
      /\ UNCHANGED <<producerVars, pipelineSize, reportVars, objectVars, latestVars, repeated>>
  BY DEF AskObject
<1>2. /\ calls \in Nat /\ asked \in 0..MaxAsked /\ timers \in Nat /\ repeated \in BOOLEAN
      /\ MaxCalls \in Nat /\ MaxAsked \in Nat
  BY ObjectStreamAssumption DEF OInv, PollInv, ObjectStreamAssumption
<1>3. Kept /\ asked' \in 0..MaxAsked /\ timers' \in Nat
      /\ (pipelineSize = 0 =>
            \/ asked' + timers' = asked + timers + 1
            \/ asked' = asked /\ timers' = timers /\ Requested # {})
  <2>1. CASE NeedLatest(meta, timers)
    BY <1>2, <2>1, NeedLatestKeeps, LikeMeta DEF OInv
  <2>2. CASE attached # {} /\ OnLatest(Min(attached), meta, timers) /\ UNCHANGED asked
    <3>1. attached \subseteq 1..Len(packets) /\ attached \subseteq Nat
      BY LenProperties DEF OInv, LatestInv, ProducerInv
    <3>2. Min(attached) \in 1..Len(packets)
      BY <2>2, <3>1, MinIs
    <3>3. Kept /\ timers' = IF pipelineSize = 0 THEN timers + 1 ELSE timers
      BY <2>2, <3>2, OnLatestKeeps, LikeMeta DEF OInv
    <3>4. QED
      BY <1>2, <2>2, <3>3
  <2>3. CASE /\ \E s \in SequenceNumber : meta[s] = "OBJECT_READY"
             /\ UNCHANGED <<requestVars, maxReported, timers, asked>>
    <3>1. Kept
      BY <2>3, StayKeeps, LikeMeta DEF OInv, requestVars
    <3>2. Requested # {}
      BY <2>3 DEF Requested
    <3>3. QED
      BY <1>2, <2>3, <3>1, <3>2
  <2>4. QED
    BY <2>1, <2>2, <2>3 DEF AskObject
<1>4. MetaInv' /\ CountInv' /\ Requested \subseteq Requested'
  BY <1>1, <1>3, KeptPreserves DEF producerVars
<1>5. ProducerInv'
  BY <1>1 DEF OInv, ProducerInv, producerVars
<1>6. LatestInv'
  BY <1>1, <1>4, LatestKept DEF OInv, producerVars, latestVars
<1>7. PollInv'
  <2>1. calls' \in 0..MaxCalls /\ calls' # 0
    BY <1>1, <1>2
  <2>2. ASSUME pipelineSize = 0
        PROVE  asked' + timers' <= calls' /\ (~repeated' => asked' + timers' > 0)
    <3>1. asked + timers <= calls
      BY <2>2 DEF OInv, PollInv, PollingGoesOn
    <3>2. CASE asked' + timers' = asked + timers + 1
      BY <1>1, <1>2, <3>1, <3>2
    <3>3. CASE asked' = asked /\ timers' = timers /\ Requested # {}
      <4>1. calls > 0
        BY <1>2, <2>2, <3>3 DEF OInv, PollInv, NothingBeforeCalls
      <4>2. ~repeated => asked + timers > 0
        BY <2>2, <4>1 DEF OInv, PollInv, PollingGoesOn
      <4>3. asked' + timers' <= calls'
        BY <1>1, <1>2, <3>1, <3>3
      <4>4. QED
        BY <1>1, <3>3, <4>2, <4>3
    <3>4. QED
      BY <1>3, <2>2, <3>2, <3>3
  <2>3. QED
    BY <1>1, <1>2, <1>3, <2>1, <2>2, PollingGrows DEF OInv
<1>8. QED
  BY <1>4, <1>5, <1>6, <1>7 DEF OInv

LEMMA SetPipelineSizePreserves ==
    ASSUME OInv, NEW size \in Sizes, SetPipelineSize(size)
    PROVE  OInv'
<1>1. /\ pipelineSize' = size
      /\ size = 0 <=> pipelineSize = 0
      /\ UNCHANGED <<producerVars, requestVars, reportVars, maxReported, objectVars>>
      /\ UNCHANGED <<asked, timers, latestVars, callVars>>
  BY DEF SetPipelineSize
<1>2. Requested' = Requested /\ Objects' = Objects
  BY <1>1 DEF Requested, Objects, requestVars, reportVars
<1>3. ReportedOnce'
  BY <1>1, <1>2
     DEF OInv, MetaInv, ReportedOnce, requestVars, reportVars, objectVars, producerVars
<1>4. MetaInv'
  BY <1>1, <1>3 DEF OInv, MetaInv, requestVars, reportVars, objectVars, producerVars
<1>5. CountInv'
  <2>1. size \in Nat /\ pipelineSize \in Nat
    BY ObjectStreamAssumption DEF OInv, MetaInv, ObjectStreamAssumption
  <2>2. size > 0 => pipelineSize > 0
    BY <1>1, <2>1
  <2>3. Counts(size, Requested, Objects, nRequested, nReported, maxRequested)
    BY <1>1, <2>2 DEF OInv, CountInv, Counts
  <2>4. QED
    BY <1>1, <1>2, <2>3 DEF OInv, CountInv, requestVars, reportVars
<1>6. ProducerInv'
  BY <1>1 DEF OInv, ProducerInv, producerVars
<1>7. LatestInv'
  BY <1>1, <1>2, LatestKept DEF OInv, producerVars, latestVars
<1>8. PollInv'
  BY <1>1, <1>2 DEF OInv, PollInv, PollingGoesOn, NothingBeforeCalls, latestVars, callVars
<1>9. QED
  BY <1>3, <1>4, <1>5, <1>6, <1>7, <1>8 DEF OInv

\* An Interest for _latest, or a timer, is there because the application has asked.
LEMMA SomeoneAsked ==
    ASSUME PollInv, asked + timers > 0, pipelineSize = 0
    PROVE  calls # 0 /\ asked + timers <= calls
<1>1. asked \in Nat /\ timers \in Nat /\ calls \in Nat /\ asked + timers <= calls
  BY ObjectStreamAssumption DEF PollInv, PollingGoesOn, ObjectStreamAssumption
<1>2. QED
  BY <1>1

LEMMA OnLatestDataPreserves ==
    ASSUME OInv, NEW v, OnLatestData(v)
    PROVE  OInv'
<1>1. /\ asked > 0 /\ v \in cached /\ asked' = asked - 1
      /\ UNCHANGED <<producerVars, pipelineSize, reportVars, objectVars, calls>>
  BY DEF OnLatestData
<1>2. /\ asked \in 0..MaxAsked /\ timers \in Nat /\ calls \in 0..MaxCalls /\ MaxAsked \in Nat
      /\ repeated \in BOOLEAN
      /\ v \in 1..Len(packets)
  BY <1>1, ObjectStreamAssumption
     DEF OInv, PollInv, ProducerInv, ObjectStreamAssumption
<1>3. asked' \in 0..MaxAsked
  BY <1>1, <1>2
<1>4. ProducerInv'
  BY <1>1 DEF OInv, ProducerInv, producerVars
<1>5. ASSUME pipelineSize = 0 PROVE calls # 0 /\ asked + timers <= calls
  <2>1. asked + timers > 0
    BY <1>1, <1>2
  <2>2. QED
    BY <1>5, <2>1, SomeoneAsked DEF OInv
<1>6. CASE /\ v \in attached /\ repeated' = TRUE
           /\ UNCHANGED <<requestVars, maxReported, timers, latestVars>>
  <2>1. MetaInv' /\ CountInv' /\ Requested' = Requested
    BY <1>1, <1>6, ConsumerUnchanged DEF producerVars
  <2>2. LatestInv'
    BY <1>1, <1>6, <2>1, LatestKept DEF OInv, producerVars, latestVars
  <2>3. pipelineSize = 0 => asked' + timers' <= calls'
    BY <1>1, <1>2, <1>5, <1>6
  <2>4. repeated' \in BOOLEAN /\ repeated'
    BY <1>6
  <2>5. PollInv'
    <3>1. PollingGoesOn'
      BY <1>1, <2>3, <2>4 DEF PollingGoesOn
    <3>2. NothingBeforeCalls'
      BY <1>1, <1>5 DEF NothingBeforeCalls
    <3>3. QED
      BY <1>1, <1>2, <1>3, <1>6, <2>4, <3>1, <3>2 DEF PollInv
  <2>6. QED
    BY <1>4, <2>1, <2>2, <2>5 DEF OInv
<1>7. CASE /\ v \notin attached
           /\ attached' = attached \union {v}
           /\ fresh' = fresh \union {v}
           /\ OnLatest(v, meta, timers)
           /\ UNCHANGED repeated
  <2>1. /\ Kept
        /\ packets[v] \in RequestedIn(meta')
        /\ timers' = IF pipelineSize = 0 THEN timers + 1 ELSE timers
    BY <1>2, <1>7, OnLatestKeeps, LikeMeta DEF OInv
  <2>2. MetaInv' /\ CountInv' /\ Requested \subseteq Requested'
    BY <1>1, <2>1, KeptPreserves DEF producerVars
  <2>3. LatestInv'
    <3>1. packets' = packets /\ packets[v] \in Requested'
      BY <1>1, <2>1 DEF producerVars, Requested, RequestedIn
    <3>2. attached' \subseteq 1..Len(packets') /\ fresh' \subseteq attached'
      BY <1>2, <1>7, <3>1 DEF OInv, LatestInv
    <3>3. LatestIsRequested'
      BY <1>7, <2>2, <3>1 DEF OInv, LatestInv, LatestIsRequested
    <3>4. QED
      BY <3>2, <3>3 DEF LatestInv
  <2>4. timers' \in Nat
    BY <1>2, <2>1
  <2>5. ASSUME pipelineSize = 0
        PROVE  calls' # 0 /\ asked' + timers' <= calls' /\ asked' + timers' > 0
    BY <1>1, <1>2, <1>5, <2>1, <2>5
  <2>6. PollInv'
    BY <1>1, <1>2, <1>3, <1>7, <2>4, <2>5, PollingGrows DEF OInv
  <2>7. QED
    BY <1>4, <2>2, <2>3, <2>6 DEF OInv
<1>8. QED
  BY <1>6, <1>7 DEF OnLatestData

LEMMA OnLatestTimeoutPreserves == OInv /\ OnLatestTimeout => OInv'
<1> SUFFICES ASSUME OInv, OnLatestTimeout PROVE OInv'
  OBVIOUS
<1>1. /\ asked > 0 /\ asked' = asked - 1 /\ timers' = timers + 1
      /\ UNCHANGED <<producerVars, pipelineSize, requestVars, reportVars, maxReported>>
      /\ UNCHANGED <<objectVars, latestVars, callVars>>
  BY DEF OnLatestTimeout
<1>2. /\ asked \in 0..MaxAsked /\ timers \in Nat /\ calls \in 0..MaxCalls /\ MaxAsked \in Nat
      /\ repeated \in BOOLEAN
  BY ObjectStreamAssumption DEF OInv, PollInv, ObjectStreamAssumption
<1>3. asked' \in 0..MaxAsked /\ timers' \in Nat /\ asked' + timers' = asked + timers
      /\ asked + timers > 0
  BY <1>1, <1>2
<1>4. MetaInv' /\ CountInv' /\ Requested' = Requested
  BY <1>1, ConsumerUnchanged DEF producerVars
<1>5. ProducerInv'
  BY <1>1 DEF OInv, ProducerInv, producerVars
<1>6. LatestInv'
  BY <1>1, <1>4, LatestKept DEF OInv, producerVars, latestVars
<1>7. UNCHANGED <<calls, repeated>>
  BY <1>1 DEF callVars
<1>8. pipelineSize = 0 => calls # 0 /\ asked + timers <= calls
  BY <1>3, SomeoneAsked DEF OInv
<1>9. PollInv'
  BY <1>1, <1>2, <1>3, <1>7, <1>8, PollingGrows DEF OInv
<1>10. QED
  BY <1>4, <1>5, <1>6, <1>9 DEF OInv

LEMMA PollPreserves == OInv /\ Poll => OInv'
<1> SUFFICES ASSUME OInv, Poll PROVE OInv'
  OBVIOUS
<1>1. /\ timers > 0 /\ NeedLatest(meta, timers - 1)
      /\ UNCHANGED <<producerVars, pipelineSize, reportVars, objectVars, latestVars, callVars>>
  BY DEF Poll
<1>2. /\ asked \in 0..MaxAsked /\ timers \in Nat /\ calls \in 0..MaxCalls /\ MaxAsked \in Nat
      /\ repeated \in BOOLEAN
  BY ObjectStreamAssumption DEF OInv, PollInv, ObjectStreamAssumption
<1>3. /\ Kept
      /\ \/ asked' = asked /\ timers' = IF pipelineSize = 0 THEN (timers - 1) + 1 ELSE timers - 1
         \/ asked < MaxAsked /\ asked' = asked + 1 /\ timers' = timers - 1
  BY <1>1, NeedLatestKeeps, LikeMeta DEF OInv
<1>4. /\ asked' \in 0..MaxAsked /\ timers' \in Nat
      /\ pipelineSize = 0 => asked' + timers' = asked + timers
      /\ asked + timers > 0
  BY <1>1, <1>2, <1>3
<1>5. MetaInv' /\ CountInv' /\ Requested \subseteq Requested'
  BY <1>1, <1>3, KeptPreserves DEF producerVars
<1>6. ProducerInv'
  BY <1>1 DEF OInv, ProducerInv, producerVars
<1>7. LatestInv'
  BY <1>1, <1>5, LatestKept DEF OInv, producerVars, latestVars
<1>8. UNCHANGED <<calls, repeated>>
  BY <1>1 DEF callVars
<1>9. pipelineSize = 0 => calls # 0 /\ asked + timers <= calls
  BY <1>4, SomeoneAsked DEF OInv
<1>10. PollInv'
  BY <1>1, <1>2, <1>4, <1>8, <1>9, PollingGrows DEF OInv
<1>11. QED
  BY <1>5, <1>6, <1>7, <1>10 DEF OInv

\* A _meta packet that comes belongs to a number that is neither reported nor under way.
LEMMA NewlyReady ==
    ASSUME OInv, NEW s \in SequenceNumber, meta[s] = "INTEREST_EXPRESSED",
           NEW m, m = [meta EXCEPT ![s] = "OBJECT_READY"]
    PROVE  /\ m \in [SequenceNumber -> MetaState]
           /\ Ready(m) = Ready(meta) \union {s}
           /\ RequestedIn(m) = Requested
           /\ s \in Requested
           /\ s \notin Objects \union assembling \union failed
<1>1. meta \in [SequenceNumber -> MetaState] /\ ReportedOnce
  BY DEF OInv, MetaInv
<1>2. m \in [SequenceNumber -> MetaState]
  BY <1>1 DEF MetaState
<1>3. Ready(m) = Ready(meta) \union {s} /\ RequestedIn(m) = Requested /\ s \in Requested
  BY <1>1 DEF Ready, RequestedIn, Requested
<1>4. s \notin Objects \union assembling \union failed
  BY <1>1 DEF ReportedOnce
<1>5. QED
  BY <1>2, <1>3, <1>4

\* A number that is requested keeps NothingBeforeCalls.
LEMMA RequestedAfterCalls ==
    ASSUME PollInv, NEW s, s \in Requested
    PROVE  ~(pipelineSize = 0 /\ calls = 0)
  BY DEF PollInv, NothingBeforeCalls

LEMMA OnMetaPreserves ==
    ASSUME OInv, NEW s \in SequenceNumber, OnMeta(s)
    PROVE  OInv'
<1> DEFINE m == [meta EXCEPT ![s] = "OBJECT_READY"]
<1>1. /\ meta[s] = "INTEREST_EXPRESSED" /\ s \in published
      /\ UNCHANGED <<producerVars, pipelineSize, asked, timers, latestVars, callVars>>
      /\ \/ /\ meta' = m
            /\ \/ s \in Segmented /\ assembling' = assembling \union {s} /\ UNCHANGED failed
               \/ s \in Malformed /\ failed' = failed \union {s} /\ UNCHANGED assembling
            /\ UNCHANGED <<nRequested, maxRequested, reportVars, maxReported>>
         \/ OnGeneralizedObject(s, m) /\ UNCHANGED objectVars
  BY DEF OnMeta, objectVars
<1>2. /\ m \in [SequenceNumber -> MetaState]
      /\ Ready(m) = Ready(meta) \union {s}
      /\ RequestedIn(m) = Requested
      /\ s \in Requested
      /\ s \notin Objects \union assembling \union failed
  BY <1>1, NewlyReady
<1> HIDE DEF m
<1>3. Requested' = RequestedIn(meta')
  BY DEF Requested, RequestedIn
<1>4. ReportedOnce /\ Objects \union assembling \union failed = Ready(meta)
  BY DEF OInv, MetaInv, ReportedOnce, Ready
<1>5. /\ MetaInv' /\ CountInv' /\ Requested \subseteq Requested'
  <2>1. CASE /\ meta' = m
             /\ \/ s \in Segmented /\ assembling' = assembling \union {s} /\ UNCHANGED failed
                \/ s \in Malformed /\ failed' = failed \union {s} /\ UNCHANGED assembling
             /\ UNCHANGED <<nRequested, maxRequested, reportVars, maxReported>>
    <3>1. Objects' = Objects /\ Requested' = Requested
      BY <1>2, <1>3, <2>1 DEF Objects, reportVars
    <3>2. Objects' \union assembling' \union failed' = Ready(meta')
      BY <1>1, <1>2, <1>4, <2>1, <3>1
    <3>3. ReportedOnce'
      BY <1>1, <1>2, <1>4, <2>1, <3>1, <3>2 DEF ReportedOnce, Ready, reportVars, producerVars
    <3>4. MetaInv'
      BY <1>1, <1>2, <2>1, <3>3 DEF OInv, MetaInv, reportVars, producerVars
    <3>5. CountInv'
      BY <1>1, <2>1, <3>1 DEF OInv, CountInv, reportVars
    <3>6. QED
      BY <3>1, <3>4, <3>5
  <2>2. CASE OnGeneralizedObject(s, m) /\ UNCHANGED <<assembling, failed>>
    <3>1. /\ CountInv'
          /\ Extends(m)
          /\ reported' \in Seq(SequenceNumber)
          /\ IsInjective(reported')
          /\ Objects' = Objects \union {s}
          /\ maxReported' \in SequenceNumber \union {-1}
      BY <1>1, <1>2, <2>2, ReportKeeps
    <3>2. Objects' \union assembling' \union failed' = Ready(meta')
      BY <1>1, <1>2, <1>4, <2>2, <3>1 DEF Extends
    <3>3. ReportedOnce'
      BY <1>1, <1>2, <1>4, <2>2, <3>1, <3>2 DEF ReportedOnce, Ready, producerVars
    <3>4. MetaInv'
      BY <1>1, <2>2, <3>1, <3>3 DEF OInv, MetaInv, Extends, producerVars
    <3>5. Requested \subseteq Requested'
      BY <1>2, <1>3, <3>1 DEF Extends
    <3>6. QED
      BY <3>1, <3>4, <3>5
  <2>3. QED
    BY <1>1, <2>1, <2>2 DEF objectVars
<1>6. ProducerInv'
  BY <1>1 DEF OInv, ProducerInv, producerVars
<1>7. LatestInv'
  BY <1>1, <1>5, LatestKept DEF OInv, producerVars, latestVars
<1>8. PollInv'
  BY <1>1, <1>2, PollingKept, RequestedAfterCalls DEF OInv, latestVars, callVars
<1>9. QED
  BY <1>5, <1>6, <1>7, <1>8 DEF OInv

LEMMA OnMetaTimeoutPreserves ==
    ASSUME OInv, NEW s \in SequenceNumber, OnMetaTimeout(s)
    PROVE  OInv'
<1> DEFINE m == [meta EXCEPT ![s] = "INTEREST_TIMEOUT"]
<1>1. /\ meta[s] = "INTEREST_EXPRESSED"
      /\ UNCHANGED <<producerVars, pipelineSize, reportVars, objectVars, latestVars, callVars>>
      /\ \/ pipelineSize > 0 /\ NeedLatest(m, timers)
         \/ /\ meta' = m
            /\ UNCHANGED <<nRequested, maxRequested, maxReported, asked, timers>>
  BY DEF OnMetaTimeout
<1>2. Like(m) /\ s \in Requested
  BY <1>1 DEF OInv, MetaInv, Like, Ready, RequestedIn, Requested, MetaState
<1> HIDE DEF m
<1>3. /\ asked \in 0..MaxAsked /\ timers \in Nat /\ calls \in 0..MaxCalls /\ MaxAsked \in Nat
      /\ repeated \in BOOLEAN
  BY ObjectStreamAssumption DEF OInv, PollInv, ObjectStreamAssumption
<1>4. pipelineSize \in Nat
  BY ObjectStreamAssumption DEF OInv, MetaInv, ObjectStreamAssumption
<1>5. Kept /\ PollInv'
  <2>1. CASE pipelineSize > 0 /\ NeedLatest(m, timers)
    <3>1. /\ Kept
          /\ \/ asked' = asked /\ timers' = IF pipelineSize = 0 THEN timers + 1 ELSE timers
             \/ asked < MaxAsked /\ asked' = asked + 1 /\ timers' = timers
      BY <1>2, <2>1, NeedLatestKeeps
    <3>2. asked' \in 0..MaxAsked /\ timers' \in Nat
      BY <1>3, <3>1
    <3>3. pipelineSize # 0
      BY <1>4, <2>1
    <3>4. UNCHANGED <<calls, repeated>>
      BY <1>1 DEF callVars
    <3>5. QED
      BY <1>1, <1>3, <3>1, <3>2, <3>3, <3>4, PollingGrows DEF OInv
  <2>2. CASE meta' = m /\ UNCHANGED <<nRequested, maxRequested, maxReported, asked, timers>>
    <3>1. Kept
      BY <1>2, <2>2, StayKeeps DEF OInv
    <3>2. PollInv'
      BY <1>1, <1>2, <2>2, PollingKept, RequestedAfterCalls DEF OInv, latestVars, callVars
    <3>3. QED
      BY <3>1, <3>2
  <2>3. QED
    BY <1>1, <2>1, <2>2
<1>6. MetaInv' /\ CountInv' /\ Requested \subseteq Requested'
  BY <1>1, <1>5, KeptPreserves DEF producerVars
<1>7. ProducerInv'
  BY <1>1 DEF OInv, ProducerInv, producerVars
<1>8. LatestInv'
  BY <1>1, <1>6, LatestKept DEF OInv, producerVars, latestVars
<1>9. QED
  BY <1>5, <1>6, <1>7, <1>8 DEF OInv

\* An object that is under way was requested and not reported.
LEMMA UnderWay ==
    ASSUME OInv, NEW s \in assembling
    PROVE  /\ s \in SequenceNumber /\ s \in Requested
           /\ s \in published /\ s \notin Objects /\ s \notin failed
           /\ s \in Segmented
           /\ ReportedOnce /\ Objects \union assembling \union failed = Ready(meta)
  BY DEF OInv, MetaInv, ReportedOnce, Ready, Requested

LEMMA OnSegmentedObjectPreserves ==
    ASSUME OInv, NEW s \in SequenceNumber, OnSegmentedObject(s)
    PROVE  OInv'
<1>1. /\ s \in assembling /\ assembling' = assembling \ {s} /\ OnGeneralizedObject(s, meta)
      /\ UNCHANGED <<producerVars, pipelineSize, failed, asked, timers, latestVars, callVars>>
  BY DEF OnSegmentedObject
<1>2. /\ s \in Requested
      /\ s \in published /\ s \notin Objects /\ s \notin failed
      /\ ReportedOnce /\ Objects \union assembling \union failed = Ready(meta)
  BY <1>1, UnderWay
<1>3. Requested' = RequestedIn(meta') /\ Requested = RequestedIn(meta)
  BY DEF Requested, RequestedIn
<1>4. /\ CountInv'
      /\ Extends(meta)
      /\ reported' \in Seq(SequenceNumber)
      /\ IsInjective(reported')
      /\ Objects' = Objects \union {s}
      /\ maxReported' \in SequenceNumber \union {-1}
  BY <1>1, <1>2, <1>3, ReportKeeps DEF OInv, MetaInv
<1>5. Objects' \union assembling' \union failed' = Ready(meta')
  BY <1>1, <1>2, <1>4 DEF Extends
<1>6. ReportedOnce'
  BY <1>1, <1>2, <1>4, <1>5 DEF ReportedOnce, Ready, producerVars
<1>7. MetaInv'
  BY <1>1, <1>4, <1>6 DEF OInv, MetaInv, Extends, producerVars
<1>8. ProducerInv'
  BY <1>1 DEF OInv, ProducerInv, producerVars
<1>9. LatestInv'
  BY <1>1, <1>3, <1>4, LatestKept DEF OInv, Extends, producerVars, latestVars
<1>10. PollInv'
  BY <1>1, <1>2, PollingKept, RequestedAfterCalls DEF OInv, latestVars, callVars
<1>11. QED
  BY <1>4, <1>7, <1>8, <1>9, <1>10 DEF OInv

LEMMA SegmentsFailPreserves ==
    ASSUME OInv, NEW s \in SequenceNumber, SegmentsFail(s)
    PROVE  OInv'
<1>1. /\ s \in assembling /\ assembling' = assembling \ {s} /\ failed' = failed \union {s}
      /\ UNCHANGED <<producerVars, pipelineSize, requestVars, reportVars, maxReported>>
      /\ UNCHANGED <<asked, timers, latestVars, callVars>>
  BY DEF SegmentsFail
<1>2. /\ s \notin Objects /\ s \notin failed /\ s \in Segmented
      /\ ReportedOnce /\ Objects \union assembling \union failed = Ready(meta)
  BY <1>1, UnderWay
<1>3. Requested' = Requested /\ Objects' = Objects /\ Ready(meta') = Ready(meta)
  BY <1>1 DEF Requested, Objects, Ready, requestVars, reportVars
<1>4. ReportedOnce'
  BY <1>1, <1>2, <1>3 DEF ReportedOnce, Ready, reportVars, producerVars
<1>5. MetaInv'
  BY <1>1, <1>2, <1>4 DEF OInv, MetaInv, requestVars, reportVars, producerVars
<1>6. CountInv'
  BY <1>1, <1>3 DEF OInv, CountInv, requestVars, reportVars
<1>7. ProducerInv'
  BY <1>1 DEF OInv, ProducerInv, producerVars
<1>8. LatestInv'
  BY <1>1, <1>3, LatestKept DEF OInv, producerVars, latestVars
<1>9. PollInv'
  BY <1>1, <1>3, PollingKept DEF OInv, latestVars, callVars
<1>10. QED
  BY <1>5, <1>6, <1>7, <1>8, <1>9 DEF OInv

LEMMA NextPreserves == OInv /\ [Next]_vars => OInv'
<1> SUFFICES ASSUME OInv, [Next]_vars PROVE OInv'
  OBVIOUS
<1>1. CASE AskObject \/ MakeLatest \/ ExpireAtProducer \/ OnLatestTimeout \/ Poll
  BY <1>1, AskObjectPreserves, MakeLatestPreserves, ExpiryPreserves,
     OnLatestTimeoutPreserves, PollPreserves
<1>2. CASE \E n \in Publishable : Publish(n)
  BY <1>2, SetObjectPreserves
<1>3. CASE \E size \in Sizes : SetPipelineSize(size)
  BY <1>3, SetPipelineSizePreserves
<1>4. CASE \E v \in 1..MaxVersions : ExpireInNetwork(v) \/ Expire(v) \/ OnLatestData(v)
  BY <1>4, ExpiryPreserves, OnLatestDataPreserves
<1>5. CASE \E s \in SequenceNumber :
              OnMeta(s) \/ OnMetaTimeout(s) \/ OnSegmentedObject(s) \/ SegmentsFail(s)
  BY <1>5, OnMetaPreserves, OnMetaTimeoutPreserves, OnSegmentedObjectPreserves,
     SegmentsFailPreserves
<1>6. CASE UNCHANGED vars
  <2>1. /\ UNCHANGED <<producerVars, pipelineSize, requestVars, reportVars, maxReported>>
        /\ UNCHANGED <<objectVars, asked, timers, latestVars, callVars>>
    BY <1>6 DEF vars
  <2>2. MetaInv' /\ CountInv' /\ Requested' = Requested
    BY <2>1, ConsumerUnchanged DEF producerVars
  <2>3. ProducerInv'
    BY <2>1 DEF OInv, ProducerInv, producerVars
  <2>4. LatestInv'
    BY <2>1, <2>2, LatestKept DEF OInv, producerVars, latestVars
  <2>5. PollInv'
    BY <2>1, <2>2, PollingKept DEF OInv, latestVars, callVars
  <2>6. QED
    BY <2>2, <2>3, <2>4, <2>5 DEF OInv
<1>7. QED
  BY <1>1, <1>2, <1>3, <1>4, <1>5, <1>6 DEF Next

LEMMA Invariance == Spec => []OInv
  BY InitEstablishes, NextPreserves, PTL DEF Spec

-----------------------------------------------------------------------------
(* What is proved of the two programs.                                      *)

\* In every behaviour of a producer and a consumer of a stream, for every set of numbers
\* and of pipeline sizes, the handler's counters agree with what was requested and
\* reported: nReportedSequenceNumbers_ is the number of callbacks,
\* nRequestedSequenceNumbers_ never exceeds the numbers requested, and
\* maxRequestedSequenceNumber_ is the largest of them
\* (generalized-object-stream-handler.cpp:200-206, 237-243, 247-279).
THEOREM StreamCountersAgree == Spec => []TypeOK
<1>1. OInv => TypeOK
  <2> SUFFICES ASSUME OInv PROVE TypeOK
    OBVIOUS
  <2>1. /\ Objects \in SUBSET SequenceNumber /\ Requested \ Objects \in SUBSET SequenceNumber
        /\ Objects \cap (Requested \ Objects) = {}
        /\ Objects \union (Requested \ Objects) = Requested
    BY ObjectsAreRequested DEF OInv, Requested
  <2>2. /\ Cardinality(Requested) = Cardinality(Objects) + Cardinality(Requested \ Objects)
        /\ Cardinality(Objects) \in Nat /\ Cardinality(Requested \ Objects) \in Nat
    BY <2>1, PartsOf
  <2>3. /\ nRequested \in Nat
        /\ nReported = Cardinality(Objects)
        /\ nRequested - nReported <= Cardinality(Requested \ Objects)
    BY DEF OInv, CountInv, Counts
  <2>4. nRequested \in 0..Cardinality(Requested)
    BY <2>2, <2>3
  <2>5. pipelineSize > 0 => maxRequested = Max(Requested \union {0})
    BY DEF OInv, CountInv, Counts
  <2>6. nReported = Len(reported)
    BY DEF OInv, CountInv
  <2>7. /\ asked \in 0..MaxAsked /\ timers \in Nat /\ calls \in 0..MaxCalls
        /\ repeated \in BOOLEAN
    BY DEF OInv, PollInv
  <2>8. attached \subseteq 1..Len(packets) /\ fresh \subseteq attached
    BY DEF OInv, LatestInv
  <2>9. QED
    BY <2>4, <2>5, <2>6, <2>7, <2>8 DEF TypeOK, OInv, ProducerInv, MetaInv
<1>2. QED
  BY Invariance, <1>1, PTL

\* No object is reported twice or before it was published, and each one whose _meta packet
\* has come is reported, under way, failed or malformed, whatever the polls of _latest, the late
\* packets and the changes of the pipeline's size do in between
\* (generalized-object-handler.cpp:148-179).
THEOREM StreamReportsOnce == Spec => []ReportedOnce
<1>1. OInv => ReportedOnce
  BY DEF OInv, MetaInv
<1>2. QED
  BY Invariance, <1>1, PTL

\* The reset of the counters at a _latest packet and the late reports of requests that it
\* forgot leave the pipeline as full as its smallest size, and never with more outstanding
\* than was requested (generalized-object-stream-handler.cpp:200-206, 237-243, 247-279).
THEOREM StreamHoldsItsPipeline == Spec => []PipelineIsHeld
<1>1. OInv => PipelineIsHeld
  BY DEF OInv, CountInv, Counts, PipelineIsHeld
<1>2. QED
  BY Invariance, <1>1, PTL

\* An object that a _latest packet named has been requested, with and without a pipeline
\* (generalized-object-stream-handler.cpp:184-206).
THEOREM StreamRequestsLatest == Spec => []LatestIsRequested
<1>1. OInv => LatestIsRequested
  BY DEF OInv, LatestInv
<1>2. QED
  BY Invariance, <1>1, PTL

\* Without a pipeline the polls of _latest neither stop nor multiply: there are as many
\* Interests and timers as calls of the application, until an answer repeats a packet
\* (generalized-object-stream-handler.cpp:138-142, 209-218).
THEOREM StreamKeepsPolling == Spec => []PollingGoesOn
<1>1. OInv => PollingGoesOn
  BY DEF OInv, PollInv
<1>2. QED
  BY Invariance, <1>1, PTL
=============================================================================
