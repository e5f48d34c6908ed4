------------------------- MODULE SegmentPublish_proofs -------------------------
(***************************************************************************)
(* Proofs about SegmentPublish, for all objects, payload lengths and        *)
(* sequences of calls.                                                      *)
(***************************************************************************)
EXTENDS SegmentPublish, FiniteSetTheorems, FunctionTheorems, SequenceTheorems,
        WellFoundedInduction, TLAPS

\* How many segments the loop makes.
Count(o, max) == Cardinality(Offsets(o, max))

CallType ==
    [object : Objects, max : Payloads, manifest : BOOLEAN, other : BOOLEAN, ok : BOOLEAN]

\* The segments of a call, and their packets.
Numbers(c) == 0..(Count(c.object, c.max) - 1)

PacketOf(c, s) == Packet(c.object, c.max, s, c.manifest)

HasSegments(c) == Len(c.object) > c.max \/ c.other

NoPackets == \A s \in Segment : packets[s] = NoPacket

-----------------------------------------------------------------------------
(* The parts of the inductive invariant.                                    *)

\* Where packets and calls come from, and that the consumer has what it has reported.
StateOK ==
    /\ generalized \in BOOLEAN
    /\ \A s \in Segment : packets[s] # NoPacket =>
          \E c \in CallType : s \in Numbers(c) /\ packets[s] = PacketOf(c, s)
    /\ nodeObject \in Objects \union {NoPacket}
    /\ calls \in Seq(CallType)
    /\ Len(calls) <= MaxCalls
    /\ generalized => \A i \in DOMAIN calls : calls[i].manifest
    /\ got \subseteq {s \in Segment : packets[s] # NoPacket}
    /\ \E b \in Nat : got \subseteq 0..b
    /\ final \in Segment \union {-1}
    /\ nReported \in Nat
    /\ 0..(nReported - 1) \subseteq got
    /\ done \in BOOLEAN

\* Call c failed, and its last repetition did too.
Retried(c) ==
    /\ calls # << >>
    /\ ~calls[Len(calls)].ok
    /\ SameArguments(calls[Len(calls)], c)

\* All segments of call c have packets.
Whole(c) == \A s \in Numbers(c) : packets[s] # NoPacket

\* The packets of call c were attached first.
CameFirst(c) ==
    /\ c.object # << >>
    /\ packets[0] # NoPacket
    /\ \A s \in Numbers(c) : packets[s] \in {NoPacket, PacketOf(c, s)}
    /\ Whole(c) \/ (Retried(c) /\ ~c.manifest)

\* The packets are those of one call, until the packets of a longer object begin.
PacketsOK == NoPackets \/ \E i \in DOMAIN calls : CameFirst(calls[i])

\* The consumer goes by the final number that the first packets have.
ConsumerOK ==
    IF NoPackets
      THEN nReported = 0 /\ ~done
      ELSE IF done
        THEN nReported = packets[0].final + 1
        ELSE nReported \notin got /\ nReported <= packets[0].final

\* The manifest is that of the call whose packets came first, or is still to be signed.
ManifestOK ==
    calls # << >> /\ calls[1].manifest =>
        IF manifest = NoPacket
          THEN \/ generalized /\ NoPackets
               \/ \E i \in DOMAIN calls :
                     /\ calls[i].manifest
                     /\ Retried(calls[i])
                     /\ generalized => HasSegments(calls[i])
                     /\ NoPackets \/ CameFirst(calls[i])
          ELSE manifest[1] # Zeros =>
                  \E i \in DOMAIN calls :
                     /\ calls[i].manifest
                     /\ CameFirst(calls[i])
                     /\ manifest = ManifestOf(calls[i].object, calls[i].max)

\* The _meta packet is that of the first call, or is still to be signed.
MetaOK ==
    IF generalized /\ calls # << >>
      THEN /\ IF meta = NoPacket THEN Retried(calls[1])
                                 ELSE meta = MetaOf(calls[1].object, HasSegments(calls[1]))
           /\ HasSegments(calls[1]) /\ calls[1].object # << >> => CameFirst(calls[1])
      ELSE meta = NoPacket

\* What holds before the first call.
BeforeCalls == calls = << >> => NoPackets /\ manifest = NoPacket

PublishInv ==
    /\ StateOK
    /\ BeforeCalls
    /\ Repeats => PacketsOK /\ ConsumerOK /\ ManifestOK /\ MetaOK

-----------------------------------------------------------------------------
(* Arithmetic of the segments.                                              *)

\* What m divides are its multiples.
LEMMA Remainder ==
    ASSUME NEW m \in Nat \ {0}
    PROVE  /\ \A x \in Nat : x % m = 0 => \E s \in Nat : x = s * m
           /\ \A s \in Nat : (s * m) % m = 0
<1>1. ASSUME NEW x \in Nat, x % m = 0 PROVE x \div m \in Nat /\ x = (x \div m) * m
  BY <1>1
<1>2. ASSUME NEW s \in Nat PROVE (s * m) % m = 0
  BY <1>2
<1>3. QED
  BY <1>1, <1>2

\* Multiples of m are in the order of their factors.
LEMMA Multiples ==
    ASSUME NEW m \in Nat \ {0}, NEW s \in Nat, NEW t \in Nat
    PROVE  /\ s * m \in Nat
           /\ s < t => (s + 1) * m <= t * m /\ s * m < t * m
           /\ s * m < t * m => s < t
           /\ s * m = t * m => s = t
           /\ (s + 1) * m = s * m + m
           /\ s <= s * m
<1>1. (s + 1) * m = s * m + m /\ s * m \in Nat /\ t * m \in Nat
  OBVIOUS
<1>2. ASSUME NEW a \in Nat, NEW b \in Nat, a < b PROVE (a + 1) * m <= b * m /\ a * m < b * m
  <2>1. b - a - 1 \in Nat
    BY <1>2
  <2>2. (b - a - 1) * m >= 0
    BY <2>1
  <2>3. QED
    BY <2>2
<1>3. s < t \/ t < s \/ s = t
  OBVIOUS
<1>4. s <= s * m
  OBVIOUS
<1>5. QED
  BY <1>1, <1>2, <1>3, <1>4

\* A set of numbers that is not empty has a smallest element.
LEMMA SmallestIn ==
    ASSUME NEW S \in SUBSET Nat, S # {}
    PROVE  \E x \in S : \A y \in S : x <= y
<1>1. PICK x \in S : \A y \in S : ~(<<y, x>> \in OpToRel(<, Nat))
  BY NatLessThanWellFounded, WFMin
<1>2. ASSUME NEW y \in S PROVE x <= y
  <2>1. x \in Nat /\ y \in Nat
    OBVIOUS
  <2>2. <<y, x>> \in Nat \X Nat /\ <<y, x>>[1] = y /\ <<y, x>>[2] = x
    BY <2>1
  <2>3. y < x => <<y, x>> \in OpToRel(<, Nat)
    BY <2>2 DEF OpToRel
  <2>4. ~(y < x)
    BY <1>1, <2>3
  <2>5. QED
    BY <2>1, <2>4
<1>3. QED
  BY <1>2

\* The offsets below n that m divides are as many as it takes to reach n in steps of m.
LEMMA OffsetsAre ==
    ASSUME NEW n \in Nat, NEW m \in Nat \ {0}
    PROVE  \E k \in Nat :
              /\ Cardinality({x \in 0..(n - 1) : x % m = 0}) = k
              /\ n <= k * m
              /\ \A s \in 0..(k - 1) : s * m < n
<1> DEFINE offsets == {x \in 0..(n - 1) : x % m = 0}
<1>1. PICK k \in Nat : n <= k * m /\ \A l \in Nat : n <= l * m => k <= l
  <2> DEFINE enough == {l \in Nat : n <= l * m}
  <2>1. n \in enough
    BY Multiples
  <2>2. PICK k \in enough : \A l \in enough : k <= l
    BY <2>1, SmallestIn
  <2>3. QED
    BY <2>2
<1>2. ASSUME NEW s \in 0..(k - 1) PROVE s * m < n
  <2>1. s \in Nat /\ ~(k <= s) /\ s * m \in Nat
    BY Multiples
  <2>2. QED
    BY <1>1, <2>1
<1> DEFINE f == [s \in 0..(k - 1) |-> s * m]
<1>3. f \in [0..(k - 1) -> offsets]
  <2>1. ASSUME NEW s \in 0..(k - 1) PROVE s * m \in offsets
    <3>1. s \in Nat /\ s * m \in Nat /\ s * m < n /\ (s * m) % m = 0
      BY <1>2, Multiples, Remainder
    <3>2. QED
      BY <3>1
  <2>2. QED
    BY <2>1
<1>4. ASSUME NEW s \in 0..(k - 1), NEW t \in 0..(k - 1), f[s] = f[t] PROVE s = t
  <2>1. s \in Nat /\ t \in Nat /\ s * m = t * m
    BY <1>4
  <2>2. QED
    BY <2>1, Multiples
<1>5. ASSUME NEW x \in offsets PROVE \E s \in 0..(k - 1) : f[s] = x
  <2>1. PICK s \in Nat : x = s * m
    <3>1. x \in Nat /\ x % m = 0
      OBVIOUS
    <3>2. QED
      BY <3>1, Remainder
  <2>2. x \in Nat /\ x < n /\ k * m \in Nat
    BY Multiples
  <2>3. s * m < k * m
    BY <1>1, <2>1, <2>2
  <2>4. s < k
    BY <2>3, Multiples
  <2>5. s \in 0..(k - 1)
    BY <2>4
  <2>6. QED
    BY <2>1, <2>5
<1> HIDE DEF f, offsets
<1>6. f \in Bijection(0..(k - 1), offsets)
  BY <1>3, <1>4, <1>5, Fun_IsBij
<1>7. IsFiniteSet(0..(k - 1)) /\ Cardinality(0..(k - 1)) = k
  <2>1. /\ IsFiniteSet(0..(k - 1))
        /\ Cardinality(0..(k - 1)) = IF 0 > k - 1 THEN 0 ELSE k - 1 - 0 + 1
    BY FS_Interval
  <2>2. \A y \in Nat : (IF 0 > y - 1 THEN 0 ELSE y - 1 - 0 + 1) = y
    OBVIOUS
  <2>3. QED
    BY ONLY <1>1, <2>1, <2>2
<1>8. Cardinality(offsets) = k
  <2>1. ExistsBijection(0..(k - 1), offsets)
    BY <1>6, Fun_ExistsBij
  <2>2. QED
    BY <1>7, <2>1, FS_Bijection
<1>9. QED
  BY <1>1, <1>2, <1>8 DEF offsets

\* How many bytes the segments below i have.
UpTo(o, max, i) == IF i = Count(o, max) THEN Len(o) ELSE i * max

\* An object has a segment for each of its bytes, and the last has the rest of them.
LEMMA CountIs ==
    ASSUME NEW S, NEW o \in Seq(S), NEW max \in Nat \ {0}
    PROVE  /\ Count(o, max) \in 0..Len(o)
           /\ o # << >> => Count(o, max) > 0 /\ FinalSegment(o, max) = Count(o, max) - 1
           /\ o = << >> => Count(o, max) = 0 /\ FinalSegment(o, max) = 0
           /\ UpTo(o, max, 0) = 0
           /\ \A s \in 0..(Count(o, max) - 1) :
                 /\ s * max \in Nat
                 /\ UpTo(o, max, s) = s * max
                 /\ UpTo(o, max, s + 1) = IF s * max + max > Len(o) THEN Len(o) ELSE s * max + max
                 /\ UpTo(o, max, s + 1) \in (s * max + 1)..(s * max + max)
                 /\ UpTo(o, max, s + 1) <= Len(o)
<1> DEFINE n == Len(o)
<1>1. n \in Nat /\ (o = << >> <=> n = 0)
  BY EmptySeq
<1>2. PICK k \in Nat :
          /\ Count(o, max) = k
          /\ n <= k * max
          /\ \A s \in 0..(k - 1) : s * max < n
  BY <1>1, OffsetsAre DEF Count, Offsets
<1> HIDE DEF n
<1>3. k \in 0..n
  <2>1. CASE k = 0
    BY <1>1, <2>1
  <2>2. CASE k # 0
    <3>1. k - 1 \in Nat /\ (k - 1) * max < n /\ k - 1 <= (k - 1) * max
      <4>1. k - 1 \in Nat /\ k - 1 \in 0..(k - 1)
        BY <2>2
      <4>2. QED
        BY <1>2, <4>1, Multiples
    <3>2. (k - 1) * max \in Nat
      BY <3>1, Multiples
    <3>3. QED
      BY <1>1, <2>2, <3>1, <3>2
  <2>3. QED
    BY <2>1, <2>2
<1>4. n > 0 => k > 0
  BY <1>1, <1>2
<1>5. FinalSegment(o, max) = IF o = << >> THEN 0 ELSE k - 1
  BY <1>2 DEF FinalSegment, Count
<1>6. UpTo(o, max, 0) = 0
  <2>1. CASE k = 0
    BY <1>1, <1>2, <1>4, <2>1 DEF UpTo, n
  <2>2. CASE k # 0
    BY <1>2, <2>2 DEF UpTo
  <2>3. QED
    BY <2>1, <2>2
<1>7. ASSUME NEW s \in 0..(k - 1)
      PROVE  /\ s * max \in Nat
             /\ UpTo(o, max, s) = s * max
             /\ UpTo(o, max, s + 1) = IF s * max + max > n THEN n ELSE s * max + max
             /\ UpTo(o, max, s + 1) \in (s * max + 1)..(s * max + max)
             /\ UpTo(o, max, s + 1) <= n
  <2>1. s \in Nat /\ s # k /\ s < k /\ s + 1 \in Nat
    OBVIOUS
  <2>2. s * max \in Nat /\ (s + 1) * max = s * max + max
    BY <2>1, Multiples
  <2>3. s * max < n
    BY <1>2
  <2>4. UpTo(o, max, s) = s * max
    BY <1>2, <2>1 DEF UpTo
  <2>5. CASE s + 1 = k
    <3>1. UpTo(o, max, s + 1) = n /\ n <= s * max + max
      BY <1>2, <2>2, <2>5 DEF UpTo, n
    <3>2. QED
      BY <1>1, <2>2, <2>3, <2>4, <3>1
  <2>6. CASE s + 1 # k
    <3>1. UpTo(o, max, s + 1) = s * max + max
      BY <1>2, <2>2, <2>6 DEF UpTo
    <3>2. s + 1 \in 0..(k - 1)
      BY <2>1, <2>6
    <3>3. s * max + max < n
      BY <1>2, <2>2, <3>2
    <3>4. QED
      BY <1>1, <2>2, <2>3, <2>4, <3>1, <3>3
  <2>7. QED
    BY <2>5, <2>6
<1>8. QED
  BY <1>1, <1>2, <1>3, <1>4, <1>5, <1>6, <1>7 DEF n

-----------------------------------------------------------------------------
(* The payloads of an object, one after the other.                          *)

\* A segment has at least one byte and at most max.
LEMMA PayloadIs ==
    ASSUME NEW S, NEW o \in Seq(S), NEW max \in Nat \ {0}, NEW s \in 0..(Count(o, max) - 1)
    PROVE  LET p == Payload(o, max, s) IN
           /\ p \in Seq(S)
           /\ Len(p) = UpTo(o, max, s + 1) - s * max
           /\ Len(p) \in 1..max
           /\ \A i \in 1..Len(p) : p[i] = o[s * max + i]
<1> DEFINE a == s * max
           b == UpTo(o, max, s + 1)
           n == Len(o)
<1>1. /\ a \in Nat /\ b \in (a + 1)..(a + max) /\ b <= n /\ n \in Nat
      /\ b = IF a + max > n THEN n ELSE a + max
  BY CountIs
<1> HIDE DEF a, b, n
<1>2. /\ a \in Int /\ b \in Int /\ a + 1 \in Int /\ a < b
      /\ \A i \in (a + 1)..b : i \in 1..n
  BY <1>1
<1>3. Payload(o, max, s) = SubSeq(o, a + 1, b)
  <2>1. (IF a + max > n THEN n - a ELSE max) = b - a /\ a + (b - a) = b
    BY <1>1
  <2>2. Payload(o, max, s) = SubSeq(o, a + 1, a + (IF a + max > n THEN n - a ELSE max))
    BY DEF Payload, a, n
  <2>3. QED
    BY <2>1, <2>2
<1>4. \A i \in (a + 1)..b : o[i] \in S
  BY <1>2, ElementOfSeq DEF n
<1>5. LET p == SubSeq(o, a + 1, b) IN
      /\ p \in Seq(S)
      /\ Len(p) = IF a + 1 <= b THEN b - (a + 1) + 1 ELSE 0
      /\ \A i \in 1..(b - (a + 1) + 1) : p[i] = o[a + 1 + i - 1]
  BY <1>2, <1>4, SubSeqProperties
<1>6. Len(SubSeq(o, a + 1, b)) = b - a
  BY <1>2, <1>5
<1>7. b - a \in 1..max
  BY <1>1
<1>8. ASSUME NEW i \in 1..(b - a) PROVE SubSeq(o, a + 1, b)[i] = o[a + i]
  <2>1. i \in 1..(b - (a + 1) + 1) /\ a + 1 + i - 1 = a + i
    BY <1>2
  <2>2. QED
    BY <1>5, <2>1
<1>9. QED
  BY <1>3, <1>5, <1>6, <1>7, <1>8 DEF a, b

\* The first n bytes of an object.
LEMMA FirstBytes ==
    ASSUME NEW S, NEW o \in Seq(S), NEW n \in 0..Len(o)
    PROVE  LET p == SubSeq(o, 1, n) IN
           p \in Seq(S) /\ Len(p) = n /\ \A i \in 1..n : p[i] = o[i]
<1>1. n \in Nat /\ 1 \in Int /\ n \in Int /\ Len(o) \in Nat
  OBVIOUS
<1>2. \A i \in 1..n : o[i] \in S
  BY <1>1, ElementOfSeq
<1>3. LET p == SubSeq(o, 1, n) IN
      /\ p \in Seq(S)
      /\ Len(p) = IF 1 <= n THEN n - 1 + 1 ELSE 0
      /\ \A i \in 1..(n - 1 + 1) : p[i] = o[1 + i - 1]
  BY <1>1, <1>2, SubSeqProperties
<1>4. Len(SubSeq(o, 1, n)) = n
  BY <1>1, <1>3
<1>5. ASSUME NEW i \in 1..n PROVE SubSeq(o, 1, n)[i] = o[i]
  <2>1. i \in 1..(n - 1 + 1) /\ 1 + i - 1 = i
    BY <1>1
  <2>2. QED
    BY <1>3, <2>1
<1>6. QED
  BY <1>3, <1>4, <1>5

\* The value of f at i is what the first i sequences make when they are joined.
Joins(f, seqs, n) == f = [i \in 1..n |-> IF i = 1 THEN seqs[i] ELSE f[i - 1] \o seqs[i]]

\* There is only one such function, that which FlattenSeq is defined by.
LEMMA FlattenIs ==
    ASSUME NEW seqs, NEW n \in Nat \ {0}, Len(seqs) = n, NEW g, Joins(g, seqs, n)
    PROVE  FlattenSeq(seqs) = g[n]
<1> DEFINE h == CHOOSE f : Joins(f, seqs, n)
<1>1. Joins(g, seqs, n) /\ Joins(h, seqs, n)
  OBVIOUS
<1>2. FlattenSeq(seqs) = h[n]
  BY DEF FlattenSeq, Joins
<1>3. /\ \A i \in 1..n : g[i] = IF i = 1 THEN seqs[i] ELSE g[i - 1] \o seqs[i]
      /\ \A i \in 1..n : h[i] = IF i = 1 THEN seqs[i] ELSE h[i - 1] \o seqs[i]
  <2> HIDE DEF h
  <2>1. ASSUME NEW f, Joins(f, seqs, n), NEW i \in 1..n
        PROVE  f[i] = IF i = 1 THEN seqs[i] ELSE f[i - 1] \o seqs[i]
    BY <2>1 DEF Joins
  <2>2. QED
    BY <1>1, <2>1
<1> HIDE DEF h
<1> DEFINE differ == {i \in 1..n : h[i] # g[i]}
<1>4. CASE differ = {}
  <2>1. n \in 1..n
    OBVIOUS
  <2>2. QED
    BY <1>2, <1>4, <2>1
<1>5. CASE differ # {}
  <2>1. differ \in SUBSET Nat
    OBVIOUS
  <2>2. PICK i \in differ : \A j \in differ : i <= j
    BY <1>5, <2>1, SmallestIn
  <2>3. i \in 1..n /\ i \in Nat /\ h[i] # g[i]
    OBVIOUS
  <2>4. i # 1
    BY <1>3, <2>3
  <2>5. i - 1 \in 1..n /\ ~(i <= i - 1)
    BY <2>3, <2>4
  <2>6. h[i - 1] = g[i - 1]
    BY <2>2, <2>5
  <2>7. h[i] = h[i - 1] \o seqs[i] /\ g[i] = g[i - 1] \o seqs[i]
    BY <1>3, <2>3, <2>4
  <2>8. QED
    BY <2>3, <2>6, <2>7
<1>6. QED
  BY <1>4, <1>5

\* The payloads of an object that is not empty make up the object.
LEMMA PayloadsMakeObject ==
    ASSUME NEW S, NEW o \in Seq(S), o # << >>, NEW max \in Nat \ {0}
    PROVE  FlattenSeq([i \in 1..Count(o, max) |-> Payload(o, max, i - 1)]) = o
<1> DEFINE n == Count(o, max)
           seqs == [i \in 1..n |-> Payload(o, max, i - 1)]
           g == [i \in 1..n |-> SubSeq(o, 1, UpTo(o, max, i))]
<1>1. n \in Nat \ {0} /\ Len(o) \in Nat
  BY CountIs
<1>2. ASSUME NEW i \in 1..n
      PROVE  /\ i - 1 \in 0..(n - 1) /\ (i - 1) + 1 = i
             /\ UpTo(o, max, i) \in 0..Len(o)
             /\ UpTo(o, max, i - 1) = (i - 1) * max
             /\ (i - 1) * max \in 0..Len(o)
             /\ seqs[i] \in Seq(S)
             /\ Len(seqs[i]) = UpTo(o, max, i) - (i - 1) * max
             /\ \A j \in 1..Len(seqs[i]) : seqs[i][j] = o[(i - 1) * max + j]
  <2>1. i - 1 \in 0..(n - 1) /\ (i - 1) + 1 = i
    BY <1>1
  <2>2. PICK s \in 0..(n - 1) : s = i - 1 /\ s + 1 = i
    BY <2>1
  <2>3. seqs[i] = Payload(o, max, s)
    BY <2>2
  <2> HIDE DEF seqs, n
  <2>4. /\ s * max \in Nat /\ UpTo(o, max, s) = s * max
        /\ UpTo(o, max, s + 1) \in (s * max + 1)..(s * max + max)
        /\ UpTo(o, max, s + 1) <= Len(o)
    BY CountIs DEF n
  <2>5. UpTo(o, max, i) \in 0..Len(o) /\ s * max \in 0..Len(o)
    BY <1>1, <2>2, <2>4
  <2>6. /\ seqs[i] \in Seq(S)
        /\ Len(seqs[i]) = UpTo(o, max, s + 1) - s * max
        /\ \A j \in 1..Len(seqs[i]) : seqs[i][j] = o[s * max + j]
    BY <2>3, PayloadIs DEF n
  <2>7. QED
    BY <2>1, <2>2, <2>4, <2>5, <2>6
<1>3. ASSUME NEW i \in 1..n
      PROVE  g[i] \in Seq(S) /\ Len(g[i]) = UpTo(o, max, i) /\ \A j \in 1..Len(g[i]) : g[i][j] = o[j]
  <2>1. g[i] = SubSeq(o, 1, UpTo(o, max, i)) /\ UpTo(o, max, i) \in 0..Len(o)
    BY <1>2
  <2> HIDE DEF g, seqs, n
  <2>2. QED
    BY <2>1, FirstBytes
<1>4. ASSUME NEW i \in 1..n PROVE g[i] = IF i = 1 THEN seqs[i] ELSE g[i - 1] \o seqs[i]
  <2> DEFINE a == (i - 1) * max
  <2>1. /\ a \in Nat /\ Len(seqs[i]) \in Nat /\ Len(g[i]) = a + Len(seqs[i])
        /\ seqs[i] \in Seq(S) /\ g[i] \in Seq(S)
        /\ \A j \in 1..Len(seqs[i]) : seqs[i][j] = o[a + j]
        /\ \A j \in 1..Len(g[i]) : g[i][j] = o[j]
    <3> HIDE DEF g, seqs, n
    <3>1. a \in 0..Len(o) /\ UpTo(o, max, i) \in 0..Len(o)
      BY <1>2
    <3>2. Len(seqs[i]) = UpTo(o, max, i) - a /\ seqs[i] \in Seq(S) /\ Len(seqs[i]) \in Nat
      BY <1>2, LenProperties
    <3>3. Len(g[i]) = a + Len(seqs[i])
      BY <1>3, <3>1, <3>2
    <3>4. QED
      BY <1>2, <1>3, <3>1, <3>2, <3>3
  <2>2. CASE i = 1
    <3>1. a = 0
      BY <2>2
    <3> HIDE DEF g, seqs, n, a
    <3>2. Len(g[i]) = Len(seqs[i])
      BY <2>1, <3>1
    <3>3. \A j \in 1..Len(g[i]) : g[i][j] = seqs[i][j]
      BY <2>1, <3>1, <3>2
    <3>4. g[i] = seqs[i]
      BY <2>1, <3>2, <3>3, SeqEqual
    <3>5. QED
      BY <2>2, <3>4
  <2>3. CASE i # 1
    <3>1. i - 1 \in 1..n
      BY <1>1, <2>3
    <3>2. Len(g[i - 1]) = a /\ g[i - 1] \in Seq(S) /\ \A j \in 1..a : g[i - 1][j] = o[j]
      <4> HIDE DEF g, seqs, n
      <4>1. g[i - 1] \in Seq(S) /\ Len(g[i - 1]) = UpTo(o, max, i - 1) /\ \A j \in 1..Len(g[i - 1]) : g[i - 1][j] = o[j]
        BY <1>3, <3>1
      <4>2. UpTo(o, max, i - 1) = a
        BY <1>2
      <4>3. QED
        BY <4>1, <4>2
    <3> HIDE DEF g, seqs, n, a
    <3>3. LET t == g[i - 1] \o seqs[i] IN
          /\ t \in Seq(S)
          /\ Len(t) = Len(g[i - 1]) + Len(seqs[i])
          /\ \A j \in 1..(Len(g[i - 1]) + Len(seqs[i])) :
                t[j] = IF j <= Len(g[i - 1]) THEN g[i - 1][j] ELSE seqs[i][j - Len(g[i - 1])]
      BY <2>1, <3>2, ConcatProperties
    <3>4. ASSUME NEW j \in 1..(a + Len(seqs[i]))
          PROVE  (g[i - 1] \o seqs[i])[j] = o[j]
      <4>1. CASE j <= a
        <5>1. j \in 1..a
          BY <2>1, <4>1
        <5>2. QED
          BY <3>2, <3>3, <4>1, <5>1
      <4>2. CASE ~(j <= a)
        <5>1. j - a \in 1..Len(seqs[i]) /\ a + (j - a) = j
          BY <2>1, <4>2
        <5>2. seqs[i][j - a] = o[j]
          BY <2>1, <5>1
        <5>3. QED
          BY <3>2, <3>3, <4>2, <5>2
      <4>3. QED
        BY <4>1, <4>2
    <3>5. Len(g[i - 1] \o seqs[i]) = Len(g[i])
      BY <2>1, <3>2, <3>3
    <3>6. \A j \in 1..Len(g[i]) : g[i][j] = (g[i - 1] \o seqs[i])[j]
      BY <2>1, <3>4
    <3>7. g[i] = g[i - 1] \o seqs[i]
      BY <2>1, <3>3, <3>5, <3>6, SeqEqual
    <3>8. QED
      BY <2>3, <3>7
  <2>4. QED
    BY <2>2, <2>3
<1>5. Joins(g, seqs, n)
  <2>1. g = [i \in 1..n |-> g[i]]
    OBVIOUS
  <2> HIDE DEF g, seqs, n
  <2>2. QED
    BY <1>4, <2>1 DEF Joins
<1>6. Len(seqs) = n
  BY <1>1
<1>7. n \in 1..n /\ g[n] = SubSeq(o, 1, Len(o))
  BY <1>1 DEF UpTo
<1> HIDE DEF g, seqs, n
<1>8. FlattenSeq(seqs) = g[n]
  BY <1>1, <1>5, <1>6, FlattenIs
<1>9. SubSeq(o, 1, Len(o)) = o
  <2>1. Len(o) \in 0..Len(o)
    BY <1>1
  <2>2. LET p == SubSeq(o, 1, Len(o)) IN
        p \in Seq(S) /\ Len(p) = Len(o) /\ \A i \in 1..Len(o) : p[i] = o[i]
    BY <2>1, FirstBytes
  <2>3. QED
    BY <2>2, SeqEqual
<1>10. QED
  BY <1>7, <1>8, <1>9 DEF seqs, n

-----------------------------------------------------------------------------
(* What a call does.                                                        *)

LEMMA SegmentsAreNumbers == Segment \subseteq Nat
<1>1. \A o \in Objects : Len(o) \in Nat
  BY PublishAssumption, LenProperties DEF PublishAssumption
<1>2. QED
  BY <1>1 DEF Segment

\* The arguments of a call and its packets.
LEMMA CallIs ==
    ASSUME NEW c \in CallType
    PROVE  /\ c.object \in Objects /\ c.max \in Payloads /\ c.max \in Nat \ {0}
           /\ c.manifest \in BOOLEAN /\ c.other \in BOOLEAN /\ c.ok \in BOOLEAN
           /\ c.object \in Seq(Range(c.object))
           /\ Count(c.object, c.max) \in Nat /\ Numbers(c) \subseteq Segment
           /\ 0 \in Segment
           /\ c.object # << >> => 0 \in Numbers(c) /\ Count(c.object, c.max) > 0
           /\ c.object = << >> => Numbers(c) = {} /\ Count(c.object, c.max) = 0
           /\ FinalSegment(c.object, c.max) \in Segment
           /\ c.object # << >> => FinalSegment(c.object, c.max) = Count(c.object, c.max) - 1
           /\ \A s \in Segment : PacketOf(c, s) # NoPacket
           /\ ManifestOf(c.object, c.max) # NoPacket
           /\ MetaOf(c.object, HasSegments(c)) # NoPacket
<1>1. /\ c.object \in Objects /\ c.max \in Payloads /\ c.max \in Nat \ {0}
      /\ c.manifest \in BOOLEAN /\ c.other \in BOOLEAN /\ c.ok \in BOOLEAN
      /\ c.object \in Seq(Range(c.object))
  BY PublishAssumption DEF CallType, PublishAssumption
<1> DEFINE n == Len(c.object)
           k == Count(c.object, c.max)
<1>2. n \in Nat /\ 0..n \subseteq Segment
  BY <1>1, LenProperties DEF Segment
<1>3. /\ k \in 0..n
      /\ c.object # << >> => k > 0 /\ FinalSegment(c.object, c.max) = k - 1
      /\ c.object = << >> => k = 0 /\ FinalSegment(c.object, c.max) = 0
  BY <1>1, CountIs
<1> HIDE DEF n, k
<1>4. /\ k \in Nat /\ 0..(k - 1) \subseteq Segment /\ 0 \in Segment
      /\ c.object # << >> => 0 \in 0..(k - 1)
      /\ c.object = << >> => 0..(k - 1) = {}
      /\ FinalSegment(c.object, c.max) \in 0..n
  BY <1>2, <1>3
<1>5. Numbers(c) = 0..(k - 1)
  BY DEF Numbers, k
<1>6. HasSegments(c) \in BOOLEAN
  BY DEF HasSegments
<1>7. /\ \A s \in Segment : PacketOf(c, s) # NoPacket
      /\ ManifestOf(c.object, c.max) # NoPacket
      /\ MetaOf(c.object, HasSegments(c)) # NoPacket
  BY <1>1, <1>6, NoPacketAssumption DEF NoPacketAssumption, PacketOf
<1>8. QED
  BY <1>1, <1>2, <1>3, <1>4, <1>5, <1>7 DEF k

\* Calls with the same arguments differ at most in what could be signed.
LEMMA ArgumentsAre ==
    ASSUME NEW c \in CallType, NEW d \in CallType, SameArguments(c, d)
    PROVE  /\ c.object = d.object /\ c.max = d.max /\ c.manifest = d.manifest
           /\ c.other = d.other
           /\ Numbers(c) = Numbers(d) /\ (HasSegments(c) <=> HasSegments(d))
           /\ \A s : PacketOf(c, s) = PacketOf(d, s)
<1>1. [c EXCEPT !.ok = TRUE] = [d EXCEPT !.ok = TRUE]
  BY DEF SameArguments
<1>2. /\ [c EXCEPT !.ok = TRUE].object = c.object /\ [d EXCEPT !.ok = TRUE].object = d.object
      /\ [c EXCEPT !.ok = TRUE].max = c.max /\ [d EXCEPT !.ok = TRUE].max = d.max
      /\ [c EXCEPT !.ok = TRUE].manifest = c.manifest /\ [d EXCEPT !.ok = TRUE].manifest = d.manifest
      /\ [c EXCEPT !.ok = TRUE].other = c.other /\ [d EXCEPT !.ok = TRUE].other = d.other
  BY DEF CallType
<1>3. c.object = d.object /\ c.max = d.max /\ c.manifest = d.manifest /\ c.other = d.other
  BY <1>1, <1>2
<1>4. QED
  BY <1>3 DEF Numbers, HasSegments, PacketOf

\* The segments below k that have no packet get that of call c.
Takes(c, k) ==
    \A s \in Segment :
        packets'[s] = IF s < k /\ packets[s] = NoPacket THEN PacketOf(c, s) ELSE packets[s]

\* The call cuts its object into segments.
Cuts(c) == ~generalized \/ HasSegments(c)

\* What is left of call c, of either handler, in the state after it.
Makes(c) ==
    /\ Len(calls) < MaxCalls
    /\ calls' = Append(calls, c)
    /\ generalized' = generalized
    /\ generalized => c.manifest
    /\ \E k \in 0..Count(c.object, c.max) :
          /\ Takes(c, k)
          /\ IF Cuts(c) THEN k = Count(c.object, c.max) \/ (~c.manifest /\ ~c.ok) ELSE k = 0
    /\ nodeObject' \in {nodeObject, c.object}
    /\ \/ manifest' = manifest /\ ~(Cuts(c) /\ c.manifest /\ c.ok)
       \/ manifest' = Attached(manifest, ManifestOf(c.object, c.max)) /\ Cuts(c) /\ c.manifest
    /\ \/ meta' = meta /\ ~(generalized /\ c.ok)
       \/ meta' = Attached(meta, MetaOf(c.object, HasSegments(c))) /\ generalized
    /\ got' = got /\ final' = final /\ nReported' = nReported /\ done' = done

LEMMA PutSegmentsIs ==
    ASSUME NEW c \in CallType, NEW k \in Nat, PutSegments(c.object, c.max, c.manifest, k)
    PROVE  Takes(c, k)
BY DEF PutSegments, Takes, Attached, PacketOf

LEMMA SetSegmentsIs ==
    ASSUME NEW c \in CallType, NEW ok \in BOOLEAN,
           SetSegments(c.object, c.max, c.manifest, ok)
    PROVE  /\ \E k \in 0..Count(c.object, c.max) :
                 /\ Takes(c, k)
                 /\ k = Count(c.object, c.max) \/ (~c.manifest /\ ~ok)
           /\ nodeObject' \in {nodeObject, c.object}
           /\ \/ manifest' = manifest /\ ~(c.manifest /\ ok)
              \/ manifest' = Attached(manifest, ManifestOf(c.object, c.max)) /\ c.manifest
<1> DEFINE n == Count(c.object, c.max)
<1>1. n \in Nat /\ c.manifest \in BOOLEAN
  BY CallIs
<1>2. \/ /\ PutSegments(c.object, c.max, c.manifest, n)
         /\ IF c.manifest THEN PutManifest(c.object, c.max, ok)
                          ELSE ok /\ UNCHANGED <<manifest, manifestObject>>
         /\ nodeObject' = c.object
      \/ /\ ~c.manifest /\ ~ok
         /\ \E k \in 0..(n - 1) : PutSegments(c.object, c.max, c.manifest, k)
         /\ UNCHANGED <<manifest, manifestObject, nodeObject>>
  BY DEF SetSegments, Count
<1> HIDE DEF n
<1>3. CASE /\ PutSegments(c.object, c.max, c.manifest, n)
           /\ IF c.manifest THEN PutManifest(c.object, c.max, ok)
                            ELSE ok /\ UNCHANGED <<manifest, manifestObject>>
           /\ nodeObject' = c.object
  <2>1. Takes(c, n) /\ n \in 0..n
    BY <1>1, <1>3, PutSegmentsIs
  <2>2. \/ manifest' = manifest /\ ~(c.manifest /\ ok)
        \/ manifest' = Attached(manifest, ManifestOf(c.object, c.max)) /\ c.manifest
    BY <1>3 DEF PutManifest
  <2>3. QED
    BY <1>3, <2>1, <2>2 DEF n
<1>4. CASE /\ ~c.manifest /\ ~ok
           /\ \E k \in 0..(n - 1) : PutSegments(c.object, c.max, c.manifest, k)
           /\ UNCHANGED <<manifest, manifestObject, nodeObject>>
  <2>1. PICK k \in 0..(n - 1) : PutSegments(c.object, c.max, c.manifest, k)
    BY <1>4
  <2>2. k \in Nat /\ k \in 0..n
    BY <1>1
  <2>3. Takes(c, k)
    BY <2>1, <2>2, PutSegmentsIs
  <2>4. QED
    BY <1>4, <2>2, <2>3 DEF n
<1>5. QED
  BY <1>2, <1>3, <1>4

LEMMA SetObjectIs ==
    ASSUME SetObject
    PROVE  \E c \in CallType : Makes(c)
<1>1. PICK o \in Objects, max \in Payloads, useManifest \in BOOLEAN, ok \in BOOLEAN :
          SetSegments(o, max, useManifest, ok) /\ Call(o, max, useManifest, FALSE, ok)
  BY DEF SetObject
<1> DEFINE c == [object |-> o, max |-> max, manifest |-> useManifest, other |-> FALSE, ok |-> ok]
<1>2. /\ c \in CallType
      /\ c.object = o /\ c.max = max /\ c.manifest = useManifest /\ c.ok = ok
  BY DEF CallType
<1>3. calls' = Append(calls, c)
  BY <1>1 DEF Call
<1> HIDE DEF c
<1>4. /\ \E k \in 0..Count(c.object, c.max) :
            /\ Takes(c, k)
            /\ k = Count(c.object, c.max) \/ (~c.manifest /\ ~c.ok)
      /\ nodeObject' \in {nodeObject, c.object}
      /\ \/ manifest' = manifest /\ ~(c.manifest /\ c.ok)
         \/ manifest' = Attached(manifest, ManifestOf(c.object, c.max)) /\ c.manifest
  BY <1>1, <1>2, SetSegmentsIs
<1>5. /\ ~generalized /\ Len(calls) < MaxCalls
      /\ generalized' = generalized /\ meta' = meta
      /\ got' = got /\ final' = final /\ nReported' = nReported /\ done' = done
  BY DEF SetObject, consumer
<1>6. QED
  BY <1>2, <1>3, <1>4, <1>5 DEF Makes, Cuts

LEMMA SetGeneralizedObjectIs ==
    ASSUME SetGeneralizedObject
    PROVE  \E c \in CallType : Makes(c)
<1>1. PICK o \in Objects, max \in Payloads, other \in BOOLEAN, metaSigned \in BOOLEAN, ok \in BOOLEAN :
          LET hasSegments == Len(o) > max \/ other IN
          /\ PutMeta(o, hasSegments, metaSigned)
          /\ IF hasSegments
               THEN SetSegments(o, max, TRUE, ok)
               ELSE /\ ok
                    /\ nodeObject' = o
                    /\ UNCHANGED <<packets, manifest, manifestObject>>
          /\ Call(o, max, TRUE, other, metaSigned /\ ok)
  BY DEF SetGeneralizedObject
<1> DEFINE c == [object |-> o, max |-> max, manifest |-> TRUE, other |-> other,
                 ok |-> metaSigned /\ ok]
<1>2. c.object = o /\ c.max = max /\ c.manifest /\ c.other = other /\ (c.ok <=> metaSigned /\ ok)
  OBVIOUS
<1>3. c \in CallType
  BY DEF CallType
<1>4. calls' = Append(calls, c)
  BY <1>1 DEF Call
<1> HIDE DEF c
<1>5. /\ generalized /\ Len(calls) < MaxCalls /\ generalized' = generalized
      /\ got' = got /\ final' = final /\ nReported' = nReported /\ done' = done
  BY DEF SetGeneralizedObject, consumer
<1>6. \/ meta' = meta /\ ~c.ok
      \/ meta' = Attached(meta, MetaOf(c.object, HasSegments(c)))
  BY <1>1, <1>2 DEF PutMeta, HasSegments
<1>7. Count(c.object, c.max) \in Nat
  BY <1>3, CallIs
<1>8. CASE HasSegments(c)
  <2>1. SetSegments(c.object, c.max, c.manifest, ok)
    BY <1>1, <1>2, <1>8 DEF HasSegments
  <2>2. /\ \E k \in 0..Count(c.object, c.max) :
              /\ Takes(c, k)
              /\ k = Count(c.object, c.max) \/ (~c.manifest /\ ~ok)
        /\ nodeObject' \in {nodeObject, c.object}
        /\ \/ manifest' = manifest /\ ~(c.manifest /\ ok)
           \/ manifest' = Attached(manifest, ManifestOf(c.object, c.max)) /\ c.manifest
    BY <1>3, <2>1, SetSegmentsIs
  <2>3. QED
    BY <1>2, <1>3, <1>4, <1>5, <1>6, <1>8, <2>2 DEF Makes, Cuts
<1>9. CASE ~HasSegments(c)
  <2>1. nodeObject' = c.object /\ packets' = packets /\ manifest' = manifest
    BY <1>1, <1>2, <1>9 DEF HasSegments
  <2>2. 0 \in 0..Count(c.object, c.max) /\ Takes(c, 0)
    BY <1>7, <2>1, SegmentsAreNumbers DEF Takes
  <2>3. QED
    BY <1>2, <1>3, <1>4, <1>5, <1>6, <1>9, <2>1, <2>2 DEF Makes, Cuts
<1>10. QED
  BY <1>8, <1>9

\* A step is a call, a packet that arrives, or none.
LEMMA StepIs ==
    ASSUME [Next]_vars
    PROVE  \/ \E c \in CallType : Makes(c)
           \/ \E s \in Segment : Receive(s)
           \/ UNCHANGED vars
BY SetObjectIs, SetGeneralizedObjectIs DEF Next

\* The calls after a call.
LEMMA CallsAfter ==
    ASSUME StateOK, NEW c \in CallType, Makes(c)
    PROVE  /\ Len(calls) \in Nat /\ DOMAIN calls = 1..Len(calls)
           /\ \A i \in DOMAIN calls : calls[i] \in CallType /\ calls'[i] = calls[i]
           /\ calls' \in Seq(CallType) /\ calls' # << >>
           /\ Len(calls') = Len(calls) + 1 /\ DOMAIN calls' = 1..(Len(calls) + 1)
           /\ calls'[Len(calls) + 1] = c
           /\ calls = << >> => calls'[1] = c
           /\ calls # << >> =>
                 /\ 1 \in DOMAIN calls /\ Len(calls) \in DOMAIN calls
                 /\ calls'[1] = calls[1] /\ Len(calls) \in 1..(Len(calls') - 1)
<1>1. calls \in Seq(CallType) /\ calls' = Append(calls, c)
  BY DEF StateOK, Makes
<1>2. /\ Append(calls, c) \in Seq(CallType)
      /\ Len(Append(calls, c)) = Len(calls) + 1
      /\ \A i \in 1..Len(calls) : Append(calls, c)[i] = calls[i]
      /\ Append(calls, c)[Len(calls) + 1] = c
  BY <1>1, AppendProperties
<1>3. Len(calls) \in Nat /\ DOMAIN calls = 1..Len(calls) /\ DOMAIN calls' = 1..Len(calls')
  BY <1>1, <1>2, LenProperties
<1>4. \A i \in 1..Len(calls) : calls[i] \in CallType
  BY <1>1, ElementOfSeq
<1>5. calls = << >> <=> Len(calls) = 0
  BY <1>1, EmptySeq
<1>6. calls' # << >>
  <2>1. Len(calls') # 0
    BY <1>1, <1>2, <1>3
  <2>2. QED
    BY <2>1
<1> DEFINE n == Len(calls)
<1> HIDE DEF n
<1>7. calls # << >> => 1 \in 1..n /\ n \in 1..n /\ n \in 1..(n + 1 - 1)
  BY <1>3, <1>5 DEF n
<1>8. calls = << >> => n + 1 = 1
  BY <1>5 DEF n
<1>9. QED
  BY <1>1, <1>2, <1>3, <1>4, <1>6, <1>7, <1>8 DEF n

\* A call after one that failed repeats it.
LEMMA RepeatsIs ==
    ASSUME StateOK, NEW c \in CallType, Makes(c), Repeats'
    PROVE  /\ Repeats
           /\ \A b \in CallType : Retried(b) => SameArguments(c, b)
<1> DEFINE n == Len(calls)
<1>1. /\ n \in Nat /\ \A i \in 1..n : calls'[i] = calls[i]
      /\ Len(calls') = n + 1 /\ calls'[n + 1] = c
      /\ calls # << >> => n \in 1..n
  BY CallsAfter
<1> HIDE DEF n
<1>2. \A i \in 1..(Len(calls') - 1) : ~calls'[i].ok => SameArguments(calls'[i], calls'[i + 1])
  BY DEF Repeats, SameArguments
<1>3. ASSUME NEW i \in 1..(n - 1), ~calls[i].ok PROVE SameArguments(calls[i], calls[i + 1])
  <2>1. i \in 1..n /\ i + 1 \in 1..n /\ i \in 1..(n + 1 - 1)
    BY <1>1
  <2>2. QED
    BY <1>1, <1>2, <1>3, <2>1
<1>4. ASSUME NEW b \in CallType, Retried(b) PROVE SameArguments(c, b)
  <2>1. calls # << >> /\ ~calls[n].ok /\ SameArguments(calls[n], b)
    BY <1>4 DEF Retried, n
  <2>2. n \in 1..(n + 1 - 1) /\ n \in 1..n
    BY <1>1, <2>1
  <2>3. SameArguments(calls[n], c)
    BY <1>1, <1>2, <2>1, <2>2
  <2>4. QED
    BY <2>1, <2>3 DEF SameArguments
<1>5. QED
  BY <1>3, <1>4 DEF Repeats, n

\* Retried and CameFirst in the state after a step, for the same call.
RetriedAfter(c) ==
    /\ calls' # << >>
    /\ ~calls'[Len(calls')].ok
    /\ SameArguments(calls'[Len(calls')], c)

CameFirstAfter(c) ==
    /\ c.object # << >>
    /\ packets'[0] # NoPacket
    /\ \A s \in Numbers(c) : packets'[s] \in {NoPacket, PacketOf(c, s)}
    /\ \/ \A s \in Numbers(c) : packets'[s] # NoPacket
       \/ RetriedAfter(c) /\ ~c.manifest

LEMMA FailsAgain ==
    ASSUME StateOK, NEW c \in CallType, Makes(c), ~c.ok, NEW b \in CallType, SameArguments(c, b)
    PROVE  RetriedAfter(b)
BY CallsAfter DEF RetriedAfter

\* The packets that came first stay and, if some are missing, the call is repeated.
LEMMA KeepsFirst ==
    ASSUME StateOK, NEW c \in CallType, Makes(c), Repeats',
           NEW b \in CallType, CameFirst(b), Cuts(c) \/ Whole(b)
    PROVE  CameFirstAfter(b) /\ packets'[0] = packets[0]
<1>1. PICK k \in 0..Count(c.object, c.max) :
          /\ Takes(c, k)
          /\ IF Cuts(c) THEN k = Count(c.object, c.max) \/ (~c.manifest /\ ~c.ok) ELSE k = 0
  BY DEF Makes
<1>2. Numbers(b) \subseteq Segment /\ 0 \in Segment /\ Segment \subseteq Nat
  BY CallIs, SegmentsAreNumbers
<1>3. \A s \in Segment : packets[s] # NoPacket => packets'[s] = packets[s]
  BY <1>1 DEF Takes
<1>4. /\ b.object # << >> /\ packets[0] # NoPacket
      /\ \A s \in Numbers(b) : packets[s] \in {NoPacket, PacketOf(b, s)}
  BY DEF CameFirst
<1>5. packets'[0] = packets[0]
  BY <1>2, <1>3, <1>4
<1>6. CASE Whole(b)
  <2>1. \A s \in Numbers(b) : packets'[s] = packets[s] /\ packets[s] # NoPacket
    BY <1>2, <1>3, <1>6 DEF Whole
  <2>2. QED
    BY <1>4, <1>5, <2>1 DEF CameFirstAfter
<1>7. CASE ~Whole(b)
  <2>1. Retried(b) /\ ~b.manifest /\ Cuts(c)
    BY <1>7 DEF CameFirst
  <2>2. SameArguments(c, b)
    BY <2>1, RepeatsIs
  <2>3. Numbers(c) = Numbers(b) /\ \A s : PacketOf(c, s) = PacketOf(b, s)
    BY <2>2, ArgumentsAre
  <2>4. \A s \in Numbers(b) : packets'[s] \in {NoPacket, PacketOf(b, s)}
    BY <1>1, <1>2, <1>4, <2>3 DEF Takes
  <2>5. CASE k = Count(c.object, c.max)
    <3>1. Count(c.object, c.max) \in Nat
      BY CallIs
    <3>2. \A s \in Numbers(b) : s < k
      <4>1. \A s \in Numbers(c) : s < k
        BY <2>5, <3>1 DEF Numbers
      <4>2. QED
        BY <2>3, <4>1
    <3>3. \A s \in Numbers(b) : packets'[s] # NoPacket
      BY <1>1, <1>2, <3>2, CallIs DEF Takes
    <3>4. QED
      BY <1>4, <1>5, <2>4, <3>3 DEF CameFirstAfter
  <2>6. CASE ~c.ok
    <3>1. RetriedAfter(b)
      BY <2>2, <2>6, FailsAgain
    <3>2. QED
      BY <1>4, <1>5, <2>1, <2>4, <3>1 DEF CameFirstAfter
  <2>7. QED
    BY <1>1, <2>1, <2>5, <2>6
<1>8. QED
  BY <1>6, <1>7

NoPacketsAfter == \A s \in Segment : packets'[s] = NoPacket

\* The first call that attaches packets.
LEMMA BecomesFirst ==
    ASSUME StateOK, NEW c \in CallType, Makes(c), NoPackets
    PROVE  /\ NoPacketsAfter \/ (CameFirstAfter(c) /\ packets'[0] = PacketOf(c, 0))
           /\ Cuts(c) /\ c.manifest /\ c.object # << >> => CameFirstAfter(c)
           /\ ~Cuts(c) => NoPacketsAfter
<1> DEFINE n == Count(c.object, c.max)
<1>1. PICK k \in 0..n :
          /\ Takes(c, k)
          /\ IF Cuts(c) THEN k = n \/ (~c.manifest /\ ~c.ok) ELSE k = 0
  BY DEF Makes
<1>2. /\ n \in Nat /\ Numbers(c) = 0..(n - 1)
      /\ Numbers(c) \subseteq Segment /\ 0 \in Segment /\ Segment \subseteq Nat
      /\ c.object = << >> => n = 0
      /\ c.object # << >> => n > 0
      /\ \A s \in Segment : PacketOf(c, s) # NoPacket
  BY CallIs, SegmentsAreNumbers DEF Numbers
<1> HIDE DEF n
<1>3. \A s \in Segment : packets'[s] = IF s < k THEN PacketOf(c, s) ELSE NoPacket
  BY <1>1 DEF Takes, NoPackets
<1>4. CASE k = 0
  <2>1. \A s \in Segment : ~(s < k)
    BY <1>2, <1>4
  <2>2. NoPacketsAfter
    BY <1>3, <2>1 DEF NoPacketsAfter
  <2>3. ~(Cuts(c) /\ c.manifest /\ c.object # << >>)
    BY <1>1, <1>2, <1>4
  <2>4. QED
    BY <2>2, <2>3
<1>5. CASE k # 0
  <2>1. 0 < k /\ c.object # << >> /\ Cuts(c)
    BY <1>1, <1>2, <1>5
  <2>2. packets'[0] = PacketOf(c, 0) /\ packets'[0] # NoPacket
    BY <1>2, <1>3, <2>1
  <2>3. \A s \in Numbers(c) : packets'[s] \in {NoPacket, PacketOf(c, s)}
    BY <1>2, <1>3
  <2>4. CASE k = n
    <3>1. \A s \in Numbers(c) : s < k
      BY <1>2, <2>4
    <3>2. \A s \in Numbers(c) : packets'[s] # NoPacket
      BY <1>2, <1>3, <3>1
    <3>3. QED
      BY <2>1, <2>2, <2>3, <3>2 DEF CameFirstAfter
  <2>5. CASE ~c.manifest /\ ~c.ok
    <3>1. RetriedAfter(c)
      BY <2>5, FailsAgain DEF SameArguments
    <3>2. QED
      BY <2>1, <2>2, <2>3, <2>5, <3>1 DEF CameFirstAfter
  <2>6. QED
    BY <1>1, <2>1, <2>4, <2>5
<1>6. QED
  BY <1>4, <1>5

-----------------------------------------------------------------------------
(* The steps.                                                               *)

LEMMA InitPublish == Init => PublishInv
<1> SUFFICES ASSUME Init PROVE PublishInv
  OBVIOUS
<1>1. NoPackets /\ calls = << >> /\ DOMAIN calls = {} /\ manifest = NoPacket /\ meta = NoPacket
  BY DEF Init, NoPackets
<1>2. StateOK
  <2>1. calls \in Seq(CallType) /\ Len(calls) <= MaxCalls
    BY <1>1, PublishAssumption DEF PublishAssumption
  <2>2. /\ got = {} /\ nReported = 0 /\ done = FALSE /\ final = -1
        /\ generalized \in BOOLEAN /\ nodeObject = NoPacket
    BY DEF Init
  <2>3. 0..(nReported - 1) \subseteq got /\ got \subseteq 0..0 /\ nReported \in Nat
    BY <2>2
  <2>4. QED
    BY <1>1, <2>1, <2>2, <2>3 DEF StateOK, NoPackets
<1>3. PacketsOK /\ ManifestOK /\ MetaOK /\ BeforeCalls
  BY <1>1 DEF PacketsOK, ManifestOK, MetaOK, BeforeCalls
<1>4. ConsumerOK
  BY <1>1 DEF ConsumerOK, Init
<1>5. QED
  BY <1>2, <1>3, <1>4 DEF PublishInv

\* A call and the types.
LEMMA CallKeepsState ==
    ASSUME StateOK, NEW c \in CallType, Makes(c)
    PROVE  StateOK'
<1>1. PICK k \in 0..Count(c.object, c.max) :
          /\ Takes(c, k)
          /\ IF Cuts(c) THEN k = Count(c.object, c.max) \/ (~c.manifest /\ ~c.ok) ELSE k = 0
  BY DEF Makes
<1>2. /\ c.object \in Objects /\ Count(c.object, c.max) \in Nat
      /\ Segment \subseteq Nat
  BY CallIs, SegmentsAreNumbers
<1>3. ASSUME NEW s \in Segment, packets'[s] # NoPacket
      PROVE  \E d \in CallType : s \in Numbers(d) /\ packets'[s] = PacketOf(d, s)
  <2>1. CASE packets[s] # NoPacket
    BY <1>1, <2>1 DEF Takes, StateOK
  <2>2. CASE packets[s] = NoPacket
    <3>1. s < k /\ packets'[s] = PacketOf(c, s)
      BY <1>1, <1>3, <2>2 DEF Takes
    <3>2. s \in Numbers(c)
      BY <1>2, <3>1 DEF Numbers
    <3>3. QED
      BY <3>1, <3>2
  <2>3. QED
    BY <2>1, <2>2
<1>4. \A s \in Segment : packets[s] # NoPacket => packets'[s] # NoPacket
  BY <1>1 DEF Takes
<1>5. calls' \in Seq(CallType) /\ Len(calls') <= MaxCalls
  BY CallsAfter, PublishAssumption DEF PublishAssumption, Makes
<1>6. generalized' => \A i \in DOMAIN calls' : calls'[i].manifest
  <2>1. ASSUME generalized', NEW i \in DOMAIN calls' PROVE calls'[i].manifest
    <3>1. generalized /\ c.manifest /\ \A j \in DOMAIN calls : calls[j].manifest
      BY <2>1 DEF Makes, StateOK
    <3>2. DOMAIN calls = 1..Len(calls) /\ Len(calls) \in Nat /\ i \in 1..(Len(calls) + 1)
      BY CallsAfter
    <3>3. i \in DOMAIN calls \/ i = Len(calls) + 1
      BY <3>2
    <3>4. QED
      BY <3>1, <3>3, CallsAfter
  <2>2. QED
    BY <2>1
<1>7. /\ got' \subseteq {s \in Segment : packets'[s] # NoPacket}
      /\ \E b \in Nat : got' \subseteq 0..b
      /\ final' \in Segment \union {-1} /\ nReported' \in Nat
      /\ 0..(nReported' - 1) \subseteq got' /\ done' \in BOOLEAN
      /\ nodeObject' \in Objects \union {NoPacket} /\ generalized' \in BOOLEAN
  BY <1>2, <1>4 DEF Makes, StateOK
<1>8. QED
  BY <1>3, <1>5, <1>6, <1>7 DEF StateOK, PacketOf, Numbers

LEMMA CallKeepsPackets ==
    ASSUME StateOK, NEW c \in CallType, Makes(c), Repeats', PacketsOK, ConsumerOK
    PROVE  PacketsOK' /\ ConsumerOK'
<1>1. /\ DOMAIN calls' = 1..(Len(calls) + 1) /\ calls'[Len(calls) + 1] = c
      /\ DOMAIN calls = 1..Len(calls) /\ Len(calls) \in Nat
      /\ \A i \in DOMAIN calls : calls[i] \in CallType /\ calls'[i] = calls[i]
  BY CallsAfter
<1>2. ASSUME NEW i \in DOMAIN calls', CameFirstAfter(calls'[i]) PROVE PacketsOK'
  BY <1>2 DEF PacketsOK, CameFirst, CameFirstAfter, Whole, Retried, RetriedAfter,
              Numbers, PacketOf, SameArguments
<1>3. got' = got /\ nReported' = nReported /\ done' = done
  BY DEF Makes
<1>4. CASE NoPackets
  <2>1. CASE NoPacketsAfter
    <3>1. NoPackets'
      BY <2>1 DEF NoPackets, NoPacketsAfter
    <3>2. QED
      BY <1>3, <1>4, <3>1 DEF PacketsOK, ConsumerOK
  <2>2. CASE CameFirstAfter(c) /\ packets'[0] = PacketOf(c, 0)
    <3>1. PacketsOK'
      <4>1. Len(calls) + 1 \in DOMAIN calls'
        BY <1>1
      <4>2. QED
        BY <1>1, <1>2, <2>2, <4>1
    <3>2. packets'[0] # NoPacket /\ 0 \in Segment /\ FinalSegment(c.object, c.max) \in Nat
      BY <2>2, CallIs, SegmentsAreNumbers DEF CameFirstAfter
    <3>3. ~NoPackets'
      BY <3>2 DEF NoPackets
    <3>4. packets'[0].final = FinalSegment(c.object, c.max)
      BY <2>2 DEF PacketOf, Packet
    <3>5. got = {} /\ nReported = 0 /\ ~done
      BY <1>4 DEF StateOK, NoPackets, ConsumerOK
    <3>6. nReported' \notin got' /\ nReported' <= packets'[0].final /\ ~done'
      BY <1>3, <3>2, <3>4, <3>5
    <3>7. QED
      BY <3>1, <3>3, <3>6 DEF ConsumerOK
  <2>3. QED
    BY <1>4, <2>1, <2>2, BecomesFirst
<1>5. CASE ~NoPackets
  <2>1. PICK i \in DOMAIN calls : CameFirst(calls[i])
    BY <1>5 DEF PacketsOK
  <2>2. PICK b \in CallType : b = calls[i]
    BY <1>1
  <2>3. Cuts(c) \/ Whole(b)
    BY <2>1, <2>2 DEF Cuts, StateOK, CameFirst
  <2>4. CameFirst(b)
    BY <2>1, <2>2
  <2>5. CameFirstAfter(b) /\ packets'[0] = packets[0]
    BY <2>3, <2>4, KeepsFirst
  <2>6. PacketsOK'
    <3>1. i \in DOMAIN calls' /\ calls'[i] = b
      BY <1>1, <2>2
    <3>2. QED
      BY <1>2, <2>5, <3>1
  <2>7. ~NoPackets'
    <3>1. 0 \in Segment /\ packets'[0] # NoPacket
      BY <2>4, <2>5, CallIs DEF CameFirst
    <3>2. QED
      BY <3>1 DEF NoPackets
  <2>8. ConsumerOK'
    BY <1>3, <1>5, <2>5, <2>7 DEF ConsumerOK
  <2>9. QED
    BY <2>6, <2>8
<1>6. QED
  BY <1>4, <1>5

\* The disjuncts of ManifestOK in the state after a step.
AwaitsManifestAfter(c) ==
    /\ c.manifest
    /\ RetriedAfter(c)
    /\ generalized' => HasSegments(c)
    /\ NoPacketsAfter \/ CameFirstAfter(c)

HasManifestAfter(c) ==
    /\ c.manifest
    /\ CameFirstAfter(c)
    /\ manifest' = ManifestOf(c.object, c.max)

LEMMA ManifestAfter ==
    ASSUME calls' # << >>, calls'[1].manifest =>
             IF manifest' = NoPacket
               THEN \/ generalized' /\ NoPacketsAfter
                    \/ \E i \in DOMAIN calls' : AwaitsManifestAfter(calls'[i])
               ELSE manifest'[1] # Zeros => \E i \in DOMAIN calls' : HasManifestAfter(calls'[i])
    PROVE  ManifestOK'
BY DEF ManifestOK, CameFirst, CameFirstAfter, Whole, Retried, RetriedAfter, NoPackets,
       NoPacketsAfter, Numbers, PacketOf, SameArguments, HasSegments, ManifestOf,
       AwaitsManifestAfter, HasManifestAfter

LEMMA CallKeepsManifest ==
    ASSUME StateOK, NEW c \in CallType, Makes(c), Repeats', BeforeCalls, ManifestOK
    PROVE  ManifestOK'
<1>1. /\ DOMAIN calls' = 1..(Len(calls) + 1) /\ calls'[Len(calls) + 1] = c /\ calls' # << >>
      /\ DOMAIN calls = 1..Len(calls) /\ Len(calls) \in Nat
      /\ \A i \in DOMAIN calls : calls[i] \in CallType /\ calls'[i] = calls[i]
      /\ calls = << >> => calls'[1] = c
      /\ calls # << >> => calls'[1] = calls[1]
  BY CallsAfter
<1>2. DOMAIN calls \subseteq DOMAIN calls' /\ Len(calls) + 1 \in DOMAIN calls'
  BY <1>1
<1>3. /\ \/ manifest' = manifest /\ ~(Cuts(c) /\ c.manifest /\ c.ok)
         \/ manifest' = Attached(manifest, ManifestOf(c.object, c.max)) /\ Cuts(c) /\ c.manifest
      /\ generalized' = generalized /\ (generalized => c.manifest)
      /\ c.ok \in BOOLEAN
      /\ ManifestOf(c.object, c.max) # NoPacket
  BY CallIs DEF Makes
<1>4. c.object = << >> => ManifestOf(c.object, c.max)[1] = Zeros
  <2>1. ASSUME c.object = << >> PROVE ManifestOf(c.object, c.max)[1] = Zeros
    <3>1. FinalSegment(c.object, c.max) = 0
      BY <2>1 DEF FinalSegment
    <3>2. 1 \in 1..(FinalSegment(c.object, c.max) + 1)
      BY <3>1
    <3>3. QED
      BY <2>1, <3>2 DEF ManifestOf
  <2>2. QED
    BY <2>1
\* The first manifest, of call c.
<1>5. ASSUME NoPackets, manifest = NoPacket, c.manifest, Cuts(c)
      PROVE  ManifestOK'
  <2>1. CASE manifest' = manifest
    <3>1. ~c.ok
      BY <1>3, <1>5, <2>1 DEF Attached
    <3>2. RetriedAfter(c)
      BY <3>1, FailsAgain DEF SameArguments
    <3>3. NoPacketsAfter \/ CameFirstAfter(c)
      BY <1>5, BecomesFirst
    <3>4. AwaitsManifestAfter(c)
      BY <1>3, <1>5, <3>2, <3>3 DEF AwaitsManifestAfter, Cuts
    <3>5. \E i \in DOMAIN calls' : AwaitsManifestAfter(calls'[i])
      BY <1>1, <1>2, <3>4
    <3>6. QED
      BY <1>1, <1>5, <2>1, <3>5, ManifestAfter
  <2>2. CASE manifest' = ManifestOf(c.object, c.max)
    <3>1. ASSUME manifest'[1] # Zeros PROVE \E i \in DOMAIN calls' : HasManifestAfter(calls'[i])
      <4>1. c.object # << >>
        BY <1>4, <2>2, <3>1
      <4>2. CameFirstAfter(c)
        BY <1>5, <4>1, BecomesFirst
      <4>3. HasManifestAfter(c)
        BY <1>5, <2>2, <4>2 DEF HasManifestAfter
      <4>4. QED
        BY <1>1, <1>2, <4>3
    <3>2. QED
      BY <1>1, <1>3, <2>2, <3>1, ManifestAfter
  <2>3. QED
    BY <1>3, <1>5, <2>1, <2>2 DEF Attached
<1>6. CASE calls = << >>
  <2>1. NoPackets /\ manifest = NoPacket
    BY <1>6 DEF BeforeCalls
  <2>2. CASE c.manifest /\ Cuts(c)
    BY <1>5, <2>1, <2>2
  <2>3. CASE ~c.manifest
    BY <1>1, <1>6, <2>3, ManifestAfter
  <2>4. CASE ~Cuts(c)
    <3>1. generalized' /\ manifest' = NoPacket
      BY <1>3, <2>1, <2>4 DEF Cuts
    <3>2. NoPacketsAfter
      BY <2>1, <2>4, BecomesFirst
    <3>3. QED
      BY <1>1, <3>1, <3>2, ManifestAfter
  <2>5. QED
    BY <2>2, <2>3, <2>4
<1>7. ASSUME calls # << >>, calls[1].manifest, manifest # NoPacket PROVE ManifestOK'
  <2>1. manifest' = manifest
    BY <1>3, <1>7 DEF Attached
  <2>2. ASSUME manifest[1] # Zeros PROVE \E i \in DOMAIN calls' : HasManifestAfter(calls'[i])
    <3>1. PICK i \in DOMAIN calls :
              /\ calls[i].manifest
              /\ CameFirst(calls[i])
              /\ manifest = ManifestOf(calls[i].object, calls[i].max)
      BY <1>7, <2>2 DEF ManifestOK
    <3>2. PICK b \in CallType : b = calls[i]
      BY <1>1
    <3>3. b.manifest /\ CameFirst(b) /\ manifest = ManifestOf(b.object, b.max)
      BY <3>1, <3>2
    <3>4. Whole(b)
      BY <3>3 DEF CameFirst
    <3>5. CameFirstAfter(b)
      BY <3>3, <3>4, KeepsFirst
    <3>6. HasManifestAfter(b)
      BY <2>1, <3>3, <3>5 DEF HasManifestAfter
    <3>7. calls'[i] = b /\ i \in DOMAIN calls'
      BY <1>1, <1>2, <3>2
    <3>8. QED
      BY <3>6, <3>7
  <2>3. QED
    BY <1>1, <1>7, <2>1, <2>2, ManifestAfter
<1>8. ASSUME calls # << >>, calls[1].manifest, manifest = NoPacket, generalized, NoPackets
      PROVE  ManifestOK'
  <2>1. CASE Cuts(c)
    BY <1>3, <1>5, <1>8, <2>1
  <2>2. CASE ~Cuts(c)
    <3>1. manifest' = NoPacket
      BY <1>3, <1>8, <2>2
    <3>2. NoPacketsAfter
      BY <1>8, <2>2, BecomesFirst
    <3>3. QED
      BY <1>1, <1>3, <1>8, <3>1, <3>2, ManifestAfter
  <2>3. QED
    BY <2>1, <2>2
<1>9. ASSUME calls # << >>, calls[1].manifest, manifest = NoPacket, NEW i \in DOMAIN calls,
             calls[i].manifest, Retried(calls[i]), generalized => HasSegments(calls[i]),
             NoPackets \/ CameFirst(calls[i])
      PROVE  ManifestOK'
  <2>1. PICK b \in CallType : b = calls[i]
    BY <1>1
  <2>2. /\ b.manifest /\ Retried(b) /\ (generalized => HasSegments(b))
        /\ NoPackets \/ CameFirst(b)
        /\ calls'[i] = b /\ i \in DOMAIN calls'
    BY <1>1, <1>2, <1>9, <2>1
  <2>3. SameArguments(c, b)
    BY <2>2, RepeatsIs
  <2>4. c.manifest /\ Cuts(c) /\ c.object = b.object /\ c.max = b.max
    BY <2>2, <2>3, ArgumentsAre DEF Cuts
  <2>5. CASE NoPackets
    BY <1>5, <1>9, <2>4, <2>5
  <2>6. CASE CameFirst(b)
    <3>1. CameFirstAfter(b)
      BY <2>4, <2>6, KeepsFirst
    <3>2. CASE manifest' = manifest
      <4>1. ~c.ok
        BY <1>3, <1>9, <2>4, <3>2 DEF Attached
      <4>2. RetriedAfter(b)
        BY <2>3, <4>1, FailsAgain
      <4>3. AwaitsManifestAfter(b)
        BY <1>3, <2>2, <3>1, <4>2 DEF AwaitsManifestAfter
      <4>4. \E j \in DOMAIN calls' : AwaitsManifestAfter(calls'[j])
        BY <2>2, <4>3
      <4>5. QED
        BY <1>1, <1>9, <3>2, <4>4, ManifestAfter
    <3>3. CASE manifest' = ManifestOf(c.object, c.max)
      <4>1. HasManifestAfter(b)
        BY <2>2, <2>4, <3>1, <3>3 DEF HasManifestAfter
      <4>2. \E j \in DOMAIN calls' : HasManifestAfter(calls'[j])
        BY <2>2, <4>1
      <4>3. QED
        BY <1>1, <1>3, <3>3, <4>2, ManifestAfter
    <3>4. QED
      BY <1>3, <1>9, <3>2, <3>3 DEF Attached
  <2>7. QED
    BY <2>2, <2>5, <2>6
<1>10. CASE calls # << >> /\ calls[1].manifest
  BY <1>7, <1>8, <1>9, <1>10 DEF ManifestOK
<1>11. CASE calls # << >> /\ ~calls[1].manifest
  BY <1>1, <1>11, ManifestAfter
<1>12. QED
  BY <1>6, <1>10, <1>11

LEMMA CallKeepsMeta ==
    ASSUME StateOK, NEW c \in CallType, Makes(c), Repeats', BeforeCalls, MetaOK
    PROVE  MetaOK'
<1>1. /\ calls' # << >>
      /\ calls = << >> => calls'[1] = c
      /\ calls # << >> => calls'[1] = calls[1] /\ calls[1] \in CallType
  BY CallsAfter
<1>2. /\ \/ meta' = meta /\ ~(generalized /\ c.ok)
         \/ meta' = Attached(meta, MetaOf(c.object, HasSegments(c))) /\ generalized
      /\ generalized' = generalized /\ (generalized => c.manifest)
      /\ MetaOf(c.object, HasSegments(c)) # NoPacket
  BY CallIs DEF Makes
<1>3. CASE ~generalized
  BY <1>2, <1>3 DEF MetaOK
<1>4. ASSUME generalized, NEW b \in CallType, calls'[1] = b,
             IF meta' = NoPacket THEN RetriedAfter(b) ELSE meta' = MetaOf(b.object, HasSegments(b)),
             HasSegments(b) /\ b.object # << >> => CameFirstAfter(b)
      PROVE  MetaOK'
  <2>1. calls'[1] = b /\ generalized'
    BY <1>2, <1>4
  <2>2. IF meta' = NoPacket THEN RetriedAfter(calls'[1])
                            ELSE meta' = MetaOf(calls'[1].object, HasSegments(calls'[1]))
    BY <1>4
  <2>3. HasSegments(calls'[1]) /\ calls'[1].object # << >> => CameFirstAfter(calls'[1])
    BY <1>4
  <2>4. QED
    BY <1>1, <2>1, <2>2, <2>3
    DEF MetaOK, CameFirst, CameFirstAfter, Whole, Retried, RetriedAfter, Numbers, PacketOf,
        SameArguments, HasSegments, MetaOf
<1>5. CASE generalized /\ calls = << >>
  <2>1. meta = NoPacket /\ NoPackets
    BY <1>5 DEF MetaOK, BeforeCalls
  <2>2. IF meta' = NoPacket THEN RetriedAfter(c) ELSE meta' = MetaOf(c.object, HasSegments(c))
    <3>1. CASE meta' = meta
      <4>1. ~c.ok
        BY <1>2, <1>5, <2>1, <3>1 DEF Attached
      <4>2. QED
        BY <2>1, <3>1, <4>1, FailsAgain DEF SameArguments
    <3>2. CASE meta' # meta
      BY <1>2, <2>1, <3>2 DEF Attached
    <3>3. QED
      BY <3>1, <3>2
  <2>3. HasSegments(c) /\ c.object # << >> => CameFirstAfter(c)
    BY <1>2, <1>5, <2>1, BecomesFirst DEF Cuts
  <2>4. QED
    BY <1>1, <1>4, <1>5, <2>2, <2>3
<1>6. CASE generalized /\ calls # << >>
  <2>1. PICK b \in CallType : b = calls[1]
    BY <1>1, <1>6
  <2>2. /\ IF meta = NoPacket THEN Retried(b) ELSE meta = MetaOf(b.object, HasSegments(b))
        /\ HasSegments(b) /\ b.object # << >> => CameFirst(b)
        /\ b.manifest
    <3>1. 1 \in DOMAIN calls
      BY <1>6, CallsAfter
    <3>2. QED
      BY <1>6, <2>1, <3>1 DEF MetaOK, StateOK
  <2>3. HasSegments(b) /\ b.object # << >> => CameFirstAfter(b)
    BY <2>2, KeepsFirst DEF CameFirst
  <2>4. IF meta' = NoPacket THEN RetriedAfter(b) ELSE meta' = MetaOf(b.object, HasSegments(b))
    <3>1. CASE meta = NoPacket
      <4>1. SameArguments(c, b)
        BY <2>2, <3>1, RepeatsIs
      <4>2. MetaOf(c.object, HasSegments(c)) = MetaOf(b.object, HasSegments(b))
        <5>1. c.object = b.object /\ c.max = b.max /\ c.other = b.other
          BY <4>1, ArgumentsAre
        <5>2. QED
          BY <5>1 DEF MetaOf, HasSegments
      <4>3. CASE meta' = meta
        <5>1. ~c.ok
          BY <1>2, <1>6, <3>1, <4>3 DEF Attached
        <5>2. QED
          BY <3>1, <4>1, <4>3, <5>1, FailsAgain
      <4>4. CASE meta' # meta
        BY <1>2, <3>1, <4>2, <4>4 DEF Attached
      <4>5. QED
        BY <4>3, <4>4
    <3>2. CASE meta # NoPacket
      <4>1. meta' = meta
        BY <1>2, <3>2 DEF Attached
      <4>2. QED
        BY <2>2, <3>2, <4>1
    <3>3. QED
      BY <3>1, <3>2
  <2>5. QED
    BY <1>1, <1>4, <1>6, <2>1, <2>3, <2>4
<1>7. QED
  BY <1>3, <1>5, <1>6

-----------------------------------------------------------------------------
(* What the arrival of a packet does.                                       *)

\* A bounded set of numbers has a largest one.
LEMMA MaxIs ==
    ASSUME NEW b \in Nat, NEW S \in SUBSET (0..b), S # {}
    PROVE  Max(S) \in S
<1> DEFINE bounds == {u \in Nat : \A y \in S : y <= u}
<1>1. b \in bounds
  OBVIOUS
<1>2. PICK u \in bounds : \A v \in bounds : u <= v
  BY <1>1, SmallestIn
<1>3. u \in Nat /\ \A y \in S : y \in Nat /\ y <= u
  OBVIOUS
<1>4. u \in S
  <2>1. ASSUME u \notin S PROVE FALSE
    <3>1. \A y \in S : y \in Nat /\ y <= u - 1
      BY <1>3, <2>1
    <3>2. PICK y \in S : TRUE
      OBVIOUS
    <3>3. u - 1 \in Nat
      BY <1>3, <3>1, <3>2
    <3>4. u - 1 \in bounds
      BY <3>1, <3>3
    <3>5. u <= u - 1
      BY <1>2, <3>4
    <3>6. QED
      BY <1>3, <3>5
  <2>2. QED
    BY <2>1
<1>5. \A y \in S : u >= y
  BY <1>3
<1>6. QED
  BY <1>4, <1>5 DEF Max

\* The packet that arrives has a final number, and the consumer goes on to segment n.
LEMMA ReceiveIs ==
    ASSUME StateOK, NEW s \in Segment, Receive(s)
    PROVE  /\ ~done /\ s \in Nat /\ packets[s] # NoPacket /\ got' = got \union {s}
           /\ nReported' \in Nat /\ nReported <= nReported'
           /\ \A t \in nReported..(nReported' - 1) : t \in got'
           /\ final' = packets[s].final /\ final' \in Segment
           /\ \A t \in nReported..(nReported' - 2) : t # final'
           /\ done' \in BOOLEAN
           /\ done' <=> nReported' > nReported /\ nReported' - 1 = final'
           /\ done' \/ nReported' \notin got'
           /\ \E b \in Nat : got' \subseteq 0..b
<1>1. s \in Nat /\ nReported \in Nat
  BY SegmentsAreNumbers DEF StateOK
<1>2. PICK b \in Nat : got' \subseteq 0..b
  <2>1. PICK a \in Nat : got \subseteq 0..a
    BY DEF StateOK
  <2>2. a + s \in Nat /\ got \union {s} \subseteq 0..(a + s)
    BY <1>1, <2>1
  <2>3. QED
    BY <2>2 DEF Receive
<1>3. Max(got') \in Nat
  <2>1. got' # {}
    BY DEF Receive
  <2>2. ASSUME NEW S \in SUBSET (0..b), S # {} PROVE Max(S) \in Nat
    <3>1. Max(S) \in S
      BY <2>2, MaxIs
    <3>2. \A x \in S : x \in Nat
      OBVIOUS
    <3>3. QED
      BY ONLY <3>1, <3>2
  <2>3. PICK S \in SUBSET (0..b) : S = got'
    BY <1>2
  <2>4. Max(S) \in Nat
    BY <2>1, <2>2, <2>3
  <2>5. QED
    BY <2>3, <2>4
<1>4. PICK n \in nReported..(Max(got') + 1) :
          /\ \A t \in nReported..(n - 1) : t \in got'
          /\ \A t \in nReported..(n - 2) : t # final'
          /\ n \notin got' \/ (n > nReported /\ n - 1 = final')
          /\ nReported' = n
          /\ done' = (n > nReported /\ n - 1 = final')
  BY DEF Receive
<1>5. nReported' \in Nat /\ nReported <= nReported'
  BY <1>1, <1>3, <1>4
<1>6. packets[s].final \in Segment
  <2>1. PICK c \in CallType : packets[s] = PacketOf(c, s)
    BY DEF StateOK, Receive
  <2>2. packets[s].final = FinalSegment(c.object, c.max)
    BY <2>1 DEF PacketOf, Packet
  <2>3. QED
    BY <2>2, CallIs
<1>7. /\ done' \in BOOLEAN
      /\ done' <=> nReported' > nReported /\ nReported' - 1 = final'
      /\ done' \/ nReported' \notin got'
  BY <1>4
<1>8. QED
  BY <1>1, <1>2, <1>4, <1>5, <1>6, <1>7 DEF Receive

LEMMA ReceiveKeepsState ==
    ASSUME StateOK, NEW s \in Segment, Receive(s)
    PROVE  StateOK'
<1>1. generalized' = generalized /\ packets' = packets /\ nodeObject' = nodeObject /\ calls' = calls
  BY DEF Receive, nodes
<1>2. 0..(nReported' - 1) \subseteq got'
  <2>1. ASSUME NEW t \in 0..(nReported' - 1) PROVE t \in got'
    <3>1. t \in 0..(nReported - 1) \/ t \in nReported..(nReported' - 1)
      BY ReceiveIs DEF StateOK
    <3>2. QED
      BY <3>1, ReceiveIs DEF StateOK
  <2>2. QED
    BY <2>1
<1>3. got' \subseteq {t \in Segment : packets'[t] # NoPacket}
  BY <1>1, ReceiveIs DEF StateOK
<1>4. QED
  BY <1>1, <1>2, <1>3, ReceiveIs DEF StateOK, PacketOf, Numbers

LEMMA ReceiveKeepsConsumer ==
    ASSUME StateOK, NEW s \in Segment, Receive(s), PacketsOK, ConsumerOK
    PROVE  ConsumerOK'
<1>1. packets' = packets
  BY DEF Receive, nodes
<1>2. ~NoPackets /\ ~NoPackets'
  BY <1>1, ReceiveIs DEF NoPackets
<1>3. nReported \notin got /\ nReported <= packets[0].final /\ nReported \in Nat
  BY <1>2, ReceiveIs DEF ConsumerOK, StateOK
<1>4. PICK i \in DOMAIN calls : CameFirst(calls[i])
  BY <1>2 DEF PacketsOK
<1>5. PICK c \in CallType : c = calls[i]
  BY <1>4 DEF StateOK
<1>6. CameFirst(c)
  BY <1>4, <1>5
<1>7. \A t \in Numbers(c) : t \in Segment /\ (packets[t] # NoPacket => packets[t].final = FinalSegment(c.object, c.max))
  BY <1>6, CallIs DEF CameFirst, PacketOf, Packet
<1>8. packets[0].final \in Nat /\ packets[0].final = Count(c.object, c.max) - 1
  <2>1. packets[0].final = FinalSegment(c.object, c.max)
    BY <1>6, <1>7, CallIs DEF CameFirst
  <2>2. QED
    BY <1>6, <2>1, CallIs, SegmentsAreNumbers DEF CameFirst
<1>9. CASE s # nReported
  <2>1. nReported' = nReported
    <3>1. nReported \notin got'
      BY <1>3, <1>9, ReceiveIs
    <3>2. ~(nReported \in nReported..(nReported' - 1))
      BY <3>1, ReceiveIs
    <3>3. QED
      BY <1>3, <3>2, ReceiveIs
  <2>2. nReported' \notin got' /\ ~done'
    BY <1>3, <1>9, <2>1, ReceiveIs
  <2>3. QED
    BY <1>1, <1>2, <1>3, <2>1, <2>2 DEF ConsumerOK
<1>10. CASE s = nReported
  <2>1. final' = packets[0].final
    <3>1. Count(c.object, c.max) \in Nat
      BY CallIs
    <3>2. s \in Numbers(c)
      BY <1>3, <1>8, <1>10, <3>1 DEF Numbers
    <3>3. 0 \in Numbers(c) /\ packets[0] # NoPacket
      BY <1>6, CallIs DEF CameFirst
    <3>4. QED
      BY <1>7, <3>2, <3>3, ReceiveIs
  <2>2. nReported' - 1 <= packets[0].final
    <3>1. ~(packets[0].final \in nReported..(nReported' - 2))
      BY <2>1, ReceiveIs
    <3>2. nReported' \in Nat
      BY ReceiveIs
    <3>3. QED
      BY <1>3, <1>8, <3>1, <3>2
  <2>3. CASE done'
    <3>1. nReported' = packets[0].final + 1
      BY <1>8, <2>1, <2>3, ReceiveIs
    <3>2. QED
      BY <1>1, <1>2, <2>3, <3>1 DEF ConsumerOK
  <2>4. CASE ~done'
    <3>1. nReported' \notin got' /\ nReported' \in Nat
      BY <2>4, ReceiveIs
    <3>2. ~(nReported' > nReported /\ nReported' - 1 = packets[0].final) /\ nReported' >= nReported
      BY <2>1, <2>4, ReceiveIs
    <3>3. nReported' <= packets[0].final
      BY <1>3, <1>8, <2>2, <3>1, <3>2
    <3>4. QED
      BY <1>1, <1>2, <2>4, <3>1, <3>3 DEF ConsumerOK
  <2>5. QED
    BY <2>3, <2>4
<1>11. QED
  BY <1>9, <1>10

\* The rest of the invariant is about what a step that is no call leaves as it is.
LEMMA OthersKeep ==
    ASSUME UNCHANGED <<generalized, nodes, calls>>
    PROVE  /\ Repeats' => Repeats
           /\ BeforeCalls => BeforeCalls'
           /\ PacketsOK => PacketsOK'
           /\ ManifestOK => ManifestOK'
           /\ MetaOK => MetaOK'
<1>1. /\ generalized' = generalized /\ packets' = packets /\ manifest' = manifest
      /\ meta' = meta /\ calls' = calls
  BY DEF nodes
<1>2. (Repeats' => Repeats) /\ (BeforeCalls => BeforeCalls')
  BY <1>1 DEF Repeats, SameArguments, BeforeCalls, NoPackets
<1>3. PacketsOK => PacketsOK'
  BY <1>1 DEF PacketsOK, NoPackets, CameFirst, Whole, Retried, SameArguments, Numbers, PacketOf
<1>4. ManifestOK => ManifestOK'
  BY <1>1 DEF ManifestOK, NoPackets, CameFirst, Whole, Retried, SameArguments, Numbers,
              PacketOf, HasSegments
<1>5. MetaOK => MetaOK'
  BY <1>1 DEF MetaOK, NoPackets, CameFirst, Whole, Retried, SameArguments, Numbers,
              PacketOf, HasSegments
<1>6. QED
  BY <1>2, <1>3, <1>4, <1>5

-----------------------------------------------------------------------------
(* The theorems.                                                            *)

\* The inductive invariant: while the application repeats what fails, all packets up to
\* the final number of the first, the manifest and the _meta packet are of one object, and
\* the consumer stops at its end (SegmentStreamHandler::Impl::setObject and onStateChanged).
THEOREM PublishInvariant == Spec => []PublishInv
<1>1. Init => PublishInv
  BY InitPublish
<1>2. PublishInv /\ [Next]_vars => PublishInv'
  <2> SUFFICES ASSUME PublishInv, [Next]_vars PROVE PublishInv'
    OBVIOUS
  <2>1. CASE \E c \in CallType : Makes(c)
    <3>1. PICK c \in CallType : Makes(c)
      BY <2>1
    <3>2. StateOK' /\ BeforeCalls'
      <4>1. calls' # << >>
        BY <3>1, CallsAfter DEF PublishInv
      <4>2. QED
        BY <3>1, <4>1, CallKeepsState DEF PublishInv, BeforeCalls
    <3>3. ASSUME Repeats' PROVE PacketsOK' /\ ConsumerOK' /\ ManifestOK' /\ MetaOK'
      <4>1. StateOK /\ BeforeCalls /\ PacketsOK /\ ConsumerOK /\ ManifestOK /\ MetaOK
        BY <3>1, <3>3, RepeatsIs DEF PublishInv
      <4>2. QED
        BY <3>1, <3>3, <4>1, CallKeepsPackets, CallKeepsManifest, CallKeepsMeta
    <3>4. QED
      BY <3>2, <3>3 DEF PublishInv
  <2>2. CASE \E s \in Segment : Receive(s)
    <3>1. PICK s \in Segment : Receive(s)
      BY <2>2
    <3>2. UNCHANGED <<generalized, nodes, calls>>
      BY <3>1 DEF Receive
    <3>3. QED
      BY <3>1, <3>2, ReceiveKeepsState, ReceiveKeepsConsumer, OthersKeep DEF PublishInv
  <2>3. CASE UNCHANGED vars
    <3>1. /\ UNCHANGED <<generalized, nodes, calls>>
          /\ UNCHANGED <<packets, nodeObject, got, final, nReported, done>>
      BY <2>3 DEF vars, nodes, consumer
    <3>2. StateOK'
      BY <3>1 DEF PublishInv, StateOK, PacketOf, Numbers
    <3>3. ConsumerOK => ConsumerOK'
      BY <3>1 DEF ConsumerOK, NoPackets
    <3>4. QED
      BY <3>1, <3>2, <3>3, OthersKeep DEF PublishInv
  <2>4. QED
    BY <2>1, <2>2, <2>3, StepIs
<1>3. QED
  BY <1>1, <1>2, PTL DEF Spec

\* A consumer that is done has all packets of the call whose packets came first.
LEMMA DoneHasAll ==
    ASSUME PublishInv, Repeats, done
    PROVE  /\ \E i \in DOMAIN calls : CameFirst(calls[i])
           /\ \A c \in CallType : CameFirst(c) =>
                 /\ nReported = FinalSegment(c.object, c.max) + 1
                 /\ nReported = Count(c.object, c.max)
                 /\ \A s \in Numbers(c) : s \in got /\ packets[s] = PacketOf(c, s)
                 /\ Assembled = c.object
<1>1. StateOK /\ PacketsOK /\ ConsumerOK
  BY DEF PublishInv
<1>2. ~NoPackets /\ nReported = packets[0].final + 1
  BY <1>1 DEF ConsumerOK
<1>3. \E i \in DOMAIN calls : CameFirst(calls[i])
  BY <1>1, <1>2 DEF PacketsOK
<1>4. ASSUME NEW c \in CallType, CameFirst(c)
      PROVE  /\ nReported = FinalSegment(c.object, c.max) + 1
             /\ nReported = Count(c.object, c.max)
             /\ \A s \in Numbers(c) : s \in got /\ packets[s] = PacketOf(c, s)
             /\ Assembled = c.object
  <2>1. /\ c.object # << >> /\ packets[0] # NoPacket
        /\ \A s \in Numbers(c) : packets[s] \in {NoPacket, PacketOf(c, s)}
    BY <1>4 DEF CameFirst
  <2>2. 0 \in Numbers(c) /\ packets[0] = PacketOf(c, 0)
    BY <2>1, CallIs
  <2>3. nReported = FinalSegment(c.object, c.max) + 1
    BY <1>2, <2>2 DEF PacketOf, Packet
  <2>4. FinalSegment(c.object, c.max) = Count(c.object, c.max) - 1 /\ Count(c.object, c.max) \in Nat
    BY <2>1, CallIs
  <2>5. nReported = Count(c.object, c.max)
    BY <2>3, <2>4
  <2>6. ASSUME NEW s \in Numbers(c) PROVE s \in got /\ packets[s] = PacketOf(c, s)
    <3>1. s \in got
      BY <1>1, <2>5 DEF StateOK, Numbers
    <3>2. packets[s] # NoPacket
      BY <1>1, <3>1 DEF StateOK
    <3>3. QED
      BY <2>1, <3>1, <3>2
  <2>7. Assembled = c.object
    <3> DEFINE payloads == [i \in 1..Count(c.object, c.max) |-> Payload(c.object, c.max, i - 1)]
               contents == [i \in 1..nReported |-> packets[i - 1].content]
    <3>1. ASSUME NEW i \in 1..nReported PROVE packets[i - 1].content = Payload(c.object, c.max, i - 1)
      <4>1. i - 1 \in Numbers(c)
        BY <2>4, <2>5 DEF Numbers
      <4>2. packets[i - 1] = PacketOf(c, i - 1)
        BY <2>6, <4>1
      <4>3. QED
        BY <4>2 DEF PacketOf, Packet
    <3>2. contents = payloads
      BY <2>5, <3>1
    <3>3. FlattenSeq(payloads) = c.object
      BY <2>1, CallIs, PayloadsMakeObject
    <3> HIDE DEF payloads, contents
    <3>4. QED
      BY <3>2, <3>3 DEF Assembled, contents
  <2>8. QED
    BY <2>3, <2>5, <2>6, <2>7
<1>5. QED
  BY <1>3, <1>4

\* The state's types: every attached packet has at least one byte and at most as many as
\* some maxSegmentPayloadLength_ allows, and the final number of a segment
\* (segment-stream-handler.cpp:103-180).
THEOREM PublishTypeOK == Spec => []TypeOK
<1>1. PublishInv => TypeOK
  <2> SUFFICES ASSUME PublishInv PROVE TypeOK
    OBVIOUS
  <2>1. StateOK
    BY DEF PublishInv
  <2>2. ASSUME NEW s \in Segment, packets[s] # NoPacket
        PROVE  /\ \E max \in Payloads : Len(packets[s].content) \in 1..max
               /\ packets[s].final \in Segment
               /\ packets[s].digestSigned \in BOOLEAN
    <3>1. PICK c \in CallType : s \in Numbers(c) /\ packets[s] = PacketOf(c, s)
      BY <2>1, <2>2 DEF StateOK
    <3>2. /\ packets[s].content = Payload(c.object, c.max, s)
          /\ packets[s].final = FinalSegment(c.object, c.max)
          /\ packets[s].digestSigned = c.manifest
      BY <3>1 DEF PacketOf, Packet
    <3>3. Len(Payload(c.object, c.max, s)) \in 1..c.max
      BY <3>1, CallIs, PayloadIs DEF Numbers
    <3>4. QED
      BY <3>2, <3>3, CallIs
  <2>3. nReported \in 0..Cardinality(got)
    <3>1. PICK b \in Nat : got \subseteq 0..b
      BY <2>1 DEF StateOK
    <3>2. IsFiniteSet(got)
      <4>1. IsFiniteSet(0..b)
        BY FS_Interval
      <4>2. QED
        BY <3>1, <4>1, FS_Subset
    <3>3. nReported \in Nat /\ 0..(nReported - 1) \subseteq got
      BY <2>1 DEF StateOK
    <3>4. Cardinality(0..(nReported - 1)) = nReported
      <4>1. Cardinality(0..(nReported - 1)) = IF 0 > nReported - 1 THEN 0 ELSE nReported - 1 - 0 + 1
        BY <3>3, FS_Interval
      <4>2. \A y \in Nat : (IF 0 > y - 1 THEN 0 ELSE y - 1 - 0 + 1) = y
        OBVIOUS
      <4>3. QED
        BY ONLY <3>3, <4>1, <4>2
    <3>5. Cardinality(0..(nReported - 1)) <= Cardinality(got) /\ Cardinality(got) \in Nat
      BY <3>2, <3>3, FS_Subset, FS_CardinalityType
    <3>6. QED
      BY <3>3, <3>4, <3>5
  <2>4. QED
    BY <2>1, <2>2, <2>3 DEF TypeOK, StateOK
<1>2. QED
  BY <1>1, PublishInvariant, PTL

\* Whatever objects, payload lengths, failures to sign and repetitions follow each other, a
\* consumer that stops at the final number assembles one of the published objects
\* (segment-stream-handler.cpp:103-180).
THEOREM PublishAssembledIsPublished == Spec => []AssembledIsPublished
<1>1. PublishInv => AssembledIsPublished
  <2> SUFFICES ASSUME PublishInv, done, Repeats
               PROVE  \E i \in DOMAIN calls : Assembled = calls[i].object
    BY DEF AssembledIsPublished
  <2>1. PICK i \in DOMAIN calls : CameFirst(calls[i])
    BY DoneHasAll
  <2>2. calls[i] \in CallType
    BY DEF PublishInv, StateOK
  <2>3. PICK c \in CallType : c = calls[i]
    BY <2>2
  <2>4. Assembled = c.object
    BY <2>1, <2>3, DoneHasAll
  <2>5. QED
    BY <2>3, <2>4
<1>2. QED
  BY <1>1, PublishInvariant, PTL

\* A consumer that has the first object whole can verify it with the manifest: the digests
\* are those of the packets that were attached, one for each (segment-stream-handler.cpp:
\* 122-180, 182-205).
THEOREM PublishFirstVerifies == Spec => []FirstVerifies
<1>1. PublishInv => FirstVerifies
  <2> SUFFICES ASSUME PublishInv, done, Repeats, calls[1].manifest, manifest # NoPacket,
                      manifest[1] # Zeros
               PROVE  Missing(manifest) = {} /\ Verifies(manifest) /\ Len(manifest) = nReported
    BY DEF FirstVerifies
  <2>1. calls # << >>
    BY DEF PublishInv, BeforeCalls
  <2>2. PICK i \in DOMAIN calls :
            /\ calls[i].manifest
            /\ CameFirst(calls[i])
            /\ manifest = ManifestOf(calls[i].object, calls[i].max)
    BY <2>1 DEF PublishInv, ManifestOK
  <2>3. calls[i] \in CallType
    BY DEF PublishInv, StateOK
  <2>4. PICK c \in CallType : c = calls[i]
    BY <2>3
  <2>5. c.manifest /\ CameFirst(c) /\ manifest = ManifestOf(c.object, c.max)
    BY <2>2, <2>4
  <2> DEFINE n == FinalSegment(c.object, c.max) + 1
  <2>6. /\ nReported = n /\ n = Count(c.object, c.max)
        /\ \A s \in Numbers(c) : s \in got /\ packets[s] = PacketOf(c, s)
    BY <2>5, DoneHasAll
  <2>7. n \in Nat /\ Numbers(c) = 0..(n - 1)
    BY <2>6, CallIs DEF Numbers
  <2>8. Len(manifest) = n
    <3>1. manifest = [j \in 1..n |-> IF c.object = << >> THEN Zeros
                                     ELSE Digest(j - 1, Packet(c.object, c.max, j - 1, TRUE))]
      BY <2>5 DEF ManifestOf
    <3> HIDE DEF n
    <3>2. QED
      BY <2>7, <3>1
  <2>9. ASSUME NEW s \in 0..(n - 1) PROVE manifest[s + 1] = Digest(s, packets[s])
    <3>1. c.object # << >>
      BY <2>5 DEF CameFirst
    <3>2. packets[s] = Packet(c.object, c.max, s, TRUE)
      BY <2>5, <2>6, <2>7 DEF PacketOf
    <3>3. s + 1 \in 1..n /\ (s + 1) - 1 = s
      BY <2>7
    <3>4. manifest[s + 1] = Digest((s + 1) - 1, Packet(c.object, c.max, (s + 1) - 1, TRUE))
      BY <2>5, <3>1, <3>3 DEF ManifestOf
    <3>5. QED
      BY <3>2, <3>3, <3>4
  <2> HIDE DEF n
  <2>10. Missing(manifest) = {}
    BY <2>6, <2>7, <2>8 DEF Missing
  <2>11. Verifies(manifest)
    BY <2>8, <2>9 DEF Verifies
  <2>12. QED
    BY <2>6, <2>8, <2>10, <2>11
<1>2. QED
  BY <1>1, PublishInvariant, PTL

\* The _meta packet says of the object that the consumer assembles, and of no other, what
\* it is (generalized-object-handler.cpp:53-86).
THEOREM PublishMetaFits == Spec => []MetaFits
<1>1. PublishInv => MetaFits
  <2> SUFFICES ASSUME PublishInv, done, Repeats, meta # NoPacket, meta.hasSegments,
                      meta.object # << >>
               PROVE  Assembled = meta.object
    BY DEF MetaFits
  <2>1. calls # << >> /\ generalized
    BY DEF PublishInv, MetaOK
  <2>2. calls[1] \in CallType
    BY <2>1, DoneHasAll DEF PublishInv, StateOK
  <2>3. PICK c \in CallType : c = calls[1]
    BY <2>2
  <2>4. meta = MetaOf(c.object, HasSegments(c)) /\ (HasSegments(c) /\ c.object # << >> => CameFirst(c))
    BY <2>1, <2>3 DEF PublishInv, MetaOK
  <2>5. meta.object = c.object /\ meta.hasSegments = HasSegments(c)
    BY <2>4 DEF MetaOf
  <2>6. CameFirst(c)
    BY <2>4, <2>5
  <2>7. QED
    BY <2>5, <2>6, DoneHasAll
<1>2. QED
  BY <1>1, PublishInvariant, PTL
================================================================================
