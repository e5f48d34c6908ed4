-------------------------- MODULE NamespaceTree_proofs --------------------------
(***************************************************************************)
(* Proofs about NamespaceTree: what the recursion of findBestMatchName      *)
(* returns, for every finite tree and every set of nodes whose packets      *)
(* match.                                                                   *)
(***************************************************************************)
EXTENDS NamespaceTree, FiniteSetTheorems, SequenceTheorems, WellFoundedInduction, TLAPS

-----------------------------------------------------------------------------
(* Names.                                                                   *)

LEMMA NameIs ==
    ASSUME NEW n \in Name
    PROVE  /\ n \in Seq(Nat) /\ Len(n) \in Nat /\ DOMAIN n = 1..Len(n)
           /\ \A i \in 1..Len(n) : n[i] \in Nat
<1>1. n \in Seq(Nat)
  BY NameAssumption DEF NameAssumption
<1>2. QED
  BY <1>1, LenProperties, ElementOfSeq

\* The beginning of a name.
LEMMA BeginningIs ==
    ASSUME NEW n \in Name, NEW k \in 0..Len(n)
    PROVE  LET b == SubSeq(n, 1, k) IN
           b \in Seq(Nat) /\ Len(b) = k /\ \A i \in 1..k : b[i] = n[i]
<1>1. k \in Nat /\ 1 \in Int /\ k \in Int /\ Len(n) \in Nat
  BY NameIs
<1>2. \A i \in 1..k : n[i] \in Nat
  BY <1>1, NameIs
<1>3. LET b == SubSeq(n, 1, k) IN
      /\ b \in Seq(Nat)
      /\ Len(b) = IF 1 <= k THEN k - 1 + 1 ELSE 0
      /\ \A i \in 1..(k - 1 + 1) : b[i] = n[1 + i - 1]
  BY <1>1, <1>2, SubSeqProperties
<1>4. Len(SubSeq(n, 1, k)) = k
  BY <1>1, <1>3
<1>5. ASSUME NEW i \in 1..k PROVE SubSeq(n, 1, k)[i] = n[i]
  <2>1. i \in 1..(k - 1 + 1) /\ 1 + i - 1 = i
    BY <1>1
  <2>2. QED
    BY <1>3, <2>1
<1>6. QED
  BY <1>3, <1>4, <1>5

LEMMA PrefixIs ==
    ASSUME NEW m \in Name, NEW n \in Name
    PROVE  IsPrefix(m, n) <=> Len(m) <= Len(n) /\ \A i \in 1..Len(m) : m[i] = n[i]
<1>1. CASE Len(m) <= Len(n)
  <2> DEFINE k == Len(m)
             a == SubSeq(m, 1, k)
             b == SubSeq(n, 1, k)
  <2>1. k \in 0..Len(m) /\ k \in 0..Len(n) /\ k \in Nat
    BY <1>1, NameIs
  <2>2. a \in Seq(Nat) /\ Len(a) = k /\ \A i \in 1..k : a[i] = m[i]
    BY <2>1, BeginningIs
  <2>3. b \in Seq(Nat) /\ Len(b) = k /\ \A i \in 1..k : b[i] = n[i]
    BY <2>1, BeginningIs
  <2>4. IsPrefix(m, n) <=> a = b
    BY <1>1 DEF IsPrefix
  <2> HIDE DEF a, b
  <2>5. a = b <=> \A i \in 1..k : a[i] = b[i]
    BY <2>2, <2>3, SeqEqual
  <2>6. QED
    BY <1>1, <2>2, <2>3, <2>4, <2>5
<1>2. CASE ~(Len(m) <= Len(n))
  BY <1>2 DEF IsPrefix
<1>3. QED
  BY <1>1, <1>2

\* The name of the parent.
LEMMA FrontIs ==
    ASSUME NEW n \in Name, Len(n) > 0
    PROVE  /\ Front(n) \in Name /\ Len(Front(n)) = Len(n) - 1
           /\ \A i \in 1..(Len(n) - 1) : Front(n)[i] = n[i]
<1>1. n # Root
  BY NameIs, EmptySeq DEF Root
<1>2. Front(n) \in Name
  BY <1>1, NameAssumption DEF NameAssumption
<1>3. Len(n) - 1 \in 0..Len(n)
  BY NameIs
<1>4. QED
  BY <1>2, <1>3, BeginningIs DEF Front

\* Two names are one if they have the same components.
LEMMA SameName ==
    ASSUME NEW m \in Name, NEW n \in Name, Len(m) = Len(n), \A i \in 1..Len(n) : m[i] = n[i]
    PROVE  m = n
  BY NameIs, SeqEqual

-----------------------------------------------------------------------------
(* The order of the tree.                                                   *)

LEMMA BeforeIs ==
    ASSUME NEW m \in Name, NEW n \in Name
    PROVE  Before(m, n) <=> \E i \in 1..Len(m) : m[i] < n[i] /\ \A j \in 1..(i - 1) : m[j] = n[j]
  BY NameIs DEF Before

LEMMA BeforeIrreflexive == ASSUME NEW n \in Name PROVE ~Before(n, n)
  BY BeforeIs, NameIs

LEMMA BeforeTransitive ==
    ASSUME NEW l \in Name, NEW m \in Name, NEW n \in Name, Len(l) = Len(m), Len(m) = Len(n),
           Before(l, m), Before(m, n)
    PROVE  Before(l, n)
<1>1. PICK i \in 1..Len(n) : l[i] < m[i] /\ \A j \in 1..(i - 1) : l[j] = m[j]
  BY BeforeIs
<1>2. PICK k \in 1..Len(n) : m[k] < n[k] /\ \A j \in 1..(k - 1) : m[j] = n[j]
  BY BeforeIs
<1>3. /\ i \in Nat /\ k \in Nat /\ Len(n) \in Nat
      /\ \A j \in 1..Len(n) : l[j] \in Nat /\ m[j] \in Nat /\ n[j] \in Nat
  BY NameIs
<1>4. CASE i <= k
  <2>1. l[i] < n[i]
    <3>1. m[i] = n[i] \/ i = k
      BY <1>2, <1>3, <1>4
    <3>2. QED
      BY <1>1, <1>2, <1>3, <3>1
  <2>2. \A j \in 1..(i - 1) : l[j] = n[j]
    <3>1. \A j \in 1..(i - 1) : j \in 1..(k - 1)
      BY <1>3, <1>4
    <3>2. QED
      BY <1>1, <1>2, <3>1
  <2>3. QED
    BY <2>1, <2>2, BeforeIs
<1>5. CASE k < i
  <2>1. k \in 1..(i - 1) /\ \A j \in 1..(k - 1) : j \in 1..(i - 1)
    BY <1>3, <1>5
  <2>2. l[k] < n[k] /\ \A j \in 1..(k - 1) : l[j] = n[j]
    BY <1>1, <1>2, <2>1
  <2>3. QED
    BY <2>2, BeforeIs
<1>6. QED
  BY <1>3, <1>4, <1>5

\* A set of numbers that is not empty has a smallest element.
LEMMA SmallestIn ==
    ASSUME NEW S \in SUBSET Nat, S # {}
    PROVE  \E x \in S : \A y \in S : x <= y
<1>1. PICK x \in S : \A y \in S : ~(<<y, x>> \in OpToRel(<, Nat))
  BY NatLessThanWellFounded, WFMin
<1>2. ASSUME NEW y \in S PROVE x <= y
  <2>1. x \in Nat /\ y \in Nat
    OBVIOUS
  <2>2. <<y, x>> \in Nat \X Nat /\ <<y, x>>[1] = y /\ <<y, x>>[2] = x
    BY <2>1
  <2>3. y < x => <<y, x>> \in OpToRel(<, Nat)
    BY <2>2 DEF OpToRel
  <2>4. ~(y < x)
    BY <1>1, <2>3
  <2>5. QED
    BY <2>1, <2>4
<1>3. QED
  BY <1>2

LEMMA BeforeTotal ==
    ASSUME NEW m \in Name, NEW n \in Name, Len(m) = Len(n), m # n
    PROVE  Before(m, n) \/ Before(n, m)
<1> DEFINE differ == {i \in 1..Len(n) : m[i] # n[i]}
<1>1. differ # {} /\ differ \in SUBSET Nat
  BY SameName
<1>2. PICK i \in differ : \A j \in differ : i <= j
  BY <1>1, SmallestIn
<1>3. /\ i \in 1..Len(n) /\ i \in Nat /\ Len(n) \in Nat /\ m[i] \in Nat /\ n[i] \in Nat
      /\ m[i] # n[i]
  BY NameIs
<1>4. ASSUME NEW j \in 1..(i - 1) PROVE m[j] = n[j]
  <2>1. j \in 1..Len(n) /\ ~(i <= j)
    BY <1>3
  <2>2. QED
    BY <1>2, <2>1
<1>5. m[i] < n[i] \/ n[i] < m[i]
  BY <1>3
<1>6. QED
  BY <1>3, <1>4, <1>5, BeforeIs

\* The names below a node come before those of the same length below a later one.
LEMMA BeforeBelow ==
    ASSUME NEW m \in Name, NEW n \in Name, Len(m) = Len(n), Before(m, n),
           NEW a \in Subtree(m), NEW b \in Subtree(n)
    PROVE  Before(a, b)
<1>1. a \in Name /\ b \in Name /\ IsPrefix(m, a) /\ IsPrefix(n, b)
  BY DEF Subtree
<1>2. PICK i \in 1..Len(m) : m[i] < n[i] /\ \A j \in 1..(i - 1) : m[j] = n[j]
  BY BeforeIs
<1>3. /\ Len(m) <= Len(a) /\ \A j \in 1..Len(m) : m[j] = a[j] /\ n[j] = b[j]
      /\ Len(m) \in Nat /\ Len(a) \in Nat
  BY <1>1, PrefixIs, NameIs
<1>4. i \in 1..Len(a) /\ \A j \in 1..(i - 1) : j \in 1..Len(m)
  BY <1>3
<1>5. a[i] < b[i] /\ \A j \in 1..(i - 1) : a[j] = b[j]
  BY <1>2, <1>3, <1>4
<1>6. QED
  BY <1>1, <1>4, <1>5, BeforeIs

-----------------------------------------------------------------------------
(* Least elements of finite sets.                                           *)

IsLeast(a, R, S) == a \in S /\ \A b \in S \ {a} : <<a, b>> \in R

LEMMA HasLeast ==
    ASSUME NEW R, NEW S, IsFiniteSet(S), S # {},
           \A a, b, c \in S : <<a, b>> \in R /\ <<b, c>> \in R => <<a, c>> \in R,
           \A a, b \in S : a # b => <<a, b>> \in R \/ <<b, a>> \in R
    PROVE  \E a \in S : IsLeast(a, R, S)
<1> DEFINE Lacks(T) == T # {} /\ \A a \in T : ~IsLeast(a, R, T)
           sizes == {k \in Nat : \E T \in SUBSET S : Cardinality(T) = k /\ Lacks(T)}
<1>1. ASSUME NEW T \in SUBSET S PROVE IsFiniteSet(T) /\ Cardinality(T) \in Nat
  BY FS_Subset, FS_CardinalityType
<1>2. CASE sizes = {}
  <2>1. ~Lacks(S)
    <3>1. Cardinality(S) \in Nat /\ S \in SUBSET S
      BY <1>1
    <3>2. QED
      BY <1>2, <3>1
  <2>2. QED
    BY <2>1
<1>3. CASE sizes # {}
  <2>1. PICK k \in sizes : \A l \in sizes : k <= l
    <3>1. sizes \in SUBSET Nat
      OBVIOUS
    <3>2. QED
      BY <1>3, <3>1, SmallestIn
  <2>2. PICK T \in SUBSET S : Cardinality(T) = k /\ Lacks(T)
    OBVIOUS
  <2>3. PICK x \in T : TRUE
    BY <2>2
  <2> DEFINE U == T \ {x}
  <2>4. IsFiniteSet(U) /\ Cardinality(U) = k - 1 /\ k \in Nat /\ Cardinality(U) \in Nat
    BY <1>1, <2>2, <2>3, FS_RemoveElement
  <2>5. ~(Cardinality(U) \in sizes)
    <3>1. ~(k <= Cardinality(U))
      BY <2>4
    <3>2. QED
      BY <2>1, <3>1
  <2>6. ~Lacks(U)
    BY <2>4, <2>5
  <2>7. CASE U = {}
    <3>1. IsLeast(x, R, T)
      BY <2>3, <2>7 DEF IsLeast
    <3>2. QED
      BY <2>2, <2>3, <3>1
  <2>8. CASE U # {}
    <3>1. PICK a \in U : IsLeast(a, R, U)
      BY <2>6, <2>8
    <3>2. a \in T /\ a # x /\ a \in S /\ x \in S /\ \A b \in U \ {a} : b \in S /\ <<a, b>> \in R
      BY <2>3, <3>1 DEF IsLeast
    <3>3. CASE <<a, x>> \in R
      <4>1. IsLeast(a, R, T)
        BY <3>2, <3>3 DEF IsLeast
      <4>2. QED
        BY <2>2, <3>2, <4>1
    <3>4. CASE <<x, a>> \in R
      <4>1. \A b \in T \ {x} : <<x, b>> \in R
        BY <3>2, <3>4
      <4>2. IsLeast(x, R, T)
        BY <2>3, <4>1 DEF IsLeast
      <4>3. QED
        BY <2>2, <2>3, <4>2
    <3>5. QED
      BY <3>2, <3>3, <3>4
  <2>9. QED
    BY <2>7, <2>8
<1>4. QED
  BY <1>2, <1>3

\* The order of the matches: the longest first, and then as the tree has them.
Outranks(m, n) == Len(n) < Len(m) \/ (Len(n) = Len(m) /\ Before(m, n))

LEMMA OutranksOrders ==
    /\ \A n \in Name : ~Outranks(n, n)
    /\ \A l, m, n \in Name : Outranks(l, m) /\ Outranks(m, n) => Outranks(l, n)
    /\ \A m, n \in Name : m # n => Outranks(m, n) \/ Outranks(n, m)
<1>1. \A n \in Name : ~Outranks(n, n)
  BY BeforeIrreflexive, NameIs DEF Outranks
<1>2. ASSUME NEW l \in Name, NEW m \in Name, NEW n \in Name, Outranks(l, m), Outranks(m, n)
      PROVE  Outranks(l, n)
  <2>1. Len(l) \in Nat /\ Len(m) \in Nat /\ Len(n) \in Nat
    BY NameIs
  <2>2. QED
    BY <1>2, <2>1, BeforeTransitive DEF Outranks
<1>3. ASSUME NEW m \in Name, NEW n \in Name, m # n PROVE Outranks(m, n) \/ Outranks(n, m)
  <2>1. Len(m) \in Nat /\ Len(n) \in Nat
    BY NameIs
  <2>2. QED
    BY <1>3, <2>1, BeforeTotal DEF Outranks
<1>4. QED
  BY <1>1, <1>2, <1>3

LEMMA BestMatchIs ==
    ASSUME NEW F \in SUBSET Name, NEW n
    PROVE  IsBestMatch(n, F) <=> n \in F /\ \A m \in F \ {n} : Outranks(n, m)
  BY DEF IsBestMatch, Outranks

LEMMA BestMatchExists ==
    ASSUME NEW F \in SUBSET Name, IsFiniteSet(F), F # {}
    PROVE  \E n \in F : IsBestMatch(n, F)
<1> DEFINE R == {p \in Name \X Name : Outranks(p[1], p[2])}
<1>1. \A m, n \in Name : <<m, n>> \in R <=> Outranks(m, n)
  OBVIOUS
<1> HIDE DEF R
<1>2. /\ \A l, m, n \in F : <<l, m>> \in R /\ <<m, n>> \in R => <<l, n>> \in R
      /\ \A m, n \in F : m # n => <<m, n>> \in R \/ <<n, m>> \in R
  BY <1>1, OutranksOrders
<1>3. PICK n \in F : IsLeast(n, R, F)
  BY <1>2, HasLeast
<1>4. QED
  BY <1>1, <1>3, BestMatchIs DEF IsLeast

LEMMA BestMatchUnique ==
    ASSUME NEW F \in SUBSET Name, NEW m, NEW n, IsBestMatch(m, F), IsBestMatch(n, F)
    PROVE  m = n
  BY BestMatchIs, OutranksOrders

\* A finite set of names has a last one among its longest.
LEMMA LastOfLongest ==
    ASSUME NEW F \in SUBSET Name, IsFiniteSet(F), F # {}
    PROVE  \E n \in F : \A m \in F : ~(Len(n) < Len(m)) /\ ~(Len(n) = Len(m) /\ Before(n, m))
<1> DEFINE R == {p \in Name \X Name :
                    \/ Len(p[2]) < Len(p[1])
                    \/ Len(p[1]) = Len(p[2]) /\ Before(p[2], p[1])}
<1>1. \A m, n \in Name : <<m, n>> \in R <=> Len(n) < Len(m) \/ (Len(m) = Len(n) /\ Before(n, m))
  OBVIOUS
<1> HIDE DEF R
<1>2. ASSUME NEW l \in F, NEW m \in F, NEW n \in F, <<l, m>> \in R, <<m, n>> \in R
      PROVE  <<l, n>> \in R
  <2>1. Len(l) \in Nat /\ Len(m) \in Nat /\ Len(n) \in Nat
    BY NameIs
  <2>2. QED
    BY <1>1, <1>2, <2>1, BeforeTransitive
<1>3. ASSUME NEW m \in F, NEW n \in F, m # n PROVE <<m, n>> \in R \/ <<n, m>> \in R
  <2>1. Len(m) \in Nat /\ Len(n) \in Nat
    BY NameIs
  <2>2. QED
    BY <1>1, <1>3, <2>1, BeforeTotal
<1>4. PICK n \in F : IsLeast(n, R, F)
  BY <1>2, <1>3, HasLeast
<1>5. ASSUME NEW m \in F PROVE ~(Len(n) < Len(m)) /\ ~(Len(n) = Len(m) /\ Before(n, m))
  <2>1. Len(m) \in Nat /\ Len(n) \in Nat
    BY NameIs
  <2>2. CASE m = n
    BY <2>1, <2>2, BeforeIrreflexive
  <2>3. CASE m # n
    <3>1. Len(m) < Len(n) \/ (Len(n) = Len(m) /\ Before(m, n))
      BY <1>1, <1>4, <2>3 DEF IsLeast
    <3>2. ~(Len(n) = Len(m) /\ Before(m, n) /\ Before(n, m))
      BY BeforeTransitive, BeforeIrreflexive
    <3>3. QED
      BY <2>1, <3>1, <3>2
  <2>4. QED
    BY <2>2, <2>3
<1>6. QED
  BY <1>5

LEMMA ForemostIs ==
    ASSUME NEW S \in SUBSET Name, IsFiniteSet(S), S # {}, \A m, n \in S : Len(m) = Len(n)
    PROVE  Foremost(S) \in S /\ \A m \in S \ {Foremost(S)} : Before(Foremost(S), m)
<1>1. PICK n \in S : IsBestMatch(n, S)
  BY BestMatchExists
<1>2. \A m \in S \ {n} : Before(n, m)
  <2>1. ASSUME NEW m \in S \ {n} PROVE Before(n, m)
    <3>1. Len(m) = Len(n) /\ Len(n) \in Nat
      BY NameIs
    <3>2. QED
      BY <1>1, <3>1, BestMatchIs DEF Outranks
  <2>2. QED
    BY <2>1
<1>3. QED
  BY <1>2 DEF Foremost

-----------------------------------------------------------------------------
(* The nodes that the recursion visits.                                     *)

LEMMA ChildIs ==
    ASSUME NEW n \in Name, NEW m \in Name
    PROVE  m \in Children(n) <=> Len(m) = Len(n) + 1 /\ Front(m) = n
<1>1. Len(m) \in Nat /\ Len(n) \in Nat
  BY NameIs
<1>2. ASSUME Len(m) = Len(n) + 1 PROVE IsPrefix(n, m) <=> Front(m) = n
  <2>1. /\ Front(m) \in Name /\ Len(Front(m)) = Len(n)
        /\ \A i \in 1..Len(n) : Front(m)[i] = m[i]
    <3>1. Len(m) > 0 /\ Len(m) - 1 = Len(n)
      BY <1>1, <1>2
    <3>2. QED
      BY <3>1, FrontIs
  <2>2. IsPrefix(n, m) <=> \A i \in 1..Len(n) : n[i] = m[i]
    BY <1>1, <1>2, PrefixIs
  <2>3. Front(m) = n <=> \A i \in 1..Len(n) : n[i] = Front(m)[i]
    BY <2>1, SameName
  <2>4. QED
    BY <2>1, <2>2, <2>3
<1>3. m \in Children(n) <=> IsPrefix(n, m) /\ Len(m) = Len(n) + 1
  BY DEF Children, Subtree
<1>4. QED
  BY <1>2, <1>3

\* A name has all of its beginnings above it.
LEMMA BeginningsExist ==
    ASSUME NEW n \in Name, NEW k \in 0..Len(n)
    PROVE  \E m \in Name : Len(m) = k /\ IsPrefix(m, n)
<1> DEFINE Has(j) == \E m \in Name : Len(m) = Len(n) - j /\ IsPrefix(m, n)
           gaps == {j \in 0..Len(n) : ~Has(j)}
<1>1. Len(n) \in Nat
  BY NameIs
<1>2. CASE gaps = {}
  <2>1. Len(n) - k \in 0..Len(n) /\ Len(n) - (Len(n) - k) = k
    BY <1>1
  <2>2. Has(Len(n) - k)
    BY <1>2, <2>1
  <2>3. QED
    BY <2>1, <2>2
<1>3. CASE gaps # {}
  <2>1. PICK j \in gaps : \A l \in gaps : j <= l
    <3>1. gaps \in SUBSET Nat
      BY <1>1
    <3>2. QED
      BY <1>3, <3>1, SmallestIn
  <2>2. j \in 0..Len(n) /\ ~Has(j)
    OBVIOUS
  <2>3. j # 0
    <3>1. Len(n) = Len(n) - 0 /\ IsPrefix(n, n)
      BY <1>1, PrefixIs
    <3>2. QED
      BY <2>2, <3>1
  <2>4. j - 1 \in 0..Len(n) /\ ~(j <= j - 1)
    BY <1>1, <2>2, <2>3
  <2>5. Has(j - 1)
    BY <2>1, <2>4
  <2>6. PICK m \in Name : Len(m) = Len(n) - (j - 1) /\ IsPrefix(m, n)
    BY <2>5
  <2>7. Len(m) > 0 /\ Len(m) - 1 = Len(n) - j /\ Len(m) \in Nat
    BY <1>1, <2>2, <2>6
  <2>8. /\ Front(m) \in Name /\ Len(Front(m)) = Len(n) - j
        /\ \A i \in 1..(Len(m) - 1) : Front(m)[i] = m[i]
    BY <2>7, FrontIs
  <2>9. IsPrefix(Front(m), n)
    <3>1. Len(m) <= Len(n) /\ \A i \in 1..Len(m) : m[i] = n[i]
      BY <2>6, PrefixIs
    <3>2. \A i \in 1..(Len(m) - 1) : i \in 1..Len(m)
      BY <2>7
    <3>3. Len(Front(m)) <= Len(n)
      BY <1>1, <2>2, <2>8
    <3>4. \A i \in 1..Len(Front(m)) : Front(m)[i] = n[i]
      BY <2>7, <2>8, <3>1, <3>2
    <3>5. QED
      BY <2>8, <3>3, <3>4, PrefixIs
  <2>10. QED
    BY <2>2, <2>8, <2>9
<1>4. QED
  BY <1>2, <1>3

\* The nodes that have been visited once n has: those below n and its later siblings.
Visited(n) == UNION {Subtree(m) : m \in {n} \union Later(n)}

\* Of siblings, the foremost has the others after it.
LEMMA SiblingsAre ==
    ASSUME NEW S \in SUBSET Name, IsFiniteSet(S), S # {}, NEW k \in Nat, NEW parent,
           \A m \in S : Len(m) = k /\ Front(m) = parent
    PROVE  /\ Foremost(S) \in S
           /\ S \subseteq {Foremost(S)} \union Later(Foremost(S))
           /\ \A m \in Later(Foremost(S)) :
                 m \in Name /\ Len(m) = k /\ Front(m) = parent /\ Before(Foremost(S), m)
<1> DEFINE f == Foremost(S)
<1>1. f \in S /\ \A m \in S \ {f} : Before(f, m)
  BY ForemostIs
<1> HIDE DEF f
<1>2. S \subseteq {f} \union Later(f)
  BY <1>1 DEF Later
<1>3. \A m \in Later(f) : m \in Name /\ Len(m) = k /\ Front(m) = parent /\ Before(f, m)
  BY <1>1 DEF Later
<1>4. QED
  BY <1>1, <1>2, <1>3 DEF f

\* Below a node with children are those that have been visited with the last of them.
LEMMA SubtreeIs ==
    ASSUME IsFiniteSet(Name), NEW n \in Name
    PROVE  /\ Children(n) = {} => Subtree(n) = {n}
           /\ Children(n) # {} =>
                 /\ Foremost(Children(n)) \in Name
                 /\ Len(Foremost(Children(n))) = Len(n) + 1
                 /\ Subtree(n) = {n} \union Visited(Foremost(Children(n)))
                 /\ \A m \in Visited(Foremost(Children(n))) : Len(n) < Len(m)
<1>0. Len(n) \in Nat /\ n \in Subtree(n)
  BY NameIs, PrefixIs DEF Subtree
<1>1. ASSUME NEW m \in Subtree(n), m # n
      PROVE  \E c \in Children(n) : m \in Subtree(c)
  <2>1. m \in Name /\ Len(m) \in Nat /\ Len(n) <= Len(m) /\ \A i \in 1..Len(n) : n[i] = m[i]
    BY PrefixIs, NameIs DEF Subtree
  <2>2. Len(n) # Len(m)
    BY <1>1, <2>1, SameName
  <2>3. Len(n) + 1 \in 0..Len(m)
    BY <1>0, <2>1, <2>2
  <2>4. PICK c \in Name : Len(c) = Len(n) + 1 /\ IsPrefix(c, m)
    BY <2>1, <2>3, BeginningsExist
  <2>5. \A i \in 1..Len(c) : c[i] = m[i]
    BY <2>1, <2>4, PrefixIs
  <2>6. IsPrefix(n, c)
    <3>1. Len(n) <= Len(c) /\ \A i \in 1..Len(n) : i \in 1..Len(c)
      BY <1>0, <2>4
    <3>2. QED
      BY <2>1, <2>5, <3>1, PrefixIs
  <2>7. QED
    BY <2>1, <2>4, <2>6 DEF Children, Subtree
<1>2. ASSUME NEW c \in Children(n), NEW m \in Subtree(c)
      PROVE  m \in Subtree(n) /\ Len(n) < Len(m)
  <2>1. c \in Name /\ m \in Name /\ IsPrefix(n, c) /\ IsPrefix(c, m) /\ Len(c) = Len(n) + 1
    BY DEF Children, Subtree
  <2>2. /\ Len(c) <= Len(m) /\ Len(m) \in Nat
        /\ \A i \in 1..Len(n) : n[i] = c[i]
        /\ \A i \in 1..Len(c) : c[i] = m[i]
    BY <2>1, PrefixIs, NameIs
  <2>3. Len(n) < Len(m) /\ \A i \in 1..Len(n) : i \in 1..Len(c)
    BY <1>0, <2>1, <2>2
  <2>4. Len(n) <= Len(m) /\ \A i \in 1..Len(n) : n[i] = m[i]
    BY <1>0, <2>2, <2>3
  <2>5. QED
    BY <2>1, <2>3, <2>4, PrefixIs DEF Subtree
<1>3. CASE Children(n) = {}
  BY <1>0, <1>1, <1>3
<1>4. CASE Children(n) # {}
  <2> DEFINE f == Foremost(Children(n))
  <2>1. /\ f \in Children(n)
        /\ Children(n) \subseteq {f} \union Later(f)
        /\ \A m \in Later(f) : m \in Name /\ Len(m) = Len(n) + 1 /\ Front(m) = n
    <3>1. Children(n) \in SUBSET Name
      BY DEF Children, Subtree
    <3>2. IsFiniteSet(Children(n))
      BY <3>1, FS_Subset
    <3>3. \A m \in Children(n) : Len(m) = Len(n) + 1 /\ Front(m) = n
      BY <3>1, ChildIs
    <3>4. Len(n) + 1 \in Nat
      BY <1>0
    <3>5. QED
      BY <1>4, <3>1, <3>2, <3>3, <3>4, SiblingsAre
  <2>2. f \in Name /\ Len(f) = Len(n) + 1
    BY <2>1 DEF Children, Subtree
  <2> HIDE DEF f
  <2>3. {f} \union Later(f) = Children(n)
    BY <2>1, ChildIs
  <2>4. Visited(f) = UNION {Subtree(m) : m \in Children(n)}
    BY <2>3 DEF Visited
  <2>5. Subtree(n) = {n} \union Visited(f) /\ \A m \in Visited(f) : Len(n) < Len(m)
    BY <1>0, <1>1, <1>2, <2>4
  <2>6. QED
    BY <1>4, <2>2, <2>5 DEF f
<1>5. QED
  BY <1>3, <1>4

\* What has been visited before n are the later siblings, and all that is below them.
LEMMA VisitedIs ==
    ASSUME IsFiniteSet(Name), NEW n \in Name
    PROVE  /\ Later(n) = {} => Visited(n) = Subtree(n)
           /\ Later(n) # {} =>
                 /\ Foremost(Later(n)) \in Later(n)
                 /\ Visited(n) = Subtree(n) \union Visited(Foremost(Later(n)))
                 /\ \A a \in Subtree(n), b \in Visited(Foremost(Later(n))) : Before(a, b)
<1>1. CASE Later(n) = {}
  BY <1>1 DEF Visited
<1>2. CASE Later(n) # {}
  <2> DEFINE f == Foremost(Later(n))
  <2>1. /\ f \in Later(n)
        /\ Later(n) \subseteq {f} \union Later(f)
        /\ \A m \in Later(f) :
              m \in Name /\ Len(m) = Len(n) /\ Front(m) = Front(n) /\ Before(f, m)
    <3>1. Later(n) \in SUBSET Name /\ Len(n) \in Nat
      BY NameIs DEF Later
    <3>2. IsFiniteSet(Later(n))
      BY <3>1, FS_Subset
    <3>3. \A m \in Later(n) : Len(m) = Len(n) /\ Front(m) = Front(n)
      BY DEF Later
    <3>4. QED
      BY <1>2, <3>1, <3>2, <3>3, SiblingsAre
  <2> HIDE DEF f
  <2>2. f \in Name /\ Len(f) = Len(n) /\ Before(n, f)
    BY <2>1 DEF Later
  <2>3. ASSUME NEW m \in Later(f) PROVE m \in Later(n)
    <3>1. Before(n, m)
      BY <2>1, <2>2, BeforeTransitive
    <3>2. QED
      BY <2>1, <3>1 DEF Later
  <2>4. {f} \union Later(f) = Later(n)
    BY <2>1, <2>3
  <2>5. Visited(f) = UNION {Subtree(m) : m \in Later(n)}
    BY <2>4 DEF Visited
  <2>6. Visited(n) = Subtree(n) \union Visited(f)
    BY <2>5 DEF Visited
  <2>7. ASSUME NEW a \in Subtree(n), NEW b \in Visited(f) PROVE Before(a, b)
    <3>1. PICK m \in Later(n) : b \in Subtree(m)
      BY <2>5
    <3>2. m \in Name /\ Len(n) = Len(m) /\ Before(n, m)
      BY DEF Later
    <3>3. QED
      BY <3>1, <3>2, BeforeBelow
  <2>8. QED
    BY <1>2, <2>1, <2>6, <2>7 DEF f
<1>3. QED
  BY <1>1, <1>2

-----------------------------------------------------------------------------
(* What the recursion returns.                                              *)

\* The best match among the nodes of F, or a null pointer.
BestOf(F) == IF F = {} THEN << >> ELSE <<CHOOSE n : IsBestMatch(n, F)>>

LEMMA BestOfIs ==
    ASSUME IsFiniteSet(Name), NEW F \in SUBSET Name
    PROVE  /\ F = {} <=> BestOf(F) = << >>
           /\ F # {} => \E n \in F : IsBestMatch(n, F) /\ BestOf(F) = <<n>>
           /\ \A n : IsBestMatch(n, F) => BestOf(F) = <<n>>
<1>1. F # {} => \E n \in F : IsBestMatch(n, F)
  BY FS_Subset, BestMatchExists
<1>2. ASSUME NEW n, IsBestMatch(n, F) PROVE F # {} /\ BestOf(F) = <<n>>
  <2>1. F # {}
    BY <1>2, BestMatchIs
  <2>2. n = CHOOSE m : IsBestMatch(m, F)
    BY <1>2, BestMatchUnique
  <2>3. QED
    BY <2>1, <2>2 DEF BestOf
<1>3. \A n : <<n>> # << >>
  OBVIOUS
<1>4. F = {} => BestOf(F) = << >>
  BY DEF BestOf
<1>5. QED
  BY <1>1, <1>2, <1>3, <1>4

\* A later sibling and all below it lose against the nodes of A of the same length.
LEMMA BetterIs ==
    ASSUME IsFiniteSet(Name), NEW A \in SUBSET Name, NEW B \in SUBSET Name,
           \A a \in A, b \in B : Before(a, b)
    PROVE  Better(BestOf(B), BestOf(A)) = BestOf(A \union B)
<1>1. CASE A = {}
  <2>1. BestOf(A) = << >> /\ A \union B = B
    BY <1>1, BestOfIs
  <2>2. QED
    BY <2>1 DEF Better
<1>2. CASE A # {} /\ B = {}
  <2>1. BestOf(B) = << >> /\ BestOf(A) # << >> /\ A \union B = A
    BY <1>2, BestOfIs
  <2>2. QED
    BY <2>1 DEF Better
<1>3. CASE A # {} /\ B # {}
  <2>1. PICK a \in A : IsBestMatch(a, A) /\ BestOf(A) = <<a>>
    BY <1>3, BestOfIs
  <2>2. PICK b \in B : IsBestMatch(b, B) /\ BestOf(B) = <<b>>
    BY <1>3, BestOfIs
  <2>3. a \in Name /\ b \in Name /\ Len(a) \in Nat /\ Len(b) \in Nat
    BY NameIs
  <2>4. Better(BestOf(B), BestOf(A)) = IF Len(a) >= Len(b) THEN <<a>> ELSE <<b>>
    <3>1. <<a>> # << >> /\ <<b>> # << >> /\ <<a>>[1] = a /\ <<b>>[1] = b
      OBVIOUS
    <3>2. QED
      BY <2>1, <2>2, <3>1 DEF Better
  <2>5. /\ \A m \in A \ {a} : Outranks(a, m)
        /\ \A m \in B \ {b} : Outranks(b, m)
    BY <2>1, <2>2, BestMatchIs
  <2>6. CASE Len(a) >= Len(b)
    <3>1. Outranks(a, b)
      BY <2>3, <2>6 DEF Outranks
    <3>2. \A m \in (A \union B) \ {a} : Outranks(a, m)
      BY <2>3, <2>5, <3>1, OutranksOrders
    <3>3. IsBestMatch(a, A \union B)
      BY <3>2, BestMatchIs
    <3>4. QED
      BY <2>4, <2>6, <3>3, BestOfIs
  <2>7. CASE ~(Len(a) >= Len(b))
    <3>1. Outranks(b, a)
      BY <2>3, <2>7 DEF Outranks
    <3>2. \A m \in (A \union B) \ {b} : Outranks(b, m)
      BY <2>3, <2>5, <3>1, OutranksOrders
    <3>3. IsBestMatch(b, A \union B)
      BY <3>2, BestMatchIs
    <3>4. QED
      BY <2>4, <2>7, <3>3, BestOfIs
  <2>8. QED
    BY <2>6, <2>7
<1>4. QED
  BY <1>1, <1>2, <1>3

\* f has the best match so far after each visit.
FollowsVisits(f, found) ==
    f = [n \in Name |->
            Better(IF Later(n) = {} THEN << >> ELSE f[Foremost(Later(n))], Match(f, found, n))]

LEMMA FollowsVisitsAt ==
    ASSUME NEW f, NEW found, FollowsVisits(f, found), NEW n \in Name
    PROVE  f[n] = Better(IF Later(n) = {} THEN << >> ELSE f[Foremost(Later(n))], Match(f, found, n))
  BY DEF FollowsVisits

\* If the best match so far is that among the visited nodes, the call returns the best one
\* below its node.
LEMMA MatchIs ==
    ASSUME IsFiniteSet(Name), NEW found \in SUBSET Name, NEW f,
           \A m \in Name : f[m] = BestOf(found \cap Visited(m)), NEW n \in Name
    PROVE  Match(f, found, n) = BestOf(found \cap Subtree(n))
<1> DEFINE last == IF Children(n) = {} THEN << >> ELSE f[Foremost(Children(n))]
<1>1. Match(f, found, n) = IF last # << >> THEN last ELSE IF n \in found THEN <<n>> ELSE << >>
  BY DEF Match
<1>2. \E D \in SUBSET Name :
         /\ last = BestOf(found \cap D)
         /\ Subtree(n) = {n} \union D
         /\ \A m \in D : Len(n) < Len(m)
  <2>1. CASE Children(n) = {}
    <3>1. PICK D \in SUBSET Name : D = {}
      OBVIOUS
    <3>2. found \cap D = {} /\ Subtree(n) = {n} \union D
      BY <2>1, <3>1, SubtreeIs
    <3>3. last = BestOf(found \cap D)
      BY <2>1, <3>2 DEF BestOf
    <3>4. QED
      BY <3>1, <3>2, <3>3
  <2>2. CASE Children(n) # {}
    <3>1. Visited(Foremost(Children(n))) \in SUBSET Name
      BY DEF Visited, Subtree
    <3>2. QED
      BY <2>2, <3>1, SubtreeIs
  <2>3. QED
    BY <2>1, <2>2
<1> HIDE DEF last
<1>3. PICK D \in SUBSET Name :
         /\ last = BestOf(found \cap D)
         /\ Subtree(n) = {n} \union D
         /\ \A m \in D : Len(n) < Len(m)
  BY <1>2
<1>4. found \cap D \in SUBSET Name /\ found \cap Subtree(n) \in SUBSET Name
  BY <1>3
<1>5. CASE found \cap D = {}
  <2>1. last = << >>
    BY <1>3, <1>4, <1>5, BestOfIs
  <2>2. CASE n \in found
    <3>1. found \cap Subtree(n) = {n}
      BY <1>3, <1>5, <2>2
    <3>2. IsBestMatch(n, {n})
      BY BestMatchIs
    <3>3. QED
      BY <1>1, <1>4, <2>1, <2>2, <3>1, <3>2, BestOfIs
  <2>3. CASE n \notin found
    <3>1. found \cap Subtree(n) = {}
      BY <1>3, <1>5, <2>3
    <3>2. QED
      BY <1>1, <1>4, <2>1, <2>3, <3>1, BestOfIs
  <2>4. QED
    BY <2>2, <2>3
<1>6. CASE found \cap D # {}
  <2>1. PICK m \in found \cap D : IsBestMatch(m, found \cap D) /\ BestOf(found \cap D) = <<m>>
    BY <1>4, <1>6, BestOfIs
  <2>2. Outranks(m, n)
    BY <1>3, <2>1 DEF Outranks
  <2>3. \A l \in (found \cap D) \ {m} : Outranks(m, l)
    BY <1>4, <2>1, BestMatchIs
  <2>4. \A l \in (found \cap Subtree(n)) \ {m} : Outranks(m, l)
    BY <1>3, <2>2, <2>3
  <2>5. IsBestMatch(m, found \cap Subtree(n))
    BY <1>3, <1>4, <2>1, <2>4, BestMatchIs
  <2>6. BestOf(found \cap Subtree(n)) = <<m>>
    BY <1>4, <2>5, BestOfIs
  <2>7. <<m>> # << >>
    OBVIOUS
  <2>8. QED
    BY <1>1, <1>3, <2>1, <2>6, <2>7
<1>7. QED
  BY <1>5, <1>6

\* The best match among the visited nodes follows the visits.
LEMMA BestFollowsVisits ==
    ASSUME IsFiniteSet(Name), NEW found \in SUBSET Name
    PROVE  FollowsVisits([n \in Name |-> BestOf(found \cap Visited(n))], found)
<1> DEFINE g == [n \in Name |-> BestOf(found \cap Visited(n))]
           step(n) == Better(IF Later(n) = {} THEN << >> ELSE g[Foremost(Later(n))],
                             Match(g, found, n))
<1>1. \A n \in Name : g[n] = BestOf(found \cap Visited(n))
  OBVIOUS
<1>2. g = [n \in Name |-> g[n]]
  OBVIOUS
<1> HIDE DEF g
<1>3. ASSUME NEW n \in Name PROVE g[n] = step(n)
  <2>1. Match(g, found, n) = BestOf(found \cap Subtree(n))
    BY <1>1, MatchIs
  <2>2. found \cap Subtree(n) \in SUBSET Name
    OBVIOUS
  <2>3. CASE Later(n) = {}
    <3>1. Visited(n) = Subtree(n)
      BY <2>3, VisitedIs
    <3>2. step(n) = Better(<< >>, BestOf(found \cap Subtree(n)))
      BY <2>1, <2>3
    <3>3. Better(<< >>, BestOf(found \cap Subtree(n))) = BestOf(found \cap Subtree(n))
      BY DEF Better
    <3>4. QED
      BY <1>1, <3>1, <3>2, <3>3
  <2>4. CASE Later(n) # {}
    <3> DEFINE h == Foremost(Later(n))
               A == found \cap Subtree(n)
               B == found \cap Visited(h)
    <3>1. h \in Name
      BY <2>4, VisitedIs DEF Later
    <3>2. /\ Visited(n) = Subtree(n) \union Visited(h)
          /\ \A a \in Subtree(n), b \in Visited(h) : Before(a, b)
      BY <2>4, VisitedIs
    <3>3. step(n) = Better(BestOf(B), BestOf(A))
      BY <1>1, <2>1, <2>4, <3>1
    <3>4. A \union B = found \cap Visited(n) /\ \A a \in A, b \in B : Before(a, b)
      BY <3>2
    <3>5. A \in SUBSET Name /\ B \in SUBSET Name
      OBVIOUS
    <3> HIDE DEF A, B, h
    <3>6. Better(BestOf(B), BestOf(A)) = BestOf(A \union B)
      BY <3>4, <3>5, BetterIs
    <3>7. QED
      BY <1>1, <3>3, <3>4, <3>6
  <2>5. QED
    BY <2>3, <2>4
<1>4. g = [n \in Name |-> step(n)]
  BY <1>2, <1>3
<1>5. QED
  BY <1>4 DEF FollowsVisits, g

\* There is only one function that follows the visits: a node where two differ would have
\* no later sibling and no child where they do.
LEMMA VisitsUnique ==
    ASSUME IsFiniteSet(Name), NEW found, NEW f, NEW g,
           FollowsVisits(f, found), FollowsVisits(g, found), NEW n \in Name
    PROVE  f[n] = g[n]
<1> DEFINE differ == {m \in Name : f[m] # g[m]}
<1>1. CASE differ = {}
  BY <1>1
<1>2. CASE differ # {}
  <2>1. differ \in SUBSET Name /\ IsFiniteSet(differ)
    BY FS_Subset
  <2>2. PICK m \in differ : \A l \in differ : ~(Len(m) < Len(l)) /\ ~(Len(m) = Len(l) /\ Before(m, l))
    BY <1>2, <2>1, LastOfLongest
  <2>3. m \in Name /\ f[m] # g[m] /\ Len(m) \in Nat
    BY NameIs
  <2>4. ASSUME Later(m) # {} PROVE f[Foremost(Later(m))] = g[Foremost(Later(m))]
    <3>1. Foremost(Later(m)) \in Later(m)
      BY <2>3, <2>4, VisitedIs
    <3>2. QED
      BY <2>2, <3>1 DEF Later
  <2>5. ASSUME Children(m) # {} PROVE f[Foremost(Children(m))] = g[Foremost(Children(m))]
    <3>1. Foremost(Children(m)) \in Name /\ Len(Foremost(Children(m))) = Len(m) + 1
      BY <2>3, <2>5, SubtreeIs
    <3>2. Len(m) < Len(Foremost(Children(m)))
      BY <2>3, <3>1
    <3>3. QED
      BY <2>2, <3>1, <3>2
  <2>6. Match(f, found, m) = Match(g, found, m)
    BY <2>5 DEF Match
  <2>7. /\ f[m] = Better(IF Later(m) = {} THEN << >> ELSE f[Foremost(Later(m))], Match(f, found, m))
        /\ g[m] = Better(IF Later(m) = {} THEN << >> ELSE g[Foremost(Later(m))], Match(g, found, m))
    BY <2>3, FollowsVisitsAt
  <2>8. QED
    BY <2>3, <2>4, <2>6, <2>7
<1>3. QED
  BY <1>1, <1>2

\* Whatever nodes match in whatever finite tree, findBestMatchName returns a longest match
\* below its node, and of these the first in the order of the tree; if no node matches
\* there, a null pointer (namespace.cpp:842-879).
THEOREM FindBestMatchNameIs ==
    ASSUME IsFiniteSet(Name), NEW found \in SUBSET Name, NEW n \in Name
    PROVE  LET best  == findBestMatchName(found)[n]
               below == found \cap Subtree(n)
           IN  IF below = {} THEN best = << >> ELSE best # << >> /\ IsBestMatch(best[1], below)
<1> DEFINE g == [m \in Name |-> BestOf(found \cap Visited(m))]
           h == CHOOSE f : FollowsVisits(f, found)
           below == found \cap Subtree(n)
<1>1. FollowsVisits(g, found)
  BY BestFollowsVisits
<1>2. FollowsVisits(h, found)
  BY <1>1
<1>3. findBestMatchName(found) = [m \in Name |-> Match(h, found, m)]
  BY DEF findBestMatchName, FollowsVisits
<1>4. \A m \in Name : g[m] = BestOf(found \cap Visited(m))
  OBVIOUS
<1> HIDE DEF g, h
<1>5. \A m \in Name : h[m] = BestOf(found \cap Visited(m))
  BY <1>1, <1>2, <1>4, VisitsUnique
<1>6. findBestMatchName(found)[n] = BestOf(below)
  BY <1>3, <1>5, MatchIs
<1>7. below \in SUBSET Name
  OBVIOUS
<1>8. CASE below = {}
  BY <1>6, <1>7, <1>8, BestOfIs
<1>9. CASE below # {}
  <2> HIDE DEF below
  <2>1. PICK m \in below : IsBestMatch(m, below) /\ BestOf(below) = <<m>>
    BY <1>7, <1>9, BestOfIs
  <2>2. <<m>> # << >> /\ <<m>>[1] = m
    OBVIOUS
  <2>3. QED
    BY <1>6, <1>9, <2>1, <2>2 DEF below
<1>10. QED
  BY <1>8, <1>9
================================================================================
