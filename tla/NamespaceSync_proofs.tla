------------------------ MODULE NamespaceSync_proofs ------------------------
(***************************************************************************)
(* Proofs about NamespaceSync, for every set of names and peers, every      *)
(* depth, and every order in which names are created and go round.          *)
(***************************************************************************)
EXTENDS NamespaceSync, TLAPS

\* What the properties need besides themselves: a history of the right type, and a peer
\* without FullPSync2017 has no names from it.
Strengthening ==
    /\ fired \in [Peer -> SUBSET Name]
    /\ \A p \in Peer : listener[p] = NoNode => known[p] = {}

IInv == TypeOK /\ KnownNamesAreLeaves /\ KnownNamesExist /\ Strengthening

-----------------------------------------------------------------------------
(* Names.                                                                   *)

\* A name is its own ancestor.
LEMMA OwnAncestor == ASSUME NEW n \in Name PROVE n \in Ancestors(n)
BY NameAssumption DEF Ancestors, IsPrefix

\* The ancestors of a name have theirs among them.
LEMMA AncestorsClosed ==
    ASSUME NEW n \in Name, NEW m \in Ancestors(n)
    PROVE  Ancestors(m) \subseteq Ancestors(n)
<1> SUFFICES ASSUME NEW k \in Ancestors(m) PROVE IsPrefix(k, n)
  BY DEF Ancestors
<1>1. k \in Seq(Nat) /\ m \in Seq(Nat) /\ n \in Seq(Nat)
  BY NameAssumption DEF Ancestors
<1>2. Len(k) <= Len(m) /\ Len(m) <= Len(n) /\ Len(k) \in Nat /\ Len(m) \in Nat /\ Len(n) \in Nat
  BY <1>1 DEF Ancestors, IsPrefix
<1>3. SubSeq(k, 1, Len(k)) = SubSeq(m, 1, Len(k)) /\ SubSeq(m, 1, Len(m)) = SubSeq(n, 1, Len(m))
  BY DEF Ancestors, IsPrefix
<1>4. ASSUME NEW i \in 1..Len(k) PROVE m[i] = n[i]
  <2>1. i \in 1..Len(m)
    BY <1>2
  <2>2. SubSeq(m, 1, Len(m))[i] = m[i] /\ SubSeq(n, 1, Len(m))[i] = n[i]
    BY <1>1, <1>2, <2>1
  <2> QED BY <1>3, <2>2
<1>5. SubSeq(m, 1, Len(k)) = SubSeq(n, 1, Len(k))
  BY <1>1, <1>2, <1>4
<1> QED BY <1>2, <1>3, <1>5 DEF IsPrefix

\* A tree stays a tree when the paths to some names are added.
LEMMA PathsKeepTree ==
    ASSUME NEW T \in SUBSET Name, NEW new \in SUBSET Name,
           \A n \in T : Ancestors(n) \subseteq T
    PROVE  LET U == T \union UNION {Ancestors(n) : n \in new}
           IN  U \in SUBSET Name /\ new \subseteq U /\ \A n \in U : Ancestors(n) \subseteq U
<1> DEFINE U == T \union UNION {Ancestors(n) : n \in new}
<1>1. U \in SUBSET Name
  BY DEF Ancestors
<1>2. new \subseteq U
  BY OwnAncestor
<1>3. ASSUME NEW n \in U PROVE Ancestors(n) \subseteq U
  <2>1. CASE n \in T
    BY <2>1
  <2>2. ASSUME NEW m \in new, n \in Ancestors(m) PROVE Ancestors(n) \subseteq U
    BY <2>2, AncestorsClosed
  <2> QED BY <2>1, <2>2
<1> QED BY <1>1, <1>2, <1>3

-----------------------------------------------------------------------------
(* The actions.                                                             *)

\* The first tree of every peer has only the root.
LEMMA InitIInv == Init => IInv
<1> SUFFICES ASSUME Init PROVE IInv
  OBVIOUS
<1>1. Root \in Name /\ Ancestors(Root) \subseteq {Root}
  <2> SUFFICES ASSUME NEW m \in Name, IsPrefix(m, Root) PROVE m = Root
    BY NameAssumption DEF Ancestors
  <2> QED BY NameAssumption DEF IsPrefix, Root
<1> QED
  BY <1>1 DEF Init, IInv, TypeOK, KnownNamesAreLeaves, KnownNamesExist, Strengthening

LEMMA EnableSyncKeeps ==
    ASSUME IInv, NEW p \in Peer, NEW n \in Name, NEW depth \in Depth, EnableSync(p, n, depth)
    PROVE  IInv'
<1> USE DEF IInv, Strengthening
<1>1. TypeOK' /\ KnownNamesAreLeaves' /\ Strengthening'
  BY SyncAssumption DEF EnableSync, TypeOK, KnownNamesAreLeaves
<1>2. KnownNamesExist'
  <2> SUFFICES ASSUME NEW q \in Peer, ~isShutDown'[q], listener'[q] # NoNode
               PROVE  Accepted(q, known[q])' \subseteq tree'[q]
    BY DEF KnownNamesExist
  <2>1. CASE listener[q] = NoNode
    BY <2>1 DEF EnableSync, Accepted
  <2>2. CASE listener[q] # NoNode
    BY <2>2 DEF EnableSync, Accepted, KnownNamesExist, TypeOK
  <2> QED BY <2>1, <2>2
<1> QED BY <1>1, <1>2

LEMMA GetChildKeeps ==
    ASSUME IInv, NEW p \in Peer, NEW n \in Name, GetChild(p, n)
    PROVE  IInv'
<1> USE DEF IInv, Strengthening
<1> DEFINE U == tree[p] \union Ancestors(n)
<1>1. U \in SUBSET Name /\ n \in U /\ \A m \in U : Ancestors(m) \subseteq U
  <2>1. U = tree[p] \union UNION {Ancestors(m) : m \in {n}}
    OBVIOUS
  <2>2. tree[p] \in SUBSET Name /\ \A m \in tree[p] : Ancestors(m) \subseteq tree[p]
    BY DEF TypeOK
  <2>3. {n} \in SUBSET Name
    OBVIOUS
  <2> HIDE DEF IInv, Strengthening
  <2> QED BY <2>1, <2>2, <2>3, PathsKeepTree
<1> HIDE DEF U
<1>2. tree' = [tree EXCEPT ![p] = U] /\ tree[p] \subseteq U
  BY DEF GetChild, U
<1>3. known' \in [Peer -> SUBSET Name] /\ \A q \in Peer : known'[q] \subseteq known[q] \union {n}
  BY DEF GetChild, TypeOK
<1>4. \A q \in Peer \ {p} : known'[q] = known[q]
  BY DEF GetChild, TypeOK
<1>5. fired' = [fired EXCEPT ![p] = @ \union {n}]
  BY DEF GetChild
<1>6. UNCHANGED <<syncDepth, listener, isShutDown>>
  BY DEF GetChild
<1>7. TypeOK'
  BY <1>1, <1>2, <1>3, <1>5, <1>6 DEF TypeOK
<1>8. KnownNamesAreLeaves'
  <2>1. n \in fired'[p]
    BY <1>5
  <2> SUFFICES ASSUME NEW q \in Peer, NEW m \in Name, m \in known'[q]
               PROVE  \E r \in Peer : m \in known'[r] /\ m \in fired'[r]
    BY DEF KnownNamesAreLeaves
  <2>2. CASE m \in known[q]
    <3>1. PICK r \in Peer : m \in known[r] /\ m \in fired[r]
      BY <2>2 DEF KnownNamesAreLeaves
    <3>2. m \in known'[r] /\ m \in fired'[r]
      BY <3>1, <1>5 DEF GetChild, TypeOK
    <3> QED BY <3>2
  <2>3. CASE m \notin known[q]
    <3>1. m = n /\ q = p
      BY <2>3, <1>3, <1>4
    <3> QED BY <3>1, <2>1
  <2> QED BY <2>2, <2>3
<1>9. KnownNamesExist'
  <2> SUFFICES ASSUME NEW q \in Peer, ~isShutDown'[q], listener'[q] # NoNode
               PROVE  Accepted(q, known[q])' \subseteq tree'[q]
    BY DEF KnownNamesExist
  <2>1. Accepted(q, known[q]) \subseteq tree[q]
    BY <1>6 DEF KnownNamesExist
  <2>2. CASE q = p
    BY <2>1, <2>2, <1>1, <1>2, <1>3, <1>6 DEF Accepted, TypeOK
  <2>3. CASE q # p
    BY <2>1, <2>3, <1>2, <1>4, <1>6 DEF Accepted, TypeOK
  <2> QED BY <2>2, <2>3
<1>10. Strengthening'
  BY <1>3, <1>5 DEF GetChild, Announced
<1> QED BY <1>7, <1>8, <1>9, <1>10

LEMMA SyncKeeps ==
    ASSUME IInv, NEW p \in Peer, NEW q \in Peer, Sync(p, q)
    PROVE  IInv'
<1> USE DEF IInv, Strengthening
<1>1. PICK names \in SUBSET (known[q] \ known[p]) :
          /\ known' = [known EXCEPT ![p] = @ \union names]
          /\ IF isShutDown[p] THEN UNCHANGED <<tree, fired>> ELSE OnNamesUpdate(p, names)
  BY DEF Sync
<1>2. UNCHANGED <<syncDepth, listener, isShutDown>> /\ listener[p] # NoNode
  BY DEF Sync
<1> DEFINE new == Accepted(p, names) \ tree[p]
           U   == tree[p] \union UNION {Ancestors(n) : n \in new}
<1>3. names \in SUBSET Name /\ new \in SUBSET Name
  BY DEF Accepted, TypeOK
<1>4. U \in SUBSET Name /\ new \subseteq U /\ \A n \in U : Ancestors(n) \subseteq U
  <2>1. tree[p] \in SUBSET Name /\ \A m \in tree[p] : Ancestors(m) \subseteq tree[p]
    BY DEF TypeOK
  <2> HIDE DEF IInv, Strengthening, new
  <2> QED BY <1>3, <2>1, PathsKeepTree
<1>5. CASE isShutDown[p]
  <2>1. TypeOK' /\ Strengthening'
    BY <1>1, <1>2, <1>3, <1>5 DEF TypeOK
  <2>2. KnownNamesAreLeaves'
    BY <1>1, <1>3, <1>5 DEF KnownNamesAreLeaves, TypeOK
  <2>3. KnownNamesExist'
    BY <1>1, <1>2, <1>5 DEF KnownNamesExist, Accepted, TypeOK
  <2> QED BY <2>1, <2>2, <2>3
<1>6. CASE ~isShutDown[p]
  <2>1. PICK leaves \in SUBSET new : fired' = [fired EXCEPT ![p] = @ \union leaves]
    BY <1>1, <1>6 DEF OnNamesUpdate
  <2>2. tree' = [tree EXCEPT ![p] = U]
    BY <1>1, <1>6 DEF OnNamesUpdate
  <2>3. tree[p] \subseteq U
    OBVIOUS
  <2>4. Accepted(p, names) \subseteq U
    BY <1>4
  <2> HIDE DEF new, U
  <2>5. TypeOK' /\ Strengthening'
    BY <1>1, <1>2, <1>3, <1>4, <2>1, <2>2, <2>3 DEF TypeOK
  <2>6. KnownNamesAreLeaves'
    BY <1>1, <1>3, <2>1 DEF KnownNamesAreLeaves, TypeOK
  <2>7. KnownNamesExist'
    <3> SUFFICES ASSUME NEW r \in Peer, ~isShutDown'[r], listener'[r] # NoNode
                 PROVE  Accepted(r, known[r])' \subseteq tree'[r]
      BY DEF KnownNamesExist
    <3>1. Accepted(r, known[r]) \subseteq tree[r]
      BY <1>2 DEF KnownNamesExist
    <3>2. CASE r = p
      BY <3>1, <3>2, <1>1, <1>2, <2>2, <2>3, <2>4 DEF Accepted, TypeOK
    <3>3. CASE r # p
      BY <3>1, <3>3, <1>1, <1>2, <2>2 DEF Accepted, TypeOK
    <3> QED BY <3>2, <3>3
  <2> QED BY <2>5, <2>6, <2>7
<1> QED BY <1>5, <1>6

LEMMA ShutdownKeeps ==
    ASSUME IInv, NEW p \in Peer, Shutdown(p)
    PROVE  IInv'
BY DEF IInv, Shutdown, TypeOK, KnownNamesAreLeaves, KnownNamesExist, Accepted, Strengthening

LEMMA Invariant == Spec => []IInv
<1>1. IInv /\ [Next]_vars => IInv'
  <2> SUFFICES ASSUME IInv, [Next]_vars PROVE IInv'
    OBVIOUS
  <2>1. CASE UNCHANGED vars
    BY <2>1 DEF vars, IInv, TypeOK, KnownNamesAreLeaves, KnownNamesExist, Accepted, Strengthening
  <2>2. CASE Next
    BY <2>2, EnableSyncKeeps, GetChildKeeps, SyncKeeps, ShutdownKeeps DEF Next
  <2> QED BY <2>1, <2>2
<1> QED BY InitIInv, <1>1, PTL DEF Spec

-----------------------------------------------------------------------------
(* The theorems.                                                            *)

\* Types; every tree has the nodes on the way to its nodes (namespace.cpp:123-157), and
\* only nodes of the tree are announced.
THEOREM SyncTypeCorrect == Spec => []TypeOK
<1>1. IInv => TypeOK
  BY DEF IInv
<1> QED BY Invariant, <1>1, PTL

\* Only names that some peer created as a leaf go round (namespace.cpp:586-603).
THEOREM LeavesGoRound == Spec => []KnownNamesAreLeaves
<1>1. IInv => KnownNamesAreLeaves
  BY DEF IInv
<1> QED BY Invariant, <1>1, PTL

\* A peer that is not shut down has the nodes of all names that FullPSync2017 gave it, as
\* far as they lie below the node that listens (namespace.cpp:960-978).
THEOREM NamesHaveNodes == Spec => []KnownNamesExist
<1>1. IInv => KnownNamesExist
  BY DEF IInv
<1> QED BY Invariant, <1>1, PTL
=============================================================================
