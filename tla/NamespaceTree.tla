---------------------------- MODULE NamespaceTree ----------------------------
(***************************************************************************)
(* The names of a tree of Namespace nodes.  A name is the sequence of its   *)
(* components, relative to the root; a component is a number, so that the   *)
(* order of the numbers is the order of the children_ map.                  *)
(***************************************************************************)
EXTENDS Integers, Sequences, FiniteSets, SequencesExt

CONSTANT Name  \* the names that occur

Root == << >>

ASSUME NameAssumption ==
    /\ Name \subseteq Seq(Nat)
    /\ Root \in Name
    /\ \A n \in Name \ {Root} : Front(n) \in Name

\* The nodes from n up to the root, where callbacks about n are fired.
Ancestors(n) == {m \in Name : IsPrefix(m, n)}

\* The subtree of n.
Subtree(n) == {m \in Name : IsPrefix(n, m)}

Children(n) == {m \in Subtree(n) : Len(m) = Len(n) + 1}

\* Name m comes before name n of the same length in the order of the tree.
Before(m, n) ==
    \E i \in DOMAIN m : m[i] < n[i] /\ \A j \in 1..(i - 1) : m[j] = n[j]

\* What findBestMatchName returns when the nodes of found are those whose packet
\* matches: a longest name, and of these the first.
IsBestMatch(n, found) ==
    /\ n \in found
    /\ \A m \in found \ {n} : Len(m) < Len(n) \/ (Len(m) = Len(n) /\ Before(n, m))

\* The foremost of a set of siblings.
Foremost(S) == CHOOSE n \in S : \A m \in S \ {n} : Before(n, m)

\* The siblings of n that come after it, and are visited before it.
Later(n) == {m \in Name : Len(m) = Len(n) /\ Front(m) = Front(n) /\ Before(n, m)}

\* Slip: the first child visited wins among matches of the same length.
Better_FirstWins(best, candidate) ==
    IF candidate # << >> /\ (best = << >> \/ Len(candidate[1]) > Len(best[1]))
      THEN candidate ELSE best

\* The choice between the best match so far and that of the next child; a pointer to a
\* node is the sequence of its name, a null pointer is empty.
Better(best, candidate) ==
    IF candidate # << >> /\ (best = << >> \/ Len(candidate[1]) >= Len(best[1]))
      THEN candidate ELSE best

\* What findBestMatchName returns for node n, when best has the best match so far after
\* each visit of a child.
Match(best, found, n) ==
    LET last == IF Children(n) = {} THEN << >> ELSE best[Foremost(Children(n))]
    IN  IF last # << >> THEN last
        ELSE IF n \in found THEN <<n>> ELSE << >>

\* findBestMatchName on every node, as the recursion it is.
findBestMatchName(found) ==
    LET best[n \in Name] ==
          Better(IF Later(n) = {} THEN << >> ELSE best[Foremost(Later(n))],
                 Match(best, found, n))
    IN  [n \in Name |-> Match(best, found, n)]
=============================================================================
