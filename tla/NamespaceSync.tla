--------------------------- MODULE NamespaceSync ----------------------------
(***************************************************************************)
(* The names of Namespace trees that several peers keep in step             *)
(* (namespace.cpp: enableSync, createChild, getChildImpl, onNamesUpdate).   *)
(* Every peer has a tree with the same root.  A name that is created below  *)
(* a node with sync enabled is published with FullPSync2017, which hands it *)
(* to the other peers, whose trees then get the name too.                   *)
(***************************************************************************)
EXTENDS NamespaceTree

CONSTANTS
    Peer,   \* the applications
    Depth,  \* the values of enableSync's argument
    Synced, \* the names of the nodes that enableSync is called on
    NoNode  \* there is no FullPSync2017 yet

ASSUME SyncAssumption ==
    /\ Depth \subseteq Nat
    /\ Synced \subseteq Name
    /\ NoNode \notin Name

VARIABLES
    tree,       \* the nodes that exist, for each peer
    syncDepth,  \* syncDepth_ of each node of each peer, -1 if not specified
    listener,   \* the node whose onNamesUpdate FullPSync2017 calls, for each peer
    known,      \* the names that the peer's FullPSync2017 has
    fired,      \* history: the nodes for which NAME_EXISTS was fired
    isShutDown  \* *isShutDown_ of each peer

vars == <<tree, syncDepth, listener, known, fired, isShutDown>>

Init ==
    /\ tree = [p \in Peer |-> {Root}]
    /\ syncDepth = [p \in Peer |-> [n \in Name |-> -1]]
    /\ listener = [p \in Peer |-> NoNode]
    /\ known = [p \in Peer |-> {}]
    /\ fired = [p \in Peer |-> {}]
    /\ isShutDown = [p \in Peer |-> FALSE]

-----------------------------------------------------------------------------
\* getSyncNode of node n: the lowest node at or above it that sync was enabled for.
IsSyncNode(p, a, n) ==
    /\ a \in Ancestors(n)
    /\ syncDepth[p][a] >= 0
    /\ \A b \in Ancestors(n) : syncDepth[p][b] >= 0 => Len(b) <= Len(a)

\* Whether createChild publishes the leaf n.
Announced(p, n) ==
    /\ listener[p] # NoNode
    /\ \E a \in Name : IsSyncNode(p, a, n) /\ Len(n) - Len(a) <= syncDepth[p][a]

\* enableSync(depth) on node n.  The FullPSync2017 of the tree is made by the first call,
\* and it is the node of that call that is told of the names of others.
EnableSync(p, n, depth) ==
    /\ ~isShutDown[p]
    /\ n \in tree[p]
    /\ listener' = [listener EXCEPT ![p] = IF @ = NoNode THEN n ELSE @]
    /\ syncDepth' = [syncDepth EXCEPT ![p][n] = depth]
    /\ UNCHANGED <<tree, known, fired, isShutDown>>

\* A slip: the nodes on the way are announced too.
GetChild_AnnouncesAll(p, n) ==
    /\ ~isShutDown[p]
    /\ n \notin tree[p]
    /\ tree' = [tree EXCEPT ![p] = @ \union Ancestors(n)]
    /\ fired' = [fired EXCEPT ![p] = @ \union {n}]
    /\ known' = [known EXCEPT ![p] = @ \union {m \in Ancestors(n) \ tree[p] : Announced(p, m)}]
    /\ UNCHANGED <<syncDepth, listener, isShutDown>>

\* getChildImpl(n) for a name that does not exist: only the leaf is announced, to the
\* application and to the peers, and not the nodes made on the way.
GetChild(p, n) ==
    /\ ~isShutDown[p]
    /\ n \notin tree[p]
    /\ tree' = [tree EXCEPT ![p] = @ \union Ancestors(n)]
    /\ fired' = [fired EXCEPT ![p] = @ \union {n}]
    /\ known' = IF Announced(p, n) THEN [known EXCEPT ![p] = @ \union {n}] ELSE known
    /\ UNCHANGED <<syncDepth, listener, isShutDown>>

\* Those of the names that a new node is made for.
Accepted(p, names) == {n \in names : IsPrefix(listener[p], n)}

\* Slips: the nodes on the way are not made; only names whose parent exists are added; a
\* name that is not below the listening node ends the loop.
OnNamesUpdate_NoPath(p, names) ==
    LET new == Accepted(p, names) IN
    /\ tree' = [tree EXCEPT ![p] = @ \union new]
    /\ fired' = [fired EXCEPT ![p] = @ \union (new \ tree[p])]
OnNamesUpdate_NeedsParent(p, names) ==
    LET new == {n \in Accepted(p, names) : n = Root \/ Front(n) \in tree[p]} IN
    /\ tree' = [tree EXCEPT ![p] = @ \union new]
    /\ fired' = [fired EXCEPT ![p] = @ \union (new \ tree[p])]
OnNamesUpdate_StopsAtOther(p, names) ==
    LET new == IF names = Accepted(p, names) THEN names \ tree[p] ELSE {} IN
    /\ tree' = [tree EXCEPT ![p] = @ \union UNION {Ancestors(n) : n \in new}]
    /\ fired' = [fired EXCEPT ![p] = @ \union new]

\* onNamesUpdate(names), in any order of the names: a name that was made on the way to a
\* longer one is there when its turn comes, and then it is not announced.
OnNamesUpdate(p, names) ==
    LET new     == Accepted(p, names) \ tree[p]
        longest == {n \in new : \A m \in new \ {n} : ~IsPrefix(n, m)}
    IN  /\ tree' = [tree EXCEPT ![p] = @ \union UNION {Ancestors(n) : n \in new}]
        /\ \E leaves \in SUBSET new :
               /\ longest \subseteq leaves
               /\ fired' = [fired EXCEPT ![p] = @ \union leaves]

\* FullPSync2017 of peer p learns names from that of peer q: it adds them to its own and
\* calls onNamesUpdate.
Sync(p, q) ==
    /\ listener[p] # NoNode
    /\ \E names \in SUBSET (known[q] \ known[p]) :
          /\ names # {}
          /\ known' = [known EXCEPT ![p] = @ \union names]
          /\ IF isShutDown[p] THEN UNCHANGED <<tree, fired>> ELSE OnNamesUpdate(p, names)
    /\ UNCHANGED <<syncDepth, listener, isShutDown>>

Shutdown(p) ==
    /\ isShutDown' = [isShutDown EXCEPT ![p] = TRUE]
    /\ UNCHANGED <<tree, syncDepth, listener, known, fired>>

Next ==
    \E p \in Peer :
        \/ Shutdown(p)
        \/ \E q \in Peer : Sync(p, q)
        \/ \E n \in Name :
              \/ GetChild(p, n)
              \/ n \in Synced /\ \E depth \in Depth : EnableSync(p, n, depth)

Spec == Init /\ [][Next]_vars

\* FullPSync2017 goes on as long as the peers have different names.
FairSpec == Spec /\ \A p, q \in Peer : WF_vars(Sync(p, q))

-----------------------------------------------------------------------------
(* Properties.                                                              *)

\* Types; the tree has all nodes on the way to a node, and only its nodes are announced.
TypeOK ==
    /\ tree \in [Peer -> SUBSET Name]
    /\ \A p \in Peer : \A n \in tree[p] : Ancestors(n) \subseteq tree[p]
    /\ syncDepth \in [Peer -> [Name -> Depth \union {-1}]]
    /\ listener \in [Peer -> Name \union {NoNode}]
    /\ known \in [Peer -> SUBSET Name]
    /\ \A p \in Peer : fired[p] \subseteq tree[p]
    /\ isShutDown \in [Peer -> BOOLEAN]

\* A name that goes round was announced by the peer that made it: as a leaf, when it was
\* created with sync enabled, and not as a node on the way (namespace.cpp:586-603).
KnownNamesAreLeaves ==
    \A p \in Peer, n \in Name :
        n \in known[p] => \E q \in Peer : n \in known[q] /\ n \in fired[q]

\* Every name that FullPSync2017 of a peer has and that lies below the listening node is
\* in the peer's tree (:965-977).
KnownNamesExist ==
    \A p \in Peer :
        ~isShutDown[p] /\ listener[p] # NoNode =>
            Accepted(p, known[p]) \subseteq tree[p]

\* A name that one peer announces gets to the tree of every other peer that listens above
\* it, unless that peer is shut down.
NamesSpread ==
    \A p \in Peer, n \in Name :
        (/\ \E q \in Peer : n \in known[q]
         /\ listener[p] # NoNode
         /\ IsPrefix(listener[p], n))
            ~> (n \in tree[p] \/ isShutDown[p])
=============================================================================
