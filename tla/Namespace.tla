------------------------------ MODULE Namespace ------------------------------
(***************************************************************************)
(* A tree of Namespace nodes (namespace.cpp) with its table of pending      *)
(* incoming Interests (pending-incoming-interest-table.cpp), one network    *)
(* Face, and an application that asks for objects and produces them.        *)
(* Every action is one complete call of the application or one callback of  *)
(* the single-threaded event loop.                                          *)
(*                                                                         *)
(* The onObjectNeeded callback of the application answers for the names in  *)
(* Producible.  For those in Immediate it serializes the object during the  *)
(* callback, for the others at any later time.  A Handler's                 *)
(* onDeserializeNeeded callback takes the contents of the names in Handled  *)
(* and calls onDeserialized later.                                          *)
(*                                                                         *)
(* A node that does not exist yet and one in NAME_EXISTS are the same here: *)
(* getChild only matters for the announcement of names.                     *)
(***************************************************************************)
EXTENDS NamespaceTree

CONSTANTS
    Content,       \* the contents that packets and objects have
    NoContent,     \* a null data_ or object_
    Remote,        \* the names of the packets that the network can return
    Needed,        \* the names for which the application calls objectNeeded()
    Producible,    \* the names that the application produces
    Immediate,     \* those of them that it produces during the callback
    Handled,       \* the names whose content a Handler deserializes
    HasDecryptor,  \* whether setDecryptor was called on the root
    Expires,       \* whether packets have a FreshnessPeriod
    SigningFails,  \* whether KeyChain::sign may throw
    SendFails,     \* whether sending a packet on the Face may throw
    FaceNodes,     \* the nodes on which setFace was called, with registration
    Incoming,      \* the Interests that the Face receives for the root's prefix
    MaxInterests   \* bound: Interests in flight from one node

ASSUME NamespaceAssumption ==
    /\ NoContent \notin Content
    /\ Remote \subseteq Name
    /\ Needed \subseteq Name
    /\ Producible \subseteq Name
    /\ Immediate \subseteq Producible
    /\ Handled \subseteq Name
    /\ HasDecryptor \in BOOLEAN
    /\ Expires \in BOOLEAN
    /\ SigningFails \in BOOLEAN
    /\ SendFails \in BOOLEAN
    /\ Root \in FaceNodes /\ FaceNodes \subseteq Name
    \* no other node has registered a prefix of their names
    /\ \A i \in Incoming, n \in FaceNodes \ {Root} : ~IsPrefix(n, i.name)
    /\ \A i \in Incoming : /\ i.name \in Name
                           /\ i.mustBeFresh \in BOOLEAN
                           /\ i.digest \in Content \union {NoContent}
    /\ MaxInterests \in Nat \ {0}

NodeState ==
    {"NAME_EXISTS", "INTEREST_EXPRESSED", "INTEREST_TIMEOUT",
     "INTEREST_NETWORK_NACK", "DATA_RECEIVED", "DESERIALIZING", "DECRYPTING",
     "DECRYPTION_ERROR", "PRODUCING_OBJECT", "SIGNING_ERROR", "OBJECT_READY"}

VARIABLES
    state,          \* state_
    validating,     \* the nodes whose validateState_ is VALIDATING
    data,           \* data_: the content of the attached packet
    stale,          \* the nodes whose freshnessExpiryTime_ has passed
    object,         \* object_
    outgoing,       \* how many Interests of each node await an answer
    decrypting,     \* <<interest node, data node, content>> given to the decryptor
    deserializing,  \* <<node, content>> that a Handler has taken
    arrived,        \* the Interests of Incoming that have arrived
    pending,        \* the entries of the PendingIncomingInterestTable
    lapsed,         \* those of them whose timeoutTime_ has passed
    answers,        \* history: the packets sent for each incoming Interest
    faces,          \* the nodes that have a Face and its registered prefix
    isShutDown      \* *isShutDown_

treeVars   == <<state, validating>>
packetVars == <<data, stale, object>>
fetchVars  == <<outgoing, decrypting, deserializing>>
tableVars  == <<pending, lapsed, answers>>
vars == <<treeVars, packetVars, fetchVars, arrived, tableVars, faces, isShutDown>>

Init ==
    /\ state = [n \in Name |-> "NAME_EXISTS"]
    /\ validating = {}
    /\ data = [n \in Name |-> NoContent]
    /\ stale = {}
    /\ object = [n \in Name |-> NoContent]
    /\ outgoing = [n \in Name |-> 0]
    /\ decrypting = {}
    /\ deserializing = {}
    /\ arrived = {}
    /\ pending = {}
    /\ lapsed = {}
    /\ answers = [i \in Incoming |-> << >>]
    /\ faces = FaceNodes
    /\ isShutDown = FALSE

-----------------------------------------------------------------------------
(* Matching of Interests and packets.                                       *)

\* Interest::matchesName: a name that ends with an implicit digest is a prefix of no
\* packet's name.
MatchesName(i, n) == i.digest = NoContent /\ IsPrefix(i.name, n)

\* Interest::matchesData: the full name, with the implicit digest, is compared.
MatchesData(i, n, c) ==
    MatchesName(i, n) \/ (i.digest # NoContent /\ i.name = n /\ i.digest = c)

\* The nodes among which findBestMatchName chooses for Interest i.
Found(i) ==
    {n \in Subtree(i.name) : /\ data[n] # NoContent
                             /\ ~(i.mustBeFresh /\ n \in stale)
                             /\ MatchesData(i, n, data[n])}

\* The Interest that objectNeeded(mustBeFresh) makes.
OwnInterest(n, mustBeFresh) ==
    [name |-> n, mustBeFresh |-> mustBeFresh, digest |-> NoContent]

-----------------------------------------------------------------------------
(* The operations that handlers call.                                       *)

Answer(i, n, c, fresh) ==
    [name |-> n, content |-> c, fresh |-> fresh, lapsed |-> i \in lapsed]

\* A slip: timed-out entries are answered too.
Satisfied_Lapsed(n, p) == {i \in p : MatchesName(i, n)}

\* The entries of table p that satisfyInterests sends a packet of name n for.
Satisfied(n, p) == {i \in p \ lapsed : MatchesName(i, n)}

\* The ways in which sending the packet to those entries can go: an entry whose send
\* throws is erased like the others.
Sent(n, p) == IF SendFails THEN SUBSET Satisfied(n, p) ELSE {Satisfied(n, p)}

\* Slips: the answered entries stay, or the packet is sent and never attached.
SetData_SkipsTable(n, c, p) ==
    /\ data' = [data EXCEPT ![n] = c]
    /\ pending' = p
    /\ UNCHANGED <<lapsed, answers>>

SetData_Detached(n, c, p) ==
    /\ pending' = p \ (lapsed \union Satisfied(n, p))
    /\ lapsed' = {}
    /\ \E sent \in Sent(n, p) :
          answers' = [i \in Incoming |->
                        IF i \in sent THEN Append(answers[i], Answer(i, n, c, TRUE))
                                      ELSE answers[i]]
    /\ UNCHANGED data

\* setData on a node without data, when the table is p: satisfyInterests for the packet,
\* which also drops the entries that have timed out, and attach it.
SetData(n, c, p) ==
    /\ data' = [data EXCEPT ![n] = c]
    /\ pending' = p \ (lapsed \union Satisfied(n, p))
    /\ lapsed' = {}
    /\ \E sent \in Sent(n, p) :
          answers' = [i \in Incoming |->
                        IF i \in sent THEN Append(answers[i], Answer(i, n, c, TRUE))
                                      ELSE answers[i]]

\* A slip: setData replaces the packet.
Attached_Never(n) == FALSE

\* setData returns false for node n, which has a packet already.
Attached(n) == data[n] # NoContent

\* A slip: the object is set and no packet is made of it.
Serialize_NoPacket(n, c, st, p) ==
    /\ pending' = p
    /\ object' = [object EXCEPT ![n] = c]
    /\ state' = [state EXCEPT ![n] = st]
    /\ UNCHANGED <<data, lapsed, answers>>

\* serializeObject when it goes well, and the state st of the node afterwards.  setData
\* reports that a packet is attached already, but nobody looks.
Serialize(n, c, st, p) ==
    /\ IF Attached(n) THEN pending' = p /\ UNCHANGED <<data, lapsed, answers>>
                      ELSE SetData(n, c, p)
    /\ object' = [object EXCEPT ![n] = c]
    /\ state' = [state EXCEPT ![n] = st]

Promise(n, p) ==
    /\ state' = [state EXCEPT ![n] = "PRODUCING_OBJECT"]
    /\ pending' = p
    /\ UNCHANGED <<data, object, lapsed, answers>>

\* The application's onObjectNeeded callback returns true for node n; the node is
\* PRODUCING_OBJECT afterwards, even if the callback has produced the object.
Produce(n, p) ==
    IF n \in Immediate
      THEN \/ \E c \in Content : Serialize(n, c, "PRODUCING_OBJECT", p)
           \/ SigningFails /\ Promise(n, p)
      ELSE Promise(n, p)

\* The states below DESERIALIZING.
Early == {"NAME_EXISTS", "INTEREST_EXPRESSED", "INTEREST_TIMEOUT",
          "INTEREST_NETWORK_NACK", "DATA_RECEIVED"}

\* A slip: the Handler that takes the content never has it.
Deserialize_Forgets(n, c, st) ==
    IF n \in Handled
      THEN /\ state' = IF st[n] \in Early THEN [st EXCEPT ![n] = "DESERIALIZING"] ELSE st
           /\ UNCHANGED <<object, deserializing>>
      ELSE /\ object' = [object EXCEPT ![n] = c]
           /\ state' = [st EXCEPT ![n] = "OBJECT_READY"]
           /\ UNCHANGED deserializing

\* deserialize_ of content c on node n, when the nodes have the states st: a Handler
\* takes it, or it becomes the object at once.
Deserialize(n, c, st) ==
    IF n \in Handled
      THEN /\ deserializing' = deserializing \union {<<n, c>>}
           /\ state' = IF st[n] \in Early THEN [st EXCEPT ![n] = "DESERIALIZING"] ELSE st
           /\ UNCHANGED object
      ELSE /\ object' = [object EXCEPT ![n] = c]
           /\ state' = [st EXCEPT ![n] = "OBJECT_READY"]
           /\ UNCHANGED deserializing

\* A callback on node n of a tree that is shut down: getIsShutDown drops the node's
\* Face and its registered prefix, and nothing else happens.
Dropped(n) ==
    /\ faces' = faces \ {n}
    /\ UNCHANGED <<treeVars, packetVars, tableVars, isShutDown>>

\* A slip: a callback does not ask getIsShutDown.
Runs_Always == UNCHANGED <<faces, isShutDown>>

\* A call or a callback that runs.
Runs == ~isShutDown /\ UNCHANGED <<faces, isShutDown>>

-----------------------------------------------------------------------------
(* The application's calls.                                                 *)

\* objectNeeded(mustBeFresh) on node n: announce the best match again, or let the
\* application produce, or express an Interest.
ObjectNeeded(n) ==
    /\ n \in Needed
    /\ \/ isShutDown /\ Dropped(n) /\ UNCHANGED fetchVars
       \/ /\ Runs
          /\ \E mustBeFresh \in BOOLEAN :
               LET found == Found(OwnInterest(n, mustBeFresh))
                   ready == {m \in found : IsBestMatch(m, found) /\ object[m] # NoContent}
               IN  \/ \E m \in ready :
                         /\ state' = [state EXCEPT ![m] = "OBJECT_READY"]
                         /\ UNCHANGED <<data, object, tableVars, fetchVars>>
                   \/ /\ ready = {}
                      /\ n \in Producible
                      /\ Produce(n, pending)
                      /\ UNCHANGED fetchVars
                   \/ /\ ready = {}
                      /\ n \notin Producible
                      /\ outgoing[n] < MaxInterests
                      /\ state' = [state EXCEPT ![n] = "INTEREST_EXPRESSED"]
                      /\ outgoing' = [outgoing EXCEPT ![n] = @ + 1]
                      /\ UNCHANGED <<data, object, tableVars, decrypting, deserializing>>
          /\ UNCHANGED <<validating, stale>>
    /\ UNCHANGED arrived

\* serializeObject on a node that the application produces, asked for or not.
SerializeObject(n) ==
    /\ n \in Producible
    /\ \/ isShutDown /\ Dropped(n)
       \/ /\ Runs
          /\ \E c \in Content : Serialize(n, c, "OBJECT_READY", pending)
          /\ UNCHANGED <<validating, stale>>
    /\ UNCHANGED <<fetchVars, arrived>>

\* serializeObject when KeyChain::sign throws.
SerializeFails(n) ==
    /\ SigningFails
    /\ n \in Producible
    /\ Runs
    /\ state' = [state EXCEPT ![n] = "SIGNING_ERROR"]
    /\ UNCHANGED <<validating, packetVars, tableVars, fetchVars, arrived>>

\* shutdown() on the root.
Shutdown ==
    /\ isShutDown' = TRUE
    /\ faces' = faces \ {Root}
    /\ UNCHANGED <<treeVars, packetVars, fetchVars, arrived, tableVars>>

-----------------------------------------------------------------------------
(* The callbacks of the Face, the decryptor and the Handlers.               *)

\* onInterest on the root.
OnInterest(i) ==
    /\ i \in Incoming \ arrived
    /\ Root \in faces
    /\ Runs
    /\ arrived' = arrived \union {i}
    /\ \/ \E m \in Found(i) :
             /\ IsBestMatch(m, Found(i))
             /\ \/ answers' = [answers EXCEPT ![i] =
                                 Append(@, Answer(i, m, data[m], m \notin stale))]
                \/ SendFails /\ UNCHANGED answers
             /\ UNCHANGED <<state, data, object, pending, lapsed>>
       \/ /\ Found(i) = {}
          /\ IF i.name \in Producible
               THEN Produce(i.name, pending \union {i})
               ELSE /\ pending' = pending \union {i}
                    /\ UNCHANGED <<state, data, object, lapsed, answers>>
    /\ UNCHANGED <<validating, stale, fetchVars>>

Answered(n) == [outgoing EXCEPT ![n] = @ - 1]

\* onData of node n for the packet of node m with content c.
OnData(n, m, c) ==
    /\ outgoing[n] > 0
    /\ m \in Remote \cap Subtree(n)
    /\ outgoing' = Answered(n)
    /\ \/ isShutDown /\ Dropped(n) /\ UNCHANGED <<decrypting, deserializing>>
       \/ /\ Runs
          /\ Attached(m)
          /\ UNCHANGED <<treeVars, packetVars, tableVars, decrypting, deserializing>>
       \/ /\ Runs
          /\ ~Attached(m)
          /\ SetData(m, c, pending)
          /\ validating' = validating \union {m}
          /\ LET st == [state EXCEPT ![n] = "DATA_RECEIVED"] IN
               \/ /\ ~HasDecryptor
                  /\ Deserialize(m, c, st)
                  /\ UNCHANGED decrypting
               \/ /\ HasDecryptor
                  /\ state' = [st EXCEPT ![m] = "DECRYPTING"]
                  /\ decrypting' = decrypting \union {<<n, m, c>>}
                  /\ UNCHANGED <<object, deserializing>>
               \/ /\ HasDecryptor   \* the content is no EncryptedContent
                  /\ state' = [st EXCEPT ![m] = "DECRYPTION_ERROR"]
                  /\ UNCHANGED <<object, decrypting, deserializing>>
          /\ UNCHANGED stale
    /\ UNCHANGED arrived

\* onTimeout and onNetworkNack of node n.
Fails(n, new) ==
    /\ outgoing[n] > 0
    /\ outgoing' = Answered(n)
    /\ \/ isShutDown /\ Dropped(n)
       \/ /\ Runs
          /\ state' = [state EXCEPT ![n] = new]
          /\ UNCHANGED <<validating, packetVars, tableVars>>
    /\ UNCHANGED <<decrypting, deserializing, arrived>>

OnTimeout(n) == Fails(n, "INTEREST_TIMEOUT")

OnNetworkNack(n) == Fails(n, "INTEREST_NETWORK_NACK")

\* The decryptor has the plain content.  The callback is bound to the node that
\* expressed the Interest, n, not to the node of the packet, m.
OnDecrypted(n, m, c) ==
    /\ <<n, m, c>> \in decrypting
    /\ decrypting' = decrypting \ {<<n, m, c>>}
    /\ \/ isShutDown /\ Dropped(n) /\ UNCHANGED deserializing
       \/ /\ Runs
          /\ Deserialize(n, c, state)
          /\ UNCHANGED <<validating, data, stale, tableVars>>
    /\ UNCHANGED <<outgoing, arrived>>

\* The decryptor fails: the same node gets the error.
OnDecryptionError(n, m, c) ==
    /\ <<n, m, c>> \in decrypting
    /\ decrypting' = decrypting \ {<<n, m, c>>}
    /\ \/ isShutDown /\ Dropped(n)
       \/ /\ Runs
          /\ state' = [state EXCEPT ![n] = "DECRYPTION_ERROR"]
          /\ UNCHANGED <<validating, packetVars, tableVars>>
    /\ UNCHANGED <<outgoing, deserializing, arrived>>

\* The Handler that took the content of node n calls onDeserialized.
OnDeserialized(n, c) ==
    /\ <<n, c>> \in deserializing
    /\ deserializing' = deserializing \ {<<n, c>>}
    /\ \/ isShutDown /\ Dropped(n)
       \/ /\ Runs
          /\ object' = [object EXCEPT ![n] = c]
          /\ state' = [state EXCEPT ![n] = "OBJECT_READY"]
          /\ UNCHANGED <<validating, data, stale, tableVars>>
    /\ UNCHANGED <<outgoing, decrypting, arrived>>

-----------------------------------------------------------------------------
(* Time.                                                                    *)

Expire(n) ==
    /\ Expires
    /\ data[n] # NoContent /\ n \notin stale
    /\ stale' = stale \union {n}
    /\ UNCHANGED <<treeVars, data, object, fetchVars, arrived, tableVars, faces, isShutDown>>

Lapse(i) ==
    /\ i \in pending \ lapsed
    /\ lapsed' = lapsed \union {i}
    /\ UNCHANGED <<treeVars, packetVars, fetchVars, arrived, pending, answers>>
    /\ UNCHANGED <<faces, isShutDown>>

Next ==
    \/ Shutdown
    \/ \E n \in Name :
          \/ ObjectNeeded(n)
          \/ SerializeObject(n)
          \/ SerializeFails(n)
          \/ OnTimeout(n)
          \/ OnNetworkNack(n)
          \/ Expire(n)
          \/ \E c \in Content : OnDeserialized(n, c)
          \/ \E m \in Name, c \in Content :
                \/ OnData(n, m, c)
                \/ OnDecrypted(n, m, c)
                \/ OnDecryptionError(n, m, c)
    \/ \E i \in Incoming : OnInterest(i) \/ Lapse(i)

Spec == Init /\ [][Next]_vars

\* The network library ends each Interest with one of the three callbacks, the decryptor
\* ends each call with one of its two, a Handler that takes a content calls onDeserialized,
\* and the application that promises an object serializes it.
FairSpec ==
    /\ Spec
    /\ \A n \in Name :
          /\ WF_vars(\/ \E m \in Name, c \in Content : OnData(n, m, c)
                     \/ OnTimeout(n)
                     \/ OnNetworkNack(n))
          /\ \A m \in Name, c \in Content :
                WF_vars(OnDecrypted(n, m, c) \/ OnDecryptionError(n, m, c))
          /\ \A c \in Content : WF_vars(OnDeserialized(n, c))
          /\ WF_vars(state[n] = "PRODUCING_OBJECT" /\ SerializeObject(n))

-----------------------------------------------------------------------------
(* Properties.                                                              *)

TypeOK ==
    /\ state \in [Name -> NodeState]
    /\ data \in [Name -> Content \union {NoContent}]
    /\ validating \subseteq {n \in Name : data[n] # NoContent}
    /\ stale \subseteq {n \in Name : data[n] # NoContent}
    /\ object \in [Name -> Content \union {NoContent}]
    /\ outgoing \in [Name -> 0..MaxInterests]
    /\ decrypting \subseteq Name \X Name \X Content
    /\ deserializing \subseteq Handled \X Content
    /\ arrived \subseteq Incoming
    /\ pending \subseteq arrived
    /\ lapsed \subseteq pending
    /\ answers \in [Incoming -> Seq([name : Name, content : Content,
                                    fresh : BOOLEAN, lapsed : BOOLEAN])]
    /\ faces \subseteq FaceNodes
    /\ isShutDown \in BOOLEAN

\* On every node the recursion finds the longest match below it and the first of that
\* length, never a stale one if the Interest must be fresh, and it finds nothing only if
\* nothing matches (namespace.cpp:842-879).
FindsBestMatch ==
    \A n \in Name, mustBeFresh \in BOOLEAN :
        LET found == Found(OwnInterest(n, mustBeFresh))
            best  == findBestMatchName(found)[n]
        IN  IF found = {} THEN best = << >>
                          ELSE best # << >> /\ IsBestMatch(best[1], found)

\* An Interest gets at most one packet, which matches it, is as fresh as it asks, is the
\* one that the tree holds under its name, and is not sent after the Interest has timed
\* out; the entry of an answered Interest is gone.  Both paths to an answer count, the
\* tree (namespace.cpp:796-840) and the table (pending-incoming-interest-table.cpp:47-76).
AnswersFit ==
    \A i \in Incoming :
       /\ Len(answers[i]) <= 1
       /\ answers[i] # << >> => i \in arrived \ pending
       /\ \A k \in DOMAIN answers[i] :
             LET a == answers[i][k]
             IN  /\ MatchesData(i, a.name, a.content)
                 /\ data[a.name] = a.content
                 /\ i.mustBeFresh => a.fresh
                 /\ ~a.lapsed

\* No Interest waits in the table for a packet that the tree holds: whichever comes first,
\* the Interest (namespace.cpp:815-829) or the packet (namespace.cpp:230-232).
PendingUnmatched == \A i \in pending \ lapsed : Found(i) = {}

\* A fetched object is made of the packet of the same node ("the object is a
\* BlobObject holding the Blob content of the Data packet", namespace.hpp:371-372).
ObjectHasItsData ==
    \A n \in Name \ Producible : object[n] # NoContent => object[n] = data[n]

\* A fetched object is never replaced, however many answers arrive and in whatever order
\* (namespace.cpp:890-892).
ObjectIsPermanent ==
    [][\A n \in Name \ Producible :
          object[n] # NoContent => object'[n] = object[n]]_object

\* A node that waits for a produced object has none yet (addOnObjectNeeded,
\* namespace.hpp:450-457: the object may be produced "during the callback").
ProducingMeansNoObject ==
    \A n \in Name : state[n] = "PRODUCING_OBJECT" => object[n] = NoContent

\* When a promised object is ready the Interests for its name have been answered ("This
\* calls satisfyInterests", namespace.cpp:215).
ServedWhenProduced ==
    [][\A i \in pending \ lapsed :
          state[i.name] = "PRODUCING_OBJECT" /\ state'[i.name] = "OBJECT_READY"
             => i \notin pending']_<<state, pending, lapsed>>

\* After shutdown no callback that was under way changes the tree, answers an Interest or
\* sets an object (namespace.hpp:594-595).
AfterShutdownSilent ==
    [][isShutDown => UNCHANGED <<treeVars, data, object, pending, answers>>]_vars

\* "Set the isShutDown flag for all Namespace nodes ... If a node also has a Face, then
\* unregister its prefix" (namespace.hpp:594-596).
PrefixesUnregistered == isShutDown => faces = {}

\* What is fetched for node n is decrypted, and not for a node above it.
Decrypts(n) ==
    /\ \A m \in Subtree(n) : state[m] # "DECRYPTION_ERROR"
    /\ \A t \in decrypting : t[2] \in Subtree(n) => t[1] \in Subtree(n)

\* A node does not wait for its Interest for ever: the state changes, or an object that
\* the Interest matches is there (namespace.cpp:372-399, 881-945).  This is claimed as long
\* as what is fetched for the node is decrypted.  A packet that cannot be decrypted stays
\* attached, and the answer to a second Interest changes nothing (namespace.cpp:890-892):
\* if the application calls objectNeeded() again after DECRYPTION_ERROR, the node waits for
\* ever.  So it does if its content is given to the node of a shorter Interest.
NoEndlessWait ==
    \A n \in Name :
       []Decrypts(n) =>
          (state[n] = "INTEREST_EXPRESSED"
             ~> \/ state[n] # "INTEREST_EXPRESSED"
                \/ \E m \in Subtree(n) : object[m] # NoContent
                \/ isShutDown)

\* An Interest for a name that the application produces is answered, unless it times out
\* first (namespace.cpp:826-839, 174-219).
InterestIsAnswered ==
    \A i \in Incoming :
       i.name \in Producible /\ i \in pending
          ~> i \notin pending \/ i \in lapsed \/ isShutDown
=============================================================================
