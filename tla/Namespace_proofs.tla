--------------------------- MODULE Namespace_proofs ---------------------------
(***************************************************************************)
(* Proofs about Namespace, for every tree, every set of Interests and every *)
(* behaviour of the network, the decryptor, the Handlers and the            *)
(* application.                                                             *)
(***************************************************************************)
EXTENDS Namespace, NamespaceTree_proofs, TLAPS

Packet == [name : Name, content : Content, fresh : BOOLEAN, lapsed : BOOLEAN]

\* The part of TypeOK about the packets and the table.
TableType ==
    /\ data \in [Name -> Content \union {NoContent}]
    /\ arrived \subseteq Incoming
    /\ pending \subseteq arrived
    /\ lapsed \subseteq pending
    /\ answers \in [Incoming -> Seq(Packet)]

\* The part of TypeOK about everything else.
NodeType ==
    /\ state \in [Name -> NodeState]
    /\ validating \subseteq {n \in Name : data[n] # NoContent}
    /\ stale \subseteq {n \in Name : data[n] # NoContent}
    /\ object \in [Name -> Content \union {NoContent}]
    /\ outgoing \in [Name -> 0..MaxInterests]
    /\ decrypting \subseteq Name \X Name \X Content
    /\ deserializing \subseteq Handled \X Content
    /\ faces \subseteq FaceNodes
    /\ isShutDown \in BOOLEAN

IInv == TableType /\ NodeType /\ AnswersFit

\* No Interest carries an implicit digest.
NoDigests == \A i \in Incoming : i.digest = NoContent

-----------------------------------------------------------------------------
(* The operations that handlers call.                                       *)

\* setData keeps the table in order, for a table p of Interests without an answer.
LEMMA SetDataKeeps ==
    ASSUME TableType, AnswersFit,
           NEW n \in Name, NEW c \in Content, NEW p \in SUBSET Incoming,
           ~Attached(n), SetData(n, c, p),
           \A i \in p : answers[i] = << >>,
           p \subseteq arrived', arrived \subseteq arrived', arrived' \subseteq Incoming
    PROVE  TableType' /\ AnswersFit' /\ \A m \in Name : data[m] # NoContent => data'[m] = data[m]
<1>4. PICK sent \in Sent(n, p) :
          answers' = [i \in Incoming |->
                        IF i \in sent THEN Append(answers[i], Answer(i, n, c, TRUE))
                                      ELSE answers[i]]
  BY DEF SetData
<1>5. sent \subseteq Satisfied(n, p)
  BY DEF Sent
<1>1. TableType'
  <2>1. /\ data' \in [Name -> Content \union {NoContent}]
        /\ pending' \subseteq arrived'
        /\ lapsed' \subseteq pending'
    BY DEF SetData, TableType
  <2>2. ASSUME NEW i \in Incoming
        PROVE  Answer(i, n, c, TRUE) \in Packet
    BY DEF Answer, Packet
  <2>3. answers' \in [Incoming -> Seq(Packet)]
    <3>1. ASSUME NEW i \in Incoming PROVE answers'[i] \in Seq(Packet)
      <4>1. answers[i] \in Seq(Packet)
        BY DEF TableType
      <4>2. CASE i \in sent
        <5> DEFINE a == Answer(i, n, c, TRUE)
        <5>1. answers'[i] = Append(answers[i], a)
          BY <1>4, <4>2
        <5>2. a \in Packet
          BY <2>2
        <5> HIDE DEF a
        <5> QED BY <4>1, <5>1, <5>2
      <4>3. CASE i \notin sent
        BY <1>4, <4>1, <4>3
      <4> QED BY <4>2, <4>3
    <3>2. answers' = [i \in Incoming |-> answers'[i]]
      BY <1>4
    <3> QED BY <3>1, <3>2
  <2> QED BY <2>1, <2>3 DEF TableType
<1>2. \A m \in Name : data[m] # NoContent => data'[m] = data[m]
  BY DEF SetData, Attached, TableType
<1>3. ASSUME NEW i \in Incoming
      PROVE  /\ Len(answers'[i]) <= 1
             /\ answers'[i] # << >> => i \in arrived' \ pending'
             /\ \A k \in DOMAIN answers'[i] :
                   LET a == answers'[i][k]
                   IN  /\ MatchesData(i, a.name, a.content)
                       /\ data'[a.name] = a.content
                       /\ i.mustBeFresh => a.fresh
                       /\ ~a.lapsed
  <2>1. CASE i \in sent
    <3>1. i \in p /\ i \notin lapsed /\ MatchesName(i, n)
      BY <1>5, <2>1 DEF Satisfied
    <3>2. answers'[i] = <<Answer(i, n, c, TRUE)>>
      <4>1. answers'[i] = Append(<< >>, Answer(i, n, c, TRUE))
        BY <1>4, <2>1, <3>1
      <4> QED BY <4>1
    <3>3. Len(answers'[i]) = 1 /\ DOMAIN answers'[i] = {1}
          /\ answers'[i][1] = Answer(i, n, c, TRUE)
      BY <3>2
    <3>4. MatchesData(i, n, c) /\ data'[n] = c
      BY <3>1 DEF MatchesData, SetData, TableType
    <3>5. i \in arrived' \ pending'
      BY <1>5, <2>1, <3>1 DEF SetData
    <3>6. /\ answers'[i][1].name = n
          /\ answers'[i][1].content = c
          /\ answers'[i][1].fresh
          /\ ~answers'[i][1].lapsed
      <4>1. answers'[i][1] = [name |-> n, content |-> c, fresh |-> TRUE, lapsed |-> FALSE]
        <5>1. (i \in lapsed) = FALSE
          BY <3>1
        <5> QED BY <3>3, <5>1, Zenon DEF Answer
      <4> QED BY <4>1
    <3>7. ASSUME NEW k \in DOMAIN answers'[i]
          PROVE  LET a == answers'[i][k]
                 IN  /\ MatchesData(i, a.name, a.content)
                     /\ data'[a.name] = a.content
                     /\ i.mustBeFresh => a.fresh
                     /\ ~a.lapsed
      <4>1. k = 1
        BY <3>3
      <4> QED BY <3>4, <3>6, <4>1, Zenon
    <3> QED BY <3>3, <3>5, <3>7
  <2>2. CASE i \notin sent
    <3>1. answers'[i] = answers[i]
      BY <1>4, <2>2
    <3>2. answers[i] # << >> => i \in arrived' \ pending'
      BY DEF SetData, AnswersFit
    <3>3. ASSUME NEW k \in DOMAIN answers[i]
          PROVE  data'[answers[i][k].name] = answers[i][k].content
      <4>1. answers[i][k] \in Packet
        BY DEF TableType
      <4>2. answers[i][k].name \in Name /\ answers[i][k].content \in Content
        BY <4>1 DEF Packet
      <4>3. data[answers[i][k].name] = answers[i][k].content
        BY DEF AnswersFit
      <4> QED BY <1>2, <4>2, <4>3, NamespaceAssumption DEF NamespaceAssumption
    <3> QED BY <3>1, <3>2, <3>3 DEF AnswersFit
  <2> QED BY <2>1, <2>2
<1> QED BY <1>1, <1>2, <1>3 DEF AnswersFit

\* A step that attaches nothing, answers nobody, and at most adds to the table an Interest
\* that has just arrived or times one out, keeps the table in order.
LEMMA QuietKeeps ==
    ASSUME TableType, AnswersFit, NEW p \in SUBSET Incoming,
           UNCHANGED <<data, answers>>, pending' = p, lapsed' \subseteq p,
           \A i \in p : answers[i] = << >>,
           p \subseteq arrived', arrived \subseteq arrived', arrived' \subseteq Incoming
    PROVE  TableType' /\ AnswersFit'
<1>1. TableType'
  BY DEF TableType
<1>2. \A i \in Incoming : answers[i] # << >> => i \in arrived' \ pending'
  BY DEF AnswersFit
<1> QED BY <1>1, <1>2 DEF AnswersFit, MatchesData, MatchesName

\* The entries of the table have no answer.
LEMMA PendingUnanswered ==
    ASSUME TableType, AnswersFit
    PROVE  \A i \in pending : answers[i] = << >>
  BY DEF TableType, AnswersFit

\* serializeObject keeps the table in order.
LEMMA SerializeKeeps ==
    ASSUME TableType, AnswersFit,
           NEW n \in Name, NEW c \in Content, NEW st \in NodeState, NEW p \in SUBSET Incoming,
           Serialize(n, c, st, p), pending \subseteq p,
           \A i \in p : answers[i] = << >>,
           p \subseteq arrived', arrived \subseteq arrived', arrived' \subseteq Incoming
    PROVE  /\ TableType' /\ AnswersFit'
           /\ \A m \in Name : data[m] # NoContent => data'[m] = data[m]
           /\ state \in [Name -> NodeState] => state' \in [Name -> NodeState]
           /\ object \in [Name -> Content \union {NoContent}]
                 => object' \in [Name -> Content \union {NoContent}]
<1>1. CASE Attached(n)
  <2>1. UNCHANGED <<data, answers>> /\ pending' = p /\ lapsed' \subseteq p
    BY <1>1 DEF Serialize, TableType
  <2>2. TableType' /\ AnswersFit'
    BY <2>1, QuietKeeps
  <2> QED BY <2>1, <2>2 DEF Serialize
<1>2. CASE ~Attached(n)
  <2>1. SetData(n, c, p)
    BY <1>2 DEF Serialize
  <2> QED BY <1>2, <2>1, SetDataKeeps DEF Serialize
<1> QED BY <1>1, <1>2

\* So does the application when it promises to produce, or produces at once.
LEMMA ProduceKeeps ==
    ASSUME TableType, AnswersFit,
           NEW n \in Name, NEW p \in SUBSET Incoming,
           Produce(n, p), pending \subseteq p,
           \A i \in p : answers[i] = << >>,
           p \subseteq arrived', arrived \subseteq arrived', arrived' \subseteq Incoming
    PROVE  /\ TableType' /\ AnswersFit'
           /\ \A m \in Name : data[m] # NoContent => data'[m] = data[m]
           /\ state \in [Name -> NodeState] => state' \in [Name -> NodeState]
           /\ object \in [Name -> Content \union {NoContent}]
                 => object' \in [Name -> Content \union {NoContent}]
<1>1. CASE Promise(n, p)
  <2>1. UNCHANGED <<data, object, answers>> /\ pending' = p /\ lapsed' \subseteq p
    BY <1>1 DEF Promise, TableType
  <2>2. TableType' /\ AnswersFit'
    BY <2>1, QuietKeeps
  <2> QED BY <1>1, <2>1, <2>2 DEF Promise, NodeState
<1>2. CASE \E c \in Content : Serialize(n, c, "PRODUCING_OBJECT", p)
  <2>1. PICK c \in Content : Serialize(n, c, "PRODUCING_OBJECT", p)
    BY <1>2
  <2>2. "PRODUCING_OBJECT" \in NodeState
    BY DEF NodeState
  <2> QED BY <2>1, <2>2, SerializeKeeps
<1> QED BY <1>1, <1>2 DEF Produce

\* deserialize_ keeps the types.
LEMMA DeserializeKeeps ==
    ASSUME NEW n \in Name, NEW c \in Content, NEW st \in [Name -> NodeState],
           object \in [Name -> Content \union {NoContent}],
           deserializing \subseteq Handled \X Content,
           Deserialize(n, c, st)
    PROVE  /\ state' \in [Name -> NodeState]
           /\ object' \in [Name -> Content \union {NoContent}]
           /\ deserializing' \subseteq Handled \X Content
  BY DEF Deserialize, NodeState

\* A step that touches neither packets nor the table keeps the table in order.
LEMMA StillTable ==
    ASSUME TableType, AnswersFit, UNCHANGED <<data, arrived, pending, lapsed, answers>>
    PROVE  TableType' /\ AnswersFit'
  BY DEF TableType, AnswersFit, MatchesData, MatchesName

\* A callback that only drops the Face of its node keeps the invariant, given the types of
\* what it may still change.
LEMMA DroppedKeeps ==
    ASSUME IInv, NEW n \in Name, Dropped(n), arrived' = arrived,
           outgoing' \in [Name -> 0..MaxInterests],
           decrypting' \subseteq Name \X Name \X Content,
           deserializing' \subseteq Handled \X Content
    PROVE  IInv'
<1>1. UNCHANGED <<state, validating, data, stale, object, pending, lapsed, answers, isShutDown>>
      /\ faces' \subseteq faces
  BY DEF Dropped, treeVars, packetVars, tableVars
<1>2. TableType' /\ AnswersFit'
  BY <1>1, StillTable DEF IInv
<1> QED BY <1>1, <1>2 DEF IInv, NodeType

-----------------------------------------------------------------------------
(* The actions.                                                             *)

LEMMA InitEstablishes ==
    ASSUME Init PROVE IInv
<1>1. TableType
  BY DEF Init, TableType
<1>2. NodeType
  <2>1. outgoing \in [Name -> 0..MaxInterests]
    BY NamespaceAssumption DEF NamespaceAssumption, Init
  <2>2. /\ state \in [Name -> NodeState]
        /\ object \in [Name -> Content \union {NoContent}]
    BY DEF Init, NodeState
  <2> QED BY <2>1, <2>2 DEF Init, NodeType
<1>3. AnswersFit
  BY DEF Init, AnswersFit
<1> QED BY <1>1, <1>2, <1>3 DEF IInv

\* An answer of the network is one Interest less in flight.
LEMMA AnsweredType ==
    ASSUME NodeType, NEW n \in Name, outgoing[n] > 0, outgoing' = Answered(n)
    PROVE  outgoing' \in [Name -> 0..MaxInterests]
  BY NamespaceAssumption DEF NamespaceAssumption, NodeType, Answered

LEMMA ObjectNeededPreserves ==
    ASSUME IInv, NEW n \in Name, ObjectNeeded(n) PROVE IInv'
<1>1. CASE isShutDown /\ Dropped(n) /\ UNCHANGED fetchVars
  <2>1. UNCHANGED <<arrived, outgoing, decrypting, deserializing>>
    BY <1>1 DEF ObjectNeeded, fetchVars
  <2> QED BY <1>1, <2>1, DroppedKeeps DEF IInv, NodeType
<1>2. CASE Runs
  <2>1. PICK mustBeFresh \in BOOLEAN :
               LET found == Found(OwnInterest(n, mustBeFresh))
                   ready == {m \in found : IsBestMatch(m, found) /\ object[m] # NoContent}
               IN  \/ \E m \in ready :
                         /\ state' = [state EXCEPT ![m] = "OBJECT_READY"]
                         /\ UNCHANGED <<data, object, tableVars, fetchVars>>
                   \/ /\ ready = {}
                      /\ n \in Producible
                      /\ Produce(n, pending)
                      /\ UNCHANGED fetchVars
                   \/ /\ ready = {}
                      /\ n \notin Producible
                      /\ outgoing[n] < MaxInterests
                      /\ state' = [state EXCEPT ![n] = "INTEREST_EXPRESSED"]
                      /\ outgoing' = [outgoing EXCEPT ![n] = @ + 1]
                      /\ UNCHANGED <<data, object, tableVars, decrypting, deserializing>>
    BY <1>2 DEF ObjectNeeded, Runs, Dropped
  <2>2. UNCHANGED <<validating, stale, arrived, faces, isShutDown>>
    BY <1>2 DEF ObjectNeeded, Runs
  <2> DEFINE found == Found(OwnInterest(n, mustBeFresh))
             ready == {m \in found : IsBestMatch(m, found) /\ object[m] # NoContent}
  <2>3. ASSUME NEW m \in ready,
               state' = [state EXCEPT ![m] = "OBJECT_READY"],
               UNCHANGED <<data, object, tableVars, fetchVars>>
        PROVE  IInv'
    <3>1. TableType' /\ AnswersFit'
      BY <2>2, <2>3, StillTable DEF IInv, tableVars
    <3> QED BY <2>2, <2>3, <3>1 DEF IInv, NodeType, NodeState, fetchVars
  <2>4. ASSUME Produce(n, pending), UNCHANGED fetchVars PROVE IInv'
    <3>1. pending \in SUBSET Incoming /\ pending \subseteq arrived'
          /\ arrived' = arrived /\ arrived' \subseteq Incoming
      BY <2>2 DEF IInv, TableType
    <3>2. /\ TableType' /\ AnswersFit'
          /\ \A m \in Name : data[m] # NoContent => data'[m] = data[m]
          /\ state' \in [Name -> NodeState]
          /\ object' \in [Name -> Content \union {NoContent}]
      BY <2>4, <3>1, ProduceKeeps, PendingUnanswered DEF IInv, NodeType
    <3> QED BY <2>2, <2>4, <3>2, NamespaceAssumption
            DEF NamespaceAssumption, IInv, NodeType, fetchVars
  <2>5. ASSUME outgoing[n] < MaxInterests,
               state' = [state EXCEPT ![n] = "INTEREST_EXPRESSED"],
               outgoing' = [outgoing EXCEPT ![n] = @ + 1],
               UNCHANGED <<data, object, tableVars, decrypting, deserializing>>
        PROVE  IInv'
    <3>1. TableType' /\ AnswersFit'
      BY <2>2, <2>5, StillTable DEF IInv, tableVars
    <3>2. outgoing' \in [Name -> 0..MaxInterests]
      BY <2>5, NamespaceAssumption DEF NamespaceAssumption, IInv, NodeType
    <3> QED BY <2>2, <2>5, <3>1, <3>2 DEF IInv, NodeType, NodeState
  <2> QED BY <2>1, <2>3, <2>4, <2>5
<1> QED BY <1>1, <1>2 DEF ObjectNeeded

LEMMA SerializeObjectPreserves ==
    ASSUME IInv, NEW n \in Name, SerializeObject(n) PROVE IInv'
<1>1. UNCHANGED <<arrived, outgoing, decrypting, deserializing>>
  BY DEF SerializeObject, fetchVars
<1>2. CASE isShutDown /\ Dropped(n)
  BY <1>1, <1>2, DroppedKeeps DEF IInv, NodeType
<1>3. ASSUME NEW c \in Content, Runs, Serialize(n, c, "OBJECT_READY", pending),
             UNCHANGED <<validating, stale>>
      PROVE  IInv'
  <2>1. pending \in SUBSET Incoming /\ pending \subseteq arrived' /\ arrived' \subseteq Incoming
        /\ "OBJECT_READY" \in NodeState
    BY <1>1 DEF IInv, TableType, NodeState
  <2>2. /\ TableType' /\ AnswersFit'
        /\ \A m \in Name : data[m] # NoContent => data'[m] = data[m]
        /\ state' \in [Name -> NodeState]
        /\ object' \in [Name -> Content \union {NoContent}]
    BY <1>1, <1>3, <2>1, SerializeKeeps, PendingUnanswered DEF IInv, NodeType
  <2> QED BY <1>1, <1>3, <2>2, NamespaceAssumption
          DEF NamespaceAssumption, IInv, NodeType, Runs
<1> QED BY <1>2, <1>3 DEF SerializeObject

\* The actions that change the state of a node, or the flags, and nothing else that the
\* invariant relates.
LEMMA SmallStepPreserves ==
    ASSUME IInv,
           \/ Shutdown
           \/ \E n \in Name : SerializeFails(n) \/ Expire(n)
           \/ \E i \in Incoming : Lapse(i)
    PROVE  IInv'
<1>1. CASE Shutdown
  <2>1. TableType' /\ AnswersFit'
    BY <1>1, StillTable DEF IInv, Shutdown, packetVars, tableVars
  <2> QED BY <1>1, <2>1
          DEF IInv, NodeType, Shutdown, treeVars, packetVars, fetchVars
<1>2. ASSUME NEW n \in Name, SerializeFails(n) PROVE IInv'
  <2>1. TableType' /\ AnswersFit'
    BY <1>2, StillTable DEF IInv, SerializeFails, packetVars, tableVars
  <2> QED BY <1>2, <2>1
          DEF IInv, NodeType, NodeState, SerializeFails, Runs, packetVars, fetchVars
<1>3. ASSUME NEW n \in Name, Expire(n) PROVE IInv'
  <2>1. TableType' /\ AnswersFit'
    BY <1>3, StillTable DEF IInv, Expire, tableVars
  <2> QED BY <1>3, <2>1 DEF IInv, NodeType, Expire, treeVars, fetchVars
<1>4. ASSUME NEW i \in Incoming, Lapse(i) PROVE IInv'
  <2>1. /\ pending \in SUBSET Incoming /\ lapsed' \subseteq pending
        /\ UNCHANGED <<data, arrived, pending, answers>>
        /\ pending \subseteq arrived' /\ arrived' \subseteq Incoming
    BY <1>4 DEF IInv, TableType, Lapse, packetVars
  <2>2. TableType' /\ AnswersFit'
    BY <2>1, QuietKeeps, PendingUnanswered DEF IInv
  <2> QED BY <1>4, <2>2 DEF IInv, NodeType, Lapse, treeVars, packetVars, fetchVars
<1> QED BY <1>1, <1>2, <1>3, <1>4

LEMMA OnInterestPreserves ==
    ASSUME IInv, NEW i \in Incoming, OnInterest(i) PROVE IInv'
<1>1. /\ i \notin arrived /\ arrived' = arrived \union {i} /\ arrived' \subseteq Incoming
      /\ UNCHANGED <<validating, stale, outgoing, decrypting, deserializing, faces, isShutDown>>
  BY DEF OnInterest, Runs, fetchVars, IInv, TableType
<1>2. i \notin pending /\ i \notin lapsed /\ answers[i] = << >>
  BY <1>1 DEF IInv, TableType, AnswersFit
<1>3. ASSUME NEW m \in Found(i),
             answers' = [answers EXCEPT ![i] = Append(@, Answer(i, m, data[m], m \notin stale))],
             UNCHANGED <<state, data, object, pending, lapsed>>
      PROVE  IInv'
  <2>1. m \in Name /\ data[m] \in Content /\ MatchesData(i, m, data[m])
        /\ (i.mustBeFresh => m \notin stale)
    BY DEF Found, Subtree, IInv, TableType
  <2> DEFINE r == Answer(i, m, data[m], m \notin stale)
  <2>2. r \in Packet
    BY <2>1 DEF Answer, Packet
  <2>3. r.name = m /\ r.content = data[m] /\ (i.mustBeFresh => r.fresh) /\ ~r.lapsed
    <3>1. r.name = m /\ r.content = data[m]
      BY DEF Answer
    <3>2. r.fresh = (m \notin stale) /\ r.lapsed = (i \in lapsed)
      BY Zenon DEF Answer
    <3> QED BY <1>2, <2>1, <3>1, <3>2
  <2>4. answers'[i] = <<r>> /\ \A j \in Incoming \ {i} : answers'[j] = answers[j]
    <3>1. answers'[i] = Append(<< >>, r)
      BY <1>2, <1>3 DEF IInv, TableType
    <3> QED BY <1>3, <3>1 DEF IInv, TableType
  <2> HIDE DEF r
  <2>5. TableType'
    <3>1. \A j \in Incoming : answers'[j] \in Seq(Packet)
      <4>1. <<r>> \in Seq(Packet)
        BY <2>2
      <4> QED BY <2>4, <4>1 DEF IInv, TableType
    <3>2. answers' = [j \in Incoming |-> answers'[j]]
      BY <1>3 DEF IInv, TableType
    <3>3. answers' \in [Incoming -> Seq(Packet)]
      BY <3>1, <3>2
    <3> QED BY <1>1, <1>3, <3>3 DEF IInv, TableType
  <2>6. AnswersFit'
    <3>1. ASSUME NEW j \in Incoming
          PROVE  /\ Len(answers'[j]) <= 1
                 /\ answers'[j] # << >> => j \in arrived' \ pending'
                 /\ \A k \in DOMAIN answers'[j] :
                       LET a == answers'[j][k]
                       IN  /\ MatchesData(j, a.name, a.content)
                           /\ data'[a.name] = a.content
                           /\ j.mustBeFresh => a.fresh
                           /\ ~a.lapsed
      <4>1. CASE j = i
        <5>1. Len(answers'[i]) = 1 /\ DOMAIN answers'[i] = {1} /\ answers'[i][1] = r
          BY <2>4
        <5>2. i \in arrived' \ pending'
          BY <1>1, <1>2, <1>3
        <5>3. data'[r.name] = r.content /\ MatchesData(i, r.name, r.content)
          BY <1>3, <2>1, <2>3
        <5>4. ASSUME NEW k \in DOMAIN answers'[i]
              PROVE  LET a == answers'[i][k]
                     IN  /\ MatchesData(i, a.name, a.content)
                         /\ data'[a.name] = a.content
                         /\ i.mustBeFresh => a.fresh
                         /\ ~a.lapsed
          <6>1. k = 1
            BY <5>1
          <6> QED BY <2>3, <5>1, <5>3, <6>1, Zenon
        <5> QED BY <4>1, <5>1, <5>2, <5>4
      <4>2. CASE j # i
        BY <1>1, <1>3, <2>4, <4>2 DEF IInv, AnswersFit
      <4> QED BY <4>1, <4>2
    <3> QED BY <3>1 DEF AnswersFit
  <2> QED BY <1>1, <1>3, <2>5, <2>6 DEF IInv, NodeType
<1>7. ASSUME UNCHANGED <<state, data, object, pending, lapsed, answers>> PROVE IInv'
  <2>1. pending \subseteq arrived' /\ lapsed \subseteq pending
    BY <1>1 DEF IInv, TableType
  <2>2. TableType' /\ AnswersFit'
    <3>1. TableType'
      BY <1>1, <1>7, <2>1 DEF IInv, TableType
    <3>2. AnswersFit'
      BY <1>1, <1>7, <2>1 DEF IInv, AnswersFit, MatchesData, MatchesName
    <3> QED BY <3>1, <3>2
  <2> QED BY <1>1, <1>7, <2>2 DEF IInv, NodeType
<1> DEFINE p == pending \union {i}
<1>4. /\ p \in SUBSET Incoming /\ pending \subseteq p /\ p \subseteq arrived'
      /\ arrived \subseteq arrived' /\ \A j \in p : answers[j] = << >>
  BY <1>1, <1>2, PendingUnanswered DEF IInv, TableType
<1>5. ASSUME i.name \in Producible, Produce(i.name, p) PROVE IInv'
  <2>1. i.name \in Name
    BY NamespaceAssumption DEF NamespaceAssumption
  <2>2. /\ TableType' /\ AnswersFit'
        /\ \A m \in Name : data[m] # NoContent => data'[m] = data[m]
        /\ state' \in [Name -> NodeState]
        /\ object' \in [Name -> Content \union {NoContent}]
    BY <1>1, <1>4, <1>5, <2>1, ProduceKeeps DEF IInv, NodeType
  <2> QED BY <1>1, <2>2, NamespaceAssumption DEF NamespaceAssumption, IInv, NodeType
<1>6. ASSUME pending' = p, UNCHANGED <<state, data, object, lapsed, answers>> PROVE IInv'
  <2>1. lapsed' \subseteq p
    BY <1>6 DEF IInv, TableType
  <2>2. TableType' /\ AnswersFit'
    BY <1>1, <1>4, <1>6, <2>1, QuietKeeps DEF IInv
  <2> QED BY <1>1, <1>6, <2>2 DEF IInv, NodeType
<1> QED BY <1>3, <1>5, <1>6, <1>7 DEF OnInterest

LEMMA OnDataPreserves ==
    ASSUME IInv, NEW n \in Name, NEW m \in Name, NEW c \in Content, OnData(n, m, c)
    PROVE  IInv'
<1>1. outgoing' \in [Name -> 0..MaxInterests] /\ arrived' = arrived
  BY AnsweredType DEF OnData, IInv
<1>2. CASE isShutDown /\ Dropped(n) /\ UNCHANGED <<decrypting, deserializing>>
  BY <1>1, <1>2, DroppedKeeps DEF IInv, NodeType
<1>3. CASE Runs /\ UNCHANGED <<treeVars, packetVars, tableVars, decrypting, deserializing>>
  <2>1. TableType' /\ AnswersFit'
    BY <1>1, <1>3, StillTable DEF IInv, packetVars, tableVars
  <2> QED BY <1>1, <1>3, <2>1 DEF IInv, NodeType, Runs, treeVars, packetVars
<1>4. ASSUME Runs, ~Attached(m), SetData(m, c, pending), validating' = validating \union {m},
             stale' = stale,
             state' \in [Name -> NodeState],
             object' \in [Name -> Content \union {NoContent}],
             deserializing' \subseteq Handled \X Content,
             decrypting' \subseteq decrypting \union {<<n, m, c>>}
      PROVE  IInv'
  <2>1. pending \in SUBSET Incoming /\ pending \subseteq arrived' /\ arrived' \subseteq Incoming
    BY <1>1 DEF IInv, TableType
  <2>2. /\ TableType' /\ AnswersFit'
        /\ \A k \in Name : data[k] # NoContent => data'[k] = data[k]
    BY <1>1, <1>4, <2>1, SetDataKeeps, PendingUnanswered DEF IInv
  <2>3. data'[m] = c /\ c # NoContent
    BY <1>4, NamespaceAssumption DEF NamespaceAssumption, SetData, IInv, TableType
  <2> QED BY <1>1, <1>4, <2>2, <2>3 DEF IInv, NodeType, Runs
<1> DEFINE st == [state EXCEPT ![n] = "DATA_RECEIVED"]
<1>5. st \in [Name -> NodeState]
  BY DEF IInv, NodeType, NodeState
<1>6. CASE /\ Runs
           /\ ~Attached(m)
           /\ SetData(m, c, pending)
           /\ validating' = validating \union {m}
           /\ \/ Deserialize(m, c, st) /\ UNCHANGED decrypting
              \/ /\ state' = [st EXCEPT ![m] = "DECRYPTING"]
                 /\ decrypting' = decrypting \union {<<n, m, c>>}
                 /\ UNCHANGED <<object, deserializing>>
              \/ /\ state' = [st EXCEPT ![m] = "DECRYPTION_ERROR"]
                 /\ UNCHANGED <<object, decrypting, deserializing>>
           /\ UNCHANGED stale
  <2>1. CASE Deserialize(m, c, st) /\ UNCHANGED decrypting
    BY <1>4, <1>5, <1>6, <2>1, DeserializeKeeps DEF IInv, NodeType
  <2>2. CASE /\ state' = [st EXCEPT ![m] = "DECRYPTING"]
             /\ decrypting' = decrypting \union {<<n, m, c>>}
             /\ UNCHANGED <<object, deserializing>>
    BY <1>4, <1>5, <1>6, <2>2 DEF IInv, NodeType, NodeState
  <2>3. CASE /\ state' = [st EXCEPT ![m] = "DECRYPTION_ERROR"]
             /\ UNCHANGED <<object, decrypting, deserializing>>
    BY <1>4, <1>5, <1>6, <2>3 DEF IInv, NodeType, NodeState
  <2> QED BY <1>6, <2>1, <2>2, <2>3
<1> QED BY <1>2, <1>3, <1>6 DEF OnData

LEMMA FailsPreserves ==
    ASSUME IInv, NEW n \in Name, NEW new \in NodeState, Fails(n, new) PROVE IInv'
<1>1. outgoing' \in [Name -> 0..MaxInterests] /\ UNCHANGED <<decrypting, deserializing, arrived>>
  BY AnsweredType DEF Fails, IInv
<1>2. CASE isShutDown /\ Dropped(n)
  BY <1>1, <1>2, DroppedKeeps DEF IInv, NodeType
<1>3. CASE /\ Runs
           /\ state' = [state EXCEPT ![n] = new]
           /\ UNCHANGED <<validating, packetVars, tableVars>>
  <2>1. TableType' /\ AnswersFit'
    BY <1>1, <1>3, StillTable DEF IInv, packetVars, tableVars
  <2> QED BY <1>1, <1>3, <2>1 DEF IInv, NodeType, Runs, packetVars
<1> QED BY <1>2, <1>3 DEF Fails

LEMMA OnDecryptedPreserves ==
    ASSUME IInv, NEW n \in Name, NEW m \in Name, NEW c \in Content, OnDecrypted(n, m, c)
    PROVE  IInv'
<1>1. UNCHANGED <<outgoing, arrived>> /\ decrypting' \subseteq decrypting
  BY DEF OnDecrypted
<1>2. CASE isShutDown /\ Dropped(n) /\ UNCHANGED deserializing
  BY <1>1, <1>2, DroppedKeeps DEF IInv, NodeType
<1>3. CASE /\ Runs
           /\ Deserialize(n, c, state)
           /\ UNCHANGED <<validating, data, stale, tableVars>>
  <2>1. TableType' /\ AnswersFit'
    BY <1>1, <1>3, StillTable DEF IInv, tableVars
  <2>2. /\ state' \in [Name -> NodeState]
        /\ object' \in [Name -> Content \union {NoContent}]
        /\ deserializing' \subseteq Handled \X Content
    BY <1>3, DeserializeKeeps DEF IInv, NodeType
  <2> QED BY <1>1, <1>3, <2>1, <2>2 DEF IInv, NodeType, Runs
<1> QED BY <1>2, <1>3 DEF OnDecrypted

LEMMA OnDecryptionErrorPreserves ==
    ASSUME IInv, NEW n \in Name, NEW m \in Name, NEW c \in Content, OnDecryptionError(n, m, c)
    PROVE  IInv'
<1>1. UNCHANGED <<outgoing, arrived, deserializing>> /\ decrypting' \subseteq decrypting
  BY DEF OnDecryptionError
<1>2. CASE isShutDown /\ Dropped(n)
  BY <1>1, <1>2, DroppedKeeps DEF IInv, NodeType
<1>3. CASE /\ Runs
           /\ state' = [state EXCEPT ![n] = "DECRYPTION_ERROR"]
           /\ UNCHANGED <<validating, packetVars, tableVars>>
  <2>1. TableType' /\ AnswersFit'
    BY <1>1, <1>3, StillTable DEF IInv, packetVars, tableVars
  <2> QED BY <1>1, <1>3, <2>1 DEF IInv, NodeType, NodeState, Runs, packetVars
<1> QED BY <1>2, <1>3 DEF OnDecryptionError

LEMMA OnDeserializedPreserves ==
    ASSUME IInv, NEW n \in Name, NEW c \in Content, OnDeserialized(n, c) PROVE IInv'
<1>1. UNCHANGED <<outgoing, arrived, decrypting>> /\ deserializing' \subseteq deserializing
  BY DEF OnDeserialized
<1>2. CASE isShutDown /\ Dropped(n)
  BY <1>1, <1>2, DroppedKeeps DEF IInv, NodeType
<1>3. CASE /\ Runs
           /\ object' = [object EXCEPT ![n] = c]
           /\ state' = [state EXCEPT ![n] = "OBJECT_READY"]
           /\ UNCHANGED <<validating, data, stale, tableVars>>
  <2>1. TableType' /\ AnswersFit'
    BY <1>1, <1>3, StillTable DEF IInv, tableVars
  <2> QED BY <1>1, <1>3, <2>1 DEF IInv, NodeType, NodeState, Runs
<1> QED BY <1>2, <1>3 DEF OnDeserialized

\* Every step keeps the invariant.
LEMMA NextPreserves ==
    ASSUME IInv, [Next]_vars PROVE IInv'
<1>1. CASE Shutdown
  BY <1>1, SmallStepPreserves
<1>2. ASSUME NEW n \in Name,
             \/ ObjectNeeded(n) \/ SerializeObject(n) \/ SerializeFails(n)
             \/ OnTimeout(n) \/ OnNetworkNack(n) \/ Expire(n)
             \/ \E c \in Content : OnDeserialized(n, c)
             \/ \E m \in Name, c \in Content :
                   OnData(n, m, c) \/ OnDecrypted(n, m, c) \/ OnDecryptionError(n, m, c)
      PROVE  IInv'
  <2>1. CASE ObjectNeeded(n)
    BY <2>1, ObjectNeededPreserves
  <2>2. CASE SerializeObject(n)
    BY <2>2, SerializeObjectPreserves
  <2>3. CASE SerializeFails(n) \/ Expire(n)
    BY <2>3, SmallStepPreserves
  <2>4. CASE OnTimeout(n) \/ OnNetworkNack(n)
    BY <2>4, FailsPreserves DEF OnTimeout, OnNetworkNack, NodeState
  <2>5. CASE \E c \in Content : OnDeserialized(n, c)
    BY <2>5, OnDeserializedPreserves
  <2>6. CASE \E m \in Name, c \in Content :
                OnData(n, m, c) \/ OnDecrypted(n, m, c) \/ OnDecryptionError(n, m, c)
    BY <2>6, OnDataPreserves, OnDecryptedPreserves, OnDecryptionErrorPreserves
  <2> QED BY <1>2, <2>1, <2>2, <2>3, <2>4, <2>5, <2>6
<1>3. ASSUME NEW i \in Incoming, OnInterest(i) \/ Lapse(i) PROVE IInv'
  BY <1>3, OnInterestPreserves, SmallStepPreserves
<1>4. CASE UNCHANGED vars
  <2>1. TableType' /\ AnswersFit'
    BY <1>4, StillTable DEF IInv, vars, packetVars, tableVars
  <2> QED BY <1>4, <2>1 DEF IInv, NodeType, vars, treeVars, packetVars, fetchVars
<1> QED BY <1>1, <1>2, <1>3, <1>4 DEF Next

LEMMA Invariance == Spec => []IInv
<1>1. Init => IInv
  BY InitEstablishes
<1>2. IInv /\ [Next]_vars => IInv'
  BY NextPreserves
<1> QED BY <1>1, <1>2, PTL DEF Spec

\* The types of all parts of the tree and of the table.
THEOREM TreeTypeCorrect == Spec => []TypeOK
<1>1. IInv => TypeOK
  BY DEF IInv, TableType, NodeType, TypeOK, Packet
<1> QED BY <1>1, Invariance, PTL

\* An Interest gets at most one packet, and one that fits it: at onInterest or later from
\* the table, in every order of Interests, packets, production and time.
THEOREM InterestsAnsweredWell == Spec => []AnswersFit
<1>1. IInv => AnswersFit
  BY DEF IInv
<1> QED BY <1>1, Invariance, PTL

-----------------------------------------------------------------------------
(* Nothing waits in the table for a packet that the tree holds.             *)

\* A packet does not become a better match with time.
LEMMA StillWaiting ==
    ASSUME NEW p \in SUBSET Incoming, \A i \in p : Found(i) = {},
           pending' \ lapsed' \subseteq p, data' = data, stale \subseteq stale'
    PROVE  PendingUnmatched'
<1>1. \A i \in Incoming : Found(i)' \subseteq Found(i)
  BY DEF Found, MatchesData, MatchesName
<1> QED BY <1>1 DEF PendingUnmatched

\* setData empties the table of the Interests that its packet matches.
LEMMA SetDataWaits ==
    ASSUME NoDigests, TableType,
           NEW n \in Name, NEW c \in Content, NEW p \in SUBSET Incoming,
           \A i \in p \ lapsed : Found(i) = {}, SetData(n, c, p), stale' = stale
    PROVE  PendingUnmatched'
<1>1. SUFFICES ASSUME NEW i \in (pending \ lapsed)', NEW m \in Found(i)' PROVE FALSE
  BY DEF PendingUnmatched
<1>2. i \in p \ lapsed /\ ~MatchesName(i, n) /\ i.digest = NoContent
  BY DEF SetData, Satisfied, NoDigests
<1>3. /\ m \in Subtree(i.name)
      /\ data'[m] # NoContent
      /\ ~(i.mustBeFresh /\ m \in stale)
      /\ MatchesData(i, m, data'[m])
  BY DEF Found, MatchesData, MatchesName
<1>4. MatchesName(i, m)
  BY <1>2, <1>3 DEF MatchesData
<1>5. m # n
  BY <1>2, <1>4
<1>6. data'[m] = data[m]
  BY <1>3, <1>5 DEF SetData, TableType, Subtree
<1>7. m \in Found(i)
  BY <1>3, <1>6 DEF Found
<1> QED BY <1>2, <1>7

LEMMA SerializeWaits ==
    ASSUME NoDigests, TableType,
           NEW n \in Name, NEW c \in Content, NEW st, NEW p \in SUBSET Incoming,
           \A i \in p \ lapsed : Found(i) = {}, Serialize(n, c, st, p), stale' = stale
    PROVE  PendingUnmatched'
<1>1. CASE Attached(n)
  <2>1. pending' \ lapsed' \subseteq p \ lapsed /\ data' = data /\ p \ lapsed \in SUBSET Incoming
    BY <1>1 DEF Serialize
  <2> QED BY <2>1, StillWaiting
<1>2. CASE ~Attached(n)
  BY <1>2, SetDataWaits DEF Serialize
<1> QED BY <1>1, <1>2

LEMMA ProduceWaits ==
    ASSUME NoDigests, TableType,
           NEW n \in Name, NEW p \in SUBSET Incoming,
           \A i \in p \ lapsed : Found(i) = {}, Produce(n, p), stale' = stale
    PROVE  PendingUnmatched'
<1>1. CASE Promise(n, p)
  <2>1. pending' \ lapsed' \subseteq p \ lapsed /\ data' = data /\ p \ lapsed \in SUBSET Incoming
    BY <1>1 DEF Promise
  <2> QED BY <2>1, StillWaiting
<1>2. CASE \E c \in Content : Serialize(n, c, "PRODUCING_OBJECT", p)
  BY <1>2, SerializeWaits
<1> QED BY <1>1, <1>2 DEF Produce

\* Every step keeps PendingUnmatched.
LEMMA NextWaits ==
    ASSUME NoDigests, TableType, PendingUnmatched, [Next]_vars PROVE PendingUnmatched'
<1>1. pending \in SUBSET Incoming /\ \A i \in pending \ lapsed : Found(i) = {}
  BY DEF TableType, PendingUnmatched
<1>2. ASSUME UNCHANGED <<data, pending>>, lapsed \subseteq lapsed', stale \subseteq stale'
      PROVE  PendingUnmatched'
  <2>1. pending' \ lapsed' \subseteq pending \ lapsed /\ pending \ lapsed \in SUBSET Incoming
    BY <1>1, <1>2
  <2> QED BY <1>1, <1>2, <2>1, StillWaiting
<1>3. CASE Shutdown
  BY <1>2, <1>3 DEF Shutdown, packetVars, tableVars
<1>4. ASSUME NEW n \in Name, ObjectNeeded(n) PROVE PendingUnmatched'
  <2>1. CASE Dropped(n)
    BY <1>2, <2>1 DEF Dropped, packetVars, tableVars
  <2>2. CASE UNCHANGED <<data, tableVars, stale>>
    BY <1>2, <2>2 DEF tableVars
  <2>3. CASE Produce(n, pending) /\ stale' = stale
    BY <1>1, <2>3, ProduceWaits
  <2> QED BY <1>4, <2>1, <2>2, <2>3 DEF ObjectNeeded
<1>5. ASSUME NEW n \in Name, SerializeObject(n) PROVE PendingUnmatched'
  <2>1. CASE Dropped(n)
    BY <1>2, <2>1 DEF Dropped, packetVars, tableVars
  <2>2. ASSUME NEW c \in Content, Serialize(n, c, "OBJECT_READY", pending), stale' = stale
        PROVE  PendingUnmatched'
    BY <1>1, <2>2, SerializeWaits
  <2> QED BY <1>5, <2>1, <2>2 DEF SerializeObject
<1>6. ASSUME NEW n \in Name,
             \/ SerializeFails(n) \/ OnTimeout(n) \/ OnNetworkNack(n) \/ Expire(n)
             \/ \E c \in Content : OnDeserialized(n, c)
             \/ \E m \in Name, c \in Content : OnDecrypted(n, m, c) \/ OnDecryptionError(n, m, c)
      PROVE  PendingUnmatched'
  BY <1>2, <1>6 DEF SerializeFails, OnTimeout, OnNetworkNack, Fails, Expire, OnDeserialized,
                    OnDecrypted, OnDecryptionError, Dropped, packetVars, tableVars
<1>7. ASSUME NEW n \in Name, NEW m \in Name, NEW c \in Content, OnData(n, m, c)
      PROVE  PendingUnmatched'
  <2>1. CASE UNCHANGED <<packetVars, tableVars>>
    BY <1>2, <2>1 DEF packetVars, tableVars
  <2>2. CASE SetData(m, c, pending) /\ stale' = stale
    BY <1>1, <2>2, SetDataWaits
  <2> QED BY <1>7, <2>1, <2>2 DEF OnData, Dropped
<1>8. ASSUME NEW i \in Incoming, OnInterest(i) PROVE PendingUnmatched'
  <2>1. stale' = stale
    BY <1>8 DEF OnInterest
  <2>2. CASE UNCHANGED <<data, pending, lapsed>>
    BY <1>2, <2>1, <2>2
  <2>3. CASE Found(i) = {}
    <3> DEFINE p == pending \union {i}
    <3>1. p \in SUBSET Incoming /\ \A j \in p \ lapsed : Found(j) = {}
      BY <1>1, <2>3
    <3>2. CASE Produce(i.name, p)
      <4>1. i.name \in Name
        BY NamespaceAssumption DEF NamespaceAssumption
      <4> QED BY <2>1, <3>1, <3>2, <4>1, ProduceWaits
    <3>3. CASE pending' = p /\ UNCHANGED <<data, lapsed>>
      <4>1. pending' \ lapsed' \subseteq p \ lapsed /\ p \ lapsed \in SUBSET Incoming
        BY <3>1, <3>3
      <4> QED BY <2>1, <3>1, <3>3, <4>1, StillWaiting
    <3> QED BY <1>8, <2>2, <3>2, <3>3 DEF OnInterest
  <2> QED BY <1>8, <2>2, <2>3 DEF OnInterest
<1>9. ASSUME NEW i \in Incoming, Lapse(i) PROVE PendingUnmatched'
  BY <1>2, <1>9 DEF Lapse, packetVars
<1>10. CASE UNCHANGED vars
  BY <1>2, <1>10 DEF vars, packetVars, tableVars
<1> QED BY <1>3, <1>4, <1>5, <1>6, <1>7, <1>8, <1>9, <1>10 DEF Next

\* When no Interest carries an implicit digest, none waits in the table for a packet that
\* the tree holds.
THEOREM NothingWaitsInVain ==
    ASSUME NoDigests PROVE Spec => []PendingUnmatched
<1>1. Init => PendingUnmatched
  BY DEF Init, PendingUnmatched
<1>2. IInv /\ PendingUnmatched /\ [Next]_vars => PendingUnmatched'
  BY NextWaits DEF IInv
<1> QED BY <1>1, <1>2, Invariance, PTL DEF Spec

-----------------------------------------------------------------------------
(* Fetched objects, and what shutdown() stops.                              *)

\* With a decryptor, a packet is only fetched by its own name: the plain content goes to
\* the node of the Interest.
OwnPackets == HasDecryptor => \A n \in Needed : Remote \cap Subtree(n) \subseteq {n}

\* What is under way to become an object is the content of the node's packet.
UnderWayFits ==
    /\ \A n \in Name : outgoing[n] > 0 => n \in Needed
    /\ \A d \in decrypting : HasDecryptor /\ d[1] = d[2] /\ data[d[1]] = d[3]
    /\ \A d \in deserializing : data[d[1]] = d[2]

\* Attached packets stay, and an object that a step sets is the content of its packet.
ObjectsFit ==
    /\ \A n \in Name : data[n] # NoContent => data'[n] = data[n]
    /\ \A n \in Name \ Producible :
          object'[n] = object[n] \/ (object'[n] \in Content /\ object'[n] = data'[n])

\* A step that gives nothing to the decryptor or a Handler.
LEMMA ProducedFits ==
    ASSUME NodeType, TableType, UnderWayFits, ObjectsFit,
           UNCHANGED <<decrypting, deserializing>>,
           \A n \in Name : outgoing'[n] > 0 => n \in Needed
    PROVE  UnderWayFits' /\ ObjectsFit
<1>1. \A d \in decrypting : d[1] \in Name /\ d[3] \in Content
  BY DEF NodeType
<1>2. \A d \in deserializing : d[1] \in Name /\ d[2] \in Content
  BY NamespaceAssumption DEF NodeType, NamespaceAssumption
<1>3. NoContent \notin Content
  BY NamespaceAssumption DEF NamespaceAssumption
<1> QED BY <1>1, <1>2, <1>3 DEF UnderWayFits, ObjectsFit

\* Objects and packets as they were.
LEMMA SameFits ==
    ASSUME UNCHANGED <<data, object>> PROVE ObjectsFit
  BY DEF ObjectsFit

\* serializeObject on a node that the application produces.
LEMMA SerializeFits ==
    ASSUME NodeType, TableType, NEW n \in Producible, NEW c, NEW st, NEW p,
           Serialize(n, c, st, p)
    PROVE  ObjectsFit
<1>1. \A m \in Name : data[m] # NoContent => data'[m] = data[m]
  BY DEF Serialize, SetData, Attached, TableType
<1>2. \A m \in Name \ Producible : object'[m] = object[m]
  BY DEF Serialize, NodeType
<1> QED BY <1>1, <1>2 DEF ObjectsFit

LEMMA ProduceFits ==
    ASSUME NodeType, TableType, NEW n \in Producible, NEW p, Produce(n, p)
    PROVE  ObjectsFit
<1>1. CASE Promise(n, p)
  BY <1>1, SameFits DEF Promise
<1>2. CASE \E c \in Content : Serialize(n, c, "PRODUCING_OBJECT", p)
  BY <1>2, SerializeFits
<1> QED BY <1>1, <1>2 DEF Produce

\* The content of the packet of node n becomes its object, or is on its way to.
LEMMA DeserializeFits ==
    ASSUME NodeType, TableType, UnderWayFits,
           NEW n \in Name, NEW c \in Content, NEW st, Deserialize(n, c, st),
           \A m \in Name : data[m] # NoContent => data'[m] = data[m],
           data'[n] = c
    PROVE  ObjectsFit /\ \A d \in deserializing' : data'[d[1]] = d[2]
<1>1. NoContent \notin Content
  BY NamespaceAssumption DEF NamespaceAssumption
<1>2. ObjectsFit
  BY DEF Deserialize, ObjectsFit, NodeType
<1>3. \A d \in deserializing : d[1] \in Name /\ d[2] \in Content /\ data'[d[1]] = d[2]
  BY <1>1, NamespaceAssumption DEF NodeType, UnderWayFits, NamespaceAssumption
<1>4. \A d \in deserializing' : d \in deserializing \/ d = <<n, c>>
  BY DEF Deserialize
<1>5. \A d \in deserializing' : data'[d[1]] = d[2]
  BY <1>3, <1>4
<1> QED BY <1>2, <1>5

LEMMA OnDataFits ==
    ASSUME OwnPackets, IInv, UnderWayFits, NEW n \in Name, NEW m \in Name, NEW c \in Content,
           OnData(n, m, c)
    PROVE  UnderWayFits' /\ ObjectsFit
<1>1. outgoing[n] > 0 /\ n \in Needed /\ m \in Remote \cap Subtree(n) /\ outgoing' = Answered(n)
  BY DEF OnData, UnderWayFits
<1>2. \A k \in Name : outgoing'[k] > 0 => k \in Needed
  <2>1. \A k \in Name : k # n => outgoing'[k] = outgoing[k]
    BY <1>1 DEF Answered, IInv, NodeType
  <2> QED BY <1>1, <2>1 DEF UnderWayFits
<1>3. NoContent \notin Content /\ TableType /\ NodeType
  BY NamespaceAssumption DEF NamespaceAssumption, IInv
<1>4. CASE UNCHANGED <<data, object, decrypting, deserializing>>
  BY <1>2, <1>3, <1>4, SameFits, ProducedFits
<1>5. CASE ~Attached(m) /\ SetData(m, c, pending)
  <2>1. data'[m] = c /\ \A k \in Name : data[k] # NoContent => data'[k] = data[k]
    BY <1>3, <1>5 DEF SetData, Attached, TableType
  <2>2. \A d \in decrypting : HasDecryptor /\ d[1] = d[2] /\ data'[d[1]] = d[3]
    BY <1>3, <2>1 DEF UnderWayFits, NodeType
  <2>3. \A d \in deserializing : data'[d[1]] = d[2]
    BY <1>3, <2>1, NamespaceAssumption DEF UnderWayFits, NodeType, NamespaceAssumption
  <2>4. CASE ~HasDecryptor /\ Deserialize(m, c, [state EXCEPT ![n] = "DATA_RECEIVED"])
             /\ UNCHANGED decrypting
    <3>1. ObjectsFit /\ \A d \in deserializing' : data'[d[1]] = d[2]
      BY <1>3, <2>1, <2>4, DeserializeFits
    <3> QED BY <1>2, <2>2, <2>4, <3>1 DEF UnderWayFits
  <2>5. CASE /\ HasDecryptor /\ decrypting' = decrypting \union {<<n, m, c>>}
             /\ UNCHANGED <<object, deserializing>>
    <3>1. n = m
      BY <1>1, <2>5 DEF OwnPackets
    <3>2. \A d \in decrypting' : HasDecryptor /\ d[1] = d[2] /\ data'[d[1]] = d[3]
      BY <2>1, <2>2, <2>5, <3>1
    <3>3. ObjectsFit
      BY <2>1, <2>5 DEF ObjectsFit
    <3> QED BY <1>2, <2>3, <2>5, <3>2, <3>3 DEF UnderWayFits
  <2>6. CASE UNCHANGED <<object, decrypting, deserializing>>
    <3>1. ObjectsFit
      BY <2>1, <2>6 DEF ObjectsFit
    <3> QED BY <1>2, <1>3, <2>6, <3>1, ProducedFits
  <2> QED BY <1>5, <2>4, <2>5, <2>6, <1>4 DEF OnData, Dropped, packetVars
<1> QED BY <1>4, <1>5 DEF OnData, Dropped, packetVars

LEMMA OnDecryptedFits ==
    ASSUME OwnPackets, IInv, UnderWayFits, NEW n \in Name, NEW m \in Name, NEW c \in Content,
           OnDecrypted(n, m, c)
    PROVE  UnderWayFits' /\ ObjectsFit
<1>1. /\ <<n, m, c>> \in decrypting /\ decrypting' \subseteq decrypting
      /\ data[n] = c /\ UNCHANGED <<data, outgoing>>
  BY DEF OnDecrypted, UnderWayFits, Dropped, packetVars
<1>2. TableType /\ NodeType
  BY DEF IInv
<1>3. CASE UNCHANGED <<object, deserializing>>
  BY <1>1, <1>3, SameFits DEF UnderWayFits
<1>4. CASE Deserialize(n, c, state)
  <2>1. ObjectsFit /\ \A d \in deserializing' : data'[d[1]] = d[2]
    BY <1>1, <1>2, <1>4, DeserializeFits
  <2> QED BY <1>1, <2>1 DEF UnderWayFits
<1> QED BY <1>3, <1>4 DEF OnDecrypted, Dropped, packetVars

LEMMA OnDeserializedFits ==
    ASSUME IInv, UnderWayFits, NEW n \in Name, NEW c \in Content, OnDeserialized(n, c)
    PROVE  UnderWayFits' /\ ObjectsFit
<1>1. /\ <<n, c>> \in deserializing /\ deserializing' \subseteq deserializing
      /\ data[n] = c /\ UNCHANGED <<data, outgoing, decrypting>>
  BY DEF OnDeserialized, UnderWayFits, Dropped, packetVars
<1>2. UnderWayFits'
  BY <1>1 DEF UnderWayFits
<1>3. object' = object \/ object' = [object EXCEPT ![n] = c]
  BY DEF OnDeserialized, Dropped, packetVars
<1>4. ObjectsFit
  BY <1>1, <1>3 DEF ObjectsFit, IInv, NodeType
<1> QED BY <1>2, <1>4

\* Every step.
LEMMA NextFits ==
    ASSUME OwnPackets, IInv, UnderWayFits, [Next]_vars
    PROVE  UnderWayFits' /\ ObjectsFit
<1>0. TableType /\ NodeType
  BY DEF IInv
<1>1. ASSUME UNCHANGED <<data, object, outgoing, deserializing>>, decrypting' \subseteq decrypting
      PROVE  UnderWayFits' /\ ObjectsFit
  BY <1>1, SameFits DEF UnderWayFits
<1>2. ASSUME NEW n \in Name, ObjectNeeded(n) PROVE UnderWayFits' /\ ObjectsFit
  <2>1. CASE UNCHANGED <<data, object, fetchVars>>
    BY <1>1, <2>1 DEF fetchVars
  <2>2. CASE n \in Producible /\ Produce(n, pending) /\ UNCHANGED fetchVars
    <3>1. ObjectsFit
      BY <1>0, <2>2, ProduceFits
    <3> QED BY <1>0, <2>2, <3>1, ProducedFits DEF fetchVars, UnderWayFits
  <2>3. CASE /\ outgoing' = [outgoing EXCEPT ![n] = @ + 1]
             /\ UNCHANGED <<data, object, decrypting, deserializing>>
    <3>1. \A k \in Name : outgoing'[k] > 0 => k \in Needed
      <4>1. \A k \in Name : k # n => outgoing'[k] = outgoing[k]
        BY <1>0, <2>3 DEF NodeType
      <4>2. n \in Needed
        BY <1>2 DEF ObjectNeeded
      <4> QED BY <4>1, <4>2 DEF UnderWayFits
    <3> QED BY <1>0, <2>3, <3>1, SameFits, ProducedFits
  <2> QED BY <1>2, <2>1, <2>2, <2>3 DEF ObjectNeeded, Dropped, packetVars
<1>3. ASSUME NEW n \in Name, SerializeObject(n) PROVE UnderWayFits' /\ ObjectsFit
  <2>1. UNCHANGED fetchVars /\ n \in Producible
    BY <1>3 DEF SerializeObject
  <2>2. ObjectsFit
    <3>1. CASE Dropped(n)
      BY <3>1, SameFits DEF Dropped, packetVars
    <3>2. CASE \E c \in Content : Serialize(n, c, "OBJECT_READY", pending)
      BY <1>0, <2>1, <3>2, SerializeFits
    <3> QED BY <1>3, <3>1, <3>2 DEF SerializeObject
  <2> QED BY <1>0, <2>1, <2>2, ProducedFits DEF fetchVars, UnderWayFits
<1>4. ASSUME NEW n \in Name, NEW new, Fails(n, new) PROVE UnderWayFits' /\ ObjectsFit
  <2>1. outgoing' = Answered(n) /\ UNCHANGED <<data, object, decrypting, deserializing>>
    BY <1>4 DEF Fails, Dropped, packetVars
  <2>2. outgoing[n] > 0 /\ n \in Needed
    BY <1>4 DEF Fails, UnderWayFits
  <2>3. \A k \in Name : outgoing'[k] > 0 => k \in Needed
    <3>1. \A k \in Name : k # n => outgoing'[k] = outgoing[k]
      BY <1>0, <2>1 DEF Answered, NodeType
    <3> QED BY <2>2, <3>1 DEF UnderWayFits
  <2> QED BY <1>0, <2>1, <2>3, SameFits, ProducedFits
<1>5. ASSUME NEW i \in Incoming, OnInterest(i) PROVE UnderWayFits' /\ ObjectsFit
  <2>1. UNCHANGED fetchVars
    BY <1>5 DEF OnInterest
  <2>2. ObjectsFit
    <3>1. CASE UNCHANGED <<data, object>>
      BY <3>1, SameFits
    <3>2. CASE i.name \in Producible /\ Produce(i.name, pending \union {i})
      BY <1>0, <3>2, ProduceFits
    <3> QED BY <1>5, <3>1, <3>2 DEF OnInterest
  <2> QED BY <1>0, <2>1, <2>2, ProducedFits DEF fetchVars, UnderWayFits
<1>6. ASSUME \/ Shutdown \/ UNCHANGED vars
             \/ \E n \in Name : SerializeFails(n) \/ Expire(n)
             \/ \E i \in Incoming : Lapse(i)
             \/ \E n, m \in Name, c \in Content : OnDecryptionError(n, m, c)
      PROVE  UnderWayFits' /\ ObjectsFit
  BY <1>1, <1>6 DEF Shutdown, vars, SerializeFails, Expire, Lapse, OnDecryptionError,
                    Dropped, packetVars, fetchVars
<1> QED BY <1>2, <1>3, <1>4, <1>5, <1>6, OnDataFits, OnDecryptedFits, OnDeserializedFits
        DEF Next, OnTimeout, OnNetworkNack

\* When encrypted packets are fetched by their own names, an object that was fetched is the
\* content of the packet of its node, in every order of answers, decryption and
\* deserialization (namespace.cpp:886-945).
THEOREM ObjectsHaveTheirData ==
    ASSUME OwnPackets PROVE Spec => []ObjectHasItsData
<1>1. Init => UnderWayFits /\ ObjectHasItsData
  BY DEF Init, UnderWayFits, ObjectHasItsData
<1>2. IInv /\ UnderWayFits /\ ObjectHasItsData /\ [Next]_vars
         => UnderWayFits' /\ ObjectHasItsData'
  <2> SUFFICES ASSUME IInv, UnderWayFits, ObjectHasItsData, [Next]_vars
               PROVE  UnderWayFits' /\ ObjectHasItsData'
    OBVIOUS
  <2>1. UnderWayFits' /\ ObjectsFit
    BY NextFits
  <2>2. ObjectHasItsData'
    BY <2>1 DEF ObjectsFit, ObjectHasItsData
  <2> QED BY <2>1, <2>2
<1> QED BY <1>1, <1>2, Invariance, PTL DEF Spec

\* And it is never replaced (namespace.cpp:890-892).
THEOREM ObjectsStay ==
    ASSUME OwnPackets PROVE Spec => ObjectIsPermanent
<1> DEFINE Stays == \A n \in Name \ Producible :
                       object[n] # NoContent => object'[n] = object[n]
<1>1. Init => UnderWayFits
  BY DEF Init, UnderWayFits
<1>2. IInv /\ UnderWayFits /\ [Next]_vars => UnderWayFits'
  BY NextFits
<1>3. IInv /\ UnderWayFits /\ ObjectHasItsData /\ [Next]_vars => [Stays]_object
  BY NextFits DEF ObjectsFit, ObjectHasItsData
<1> QED BY <1>1, <1>2, <1>3, Invariance, ObjectsHaveTheirData, PTL
        DEF Spec, ObjectIsPermanent

\* After shutdown() none of the callbacks that are still under way, and no call of the
\* application, changes the tree, answers an Interest or sets an object
\* (namespace.hpp:594-595).
THEOREM ShutdownSilences == Spec => AfterShutdownSilent
<1> DEFINE Silent == isShutDown => UNCHANGED <<treeVars, data, object, pending, answers>>
<1>1. [Next]_vars => [Silent]_vars
  <2> SUFFICES ASSUME isShutDown, [Next]_vars
               PROVE  UNCHANGED <<treeVars, data, object, pending, answers>>
    OBVIOUS
  <2>1. CASE \/ Shutdown \/ UNCHANGED vars \/ \E i \in Incoming : OnInterest(i) \/ Lapse(i)
    BY <2>1 DEF Shutdown, vars, OnInterest, Lapse, Runs, packetVars, tableVars
  <2>2. ASSUME NEW n \in Name,
               \/ ObjectNeeded(n) \/ SerializeObject(n) \/ SerializeFails(n)
               \/ OnTimeout(n) \/ OnNetworkNack(n) \/ Expire(n)
        PROVE  UNCHANGED <<treeVars, data, object, pending, answers>>
    BY <2>2 DEF ObjectNeeded, SerializeObject, SerializeFails, OnTimeout, OnNetworkNack,
                Fails, Expire, Runs, Dropped, packetVars, tableVars
  <2>3. ASSUME NEW n \in Name, NEW m \in Name, NEW c \in Content,
               \/ OnDeserialized(n, c) \/ OnData(n, m, c)
               \/ OnDecrypted(n, m, c) \/ OnDecryptionError(n, m, c)
        PROVE  UNCHANGED <<treeVars, data, object, pending, answers>>
    BY <2>3 DEF OnDeserialized, OnData, OnDecrypted, OnDecryptionError, Runs, Dropped,
                packetVars, tableVars
  <2> QED BY <2>1, <2>2, <2>3 DEF Next
<1> QED BY <1>1, PTL DEF Spec, AfterShutdownSilent

\* In every finite tree and every state of it, findBestMatchName finds the longest match for
\* the Interest of objectNeeded and the first of that length, never a stale one if the
\* Interest must be fresh, and nothing only if nothing matches (namespace.cpp:842-879).
THEOREM BestMatchFound ==
    ASSUME IsFiniteSet(Name) PROVE Spec => []FindsBestMatch
<1>1. FindsBestMatch
  <2> SUFFICES ASSUME NEW n \in Name, NEW mustBeFresh \in BOOLEAN
               PROVE  LET found == Found(OwnInterest(n, mustBeFresh))
                          best  == findBestMatchName(found)[n]
                      IN  IF found = {} THEN best = << >>
                                        ELSE best # << >> /\ IsBestMatch(best[1], found)
    BY DEF FindsBestMatch
  <2> DEFINE found == Found(OwnInterest(n, mustBeFresh))
  <2>1. found \in SUBSET Name /\ found \cap Subtree(n) = found
    BY DEF Found, OwnInterest, Subtree
  <2> HIDE DEF found
  <2>2. LET best  == findBestMatchName(found)[n]
            below == found \cap Subtree(n)
        IN  IF below = {} THEN best = << >> ELSE best # << >> /\ IsBestMatch(best[1], below)
    BY <2>1, FindBestMatchNameIs
  <2> QED BY <2>1, <2>2 DEF found
<1> QED BY <1>1, PTL
================================================================================
