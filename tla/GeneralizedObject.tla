-------------------------- MODULE GeneralizedObject --------------------------
(***************************************************************************)
(* The GeneralizedObjectHandler (generalized-object-handler.cpp) on top of  *)
(* its SegmentedObjectHandler: it asks for the _meta packet of the object   *)
(* and either takes the whole object from it or attaches the segmented      *)
(* handler to the object's node.                                            *)
(*                                                                          *)
(* With nComponents = 0 the object's node is the one the handler is         *)
(* attached to.  With nComponents = 1 it is a child whose name is not known *)
(* before a packet arrives: the application asks for the handler's prefix,  *)
(* and any packet of the object - or of a second object under the same      *)
(* prefix - may be the answer.                                              *)
(*                                                                          *)
(* No other OnDeserializeNeeded callback takes the content of a packet.     *)
(***************************************************************************)
EXTENDS SegmentedObject

CONSTANTS
    NComponents,  \* the values of nComponentsAfterObjectNamespace_ considered
    Seconds,      \* what the second object may be: "none", "whole", "segmented", or
                  \* "malformed" if its _meta packet cannot be decoded
    MaxAsked      \* bound: Interests in flight for the prefix, and for _meta

ASSUME GeneralizedAssumption ==
    /\ NComponents \subseteq {0, 1}
    /\ Seconds \subseteq {"none", "whole", "segmented", "malformed"}
    /\ MaxAsked \in Nat \ {0}
    /\ ~HasDecryptor  \* a prefix Interest for an encrypted packet is in Namespace

VARIABLES
    nComponents,  \* nComponentsAfterObjectNamespace_
    decodes,      \* the object's _meta packet can be decoded
    hasSegments,  \* the getHasSegments() of the object's ContentMetaInfo
    metaState,    \* state_ of the _meta node; a nack counts as a timeout
    metaAsked,    \* how many Interests for _meta await an answer
    meta,         \* the _meta node has its object
    asked,        \* how many Interests for the prefix await an answer
    second,       \* the second object under the prefix
    secondMeta,   \* its _meta node has its object
    joined,       \* a callback for it is registered in onSegmentedObjectCallbacks_
    reports       \* history: the onGeneralizedObject calls

metaVars   == <<metaState, metaAsked, meta>>
secondVars == <<second, secondMeta, joined>>
fixed      == <<nComponents, decodes, hasSegments>>
allVars    == <<vars, objectVars, metaVars, secondVars, fixed, asked, reports>>

InitGeneralized ==
    /\ InitStream /\ attached = FALSE
    /\ InitCollector
    /\ nComponents \in NComponents
    /\ decodes \in BOOLEAN
    /\ hasSegments \in BOOLEAN
    /\ metaState = "NAME_EXISTS"
    /\ metaAsked = 0
    /\ meta = FALSE
    /\ asked = 0
    /\ second \in IF nComponents = 0 THEN {"none"} ELSE Seconds
    /\ secondMeta = FALSE
    /\ joined = FALSE
    /\ reports = << >>

\* The object whole, as the "other" field of a _meta packet without segments has it.
Whole == [i \in 1..(FinalSegment + 1) |-> i - 1]

Pair(m, o) == [meta |-> m, object |-> o]

\* onSegmentedObject is called when SegmentedObject announces its object, once for
\* every callback that is registered by then.
ReportObject ==
    reports' = reports \o
        (IF notified' = notified THEN << >>
         ELSE IF joined THEN <<Pair("first", "first"), Pair("second", "first")>>
         ELSE <<Pair("first", "first")>>)

\* objectNeeded() on the _meta node while it has no object.
AskMeta ==
    /\ metaState' = "INTEREST_EXPRESSED"
    /\ metaAsked' = metaAsked + 1

-----------------------------------------------------------------------------
(* The application's calls.                                                 *)

\* No packet of the object that fits mustBeFresh has an object to announce.  Whether a
\* _meta packet has expired is left open.
NothingToAnnounce(mustBeFresh) ==
    /\ \A s \in object : ~BestMatch(s, mustBeFresh)
    /\ meta => mustBeFresh

\* The handler takes the object's _meta packet and fetches the segments.
FetchesSegments == decodes /\ hasSegments

\* onObjectNeeded asks for _meta without MustBeFresh: an object that is there is
\* announced again.
AnnounceMeta == metaState' = "OBJECT_READY" /\ UNCHANGED <<metaAsked, meta>>

\* objectNeeded() on the object's node, which is the handler's: onObjectNeeded asks for
\* _meta and promises to produce.  It still does so when _meta has come and is stale, as
\* removeCallback leaves it registered.
NeedMeta ==
    /\ nComponents = 0
    /\ \/ ~meta /\ metaAsked < MaxAsked /\ AskMeta /\ UNCHANGED meta
       \/ meta /\ ~FetchesSegments /\ NothingToAnnounce(TRUE) /\ AnnounceMeta
    /\ nodeState' = "PRODUCING_OBJECT"
    /\ UNCHANGED <<vars, segments, content, taken, callbacks, notified>>
    /\ UNCHANGED <<secondVars, fixed, asked, reports>>

\* objectNeeded() on a node above the _meta packet when that is the best match.
FindMeta ==
    /\ meta
    /\ \E mustBeFresh \in BOOLEAN : Matching(mustBeFresh) = {}
    /\ AnnounceMeta
    /\ UNCHANGED <<vars, objectVars, secondVars, fixed, asked, reports>>

\* objectNeeded() on the handler's node when the object's node is a child: onObjectNeeded
\* declines, and an Interest for the prefix goes out.
NeedPrefix ==
    /\ nComponents = 1
    /\ asked < MaxAsked
    /\ \E mustBeFresh \in BOOLEAN :
          NothingToAnnounce(mustBeFresh) /\ (secondMeta => mustBeFresh)
    /\ asked' = asked + 1
    /\ UNCHANGED <<vars, objectVars, metaVars, secondVars, fixed, reports>>

\* objectNeeded() on the object's node once the SegmentStreamHandler is attached to it and
\* no packet is fresh enough: it asks for segments, after onObjectNeeded has asked for
\* _meta as above.
NeedSegments ==
    /\ meta
    /\ FetchesSegments
    /\ \E mustBeFresh \in BOOLEAN : NothingToAnnounce(mustBeFresh)
    /\ NeedObject
    /\ IF nComponents = 0 THEN AnnounceMeta ELSE UNCHANGED metaVars
    /\ UNCHANGED <<secondVars, fixed, asked, reports>>

-----------------------------------------------------------------------------
(* The callbacks.                                                           *)

\* The SegmentedObjectHandler is attached and segment 0 is asked for: its object, if it
\* has come already, is announced again, or an Interest for it goes out.
Attach ==
    IF 0 \in object
      THEN Report(0, state, inFlight, data, object)
      ELSE /\ attached' = TRUE
           /\ state' = [state EXCEPT ![0] = "INTEREST_EXPRESSED"]
           /\ inFlight' = [inFlight EXCEPT ![0] = @ + 1]
           /\ UNCHANGED <<manifest, maxReported, finalSegment, reported>>

\* onDeserializeNeeded for the object's _meta packet, if it is the first one.  If decoding
\* it throws, the _meta node gets the packet's content as its object and nothing is fetched.
TakeMeta ==
    IF meta
      THEN UNCHANGED <<vars, objectVars, metaState, meta, reports>>
      ELSE /\ meta' = TRUE
           /\ metaState' = "OBJECT_READY"
           /\ \/ ~decodes /\ UNCHANGED <<vars, objectVars>>
              \/ /\ FetchesSegments
                 /\ Attach
                 /\ OnSegment(NewCalls)
                 /\ UNCHANGED <<data, object, stale, decrypting, deserializing, losses>>
              \/ /\ decodes /\ ~hasSegments
                 /\ DeserializeContent(Whole)
                 /\ UNCHANGED <<vars, segments>>
           /\ ReportObject

\* The _meta packet answers an Interest for it, or one for the prefix.
OnMeta ==
    /\ \/ metaAsked > 0 /\ metaAsked' = metaAsked - 1 /\ UNCHANGED asked
       \/ asked > 0 /\ asked' = asked - 1 /\ UNCHANGED metaAsked
    /\ TakeMeta
    /\ UNCHANGED <<secondVars, fixed>>

\* Slip: only onObjectNeeded asks for _meta.
AskMetaOnce_Never == UNCHANGED <<metaState, metaAsked>>

\* onDeserializeNeeded for another packet of the object that answers an Interest for the
\* prefix: if _meta was never asked for, it is now.
AskMetaOnce ==
    IF metaState = "NAME_EXISTS" THEN AskMeta ELSE UNCHANGED <<metaState, metaAsked>>

OnPrefixSegment(s) ==
    /\ hasSegments
    /\ asked > 0
    /\ asked' = asked - 1
    /\ s \in Published
    /\ Receive(s, inFlight)
    /\ deserializing' = {}
    /\ OnSegment(NewCalls)
    /\ ReportObject
    /\ IF s \in data THEN UNCHANGED <<metaState, metaAsked>> ELSE AskMetaOnce
    /\ UNCHANGED <<meta, secondVars, fixed>>

OnPrefixManifest ==
    /\ hasSegments
    /\ asked > 0
    /\ asked' = asked - 1
    /\ manifest' = "OBJECT_READY"
    /\ AskMetaOnce
    /\ UNCHANGED <<nodeVars, streamVars, losses, objectVars, meta, secondVars, fixed, reports>>

\* A slip: a packet that has come before is handled once more.
OnSecondMeta_Again ==
    /\ asked > 0
    /\ asked' = asked - 1
    /\ second = "whole"
    /\ secondMeta' = TRUE
    /\ reports' = Append(reports, Pair("second", "second"))
    /\ UNCHANGED <<vars, objectVars, metaVars, joined, second, fixed>>

\* The _meta packet of the second object answers an Interest for the prefix.  If it has no
\* segments its object is reported at once, if it cannot be decoded never.  If both objects
\* have segments, the first one is the one whose _meta came first; the handler adds its
\* callback to the SegmentedObjectHandler, whose setNamespace then throws.
OnSecondMeta ==
    /\ asked > 0
    /\ asked' = asked - 1
    /\ second # "none"
    /\ second = "segmented" => FetchesSegments /\ meta
    /\ secondMeta' = TRUE
    /\ joined' = (joined \/ second = "segmented")
    /\ reports' = IF second = "whole" /\ ~secondMeta
                    THEN Append(reports, Pair("second", "second")) ELSE reports
    /\ UNCHANGED <<vars, objectVars, metaVars, second, fixed>>

\* A slip: the late timeout of an Interest that has been answered counts once more.
OnMetaLost_Answered ==
    /\ losses < MaxLosses
    /\ losses' = losses + 1
    /\ metaAsked' = metaAsked - 1
    /\ metaState' = "INTEREST_TIMEOUT"
    /\ UNCHANGED <<nodeVars, manifest, streamVars, objectVars>>
    /\ UNCHANGED <<asked, meta, secondVars, fixed, reports>>

\* An Interest for _meta or for the prefix fails.
OnMetaLost ==
    /\ losses < MaxLosses
    /\ losses' = losses + 1
    /\ \/ /\ metaAsked > 0
          /\ metaAsked' = metaAsked - 1
          /\ metaState' = "INTEREST_TIMEOUT"
          /\ UNCHANGED asked
       \/ asked > 0 /\ asked' = asked - 1 /\ UNCHANGED <<metaAsked, metaState>>
    /\ UNCHANGED <<nodeVars, manifest, streamVars, objectVars>>
    /\ UNCHANGED <<meta, secondVars, fixed, reports>>

\* A step of the stream, or of the handler that took the whole content.
Objects ==
    /\ Stream \/ OnObjectDeserialized
    /\ deserializing' = {}
    /\ ReportObject
    /\ UNCHANGED <<metaVars, secondVars, fixed, asked>>

NextGeneralized ==
    \/ NeedMeta
    \/ NeedPrefix
    \/ FindMeta
    \/ NeedSegments
    \/ OnMeta
    \/ \E s \in Segment : OnPrefixSegment(s)
    \/ OnPrefixManifest
    \/ OnSecondMeta
    \/ OnMetaLost
    \/ Objects

SpecGeneralized == InitGeneralized /\ [][NextGeneralized]_allVars

\* The application keeps asking for the object, the network answers what is in flight
\* and is not lost, and the handler of the whole content calls back.
FairSpecGeneralized ==
    /\ SpecGeneralized
    /\ WF_allVars(~meta /\ NeedMeta)
    /\ WF_allVars(NeedPrefix)
    /\ WF_allVars(OnMeta)
    /\ \A s \in Published : WF_allVars(OnData(s) /\ Objects)
    /\ WF_allVars(OnObjectDeserialized /\ Objects)

-----------------------------------------------------------------------------
(* Properties.                                                              *)

\* The types of the three handlers' variables; those of the stream are TypeOK.
TypeOKGeneralized ==
    /\ TypeOKObject
    /\ nComponents \in NComponents
    /\ decodes \in BOOLEAN
    /\ hasSegments \in BOOLEAN
    /\ metaState \in {"NAME_EXISTS", "INTEREST_EXPRESSED", "INTEREST_TIMEOUT", "OBJECT_READY"}
    /\ metaAsked \in 0..MaxAsked
    /\ meta \in BOOLEAN
    /\ asked \in 0..MaxAsked
    /\ second \in {"none"} \union Seconds
    /\ secondMeta \in BOOLEAN
    /\ joined \in BOOLEAN
    /\ reports \in Seq([meta : {"first", "second"}, object : {"first", "second"}])

\* Every object is reported at most once, and with the ContentMetaInfo of its own _meta
\* packet (generalized-object-handler.hpp:55-64).
ReportsFit ==
    /\ \A i \in DOMAIN reports : reports[i].meta = reports[i].object
    /\ \A i, j \in DOMAIN reports : reports[i] = reports[j] => i = j

\* The object, if its _meta packet can be decoded, is reported, whichever of its packets
\* comes first, unless an Interest for a segment fails; or the one for _meta, if it was only sent because another packet came:
\* onDeserializeNeeded does not send it again (generalized-object-handler.cpp:146-148).
\* Other Interests for _meta and those for the prefix may fail.
ObjectIsReported ==
    decodes /\ second = "none" =>
        <>(\/ notified = 1
           \/ \E s \in Published : state[s] \in {"INTEREST_TIMEOUT", "INTEREST_NETWORK_NACK"}
           \/ nComponents = 1 /\ metaState = "INTEREST_TIMEOUT")
=============================================================================
