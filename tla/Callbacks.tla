------------------------------- MODULE Callbacks -------------------------------
(***************************************************************************)
(* How callbacks are called (namespace.cpp, fireOnStateChanged and the      *)
(* functions like it; segment-stream-handler.cpp, onStateChanged and        *)
(* fireOnSegment): every list of callbacks is walked along a copy of its    *)
(* keys, and a callback may add or remove callbacks, shut the Namespace     *)
(* down or call objectNeeded(), which calls callbacks from within.          *)
(*                                                                          *)
(* SegmentStream takes the callbacks of one event as one step; here each    *)
(* call is a step, and the calls in progress are the stack.  A              *)
(* SegmentStreamHandler is attached to a node below the root; the requests  *)
(* for segments and for the signature manifest are left out, and with them  *)
(* the state changes that they announce, but not the exception for the      *)
(* missing node of the manifest.                                            *)
(***************************************************************************)
EXTENDS Integers, FiniteSets, Sequences, SequencesExt

CONSTANTS
    FinalSegment,  \* number of the last segment; every packet has it
    OnNode,        \* keys of the application's onStateChanged callbacks on the node
    OnRoot,        \* keys of those on the root
    OnStream,      \* keys of the onSegment callbacks
    LastKey,       \* the last callback id that has been given out before
    DigestSigned,  \* the segments whose signature is a DigestSha256Signature
    Handler,       \* key of the handler's onStateChanged callback on the node
    EndOfStream,   \* the null Namespace of the last onSegment call
    MaxActs        \* bound: calls of the application into the library

ASSUME CallbacksAssumption ==
    /\ FinalSegment \in Nat
    /\ LastKey \in Nat
    /\ OnNode \union OnRoot \union OnStream \union {Handler} \subseteq 0..LastKey
    /\ Handler \notin OnNode
    /\ DigestSigned \subseteq 0..FinalSegment
    /\ EndOfStream \notin Int
    /\ MaxActs \in Nat

Segment == 0..FinalSegment

\* The callback ids there can be: getNextCallbackId() counts up.
Key == 0..(LastKey + MaxActs)

VARIABLES
    object,       \* the segments whose node has an object
    isShutDown,   \* isShutDown_
    onNode,       \* keys of onStateChangedCallbacks_ of the node
    onRoot,       \* keys of onStateChangedCallbacks_ of the root
    onStream,     \* keys of onSegmentCallbacks_
    lastKey,      \* the last callback id given out
    maxReported,  \* maxReportedSegmentNumber_
    manifest,     \* whether there is a node for the signature manifest
    stack,        \* the calls in progress, the innermost last
    acts,         \* history: how many calls the application has made
    heard,        \* history: the arguments of the calls of each onSegment callback
    changes,      \* history: how many state changes have been fired
    told,         \* history: of how many each callback of the root was told
    removed,      \* history: the callbacks that the application has removed
    reentrant     \* history: the onSegment callbacks that have called objectNeeded()

lists   == <<onNode, onRoot, onStream, lastKey>>
history == <<acts, heard, changes, told, removed, reentrant>>
vars    == <<object, isShutDown, lists, maxReported, manifest, stack, history>>

\* A call in progress: what it is about and which of the copied keys, which are in
\* ascending order, are left to look at.
Frame(kind, arg, keys) == [kind |-> kind, arg |-> arg, keys |-> keys]

Init ==
    /\ object = {}
    /\ isShutDown = FALSE
    /\ onNode = OnNode \union {Handler}
    /\ onRoot = OnRoot
    /\ onStream = OnStream
    /\ lastKey = LastKey
    /\ maxReported = -1
    /\ manifest = FALSE
    /\ stack = << >>
    /\ acts = 0
    /\ heard = [k \in Key |-> << >>]
    /\ changes = 0
    /\ told = [k \in Key |-> 0]
    /\ removed = {}
    /\ reentrant = {}

-----------------------------------------------------------------------------
(* The library.                                                             *)

\* setState(OBJECT_READY) on the node of segment s, which has no callbacks of its own, goes
\* on with fireOnStateChanged on the stream's node.
SetReady(s) ==
    /\ stack' = Append(stack, Frame("node", s, onNode))
    /\ changes' = changes + 1

Top == stack[Len(stack)]

Inside(kind) == stack # << >> /\ Top.kind = kind

\* The innermost call goes on with frame f.
GoOn(f) == stack' = [stack EXCEPT ![Len(stack)] = f]

\* The innermost call, which goes on with frame f afterwards, makes the call g.
Call(f, g) == stack' = Append([stack EXCEPT ![Len(stack)] = f], g)

Return == stack' = Front(stack)

\* Slips: the copied keys are not looked up again; a callback that is called is taken off
\* the copy but one behind it as well.
Live_Copied(keys, list) == keys
Live_SkipsOne(keys, list) ==
    LET live == keys \intersect list
    IN  IF live \in {keys, {}} THEN live ELSE live \ {Min(live)}

\* The keys that are still registered; the others are passed over.
Live(keys, list) == keys \intersect list

\* fireOnStateChanged on the stream's node calls the next callback, or setState goes on
\* with the root, whose fireOnStateChanged looks at isShutDown_ first.
FireOnNode ==
    /\ Inside("node")
    /\ LET keys == Live(Top.keys, onNode) IN
       IF keys # {}
         THEN Call([Top EXCEPT !.keys = keys \ {Min(keys)}],
                   IF Min(keys) = Handler THEN Frame("handler", -1, {})
                                          ELSE Frame("app", Min(keys), {}))
         ELSE IF isShutDown THEN Return
         ELSE GoOn(Frame("root", Top.arg, onRoot))
    /\ UNCHANGED <<object, isShutDown, lists, maxReported, manifest, history>>

FireOnRoot ==
    /\ Inside("root")
    /\ LET keys == Live(Top.keys, onRoot) IN
       IF keys # {}
         THEN /\ Call([Top EXCEPT !.keys = keys \ {Min(keys)}], Frame("app", Min(keys), {}))
              /\ told' = [told EXCEPT ![Min(keys)] = @ + 1]
         ELSE Return /\ UNCHANGED told
    /\ UNCHANGED <<object, isShutDown, lists, maxReported, manifest>>
    /\ UNCHANGED <<acts, heard, changes, removed, reentrant>>

\* fireOnSegment calls the next callback.
FireOnSegment ==
    /\ Inside("segment")
    /\ LET keys == Live(Top.keys, onStream) IN
       IF keys # {}
         THEN /\ Call([Top EXCEPT !.keys = keys \ {Min(keys)}], Frame("app", Min(keys), {}))
              /\ heard' = [heard EXCEPT ![Min(keys)] = Append(@, Top.arg)]
         ELSE Return /\ UNCHANGED heard
    /\ UNCHANGED <<object, isShutDown, lists, maxReported, manifest>>
    /\ UNCHANGED <<acts, changes, told, removed, reentrant>>

\* Slips: the loop counts in a variable of its own; it stops after one segment.
NextSegment_Local(last) == IF last = -1 THEN maxReported + 1 ELSE last + 1
NextSegment_One(last)   == IF last = -1 THEN maxReported + 1 ELSE -1

\* The segment that the loop looks at after it has reported segment last.
NextSegment(last) == maxReported + 1

\* After shutdown() no node can be created: the exception for the missing node of the
\* manifest, for which the segment just reported asks, abandons the loop.
Abandoned == isShutDown /\ ~manifest /\ Top.arg \in DigestSigned

\* The loop of the handler's onStateChanged.  The frame's arg is the segment that the loop
\* has just reported, -1 at first and EndOfStream after the last call.
OnStateChanged ==
    /\ Inside("handler")
    /\ LET fire(s) == Call([Top EXCEPT !.arg = s], Frame("segment", s, onStream)) IN
       \/ /\ Abandoned
          /\ Return
          /\ UNCHANGED <<onNode, onStream, maxReported, manifest>>
       \/ /\ ~Abandoned
          /\ manifest' = (manifest \/ Top.arg \in DigestSigned)
          /\ \/ /\ Top.arg = FinalSegment
                /\ fire(EndOfStream)
                /\ UNCHANGED <<onNode, onStream, maxReported>>
             \/ /\ Top.arg = EndOfStream
                /\ Return
                /\ onStream' = {}
                /\ onNode' = onNode \ {Handler}
                /\ UNCHANGED maxReported
             \/ /\ Top.arg \notin {FinalSegment, EndOfStream}
                /\ IF NextSegment(Top.arg) \in object
                     THEN /\ maxReported' = NextSegment(Top.arg)
                          /\ fire(NextSegment(Top.arg))
                     ELSE Return /\ UNCHANGED maxReported
                /\ UNCHANGED <<onNode, onStream>>
    /\ UNCHANGED <<object, isShutDown, onRoot, lastKey, history>>

-----------------------------------------------------------------------------
(* The network and the application.                                         *)

\* The event loop takes the packet of segment s, and its object is set.
Arrive(s) ==
    /\ stack = << >>
    /\ ~isShutDown
    /\ s \notin object
    /\ object' = object \union {s}
    /\ SetReady(s)
    /\ UNCHANGED <<isShutDown, lists, maxReported, manifest>>
    /\ UNCHANGED <<acts, heard, told, removed, reentrant>>

\* The application has control: it is inside one of its callbacks, or between events.
Running ==
    /\ Inside("app") \/ stack = << >>
    /\ acts < MaxActs
    /\ acts' = acts + 1

\* Slip: getNextCallbackId() does not count.
AddCallback_SameId ==
    /\ Running
    /\ \/ onNode' = onNode \union {lastKey + 1} /\ UNCHANGED <<onRoot, onStream>>
       \/ onRoot' = onRoot \union {lastKey + 1} /\ UNCHANGED <<onNode, onStream>>
       \/ onStream' = onStream \union {lastKey + 1} /\ UNCHANGED <<onNode, onRoot>>
    /\ UNCHANGED <<object, isShutDown, lastKey, maxReported, manifest, stack>>
    /\ UNCHANGED <<heard, changes, told, removed, reentrant>>

\* addOnStateChanged on the node or on the root, addOnSegment.
AddCallback ==
    /\ Running
    /\ lastKey' = lastKey + 1
    /\ \/ onNode' = onNode \union {lastKey'} /\ UNCHANGED <<onRoot, onStream>>
       \/ onRoot' = onRoot \union {lastKey'} /\ UNCHANGED <<onNode, onStream>>
       \/ onStream' = onStream \union {lastKey'} /\ UNCHANGED <<onNode, onRoot>>
    /\ UNCHANGED <<object, isShutDown, maxReported, manifest, stack>>
    /\ UNCHANGED <<heard, changes, told, removed, reentrant>>

\* removeCallback on the node, on the root or on the handler.
RemoveCallback ==
    /\ Running
    /\ \E k \in (onNode \union onRoot \union onStream) \ {Handler} :
          /\ removed' = removed \union {k}
          /\ onNode' = onNode \ {k}
          /\ onRoot' = onRoot \ {k}
          /\ onStream' = onStream \ {k}
    /\ UNCHANGED <<object, isShutDown, lastKey, maxReported, manifest, stack>>
    /\ UNCHANGED <<heard, changes, told, reentrant>>

\* The onSegment callbacks in progress.
Calling ==
    {stack[i].arg : i \in {j \in 2..Len(stack) :
                              stack[j].kind = "app" /\ stack[j - 1].kind = "segment"}}

\* objectNeeded() on the node announces the best match, the lowest segment, again.
ObjectNeeded ==
    /\ Running
    /\ ~isShutDown
    /\ object # {}
    /\ SetReady(Min(object))
    /\ reentrant' = reentrant \union Calling
    /\ UNCHANGED <<object, isShutDown, lists, maxReported, manifest>>
    /\ UNCHANGED <<heard, told, removed>>

Shutdown ==
    /\ Running
    /\ isShutDown' = TRUE
    /\ UNCHANGED <<object, lists, maxReported, manifest, stack>>
    /\ UNCHANGED <<heard, changes, told, removed, reentrant>>

\* The callback returns, or throws: the library catches and logs it.
ReturnFromCallback ==
    /\ Inside("app")
    /\ Return
    /\ UNCHANGED <<object, isShutDown, lists, maxReported, manifest, history>>

Next ==
    \/ FireOnNode
    \/ FireOnRoot
    \/ FireOnSegment
    \/ OnStateChanged
    \/ \E s \in Segment : Arrive(s)
    \/ AddCallback
    \/ RemoveCallback
    \/ ObjectNeeded
    \/ Shutdown
    \/ ReturnFromCallback

Spec == Init /\ [][Next]_vars

-----------------------------------------------------------------------------
(* Properties.                                                              *)

Kinds == {"node", "root", "handler", "segment", "app"}

TypeOK ==
    /\ object \subseteq Segment
    /\ isShutDown \in BOOLEAN
    /\ onNode \union onRoot \union onStream \subseteq 0..lastKey
    /\ lastKey \in Key
    /\ maxReported \in -1..FinalSegment
    /\ manifest \in BOOLEAN
    /\ stack \in Seq([kind : Kinds, arg : Key \union Segment \union {-1, EndOfStream},
                      keys : SUBSET Key])
    /\ heard \in [Key -> Seq(Segment \union {EndOfStream})]
    /\ changes \in Nat
    /\ told \in [Key -> 0..changes]
    /\ reentrant \subseteq Key

\* Whatever the callbacks do, an onSegment callback is called at most once for each
\* segment and for the end of stream, and not at all after the end of stream.
EachOnce ==
    \A k \in Key : \A i, j \in DOMAIN heard[k] :
        i < j => heard[k][i] # heard[k][j] /\ heard[k][i] # EndOfStream

\* What there is to report: the segments up to the first one that is missing, and the end
\* of stream behind the final segment.
Due ==
    LET n == Cardinality({s \in Segment : 0..s \subseteq object})
    IN  [i \in 1..n |-> i - 1] \o (IF n > FinalSegment THEN <<EndOfStream>> ELSE << >>)

\* "Segments are supplied in order" (segment-stream-handler.hpp:70-72): an onSegment
\* callback that has been there from the start and that no callback with a lower key gets
\* ahead of, by calling objectNeeded() while it is called with a segment, is called with the
\* segments in order, and when all calls have returned it has had all of them.  After
\* shutdown(), when "no callbacks are processed" (namespace.hpp:594-595), it need not get
\* the rest, and does not if the loop is abandoned.
InOrder ==
    \A k \in OnStream \ removed :
        (\A r \in reentrant : k <= r) =>
            /\ IsPrefix(heard[k], Due)
            /\ stack = << >> /\ ~isShutDown => heard[k] = Due

\* An onStateChanged or onSegment callback that is removed, by whichever callback, is not
\* called any more, although its key is in the copies that are being walked along.
\* (removeCallback, namespace.cpp:402-406, leaves onObjectNeeded and onDeserializeNeeded
\* callbacks where they are.)
RemovedIsSilent ==
    [][\A k \in removed : heard'[k] = heard[k] /\ told'[k] = told[k]]_vars

\* No state change is lost on its way to the root: a callback there is told of each of
\* them once, whatever callbacks come and go meanwhile, unless it is removed or the
\* Namespace is shut down.
ChangesReachRoot ==
    stack = << >> /\ ~isShutDown => \A k \in OnRoot \ removed : told[k] = changes
=============================================================================
