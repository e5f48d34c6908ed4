# TLA+ models of cnl-cpp

cnl-cpp is a C++ library for Named Data Networking.  An application works on a
tree of `Namespace` nodes; each node has a name, a state, perhaps a Data packet
and perhaps an object.  Handlers attached to nodes fetch or publish segmented
and generalized objects.  All of it runs in one thread: calls of the
application, and callbacks that `Face::processEvents` makes.  Line numbers in
this file and in the modules are those of this repository.

## Inventory

| Part | State | Operations | Interacts with |
|---|---|---|---|
| Namespace tree (`src/namespace.cpp`, `namespace.hpp`) | per node: state, validate state, packet and its expiry, object, Face and prefix, callbacks; shared: shutdown flag | `getChild`, `setFace`, `objectNeeded`, `serializeObject`, `setData`, `deserialize_`, `shutdown`; callbacks `onInterest`, `onData`, `onTimeout`, `onNetworkNack`, `onDecryptionError` | Face, decryptor, KeyChain; calls the callbacks of Handlers and application from a node up to the root |
| PendingIncomingInterestTable (`src/impl/`) | Interests that have no packet yet, with their timeout | `add`, `satisfyInterests` | `onInterest` adds, `setData` satisfies |
| SegmentStreamHandler | highest reported and final segment number, pipeline size, initial count, callbacks | `setObject`, `verifyWithManifest`; callbacks `onObjectNeeded`, `onStateChanged` | requests child nodes, reports with `onSegment` |
| SegmentedObjectHandler | collected segments, callbacks | callback `onSegment` | deserializes on the stream's node |
| GeneralizedObjectHandler | callback ids, a SegmentedObjectHandler | `setObject`; callbacks `onObjectNeeded`, `onDeserializeNeeded` | `_meta` child, attaches the segmented handler when needed |
| GeneralizedObjectStreamHandler | counts of requested and reported sequence numbers, their maxima, the produced number | `setObject`, `addObject`, `setPipelineSize`; callbacks `onObjectNeeded`, `onStateChanged`, `onGeneralizedObject` | `_latest` child, one GeneralizedObjectHandler per sequence number |
| Namespace sync | sync depth, `fullPSync_` | `enableSync`, `onNamesUpdate`, publishing in `createChild` | FullPSync2017 |
| Data holders (`Object`, `BlobObject`, `ContentMetaInfoObject`) | immutable data | - | - |

There are no threads and nothing is persisted, so there are neither data races
nor crash recovery.  What is hard:

* **Order.** Answers, decryptions and deserializations of different nodes come
  back in any order; an Interest may come before or after its packet.
* **Repetition.** The same packet may answer several Interests of several
  nodes; an application may call `objectNeeded` and `serializeObject` again.
* **Time.** Interests time out, packets stop being fresh, table entries lapse.
* **Bounds.** Two limits share one pipeline of Interests.
* **Stale bindings.** Callbacks that were registered or were under way stay
  bound to a node or a handler that has moved on, or to a tree shut down.
* **Re-entrancy.** Callbacks run in the middle of an operation.

What makes each part correct: the stream reports every segment once, in order,
and then the end, within its pipeline; the segmented object is the whole stream
and is announced once; an Interest gets at most one packet and one that fits it,
and does not wait for a packet that is there; the object of a node is made of
the node's packet and stays; nothing happens after shutdown.  The full list of
hazards, each at its line, with the properties that cover it, is in
`PROJECT.json`.

## Modules

| Module | Models |
|---|---|
| `OrderedDelivery` | What a stream promises: `onSegment` gets 0, 1, 2, ... and then the null segment. One variable, one action. |
| `SegmentStream` | `SegmentStreamHandler` as a consumer, with the nodes of its segments. |
| `SegmentStream_proofs` | Theorems about it. |
| `SegmentedObject` | `SegmentedObjectHandler` on top of `SegmentStream`: its steps, without a next-state relation. |
| `GeneralizedObject` | `GeneralizedObjectHandler` on top of `SegmentedObject`: the three handlers together, from the request to the report. |
| `GeneralizedObject_proofs` | Theorems about it. |
| `SegmentPublish` | `setObject` of the segment and of the generalized handler, `verifyWithManifest`, and a consumer of what they publish. |
| `SegmentPublish_proofs` | Theorems about it. |
| `Callbacks` | How the lists of callbacks are walked, call by call. |
| `Callbacks_proofs` | Theorems about it. |
| `NamespaceTree` | Names, ancestors, order; `findBestMatchName` as a recursion and what it should return. |
| `NamespaceTree_proofs` | What that recursion returns. |
| `Namespace` | The tree, the Interest table, the Face, the decryptor, the Handlers' deserialization and shutdown. |
| `Namespace_proofs` | Theorems about it. |
| `ObjectStream` | A producer and a consumer with `GeneralizedObjectStreamHandler` and the `GeneralizedObjectHandler`s that it makes, and the network between them. |
| `ObjectStream_proofs` | Theorems about it. |
| `NamespaceSync` | `enableSync`, the creation and announcement of names and `onNamesUpdate`, for several peers. Uses `NamespaceTree`. |
| `NamespaceSync_proofs` | Theorems about it. |
| `MC*` | Values of constants for TLC. |

### SegmentStream

One action is one complete event.  `OnData(s)`, `OnDecrypted(s)`,
`OnDeserialized(s)` and the like are the callbacks for segment `s`; when one of
them makes an object, `SetObject` runs `OnStateChanged`, which learns the final
number (lines 240-243), reports as far as it can (246-276) and requests more
(281-324), all in the same step, as the code does.  `reported` is a history of
the `onSegment` calls, `losses` counts failed Interests for the bound
`MaxLosses`.  `Requested` is the code's notion of an outstanding segment: no
packet, and a state that is not `NAME_EXISTS`, *whether or not* its Interest is
still under way; `inFlight` counts the Interests that really are.
`AnnounceAgain`, `StartFetching` and `AskAgain` are `objectNeeded()` of the
application on the stream's node and on a segment's.

Which of two things a deserialization does (an `onDeserializeNeeded` callback
takes the content, or the default object is set at once) is a free choice, as is
whether an encrypted content can be decoded.  The number of segments that can be
touched is finite (`Segment`): before the final number is known the handler asks
for fewer than a full pipeline beyond the last object.

### SegmentedObject

`OnSegment(NewCalls)` is conjoined with every step of `SegmentStream`: the calls
of `onSegment` that the step makes are handed to the object handler in the same
step.  `content` is what `deserialize_` was given, as a sequence of segment
numbers.  The module has no specification of its own: a segmented handler that
somebody attaches by hand is `GeneralizedObject` from the moment on at which
`TakeMeta` has attached it.

### GeneralizedObject

`EXTENDS SegmentedObject`, so that a state has the variables of all three
handlers.  `nComponents` says whether the object's node is the handler's own
(`NeedMeta`: `onObjectNeeded` asks for `_meta`) or an unknown child of it
(`NeedPrefix`: an Interest for the prefix goes out, and any packet of the object
may answer it).  `TakeMeta` is `onDeserializeNeeded` for the `_meta` packet, with
all that it calls: without segments the object is in the packet
(`DeserializeContent(Whole)`), with segments the segmented handler is attached and
segment 0 is asked for (`Attach`), which announces the segment again if it is
there already, and that announcement runs the reporting loop of `SegmentStream`
(`Report`) and `OnSegment` in the same step.  If the packet is not a well-formed
`_meta` packet (`decodes` is FALSE), decoding throws
(generalized-object-handler.cpp:151-152), `fireOnDeserializeNeeded` catches it,
`_meta` gets a default object and nothing is ever reported.  `FindMeta` is
`objectNeeded()` on the `_meta` node when its packet is there and fresh; when
the packet is stale `NeedMeta` announces it again, since the handler asks for `_meta`
without `mustBeFresh`, and the object's node goes back to `PRODUCING_OBJECT`.
`OnPrefixSegment` and
`OnPrefixManifest` are packets that came before; the first of them asks for
`_meta`.  `second` is another object under the same prefix, of which only the
`_meta` packet and the report are modelled; it may be absent, without segments,
with segments, or have a `_meta` packet that cannot be decoded.

### SegmentPublish

An object is a sequence of bytes, a digest is a pair of a segment number and its
packet, so that two packets have the same digest exactly when they are the same.
A `setObject` call is one action, because it does not return to the event loop;
the free choice `ok` says whether signing succeeds, and when a segment cannot be
signed the call ends after any number of them, as an exception makes it.  The
property that makes the code interesting is that a node keeps its first packet
(`Attached`, namespace.cpp:227) while `setObject_` replaces its object: after
several calls the packets of the segments, the manifest and `_meta` are the first
ones of their nodes.  The consumer is the reporting loop of `SegmentStream` in one
action, since `SegmentStream` shows what it does.  `NoPacketAssumption` only says
that a node without a packet can be told from one with a packet.

What holds, and under which conditions, is stated in the properties; three
conditions are facts about the code that its documentation does not mention:

* if a segment cannot be signed, the segments before it stay published, and the
  application has to repeat the same call (`Repeats`: a call that failed is followed
  by the same one, until it succeeds): any other object would be mixed with the
  first;
* an empty object has no segment, but its manifest has one digest of zeros.  Its
  consumer waits for segment 0 for ever, and `verifyWithManifest` would read a
  packet that is not there (segment-stream-handler.cpp:193).  An empty generalized
  object with something in its "other" field has `hasSegments` set and is never
  received either (generalized-object-handler.cpp:62-64);
* a manifest belongs to the first object on a node only if that object was
  published with a manifest (`FirstVerifies`): a longer object with a manifest that
  follows one without puts up a manifest that names segments past the final
  number of the first.

A producer that reads its own `_manifest` node gets the object of the last call,
not the packet; and a consumer in the producer's process is not told of segments
at all, since their nodes have packets and no objects.

### Callbacks

The other modules take all callbacks of one event as one step.  Here the calls in
progress are a stack: a frame `"node"` or `"root"` is `fireOnStateChanged` on the
node or the root, with the keys of its copy that are left; `"handler"` is the loop
of the stream handler's `onStateChanged`; `"segment"` is `fireOnSegment`; `"app"`
is a callback of the application.  The innermost call is the last of the sequence.
`getNextCallbackId()` counts up and a list is a map by that id, so a list is a set of
keys and is walked from the smallest; `LastKey` is the last id given out before the
model begins.  Inside a callback, or between events, the
application may add and remove callbacks on each list, call `objectNeeded()` on
the stream's node, which announces the lowest segment again and walks the lists
from within, or shut the Namespace down.  The lists of `fireOnValidateStateChanged`,
`fireOnObjectNeeded`, `fireOnDeserializeNeeded` and `fireOnSegmentedObject` are
walked by the same loop and have no frame of their own.

`InOrder` states exactly who gets the segments in order.  If an `onSegment` callback
calls `objectNeeded()` while it is called with a segment, the loop runs again from
within, and the callbacks behind it, which have not had that segment yet, get the
next ones first; if the inner loop reaches the end of the stream it clears the list,
and they never get it.  They keep `EachOnce`.

After `shutdown()` from a callback the rest of the lists on the node and on the
handler is still called; the lists further up are not.  namespace.hpp:594-595 says "so
that no callbacks are processed".  `InOrder` therefore demands nothing after
`shutdown()` but that what is reported is a prefix, in order.  Nor would more be true:
after each segment with a DigestSha256 signature (`DigestSigned`) the loop asks for
`(*namespace_)[_manifest]` (segment-stream-handler.cpp:256-263), and when the tree is
shut down and that node does not exist (`manifest`), `createChild` throws
(namespace.cpp:577-579).  The loop is then abandoned (`Abandoned`), and the other segments
and the end of the stream are not reported.

`RemovedIsSilent` is about `onStateChanged` and `onSegment` callbacks.  namespace.hpp:576-583
promises it of every callback id, but `removeCallback` (namespace.cpp:402-406) leaves
`onObjectNeeded` and `onDeserializeNeeded` callbacks where they are; what follows from that is
shown by `GeneralizedObjectSecond`.

### Namespace

Names are sequences of numbers, so that the order of components is that of the
`children_` map.  A node that does not exist is the same as one in
`NAME_EXISTS`.  `OnData(n, m, c)` is the callback of the Interest of node `n`
with the packet of node `m` below it.  `SetData` is `setData` with
`satisfyInterests`, which erases an entry from the table whether or not its packet could be
sent (pending-incoming-interest-table.cpp:63-73; `Sent`, with `SendFails`); sending the answer to
an Interest that finds its packet may fail too (namespace.cpp:822). `Serialize`, `Produce` and `Deserialize` are the operations
that several actions share.  `Runs` and `Dropped` are the two outcomes of
`getIsShutDown`, which drops the Face of the node it is called on.  `answers` is
a history of the packets sent for each incoming Interest.  `findBestMatchName` is one
recursive function on the names.  The loop goes over the children from last to first
(line 851), so the best match after the visit of a child is that after the visit of
the children behind it (`Later`, of which `Foremost` was visited last), unless what
the child itself returns (`Match`) is at least as long (`Better`).  Incoming Interests
arrive at the root's registered prefix; the model's assumption says that no
other node has registered a prefix of them.

### ObjectStream

`published` ... `cached` are the producer and the network, the rest is the
consumer.  `published` is what the producer can answer, `produced` the number that
it believes to be the newest: `setObject` stores the number before it signs, so
the two may differ.  A version of `_latest` is an index into `packets`; it is made
when an Interest finds no fresh version (`MakeLatest`), and it may be returned
from a cache as long as it is fresh there.  With a pipeline size of zero the producer's
own handler polls `_latest` as well (generalized-object-stream-handler.cpp:160-218), so
that `MakeLatest` needs no Interest once there is a first version.  `meta` has the state of the `_meta`
node of each sequence number; objects with segments go through `assembling`, since
`SegmentedObject` describes what happens there, and end in `failed` if an Interest
for a segment does.  An object whose `_meta` packet cannot be decoded (`Malformed`: the objects
for which this may happen) is in `failed` at once, since it is never reported.  The four counters are those of the handler.
`OnLatest`, `Fetch`, `RequestNewSequenceNumbers` and `OnGeneralizedObject` are the
handler's functions; they take the states `m` of the `_meta` nodes that the event
has just produced, because the code calls them with the new state in place.
`NeedLatest` is `objectNeeded(true)` on the `_latest` node, which either finds a
fresh version and announces it again or expresses an Interest.  `reported`,
`calls` and `repeated` are histories.

Two facts that the code's comments do not mention, and that the properties allow
for: a number whose `_meta` Interest timed out is never asked for again, because
its node has left `NAME_EXISTS`; and after the reset of the pipeline the requests
of the old one may still be answered, so that more Interests than the pipeline
size can be outstanding, while `nRequested - nReported` never exceeds what is
requested and not reported.  An answer for `_latest` that repeats an attached
packet changes no state and so ends the polling; `PollingGoesOn` excludes it with
the history `repeated`.

### NamespaceSync

Each peer has a tree, the sync depth of its nodes, and the node whose
`onNamesUpdate` its FullPSync2017 calls, which is the node of the first
`enableSync` (namespace.cpp:339).  `GetChild` makes the nodes on the way and
announces only the leaf.  `Sync` is FullPSync2017: any batch of names that the
other peer has and this one has not.  `OnNamesUpdate` takes a batch in any order,
so a name may or may not be announced if a longer one comes in the same batch.

namespace.hpp:1010-1014 says of `onNamesUpdate` that it is called on the root.  The code
binds it to the node on which `enableSync` was called first, and a name that is not below
that node is dropped, although nodes elsewhere in the tree may have sync enabled later and
the name is then announced to others.  `KnownNamesExist` and `NamesSpread` are claimed only
for names below the listening node; for the others they are false.

## Model checking

| Run | Shows | Bounds |
|---|---|---|
| `SegmentStream` | Reporting, pipeline and types of an encrypted stream without a manifest; only the last segment is marked, one packet expires. | 3 segments, pipeline 2, 1 loss, 1 Interest per segment |
| `SegmentStreamRetry` | The handler implements `OrderedDelivery` with its fairness: all is delivered, after the manifest, although Interests fail. | 3 segments, pipeline 2, 2 losses |
| `GeneralizedObject` | An object under its own name or under a prefix is assembled whole and reported once, with its own `_meta`, and, if nothing it needs is lost, in the end. | 2 segments that expire, pipeline 2, 1 loss, 2 Interests for the prefix and for `_meta`, a second object without segments or with a malformed `_meta` |
| `GeneralizedObjectSecond` | Expected violation, see below. | a second object with segments |
| `SegmentPublish` | A consumer assembles one of the published objects, and verifying accepts it. | 4 objects of 0 to 3 bytes, payload 1 or 2, 3 calls, any of which fails |
| `Callbacks` | Callbacks that change the lists or re-enter the library. | 3 segments, two of them signed with a digest; 2 callbacks each on the stream and the root, 1 on the node, 3 calls of the application |
| `Namespace` | Answers fit, nothing waits in vain, objects stay. | 3 nodes on a path, 2 contents, 2 Interests; packets expire, signing and sending fail |
| `NamespaceLive` | Produced names are answered; no endless wait of a node whose packets are decrypted. | 4 nodes, of which the root and two leaves are asked for, 1 content, a decryptor, 2 Interests; nothing expires, signing and sending succeed |
| `NamespaceShutdown` | Silence after shutdown, best match with siblings, decryption, objects made of their packets. | 4 nodes, 2 contents |
| `NamespaceEncryptedPrefix` | Expected violation. | |
| `ObjectStream` | Counters, requests and polling of a stream with and without a pipeline; failing signatures, malformed `_meta` packets, expiry and caches, a changing pipeline size. | numbers 0..4, of which 0 and 2 are published, 2 with segments, 0 perhaps malformed; pipeline 0, 1 or 2; 2 versions of `_latest`, 2 Interests for it, 2 calls |
| `NamespaceSync` | Announced names reach the trees of the peers that listen above them, with the nodes on the way. | 2 peers, 4 names on two branches, depth 1, sync enabled at the root and at one node |

Why the bounds suffice: with three segments and a pipeline of two a segment can
overtake another, the pipeline can be full, refilled and have requests beyond
the end; one loss separates a failed segment from an outstanding one.  A path of
three nodes has an ancestor that asks for, and one that produces, what a
descendant holds; two contents tell a replaced object from the first one; one of
two Interests is satisfied by an exact name and one by a prefix, one must be
fresh.  A gap between the published numbers makes the consumer time out in the middle
and catch up, which two versions of `_latest` are needed for; numbers up to 4 give a
full pipeline beyond the last object.  Four names on two branches have a name two
levels below the synced root (deeper than the depth), one with a missing node on
the way, and one that is not below the listening node.  Two segments are enough in `GeneralizedObject` for one
to come before `_meta` and one after; with two Interests for the prefix both packets
of a pair can overtake each other, and the second `_meta` can answer before the
object is whole.  Objects of 0, 1, 2 and 3 bytes with payloads of 1 and 2 give none,
one, a full and a shorter last segment, and three calls a first object, one that
replaces it and a repetition.  Three calls of the application are one that adds or
removes, one that re-enters and one within it.  `MaxInterests` bounds the Interests in flight from one node.
`CHECK_DEADLOCK FALSE` is set because these systems may really stop: a finished
stream whose packets have all arrived has nothing left to do.

### Fairness

`SegmentStream!Fairness` and `Namespace!FairSpec` assume what the environment
promises: the application starts the stream; the network library ends each
Interest with one of its three callbacks; decryptors and Handlers that took a
content call back (`namespace.hpp:621-637`: "eventually call onDeserialized");
and an application that returned true from `onObjectNeeded` serializes the object
(`namespace.hpp:450-454`).  `GeneralizedObject!FairSpecGeneralized` assumes an
application that goes on asking until its Interest is answered, and
`SegmentPublish!FairSpec` only that packets arrive.  `RetrySpec` adds an application that asks again for a
segment that failed.  Nothing is assumed about the order of these events, and no
fairness is put on time.  `NamespaceSync!FairSpec` assumes that FullPSync2017 goes
on as long as two peers have different names.  The properties of `ObjectStream`
are safety properties and need no fairness: `PollingGoesOn` says that something
that will call back is under way.

### What the violations show

* `GeneralizedObjectSecond`: `removeCallback` erases the two lists of state callbacks
  only, so the handler goes on taking `_meta` packets after it has removed its
  callbacks "to detach this from the Namespace"
  (generalized-object-handler.cpp:175).  With a component between its node and the
  object, a second Interest for the prefix may be answered by another object.  Its
  `_meta` adds a second callback to the one segmented handler, whose `setNamespace`
  then throws; when the first object is whole it is reported twice, the second time
  with the ContentMetaInfo of the second object.  A second object without segments
  is reported correctly, as `GeneralizedObject` shows.
* `NamespaceEncryptedPrefix`: the callbacks of the decryptor are bound to the node
  that expressed the Interest.  If that is a prefix of the packet's name the
  object appears on the wrong node.

The same models refute more when their constants are changed, and these cases are
excluded from the passing runs by their constants: with an expiring packet a
second `serializeObject` satisfies no Interest (`ServedWhenProduced` with
`Expires = TRUE`); an Interest with an implicit digest that comes before its
packet is not answered (`PendingUnmatched`); after `shutdown()` the Face of a
child stays registered until an event of that node (`PrefixesUnregistered`); and
an object produced during the callback leaves its node in `PRODUCING_OBJECT`
(`ProducingMeansNoObject`).

Other cases are excluded by the premise of a property, which is false without it:

* `NoEndlessWait` speaks of a node as long as what is fetched for it is decrypted
  (`Decrypts`).  A packet that cannot be decrypted stays attached.  If the application
  calls `objectNeeded()` again after `DECRYPTION_ERROR`, the node is back in
  `INTEREST_EXPRESSED`, the same packet answers, and `onData` returns without a change of
  state (namespace.cpp:890-892): the node waits for ever.  It also does when the
  content of its packet is given to a shorter node that asked for it.
* `DeliversAll` and `ObjectIsReported` are checked without a decryptor, for the same
  reason: to ask again for a segment that could not be decrypted is no help.
* `ObjectIsReported` needs an object whose `_meta` packet can be decoded (`decodes`), and no
  second object under the prefix.
* `InOrder` demands that everything is delivered only if the Namespace is not shut down.

Three more facts about the code that the properties allow for:

* a segment whose Interest failed is never asked for again by the stream handler and
  keeps its slot (`Requested`).  After as many failures as the pipeline has slots
  nothing is outstanding and the stream stops, unless the application asks again;
  segment-stream-handler.hpp:106 speaks of "the number of outstanding interests which
  this maintains".  `DeliversAll` therefore needs `RetrySpec`, and `NoFreeSlot` counts
  such a segment as a taken slot;
* the stream handler answers `objectNeeded(true)` after the end of the stream too,
  since its `onObjectNeeded` callback is not removed, and a ready node whose segments
  have expired goes back to `PRODUCING_OBJECT` for good.  `ReadyMeansAnnounced` is
  about what happened, not about the state that lasts;
* a consumer of an object stream that has every object when the request for the
  highest number of its pipeline times out asks for `_latest`, is told of an object
  that it has, and does nothing more: the pipeline is not reset and no timer is set
  for a pipeline size above zero (generalized-object-stream-handler.cpp:184-207).
  `LatestIsRequested` says that it has asked for all it was told of by then.

## Proofs

`tlapm` checks every proof; the theorems hold for all values of the constants
that satisfy the named assumptions (`StreamAssumption`, `ContentAssumption`,
`GeneralizedAssumption`, `NameAssumption`, `NamespaceAssumption`,
`ObjectStreamAssumption`, `SyncAssumption`, `CallbacksAssumption`,
`PublishAssumption`, `NoPacketAssumption`).  The theorems about the best match also
take the set of names to be finite, as the nodes of a tree are.  Every safety
invariant and action property of a passing run is a theorem; of the two runs that
expect a violation the theorems say under which hypothesis the property holds.

* `SegmentStream_proofs`: `TypeCorrect`, `StreamDeliversInOrder`,
  `StreamHoldsNothingBack`, `StreamPipelineBounded`, `StreamLeavesNoSlotFree`,
  `StreamStopsAtFinal`.  The inductive invariant
  `IInv` adds to the properties what the reporting loop relies on: the history is
  exactly the prefix that `maxReportedSegmentNumber_` says, all reported segments
  have objects, the final number is known as soon as a marked segment has its
  object (so the loop cannot run past the end), the callbacks are gone exactly
  when the final segment was reported, and an Interest is in flight only for a
  segment that has left `NAME_EXISTS`.  One lemma per action shows that it is
  preserved; `CallsExtend` shows that one run of the loop extends the prefix.
  The last two theorems are about steps: `StepKind` says that whatever happens, the
  handler begins its fetch, runs its loop or requests nothing.  `NoFreeSlot` is then
  inductive with `IInv`, because `requestNewSegments` ends every step that frees a slot.
* `GeneralizedObject_proofs`: `ObjectAssembledWhole`, `ObjectAnnouncedOnce`,
  `ReportsFitWithoutSecondStream`, `GeneralizedTypeOK`.  The stream here starts detached and a late
  attach finds objects already, so `IInv` does not carry over; `GInv` says what is
  needed instead.  The history is the prefix of as many calls as `Done` computes
  from the handler's variables, before, during and after the attachment; as long as
  there is no content the collected segments are that history; and once there is
  one it is the whole object and the handler is detached for good.  The lemmas
  ending in `Steps` show that whatever callback runs, the stream's variables change
  only by a run of the reporting loop (`StreamStep`); `CollectingExtends` and
  `CollectedIsWhole` do the arithmetic of the concatenation.  The third theorem
  assumes that no second object has segments: with one the property is false
  (run `GeneralizedObjectSecond`).  The types need `TypesInv` besides: the `_meta`
  node is in `NAME_EXISTS` only while no Interest for it is under way, so that
  `onDeserializeNeeded` never sends one more than it should.
* `Namespace_proofs`: `TreeTypeCorrect`, `InterestsAnsweredWell`,
  `NothingWaitsInVain`, `ObjectsHaveTheirData`, `ObjectsStay`, `ShutdownSilences`,
  `BestMatchFound`.
  `AnswersFit` is inductive together with the types, because
  it also says that an answered Interest is out of the table and that the tree
  still holds the packet.  `SetDataKeeps`, `SerializeKeeps` and `ProduceKeeps` are
  proved once for any table of unanswered Interests, since `onInterest` runs them
  on the table with its own Interest added.  `NothingWaitsInVain` assumes
  `NoDigests`; its induction uses that a packet can only become a worse match.
  The two theorems about objects rest on `UnderWayFits`: a content that the decryptor or
  a Handler has is that of the attached packet of the node that will get the object,
  and an attached packet is never replaced.  They assume `OwnPackets`, that with a
  decryptor a packet is only asked for by its own name; without it the content goes
  to another node (run `NamespaceEncryptedPrefix`).  `ShutdownSilences` is proved from
  each action alone: no callback needs an invariant to stay silent.
  `BestMatchFound` is the theorem of `NamespaceTree_proofs` for the nodes whose
  packets match.
* `NamespaceTree_proofs`: `FindBestMatchNameIs`.  The names, longer ones and then earlier
  ones first, are in a total order (`OutranksOrders`), so that a finite set of them has
  one best match.  That the recursion has a value at all is not taken for granted:
  `BestFollowsVisits` gives a function that satisfies its equation, the best match of
  `Visited(n)`, which is n, the siblings that were visited before it and all that is
  below these; `VisitsUnique` shows that there is no other, since among the names on
  which two such functions differ the last of the longest depends only on names on
  which they agree.
* `Callbacks_proofs`: `CallbacksTypeOK`, `CallbacksEachOnce`, `CallbacksInOrder`,
  `CallbacksChangesReachRoot`, `CallbacksRemovedIsSilent`, for every depth of nesting.
  `CountInv` says that for a callback of the root the calls it has had and the walks
  that still have to reach it (`Waiting`) add up to the changes.  `OnceInv` rests on
  what handlers on the stack may have reported: two of them have never reported the
  same segment last (`HandlersOK`), and a report that is on its way to a callback is
  not one that it has had (`HeardOK`).  `OrderInv` is about the callbacks that no
  re-entrant one precedes (`Protected`): each has had every report that was fired,
  in order, except the one on its way (`InTurn`), because no report
  that a callback has interrupted is still to reach it (`NestedOK`); and until the Namespace is shut down whatever can be reported has a
  handler on its way to it (`ProgressOK`).  A loop that is abandoned at the final segment
  never fires the end of the stream, so the counter does not say whether the end was
  fired: `Ended` does, and `EndOK` relates the two.  `CallbacksRemovedIsSilent` is an action property; it
  follows from `KeysOK`, by which a removed key is in no list.
* `SegmentPublish_proofs`: `PublishInvariant`, and from it `PublishTypeOK`,
  `PublishAssembledIsPublished`, `PublishFirstVerifies` and `PublishMetaFits`.
  `PublishInv` finds the call that the packets belong to (`CameFirst`).  As long as one
  of its segments has no packet the application repeats it, and once it is whole
  the packets of a longer object can only be put behind it (`PacketsOK`), where the
  consumer, which goes by the final number of the first packets, never gets
  (`ConsumerOK`).  `ManifestOK` and `MetaOK` say which call the manifest and the
  `_meta` packet are from, or that the call which will make them is being repeated.
  `OffsetsAre` and `CountIs` do the arithmetic of the loop over the object;
  `PayloadsMakeObject` shows that the payloads joined are the object, with the prefixes
  of the object as the values of the recursive function that joins them.
* `ObjectStream_proofs`: `StreamCountersAgree`, `StreamReportsOnce`,
  `StreamHoldsItsPipeline`, `StreamRequestsLatest`, `StreamKeepsPolling`.  The five
  properties are nearly inductive together: `OInv` adds that the segments under way
  belong to published objects, and that without a pipeline nothing is requested or
  attached before the first call.  `Counts` relates the counters to the sets of requested
  and reported numbers and is kept by each use of `requestNewSequenceNumbers`
  (`RequestCounts`), also after the reset at a `_latest` packet (`FetchKeeps`) and when
  a request that the reset forgot is answered (`ReportKeeps`).
* `NamespaceSync_proofs`: `SyncTypeCorrect`, `LeavesGoRound`, `NamesHaveNodes`.  The
  invariant adds that a peer without FullPSync2017 knows no names, which the first
  `enableSync` needs: from then on the names below the node count.  `PathsKeepTree`
  shows that a tree stays closed under ancestors when whole paths are added.

Only model-checked are the liveness properties, since fairness and ENABLED are beyond
the prover: `DeliversAll`, `ObjectIsReported`, `FirstIsReceived`, `InterestIsAnswered`,
`NoEndlessWait` and `NamesSpread`.  Their fairness is stated above.  Induction over data
is done by hand where it is needed (a smallest counterexample, or a witness for a
recursive function), since the induction theorems of the library take operators as
parameters.

## Not modelled, and what is left

All components that have behaviour are modelled.  The order of the work was: the
stream and the tree, since every other handler is made of them; the stream of
objects and sync; then generalized objects, publishing and the walk along
callbacks.  Left out:

* `experimentalClear` and `getAllData`: the first breaks every promise about objects
  by its purpose, the second reads only;
* the values that a node inherits from its parents (Face, KeyChain, MetaInfo,
  decryptor, `getMaxInterestLifetime`): constants in the models;
* numbers of 2^31 and more, which are truncated where `toSegment()` is stored in an
  `int` (segment-stream-handler.cpp:243);
* the lifetimes of handlers that are deleted while a callback of theirs is under way
  (segmented-object-handler.cpp:87);
* `Object`, `BlobObject` and `ContentMetaInfoObject`, which hold immutable data;
  logging; wire formats; the examples;
* the bundled gtest and the generated build files, which are most of the lines of the
  repository: the library itself has about two thousand lines in its .cpp files, and
  the rest of its headers is declarations and comments;
* the ndn-ind library beyond how it calls back.

What could be proved next: that `SegmentPublish`'s consumer is `SegmentStream`, and that
what the other modules take as one step is what `Callbacks` does in several.
